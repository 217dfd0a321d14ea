---------------------------- MODULE AgendaProofs -----------------------------
(***************************************************************************)
(* Proofs about Agenda, for any number of requests, appointments and       *)
(* people: a person and a chair are sold once, what happened is kept,      *)
(* the steps are those of Calendar, and a customer keeps to the limits.    *)
(*                                                                         *)
(* The invariants grow by parts: IInv (people), CInv = IInv + chairs and   *)
(* deletions, LInv = CInv + the lock of a customer's phone.                *)
(***************************************************************************)
EXTENDS Agenda, FiniteSetTheorems, TLAPS

Creates == {"create", "public"}
Changes == {"update", "reschedule", "delete"}

(* Two rows that take the same time of the same people and things *)
SamePlace(x, y) ==
    /\ x.barber = y.barber
    /\ x.resource = y.resource
    /\ x.start = y.start
    /\ x.end = y.end

(* A booking under way carries all it will write, and its id is unused. *)
CreateFits(j) ==
    /\ j.op \in Creates
    /\ j.snap = NoRow
    /\ rows[j.appt] = NoRow
    /\ j.put \in Booking
    /\ j.put.status \in Status
    /\ j.put.start < j.put.end

(* A change under way: its snapshot is stale at most in the status, and the *)
(* row holds the schedule only if the snapshot did.                         *)
ChangeFits(j) ==
    /\ j.op \in Changes
    /\ j.snap \in Booking
    /\ rows[j.appt] \in Booking
    /\ SamePlace(rows[j.appt], j.snap)
    /\ Occupies(rows[j.appt]) => Occupies(j.snap)
    /\ Merge(j.snap, j.put).start < Merge(j.snap, j.put).end

(* A request that will put its appointment on the schedule *)
Schedules(j) == j.op # "delete" /\ Occupies(Merge(j.snap, j.put))

JobFits(j, step) ==
    /\ j.appt \in Appt
    /\ CreateFits(j) \/ ChangeFits(j)
    /\ j.free # {} => j.op = "public"
    /\ step = "phone" => j.op = "public"
    /\ step \in {"customer", "person", "resource", "check"} => j.op # "delete"

JobsFit == \A r \in Request : pc[r] # "idle" => JobFits(job[r], pc[r])

OneRequestPerRow ==
    \A r, q \in Request :
        r # q /\ pc[r] # "idle" /\ pc[q] # "idle" => job[r].appt # job[q].appt

(* The lock is held from LockPerson to the end of the transaction. *)
PersonLocked ==
    \A r \in Request :
        \/ pc[r] \in {"resource", "check"}
        \/ pc[r] = "write" /\ Schedules(job[r])
        => personLock[PersonOf[Want(r).barber]] = r

(* row takes none of person p's time between s and e. *)
Apart(row, p, s, e) ==
    ~ (Occupies(row) /\ PersonOf[row.barber] = p /\ Overlap(row, s, e))

(* What the conflict check found still holds when the row is written. *)
StillFree ==
    \A r \in Request :
        pc[r] = "write" /\ Schedules(job[r]) =>
            \A x \in Appt \ {job[r].appt} :
                Apart(rows[x], PersonOf[Want(r).barber], Want(r).start, Want(r).end)

IInv ==
    /\ ~ SharedRows
    /\ TypeOK
    /\ JobsFit
    /\ OneRequestPerRow
    /\ PersonLocked
    /\ StillFree
    /\ NoDoubleBooking

----------------------------------------------------------------------------
(* Lemmas about merging a request's fields into a row *)

(* Writing named fields over a booking gives a booking. *)
LEMMA MergeBooking ==
    ASSUME NEW row \in Booking, NEW put \in Edit
    PROVE  Merge(row, put) \in Booking
BY NoneAssumption DEF Merge, Default, Booking, Edit

(* A creation writes exactly what it carries. *)
LEMMA MergeNoRow ==
    ASSUME NEW put \in Booking, put.status \in Status
    PROVE  /\ Merge(NoRow, put) = put
           /\ Occupies(put)  <=> put.status \notin {"CANCELLED", "NO_SHOW"}
BY NoneAssumption
   DEF Booking, Time, Merge, Default, NoRow, Occupies, Gone, Status, StaffStatus

(* Rows that take the same place still do after the same fields are written. *)
LEMMA MergeSamePlace ==
    ASSUME NEW x, NEW y, NEW put, SamePlace(x, y)
    PROVE  SamePlace(Merge(x, put), Merge(y, put))
BY DEF SamePlace, Merge

(* An unused id is not a booking. *)
LEMMA NoRowNotBooking == NoRow \notin Booking
BY NoneAssumption DEF NoRow, Booking

(* If the row written holds the schedule, the request meant it to, and      *)
(* locked the person it is written for.                                     *)
LEMMA WrittenAsWanted ==
    ASSUME NEW r \in Request, job[r] \in Job, JobFits(job[r], pc[r]), job[r].op # "delete",
           Occupies(Merge(rows[job[r].appt], job[r].put))
    PROVE  /\ Schedules(job[r])
           /\ SamePlace(Merge(rows[job[r].appt], job[r].put), Want(r))
BY MergeSamePlace
   DEF CreateFits, Schedules, Want, SamePlace, ChangeFits, Occupies, Merge, Default,
       JobFits

(* What a request wants is a well-formed booking of a known person. *)
LEMMA WantTyped ==
    ASSUME IInv, NEW r \in Request, pc[r] # "idle"
    PROVE  /\ Want(r) \in Booking
           /\ Want(r).start < Want(r).end
           /\ PersonOf[Want(r).barber] \in Person
<1>1. JobFits(job[r], pc[r])
  BY DEF IInv, JobsFit
<1>2. Want(r) \in Booking /\ Want(r).start < Want(r).end
  BY MergeNoRow, MergeBooking, <1>1
     DEF CreateFits, Want, ChangeFits, IInv, TypeOK, Job, JobFits
<1>3. Want(r).barber \in Barber
  BY <1>2 DEF Booking
<1> QED  BY <1>2, <1>3, MapAssumption

(* Ending a transaction frees its own locks and nobody else's. *)
LEMMA ReleaseKeepsOthers ==
    ASSUME TypeOK, NEW r \in Request, EndTransaction(r)
    PROVE  /\ personLock' \in [Person -> Request \cup {None}]
           /\ resourceLock' \in [Resource -> Request \cup {None}]
           /\ phoneLock' \in [Customer -> Request \cup {None}]
           /\ \A p \in Person, q \in Request :
                 q # r /\ personLock[p] = q => personLock'[p] = q
BY DEF TypeOK, EndTransaction, Released

----------------------------------------------------------------------------
(* Steps that leave the rows alone *)

(* A request arrives with a job that fits, on a row nobody works on. *)
LEMMA BeginStep ==
    ASSUME IInv,
           NEW r \in Request, NEW step \in PC, NEW j \in Job,
           pc[r] = "idle", Begin(r, step, j),
           JobFits(j, step), ~ InFlight(j.appt),
           step \notin {"idle", "resource", "check"},
           step = "write" => ~ Schedules(j)
    PROVE  IInv'
<1>0. /\ pc' = [pc EXCEPT ![r] = step]
      /\ job' = [job EXCEPT ![r] = j]
      /\ UNCHANGED <<rows, personLock, resourceLock, phoneLock, now>>
  BY DEF Begin, locks
<1>1. TypeOK'
  BY <1>0 DEF IInv, TypeOK
<1>2. \A q \in Request : /\ q # r => pc'[q] = pc[q] /\ job'[q] = job[q]
                         /\ pc'[r] = step /\ job'[r] = j
  BY <1>0 DEF IInv, TypeOK
<1>3. JobsFit'
  BY <1>0, <1>2 DEF IInv, JobsFit, JobFits, CreateFits, ChangeFits
<1>4. OneRequestPerRow'
  BY <1>2 DEF IInv, OneRequestPerRow, InFlight
<1>5. PersonLocked'
  BY <1>0, <1>2 DEF IInv, PersonLocked, Want, Schedules
<1>6. StillFree'
  BY <1>0, <1>2 DEF IInv, StillFree, Want, Schedules, Apart
<1>7. NoDoubleBooking'
  BY <1>0 DEF IInv, NoDoubleBooking
<1> QED  BY <1>1, <1>3, <1>4, <1>5, <1>6, <1>7 DEF IInv

(* A request moves on without writing; it may take the person's lock. *)
LEMMA GotoStep ==
    ASSUME IInv,
           NEW r \in Request, NEW step \in PC, pc[r] # "idle",
           Goto(r, step), UNCHANGED <<rows, job, now>>,
           personLock' \in [Person -> Request \cup {None}],
           resourceLock' \in [Resource -> Request \cup {None}],
           phoneLock' \in [Customer -> Request \cup {None}],
           \A p \in Person : personLock[p] \in Request => personLock'[p] = personLock[p],
           JobFits(job[r], step),
           step \in {"resource", "check"} => personLock'[PersonOf[Want(r).barber]] = r,
           step = "write" /\ Schedules(job[r]) =>
               /\ personLock'[PersonOf[Want(r).barber]] = r
               /\ \A x \in Appt \ {job[r].appt} :
                     Apart(rows[x], PersonOf[Want(r).barber], Want(r).start, Want(r).end)
    PROVE  IInv'
<1>2. \A q \in Request : /\ q # r => pc'[q] = pc[q]
                         /\ pc'[r] = step
  BY DEF Goto, IInv, TypeOK
<1>1. TypeOK'
  BY DEF IInv, TypeOK, Goto
<1>3. JobsFit'
  BY <1>2 DEF IInv, JobsFit, JobFits, CreateFits, ChangeFits
<1>4. OneRequestPerRow'
  BY <1>2 DEF IInv, OneRequestPerRow
<1>5. PersonLocked'
  <2> SUFFICES ASSUME NEW q \in Request,
                      \/ pc'[q] \in {"resource", "check"}
                      \/ pc'[q] = "write" /\ Schedules(job[q])
               PROVE  personLock'[PersonOf[Want(q).barber]] = q
    BY DEF PersonLocked, Schedules, Want
  <2>1. CASE q = r
    BY <1>2, <2>1
  <2>2. CASE q # r
    BY <1>2, <2>2, WantTyped DEF IInv, PersonLocked
  <2> QED  BY <2>1, <2>2
<1>6. StillFree'
  BY <1>2 DEF IInv, StillFree, Want, Schedules, Apart
<1>7. NoDoubleBooking'
  BY DEF IInv, NoDoubleBooking
<1> QED  BY <1>1, <1>3, <1>4, <1>5, <1>6, <1>7 DEF IInv

(* A transaction ends without a write: the request is over, or a public     *)
(* booking goes on with the next professional.                              *)
LEMMA RollbackStep ==
    ASSUME IInv,
           NEW r \in Request, NEW step \in {"idle", "phone"}, NEW j \in Job,
           pc[r] # "idle",
           Goto(r, step), job' = [job EXCEPT ![r] = j],
           EndTransaction(r), UNCHANGED <<rows, now>>,
           step = "phone" => JobFits(j, step) /\ j.appt = job[r].appt
    PROVE  IInv'
<1>1. \A q \in Request : /\ q # r => pc'[q] = pc[q] /\ job'[q] = job[q]
                         /\ pc'[r] = step /\ job'[r] = j
  BY DEF Goto, IInv, TypeOK
<1>2. TypeOK'
  BY ReleaseKeepsOthers DEF IInv, TypeOK, Goto, PC
<1>3. JobsFit'
  BY <1>1 DEF IInv, JobsFit, JobFits, CreateFits, ChangeFits
<1>4. OneRequestPerRow'
  BY <1>1 DEF IInv, OneRequestPerRow
<1>5. PersonLocked'
  <2> SUFFICES ASSUME NEW q \in Request,
                      \/ pc'[q] \in {"resource", "check"}
                      \/ pc'[q] = "write" /\ Schedules(job'[q])
               PROVE  personLock'[PersonOf[Merge(job'[q].snap, job'[q].put).barber]] = q
    BY DEF PersonLocked, Schedules, Want
  <2>1. q # r /\ pc'[q] = pc[q] /\ job'[q] = job[q]
    BY <1>1
  <2>2. personLock[PersonOf[Want(q).barber]] = q /\ PersonOf[Want(q).barber] \in Person
    BY <2>1, WantTyped DEF IInv, PersonLocked
  <2> QED  BY <2>1, <2>2, ReleaseKeepsOthers DEF IInv, Want
<1>6. StillFree'
  BY <1>1 DEF IInv, StillFree, Want, Schedules, Apart
<1>7. NoDoubleBooking'
  BY DEF IInv, NoDoubleBooking
<1> QED  BY <1>2, <1>3, <1>4, <1>5, <1>6, <1>7 DEF IInv

(* A request ends and nothing was written. *)
LEMMA FinishStep ==
    ASSUME IInv, NEW r \in Request, pc[r] # "idle", Finish(r), UNCHANGED rows
    PROVE  IInv'
BY NoneAssumption, RollbackStep DEF NoJob, Job, Op, NoEdit, Edit, Finish, Goto

----------------------------------------------------------------------------
(* Steps that change a row *)

(* One row changes only its status, and gains no time on the schedule. *)
LEMMA StatusStep ==
    ASSUME IInv,
           NEW a \in Appt, NEW t \in Status,
           rows[a] \in Booking, SetStatus(a, t),
           Occupies(rows'[a]) => Occupies(rows[a]),
           UNCHANGED <<pc, job, personLock, resourceLock, phoneLock, now>>
    PROVE  IInv'
<1>1. /\ rows'[a] \in Booking
      /\ SamePlace(rows'[a], rows[a])
      /\ \A x \in Appt : x # a => rows'[x] = rows[x]
      /\ rows' \in [Appt -> Booking \cup {NoRow}]
  BY DEF IInv, TypeOK, SetStatus, Booking, SamePlace
<1>2. TypeOK'
  BY <1>1, NoRowNotBooking DEF IInv, TypeOK, SamePlace
<1>3. JobsFit'
  <2> SUFFICES ASSUME NEW r \in Request, pc[r] # "idle"
               PROVE  JobFits(job[r], pc[r])'
    BY DEF JobsFit
  <2>1. JobFits(job[r], pc[r])
    BY DEF IInv, JobsFit
  <2>2. CASE job[r].appt # a
    BY <1>1, <2>1, <2>2 DEF JobFits, CreateFits, ChangeFits
  <2>3. CASE job[r].appt = a
    BY <2>1, <2>3, NoRowNotBooking, <1>1 DEF JobFits, CreateFits, ChangeFits, SamePlace
  <2> QED  BY <2>2, <2>3
<1>4. OneRequestPerRow'
  BY DEF IInv, OneRequestPerRow
<1>5. PersonLocked'
  BY DEF IInv, PersonLocked, Want, Schedules
<1>6. StillFree'
  BY <1>1 DEF IInv, StillFree, Want, Schedules, Apart, SamePlace, Overlap
<1>7. NoDoubleBooking'
  BY <1>1 DEF IInv, NoDoubleBooking, SamePlace, Overlap
<1> QED  BY <1>2, <1>3, <1>4, <1>5, <1>6, <1>7 DEF IInv

(* The deposit turned out to be paid: the row is confirmed and the request  *)
(* goes on with the row as it now is, or, for a deletion, ends.             *)
LEMMA SettlePaidStep ==
    ASSUME IInv, NEW r \in Request, SettlePaid(r)
    PROVE  IInv'
<1> DEFINE a == job[r].appt
<1>1. /\ pc[r] = "settle" /\ a \in Appt /\ JobFits(job[r], pc[r])
      /\ rows[a].status = "PENDING_PAYMENT" /\ SetStatus(a, "CONFIRMED")
  BY DEF SettlePaid, IInv, JobsFit, JobFits
<1>2. ChangeFits(job[r]) /\ rows[a] \in Booking
  BY <1>1 DEF JobFits, CreateFits, ChangeFits, NoRow
<1>3. /\ rows'[a] \in Booking
      /\ rows'[a].status = "CONFIRMED"
      /\ SamePlace(rows'[a], rows[a])
      /\ Occupies(rows[a]) /\ Occupies(rows'[a])
      /\ \A x \in Appt : x # a => rows'[x] = rows[x]
      /\ rows' \in [Appt -> Booking \cup {NoRow}]
  BY <1>1, <1>2 DEF IInv, TypeOK, SetStatus, Booking, SamePlace, Occupies, Gone, Status,
                    StaffStatus
<1>4. \A x \in Appt : /\ Occupies(rows'[x]) <=> Occupies(rows[x])
                      /\ SamePlace(rows'[x], rows[x])
  BY <1>3 DEF SamePlace
<1>5. NoDoubleBooking'
  BY <1>4 DEF IInv, NoDoubleBooking, SamePlace, Overlap
<1>6. \A x \in Appt : rows'[x] # NoRow => rows'[x].start < rows'[x].end
  BY <1>2, <1>3, NoRowNotBooking DEF IInv, TypeOK, SamePlace
<1>7. CASE job[r].op = "delete"
  <2>1. Finish(r)
    BY <1>7 DEF SettlePaid
  <2>2. \A q \in Request : /\ q # r => pc'[q] = pc[q] /\ job'[q] = job[q]
                           /\ pc'[r] = "idle"
    BY <2>1 DEF Finish, IInv, TypeOK
  <2>3. TypeOK'
    BY NoneAssumption, <1>3, <1>6, <2>1, ReleaseKeepsOthers
       DEF NoJob, Job, Op, NoEdit, Edit, IInv, TypeOK, Finish, PC
  <2>4. JobsFit'
    BY <1>1, <1>3, <2>2 DEF IInv, JobsFit, JobFits, CreateFits, ChangeFits, OneRequestPerRow
  <2>5. OneRequestPerRow'
    BY <2>2 DEF IInv, OneRequestPerRow
  <2>6. PersonLocked'
    <3> SUFFICES ASSUME NEW q \in Request,
                        \/ pc'[q] \in {"resource", "check"}
                        \/ pc'[q] = "write" /\ Schedules(job'[q])
                 PROVE  personLock'[PersonOf[Merge(job'[q].snap, job'[q].put).barber]] = q
      BY DEF PersonLocked, Schedules, Want
    <3>1. q # r /\ pc'[q] = pc[q] /\ job'[q] = job[q]
      BY <2>2
    <3>2. personLock[PersonOf[Want(q).barber]] = q /\ PersonOf[Want(q).barber] \in Person
      BY <3>1, WantTyped DEF IInv, PersonLocked
    <3> QED  BY <2>1, <3>1, <3>2, ReleaseKeepsOthers DEF IInv, Want, Finish
  <2>7. StillFree'
    BY <1>4, <2>2 DEF IInv, StillFree, Want, Schedules, Apart, SamePlace, Overlap
  <2> QED  BY <1>5, <2>3, <2>4, <2>5, <2>6, <2>7 DEF IInv
<1>8. CASE job[r].op # "delete"
  <2>1. /\ job' = [job EXCEPT ![r].snap = rows'[a]]
        /\ Goto(r, EntryStep(Merge(rows'[a], job[r].put)))
        /\ UNCHANGED <<personLock, resourceLock, phoneLock, now>>
    BY <1>8 DEF SettlePaid, locks
  <2>2. /\ \A q \in Request : q # r => pc'[q] = pc[q] /\ job'[q] = job[q]
        /\ pc'[r] = EntryStep(Merge(rows'[a], job[r].put))
        /\ job'[r].snap = rows'[a] /\ job'[r].op = job[r].op /\ job'[r].appt = a
        /\ job'[r].put = job[r].put /\ job'[r].free = job[r].free
        /\ job' \in [Request -> Job]
    BY <1>3, <2>1 DEF Goto, IInv, TypeOK, Job
  <2>3. TypeOK'
    BY <1>3, <1>6, <2>1, <2>2 DEF IInv, TypeOK, PC, Goto, EntryStep
  <2>4. ChangeFits(job[r])'
    BY <1>2, <1>3, MergeSamePlace, <2>2 DEF ChangeFits, SamePlace
  <2>5. JobsFit'
    BY <1>1, <1>8, <2>2, <2>4, <1>3
       DEF JobFits, EntryStep, IInv, JobsFit, CreateFits, ChangeFits, OneRequestPerRow
  <2>6. OneRequestPerRow'
    BY <1>1, <2>2 DEF IInv, OneRequestPerRow
  <2>7. PersonLocked' /\ StillFree'
    BY <1>4, <2>1, <2>2
    DEF IInv, PersonLocked, StillFree, Want, Schedules, Apart, SamePlace, Overlap, EntryStep
  <2> QED  BY <1>5, <2>3, <2>5, <2>6, <2>7 DEF IInv
<1> QED  BY <1>7, <1>8

(* The write of a request: its own check still holds, and the lock it holds *)
(* keeps its new place apart from what the others are about to write.       *)
LEMMA WriteStep ==
    ASSUME IInv, NEW r \in Request, Write(r), Writable(r)
    PROVE  IInv'
<1> DEFINE a == job[r].appt
<1>1. /\ pc[r] = "write" /\ Finish(r) /\ a \in Appt
      /\ JobFits(job[r], pc[r]) /\ job[r] \in Job
  BY DEF Write, IInv, TypeOK, JobsFit, JobFits
<1>2. \A q \in Request : /\ q # r => pc'[q] = pc[q] /\ job'[q] = job[q]
                         /\ pc'[r] = "idle"
  BY <1>1 DEF Finish, IInv, TypeOK
<1>3. /\ \A x \in Appt : x # a => rows'[x] = rows[x]
      /\ rows' \in [Appt -> Booking \cup {NoRow}]
      /\ rows'[a] \in Booking
      /\ rows'[a].start < rows'[a].end
      /\ Occupies(rows'[a]) => Schedules(job[r]) /\ SamePlace(rows'[a], Want(r))
  <2>1. CASE job[r].op = "delete"
    BY <1>1, <2>1, NoRowNotBooking
       DEF Write, JobFits, CreateFits, ChangeFits, Creates, SetStatus, IInv, TypeOK,
           Booking, Occupies, Gone
  <2>2. CASE job[r].op # "delete"
    <3>1. rows' = [rows EXCEPT ![a] = Merge(rows[a], job[r].put)]
      BY <2>2 DEF Write
    <3>2. Merge(rows[a], job[r].put) \in Booking
      BY MergeNoRow, <1>1, MergeBooking DEF CreateFits, ChangeFits, Job, JobFits
    <3>3. SamePlace(Merge(rows[a], job[r].put), Want(r))
      BY MergeSamePlace, <1>1 DEF CreateFits, Want, SamePlace, ChangeFits, JobFits
    <3>4. Want(r).start < Want(r).end
      BY <1>1, WantTyped
    <3>5. Merge(rows[a], job[r].put).start < Merge(rows[a], job[r].put).end
      BY <3>3, <3>4 DEF SamePlace
    <3>6. Occupies(Merge(rows[a], job[r].put)) => Schedules(job[r])
      BY <1>1, <2>2, WrittenAsWanted
    <3>7. /\ rows'[a] = Merge(rows[a], job[r].put)
          /\ \A x \in Appt : x # a => rows'[x] = rows[x]
          /\ rows' \in [Appt -> Booking \cup {NoRow}]
      BY <1>1, <3>1, <3>2 DEF IInv, TypeOK
    <3> QED  BY <3>2, <3>3, <3>5, <3>6, <3>7
  <2> QED  BY <2>1, <2>2
<1>4. TypeOK'
  BY NoneAssumption, <1>1, <1>3, ReleaseKeepsOthers
     DEF NoJob, Job, Op, NoEdit, Edit, IInv, TypeOK, Finish, PC
<1>5. JobsFit'
  BY <1>1, <1>2, <1>3 DEF IInv, JobsFit, JobFits, CreateFits, ChangeFits, OneRequestPerRow
<1>6. OneRequestPerRow'
  BY <1>2 DEF IInv, OneRequestPerRow
<1>7. PersonLocked'
  <2> SUFFICES ASSUME NEW q \in Request,
                      \/ pc'[q] \in {"resource", "check"}
                      \/ pc'[q] = "write" /\ Schedules(job'[q])
               PROVE  personLock'[PersonOf[Merge(job'[q].snap, job'[q].put).barber]] = q
    BY DEF PersonLocked, Schedules, Want
  <2>1. q # r /\ pc'[q] = pc[q] /\ job'[q] = job[q]
    BY <1>2
  <2>2. personLock[PersonOf[Want(q).barber]] = q /\ PersonOf[Want(q).barber] \in Person
    BY <2>1, WantTyped DEF IInv, PersonLocked
  <2> QED  BY <1>1, <2>1, <2>2, ReleaseKeepsOthers DEF IInv, Want, Finish
<1>8. StillFree'
  <2> SUFFICES ASSUME NEW q \in Request, pc'[q] = "write", Schedules(job'[q]),
                      NEW x \in Appt \ {job'[q].appt}
               PROVE  Apart(rows[x], PersonOf[Want(q).barber], Want(q).start, Want(q).end)'
    BY DEF StillFree, Schedules
  <2>1. q # r /\ pc[q] = "write" /\ job'[q] = job[q] /\ Want(q)' = Want(q)
    BY <1>2 DEF Want
  <2>2. personLock[PersonOf[Want(q).barber]] = q
    BY <2>1 DEF IInv, PersonLocked
  <2>3. CASE x # a
    BY <1>3, <2>1, <2>3 DEF IInv, StillFree, Apart
  <2>4. CASE x = a
    BY <1>1, <1>3, <2>1, <2>2, <2>4 DEF IInv, PersonLocked, SamePlace, Apart
  <2> QED  BY <2>3, <2>4
<1>9. NoDoubleBooking'
  BY <1>1, <1>3 DEF IInv, StillFree, Apart, SamePlace, Overlap, NoDoubleBooking
<1> QED  BY <1>4, <1>5, <1>6, <1>7, <1>8, <1>9 DEF IInv

----------------------------------------------------------------------------
(* The entry points *)

(* createAppointment keeps the invariant. *)
LEMMA CreateAppointmentStep ==
    ASSUME IInv, NEW r \in Request, CreateAppointment(r)
    PROVE  IInv'
<1>1. PICK a \in Appt, b \in Barber, x \in Resource \cup {None}, c \in Customer,
           s \in Time, e \in Time :
        /\ FreshId(a)
        /\ s < e
        /\ Begin(r, "person",
                 [op |-> "create", appt |-> a, snap |-> NoRow, free |-> {},
                  put |-> [status |-> "CONFIRMED", barber |-> b, resource |-> x,
                           customer |-> c, start |-> s, end |-> e]])
  BY ZenonT(60) DEF CreateAppointment, ValidSpan
<1> DEFINE put == [status |-> "CONFIRMED", barber |-> b, resource |-> x,
                   customer |-> c, start |-> s, end |-> e]
           j == [op |-> "create", appt |-> a, snap |-> NoRow, free |-> {}, put |-> put]
<1>2. put \in Booking /\ put \in Edit /\ j \in Job
  BY DEF Booking, Edit, Job, Op, Status, StaffStatus
<1>3. JobFits(j, "person") /\ ~ InFlight(j.appt)
  BY <1>1, <1>2 DEF JobFits, CreateFits, Creates, FreshId, Status, StaffStatus
<1>4. pc[r] = "idle" /\ "person" \in PC
  BY DEF CreateAppointment, Arrives, PC
<1> QED  BY <1>1, <1>2, <1>3, <1>4, BeginStep

(* createPublicAppointment keeps the invariant. *)
LEMMA CreatePublicAppointmentStep ==
    ASSUME IInv, NEW r \in Request, CreatePublicAppointment(r)
    PROVE  IInv'
<1>1. PICK a \in Appt, c \in Customer, s \in Time, e \in Time,
           status \in {"CONFIRMED", "PENDING_PAYMENT"},
           candidates \in SUBSET Barber, b \in Barber :
        /\ FreshId(a)
        /\ s < e
        /\ Begin(r, "phone",
                 [op |-> "public", appt |-> a, snap |-> NoRow, free |-> candidates \ {b},
                  put |-> [status |-> status, barber |-> b, resource |-> None,
                           customer |-> c, start |-> s, end |-> e]])
  <2>1. PICK a \in Appt, sh \in Shop, c \in Customer, s \in Time, e \in Time,
             status \in {"CONFIRMED", "PENDING_PAYMENT"} :
          /\ FreshId(a)
          /\ now < s
          /\ s < e
          /\ CustomerCanBook(c, s, e, a)
          /\ \E candidates \in SUBSET {b \in Barber : ShopOf[b] = sh /\ BarberFree(b, s, e, a)} :
             \E b \in candidates :
                Begin(r, "phone",
                      [op |-> "public", appt |-> a, snap |-> NoRow, free |-> candidates \ {b},
                       put |-> [status |-> status, barber |-> b, resource |-> None,
                                customer |-> c, start |-> s, end |-> e]])
    BY DEF CreatePublicAppointment
  <2>2. PICK candidates \in SUBSET {b \in Barber : ShopOf[b] = sh /\ BarberFree(b, s, e, a)} :
          \E b \in candidates :
             Begin(r, "phone",
                   [op |-> "public", appt |-> a, snap |-> NoRow, free |-> candidates \ {b},
                    put |-> [status |-> status, barber |-> b, resource |-> None,
                             customer |-> c, start |-> s, end |-> e]])
    BY <2>1
  <2>3. PICK b \in candidates :
             Begin(r, "phone",
                   [op |-> "public", appt |-> a, snap |-> NoRow, free |-> candidates \ {b},
                    put |-> [status |-> status, barber |-> b, resource |-> None,
                             customer |-> c, start |-> s, end |-> e]])
    BY <2>2
  <2>4. candidates \in SUBSET Barber /\ b \in Barber
    OBVIOUS
  <2> QED  BY <2>1, <2>3, <2>4
<1> DEFINE put == [status |-> status, barber |-> b, resource |-> None,
                   customer |-> c, start |-> s, end |-> e]
           j == [op |-> "public", appt |-> a, snap |-> NoRow, free |-> candidates \ {b},
                 put |-> put]
<1>2. put \in Booking /\ put \in Edit /\ j \in Job
  BY DEF Booking, Edit, Job, Op, Status, StaffStatus
<1>3. JobFits(j, "phone") /\ ~ InFlight(j.appt)
  BY <1>1, <1>2 DEF JobFits, CreateFits, Creates, FreshId, Status, StaffStatus
<1>4. pc[r] = "idle" /\ "phone" \in PC
  BY DEF CreatePublicAppointment, Arrives, PC
<1> QED  BY <1>1, <1>2, <1>3, <1>4, BeginStep

(* A change may start on a row nobody works on, with any allowed fields. *)
LEMMA ChangeFitsAtStart ==
    ASSUME IInv, NEW a \in Appt, MayEdit(a), NEW op \in Changes, NEW put \in Edit,
           Merge(rows[a], put).start < Merge(rows[a], put).end,
           NEW step \in {"settle", "customer", "person", "write"},
           step \in {"customer", "person"} => op # "delete"
    PROVE  LET j == [op |-> op, appt |-> a, snap |-> rows[a], put |-> put, free |-> {}]
           IN  /\ j \in Job
               /\ JobFits(j, step)
               /\ ~ InFlight(a)
               /\ step \in PC
BY DEF IInv, TypeOK, MayEdit, Gone, NoRow, JobFits, ChangeFits, SamePlace, Changes, Job,
       Op, PC

(* updateAppointment, up to its transaction, keeps the invariant. *)
LEMMA UpdateAppointmentStep ==
    ASSUME IInv, NEW r \in Request, UpdateAppointment(r)
    PROVE  IInv'
<1>1. PICK a \in Appt, body \in Edits :
        LET put == KeepDuration(body, rows[a])
        IN  /\ MayEdit(a)
            /\ EditAllowed(rows[a], put)
            /\ Begin(r, IF /\ rows[a].status = "PENDING_PAYMENT"
                          /\ put.status \notin {None, "PENDING_PAYMENT"}
                       THEN "settle" ELSE EntryStep(Merge(rows[a], put)),
                     [op |-> "update", appt |-> a, snap |-> rows[a], put |-> put, free |-> {}])
  BY DEF UpdateAppointment
<1> DEFINE put == KeepDuration(body, rows[a])
           step == IF /\ rows[a].status = "PENDING_PAYMENT"
                      /\ put.status \notin {None, "PENDING_PAYMENT"}
                   THEN "settle" ELSE EntryStep(Merge(rows[a], put))
           j == [op |-> "update", appt |-> a, snap |-> rows[a], put |-> put, free |-> {}]
<1>2. rows[a] \in Booking /\ body \in Edit
  BY <1>1, BoundAssumption DEF IInv, TypeOK, MayEdit, Gone, NoRow
<1>3. Merge(rows[a], put).end \in Time /\ Merge(rows[a], put).start < Merge(rows[a], put).end
  BY <1>1 DEF EditAllowed, ValidSpan
<1>4. put \in Edit
  BY <1>2, NoneAssumption, BoundAssumption, <1>3
     DEF KeepDuration, Edit, Booking, Time, Merge, Default
<1>5. /\ step \in {"settle", "person", "write"}
      /\ step = "write" => ~ Schedules(j)
  BY DEF EntryStep, Schedules
<1>6. j \in Job /\ JobFits(j, step) /\ ~ InFlight(a) /\ step \in PC
  <2> HIDE DEF put, step
  <2> QED  BY <1>1, <1>3, <1>4, <1>5, ChangeFitsAtStart DEF Changes, put
<1>7. pc[r] = "idle" /\ Begin(r, step, j)
  BY <1>1 DEF UpdateAppointment, Arrives
<1> HIDE DEF put, step, j
<1>8. j.appt = a
  BY DEF j
<1> QED  BY <1>5, <1>6, <1>7, <1>8, BeginStep

(* rescheduleManagedAppointment keeps the invariant. *)
LEMMA RescheduleStep ==
    ASSUME IInv, NEW r \in Request, RescheduleManagedAppointment(r)
    PROVE  IInv'
<1>1. PICK a \in Appt, s \in Time :
        LET e == s + (rows[a].end - rows[a].start)
        IN  /\ MayEdit(a)
            /\ e \in Time
            /\ Begin(r, "customer",
                     [op |-> "reschedule", appt |-> a, snap |-> rows[a], free |-> {},
                      put |-> MoveTo(s, e)])
  BY DEF RescheduleManagedAppointment
<1> DEFINE e == s + (rows[a].end - rows[a].start)
           put == MoveTo(s, e)
           j == [op |-> "reschedule", appt |-> a, snap |-> rows[a], put |-> put, free |-> {}]
<1>2. rows[a] \in Booking /\ rows[a].start < rows[a].end
  BY <1>1 DEF IInv, TypeOK, MayEdit, Gone, NoRow
<1>3. put \in Edit /\ put.start = s /\ put.end = e /\ s # None /\ e # None
  <2>1. e \in Time /\ s # None /\ e # None
    BY <1>1, NoneAssumption DEF Time
  <2> HIDE DEF e
  <2> QED  BY <2>1 DEF MoveTo, Edit
<1>4. s < e
  BY <1>2, BoundAssumption DEF Booking, Time
<1>5. Merge(rows[a], put).start < Merge(rows[a], put).end
  BY <1>3, <1>4 DEF Merge, Default
<1>6. j \in Job /\ JobFits(j, "customer") /\ ~ InFlight(a) /\ "customer" \in PC
  <2> HIDE DEF put
  <2> QED  BY <1>1, <1>3, <1>5, ChangeFitsAtStart DEF Changes
<1>7. pc[r] = "idle" /\ Begin(r, "customer", j)
  BY <1>1 DEF RescheduleManagedAppointment, Arrives
<1> QED  BY <1>6, <1>7, BeginStep

(* deleteAppointment, up to its transaction, keeps the invariant. *)
LEMMA DeleteAppointmentStep ==
    ASSUME IInv, NEW r \in Request, DeleteAppointment(r)
    PROVE  IInv'
<1>1. PICK a \in Appt :
        /\ MayEdit(a)
        /\ Begin(r, IF rows[a].status = "PENDING_PAYMENT" THEN "settle" ELSE "write",
                 [op |-> "delete", appt |-> a, snap |-> rows[a], put |-> NoEdit,
                  free |-> {}])
  BY DEF DeleteAppointment
<1> DEFINE step == IF rows[a].status = "PENDING_PAYMENT" THEN "settle" ELSE "write"
           j == [op |-> "delete", appt |-> a, snap |-> rows[a], put |-> NoEdit, free |-> {}]
<1>2. rows[a] \in Booking /\ rows[a].start < rows[a].end
  BY <1>1 DEF IInv, TypeOK, MayEdit, Gone, NoRow
<1>3. NoEdit \in Edit /\ Merge(rows[a], NoEdit).start < Merge(rows[a], NoEdit).end
  BY <1>2 DEF Merge, Default, NoEdit, Edit
<1>4. j \in Job /\ JobFits(j, step) /\ ~ InFlight(a) /\ step \in PC
  BY <1>1, <1>3, ChangeFitsAtStart DEF Changes
<1>5. pc[r] = "idle" /\ Begin(r, step, j) /\ ~ Schedules(j)
  BY <1>1 DEF DeleteAppointment, Arrives, Schedules
<1> QED  BY <1>4, <1>5, BeginStep

----------------------------------------------------------------------------
(* The steps of a request *)

(* A failed conflict check rolls back, or moves a public booking on. *)
LEMMA CheckFailsStep ==
    ASSUME IInv, NEW r \in Request, CheckFails(r)
    PROVE  IInv'
<1>1. pc[r] = "check" /\ UNCHANGED rows /\ JobFits(job[r], pc[r]) /\ job[r] \in Job
  BY DEF CheckFails, IInv, JobsFit, TypeOK
<1>2. CASE Finish(r)
  BY <1>1, <1>2, FinishStep
<1>3. CASE \E b \in job[r].free :
             /\ job' = [job EXCEPT ![r].put.barber = b, ![r].free = @ \ {b}]
             /\ Goto(r, "phone")
             /\ EndTransaction(r)
             /\ UNCHANGED now
  <2>1. PICK b \in job[r].free :
             /\ job' = [job EXCEPT ![r].put.barber = b, ![r].free = @ \ {b}]
             /\ Goto(r, "phone")
             /\ EndTransaction(r)
             /\ UNCHANGED now
    BY <1>3
  <2> DEFINE put == [job[r].put EXCEPT !.barber = b]
             j == [op |-> job[r].op, appt |-> job[r].appt, snap |-> job[r].snap,
                   put |-> put, free |-> job[r].free \ {b}]
  <2>2. b \in Barber /\ job[r].op = "public"
    BY <1>1 DEF Job, JobFits
  <2>3. CreateFits(job[r])
    BY <1>1, <2>2 DEF JobFits, ChangeFits, Changes
  <2>4. /\ put \in Edit /\ put \in Booking
        /\ put.status = job[r].put.status
        /\ put.start = job[r].put.start /\ put.end = job[r].put.end
    BY <1>1, <2>2, <2>3 DEF CreateFits, Booking, Edit, Job
  <2>5. j \in Job
    BY <1>1, <2>4 DEF Job
  <2>6. JobFits(j, "phone") /\ j.appt = job[r].appt
    <3> HIDE DEF put
    <3>1. CreateFits(j)
      BY <2>2, <2>3, <2>4 DEF CreateFits
    <3> QED  BY <1>1, <2>2, <3>1 DEF JobFits
  <2>7. job' = [job EXCEPT ![r] = j]
    BY <1>1, <2>1 DEF IInv, TypeOK, Job
  <2> HIDE DEF j
  <2> QED  BY <1>1, <2>1, <2>5, <2>6, <2>7, RollbackStep
<1> QED  BY <1>2, <1>3 DEF CheckFails

(* The steps that take a lock, check or settle without writing *)
LEMMA AdvanceStep ==
    ASSUME IInv, NEW r \in Request,
           \/ SettleReleased(r) \/ SettleFails(r) \/ LockPhone(r) \/ CheckCustomer(r)
           \/ LockPerson(r) \/ LockResource(r) \/ CheckSucceeds(r)
    PROVE  IInv'
<1>1. pc[r] # "idle" /\ JobFits(job[r], pc[r]) /\ TypeOK
  BY DEF SettleReleased, SettleFails, LockPhone, CheckCustomer, LockPerson, LockResource,
         CheckSucceeds, IInv, JobsFit
<1>2. CASE SettleReleased(r)
  <2> DEFINE step == IF job[r].op = "delete" THEN "write" ELSE EntryStep(Want(r))
  <2>1. /\ Goto(r, step) /\ step \in PC
        /\ UNCHANGED <<rows, job, personLock, resourceLock, phoneLock, now>>
        /\ step \in {"person", "write"}
        /\ step = "person" => job[r].op # "delete"
        /\ step = "write" => ~ Schedules(job[r])
    BY <1>2 DEF SettleReleased, EntryStep, Schedules, Want, PC, locks
  <2>2. JobFits(job[r], step)
    BY <1>1, <2>1 DEF JobFits
  <2> HIDE DEF step
  <2> QED  BY <1>1, <2>1, <2>2, GotoStep DEF TypeOK
<1>3. CASE SettleFails(r)
  BY <1>1, <1>3, FinishStep DEF SettleFails
<1>4. CASE LockPhone(r)
  BY <1>1, <1>4, GotoStep DEF LockPhone, PC, TypeOK, JobFits
<1>5. CASE CheckCustomer(r)
  BY <1>1, <1>5, FinishStep, GotoStep DEF CheckCustomer, PC, locks, JobFits, TypeOK
<1>6. CASE LockPerson(r)
  <2> DEFINE p == PersonOf[Want(r).barber]
             step == IF Want(r).resource = None THEN "check" ELSE "resource"
  <2>1. /\ p \in Person /\ personLock[p] = None
        /\ personLock' = [personLock EXCEPT ![p] = r]
        /\ Goto(r, step) /\ step \in PC /\ step \in {"check", "resource"}
        /\ UNCHANGED <<rows, job, resourceLock, phoneLock, now>>
    BY <1>1, <1>6, WantTyped DEF LockPerson, PC
  <2>2. JobFits(job[r], step)
    BY <1>1, <1>6 DEF JobFits, LockPerson
  <2>3. /\ personLock' \in [Person -> Request \cup {None}]
        /\ \A k \in Person : personLock[k] \in Request => personLock'[k] = personLock[k]
        /\ personLock'[p] = r
    <3> HIDE DEF p
    <3> QED  BY <1>1, <2>1, NoneAssumption DEF TypeOK
  <2> HIDE DEF step
  <2> QED  BY <1>1, <2>1, <2>2, <2>3, GotoStep DEF TypeOK
<1>7. CASE LockResource(r)
  BY <1>1, <1>7, GotoStep DEF LockResource, PC, TypeOK, JobFits, IInv, PersonLocked
<1>8. CASE CheckSucceeds(r)
  BY <1>1, <1>8, GotoStep
     DEF CheckSucceeds, PC, locks, JobFits, IInv, PersonLocked, SlotFree, BarberFree,
         Apart, TypeOK
<1> QED  BY <1>2, <1>3, <1>4, <1>5, <1>6, <1>7, <1>8

(* A conditional status change frees time or keeps it, never takes it. *)
LEMMA MoveStatusStep ==
    ASSUME IInv, NEW a \in Appt, NEW handler,
           NEW from \in {"CONFIRMED", "PENDING_PAYMENT"},
           NEW to \in {"CONFIRMED", "CANCELLED"},
           MoveStatus(handler, a, from, to)
    PROVE  IInv'
BY StatusStep
   DEF MoveStatus, IInv, TypeOK, NoRow, Occupies, Gone, Status, StaffStatus, locks

----------------------------------------------------------------------------
(* The theorems *)

(* The invariant holds initially. *)
LEMMA InitIInv == ~ SharedRows /\ Init => IInv
<1> SUFFICES ASSUME ~ SharedRows, Init  PROVE IInv
  OBVIOUS
<1>1. NoJob \in Job
  BY NoneAssumption DEF NoJob, Job, Op, NoEdit, Edit
<1>2. TypeOK
  BY <1>1, BoundAssumption DEF Init, TypeOK, PC, Time
<1>3. JobsFit /\ OneRequestPerRow /\ PersonLocked /\ StillFree
  BY DEF Init, JobsFit, OneRequestPerRow, PersonLocked, StillFree
<1>4. NoDoubleBooking
  BY DEF Init, NoDoubleBooking, Occupies, NoRow, Gone
<1> QED  BY <1>2, <1>3, <1>4 DEF IInv

(* Every step keeps the invariant. *)
LEMMA NextIInv == IInv /\ [Next]_vars => IInv'
<1> SUFFICES ASSUME IInv, [Next]_vars  PROVE IInv'
  OBVIOUS
<1>1. ASSUME NEW r \in Request, Start(r)  PROVE IInv'
  BY <1>1, CreateAppointmentStep, CreatePublicAppointmentStep, UpdateAppointmentStep,
     RescheduleStep, DeleteAppointmentStep DEF Start
<1>2. ASSUME NEW r \in Request, Advance(r)  PROVE IInv'
  BY FinishStep, WriteStep, <1>2, SettlePaidStep, CheckFailsStep, AdvanceStep
     DEF Write, Advance
<1>3. ASSUME NEW r \in Request, LockPhone(r) \/ LockPerson(r) \/ LockResource(r)  PROVE IInv'
  BY <1>3, AdvanceStep
<1>4. ASSUME NEW a \in Appt,
             \/ CancelManagedAppointment(a) \/ CancelFromHere(a) \/ CancelAffected(a)
             \/ ConfirmPaidHold(a) \/ ReleaseUnpaidHold(a)
      PROVE  IInv'
  BY <1>4, MoveStatusStep
  DEF CancelManagedAppointment, CancelFromHere, CancelAffected, ConfirmPaidHold,
      ReleaseUnpaidHold
<1>5. ASSUME UNCHANGED <<rows, pc, job, personLock, resourceLock, phoneLock>>, now' \in Time
      PROVE  IInv'
  BY <1>5 DEF IInv, TypeOK, JobsFit, JobFits, CreateFits, ChangeFits, OneRequestPerRow,
              PersonLocked, StillFree, Want, Schedules, Apart, NoDoubleBooking
<1>6. CASE Tick
  BY <1>5, <1>6, BoundAssumption DEF Tick, locks, Time, IInv, TypeOK
<1>7. CASE UNCHANGED vars
  BY <1>5, <1>7 DEF vars, IInv, TypeOK
<1> QED  BY <1>1, <1>2, <1>3, <1>4, <1>6, <1>7 DEF Next

(* While no two requests edit one appointment at once, the appointment book *)
(* stays well typed and no appointment ends before it starts: what          *)
(* updateAppointment checks on its snapshot is true of what it writes.      *)
THEOREM AgendaTypeOK == ~ SharedRows /\ Spec => []TypeOK
<1>1. IInv => TypeOK
  BY DEF IInv
<1> QED  BY <1>1, InitIInv, NextIInv, PTL DEF Spec

(* While no two requests edit one appointment at once, lockSchedule and the *)
(* conflict check keep every person from being sold twice, in any number of *)
(* shops and under any interleaving of the requests.                        *)
THEOREM AgendaNoDoubleBooking == ~ SharedRows /\ Spec => []NoDoubleBooking
<1>1. IInv => NoDoubleBooking
  BY DEF IInv
<1> QED  BY <1>1, InitIInv, NextIInv, PTL DEF Spec

-----------------------------------------------------------------------------
(***************************************************************************)

(* row takes none of chair x's time between s and e. *)
ChairApart(row, x, s, e) ==
    ~ (Occupies(row) /\ row.resource = x /\ Overlap(row, s, e))

(* The request will put its appointment on a chair. *)
NeedsChair(r) == pc[r] = "write" /\ Schedules(job[r]) /\ Want(r).resource # None

(* The lock is held from LockResource to the end of the transaction. *)
ChairLocked ==
    \A r \in Request :
        (pc[r] = "check" /\ Want(r).resource # None) \/ NeedsChair(r)
        => resourceLock[Want(r).resource] = r

(* What the conflict check found for the chair still holds at the write. *)
ChairStillFree ==
    \A r \in Request : NeedsChair(r) =>
        \A x \in Appt \ {job[r].appt} :
            ChairApart(rows[x], Want(r).resource, Want(r).start, Want(r).end)

(* A deletion under way is of an appointment that did not happen. *)
DeletesOpen ==
    \A r \in Request :
        pc[r] # "idle" /\ job[r].op = "delete" => rows[job[r].appt].status \notin Happened

CInv ==
    /\ IInv
    /\ ChairLocked
    /\ ChairStillFree
    /\ NoResourceClash
    /\ DeletesOpen

----------------------------------------------------------------------------
(* A step that takes no time from the schedule keeps the chairs' invariant  *)
(* if it leaves the other requests and their locks alone and brings its own *)
(* request to the check with the chair's lock, and to the write by a check  *)
(* that succeeded.                                                          *)
LEMMA QuietStep ==
    ASSUME CInv, NEW r,
           \A q \in Request : q # r => pc'[q] = pc[q] /\ job'[q] = job[q],
           \A x \in Resource, q \in Request :
               q # r /\ resourceLock[x] = q => resourceLock'[x] = q,
           \A x \in Appt : Occupies(rows'[x]) => Occupies(rows[x]) /\ SamePlace(rows'[x], rows[x]),
           r \in Request =>
               /\ pc'[r] = "check" /\ Want(r)'.resource # None
                     => resourceLock'[Want(r)'.resource] = r
               /\ pc'[r] = "write" /\ Schedules(job'[r])
                     => pc[r] = "check" /\ SlotFree(r)
                        /\ UNCHANGED <<rows, job, resourceLock>>
    PROVE  ChairLocked' /\ ChairStillFree' /\ NoResourceClash'
<1>1. ASSUME NEW q \in Request, q # r
      PROVE  /\ pc'[q] = pc[q] /\ job'[q] = job[q]
             /\ Want(q)' = Want(q) /\ Schedules(job'[q]) = Schedules(job[q])
             /\ NeedsChair(q)' = NeedsChair(q)
  BY <1>1 DEF Want, NeedsChair, Schedules
<1>2. ChairLocked'
  <2> SUFFICES ASSUME NEW q \in Request,
                      (pc'[q] = "check" /\ Want(q)'.resource # None) \/ NeedsChair(q)'
               PROVE  resourceLock'[Want(q)'.resource] = q
    BY DEF ChairLocked
  <2>1. CASE q = r
    BY <2>1 DEF NeedsChair, Schedules, Want, CInv, ChairLocked
  <2>2. CASE q # r
    BY <1>1, <2>2, WantTyped DEF CInv, ChairLocked, NeedsChair, Booking
  <2> QED  BY <2>1, <2>2
<1>3. ChairStillFree'
  <2> SUFFICES ASSUME NEW q \in Request, NeedsChair(q)', NEW x \in Appt \ {job'[q].appt}
               PROVE  ChairApart(rows[x], Want(q).resource, Want(q).start, Want(q).end)'
    BY DEF ChairStillFree
  <2>1. CASE q = r
    BY <2>1 DEF NeedsChair, Schedules, Want, SlotFree, ResourceFree, ChairApart
  <2>2. CASE q # r
    BY <1>1, <2>2 DEF CInv, ChairStillFree, ChairApart, SamePlace, Overlap
  <2> QED  BY <2>1, <2>2
<1>4. NoResourceClash'
  BY DEF CInv, NoResourceClash, SamePlace, Overlap
<1> QED  BY <1>2, <1>3, <1>4

(* The end of a request leaves the others and their locks alone. *)
LEMMA FinishKeepsOthers ==
    ASSUME CInv, NEW r \in Request, Finish(r)
    PROVE  /\ pc'[r] = "idle"
           /\ \A q \in Request : q # r => pc'[q] = pc[q] /\ job'[q] = job[q]
           /\ \A x \in Resource, q \in Request :
                 q # r /\ resourceLock[x] = q => resourceLock'[x] = q
BY DEF Finish, EndTransaction, Released, CInv, IInv, TypeOK

(* A request starts before its locks, with a job of its own; only a         *)
(* deletion carries the operation "delete".                                 *)
LEMMA StartBegins ==
    ASSUME NEW r \in Request, Start(r)
    PROVE  \E step, j :
              /\ step \in {"person", "phone", "settle", "write", "customer"}
              /\ Begin(r, step, j)
              /\ step = "write" => ~ Schedules(j)
              /\ j.op = "delete" => DeleteAppointment(r)
<1>1. CASE CreateAppointment(r)
  <2>1. PICK j : Begin(r, "person", j) /\ j.op = "create"
    BY <1>1 DEF CreateAppointment
  <2> QED  BY <2>1
<1>2. CASE CreatePublicAppointment(r)
  <2>1. PICK j : Begin(r, "phone", j) /\ j.op = "public"
    BY <1>2 DEF CreatePublicAppointment
  <2> QED  BY <2>1
<1>3. CASE UpdateAppointment(r)
  <2>1. PICK a \in Appt, body \in Edits :
      LET put == KeepDuration(body, rows[a])
      IN  Begin(r, IF /\ rows[a].status = "PENDING_PAYMENT"
                      /\ put.status \notin {None, "PENDING_PAYMENT"}
                   THEN "settle" ELSE EntryStep(Merge(rows[a], put)),
                [op |-> "update", appt |-> a, snap |-> rows[a], put |-> put, free |-> {}])
    BY <1>3 DEF UpdateAppointment
  <2> QED  BY <2>1 DEF EntryStep, Schedules
<1>4. CASE RescheduleManagedAppointment(r)
  <2>1. PICK j : Begin(r, "customer", j) /\ j.op = "reschedule"
    BY <1>4 DEF RescheduleManagedAppointment
  <2> QED  BY <2>1
<1>5. CASE DeleteAppointment(r)
  <2>1. PICK a \in Appt :
      Begin(r, IF rows[a].status = "PENDING_PAYMENT" THEN "settle" ELSE "write",
            [op |-> "delete", appt |-> a, snap |-> rows[a], put |-> NoEdit, free |-> {}])
    BY <1>5 DEF DeleteAppointment
  <2> QED  BY <1>5, <2>1 DEF Schedules
<1> QED  BY <1>1, <1>2, <1>3, <1>4, <1>5 DEF Start

(* A request that starts is neither at the check nor about to schedule. *)
LEMMA StartQuiet ==
    ASSUME CInv, NEW r \in Request, Start(r)
    PROVE  ChairLocked' /\ ChairStillFree' /\ NoResourceClash'
<1>1. PICK step, j :
         /\ step \in {"person", "phone", "settle", "write", "customer"}
         /\ Begin(r, step, j)
         /\ step = "write" => ~ Schedules(j)
  BY StartBegins
<1>2. /\ pc'[r] = step /\ job'[r] = j
      /\ \A q \in Request : q # r => pc'[q] = pc[q] /\ job'[q] = job[q]
      /\ UNCHANGED <<rows, resourceLock>>
  BY <1>1 DEF Begin, locks, CInv, IInv, TypeOK
<1> QED  BY <1>1, <1>2, QuietStep DEF SamePlace

(* A reservation whose deposit turned out to be paid keeps its place. *)
LEMMA SettlePaidKeepsPlace ==
    ASSUME CInv, NEW r \in Request, SettlePaid(r)
    PROVE  /\ job[r].appt \in Appt /\ rows[job[r].appt] \in Booking
           /\ rows'[job[r].appt].status = "CONFIRMED"
           /\ \A x \in Appt : /\ Occupies(rows'[x]) <=> Occupies(rows[x])
                              /\ SamePlace(rows'[x], rows[x])
                              /\ x # job[r].appt => rows'[x] = rows[x]
<1> DEFINE a == job[r].appt
<1>1. /\ pc[r] = "settle" /\ a \in Appt /\ JobFits(job[r], pc[r])
      /\ rows[a].status = "PENDING_PAYMENT" /\ SetStatus(a, "CONFIRMED")
  BY DEF SettlePaid, CInv, IInv, JobsFit, JobFits
<1>2. rows[a] \in Booking
  BY <1>1 DEF JobFits, CreateFits, ChangeFits, NoRow
<1>3. /\ rows'[a].status = "CONFIRMED"
      /\ SamePlace(rows'[a], rows[a])
      /\ \A x \in Appt : x # a => rows'[x] = rows[x]
  BY <1>1, <1>2 DEF CInv, IInv, TypeOK, SetStatus, Booking, SamePlace
<1>4. Occupies(rows[a]) /\ Occupies(rows'[a])
  BY <1>1, <1>3 DEF Occupies, Gone
<1> QED  BY <1>1, <1>2, <1>3, <1>4 DEF SamePlace

(* The steps of a request before its write *)
LEMMA AdvanceQuiet ==
    ASSUME CInv, NEW r \in Request,
           \/ SettlePaid(r) \/ SettleReleased(r) \/ SettleFails(r) \/ LockPhone(r)
           \/ CheckCustomer(r) \/ LockPerson(r) \/ LockResource(r) \/ CheckSucceeds(r)
           \/ CheckFails(r)
    PROVE  ChairLocked' /\ ChairStillFree' /\ NoResourceClash'
<1>1. CASE SettlePaid(r) /\ ~ Finish(r)
  BY <1>1, SettlePaidKeepsPlace, QuietStep
     DEF SettlePaid, Goto, locks, CInv, IInv, TypeOK, Job, EntryStep, Schedules
<1>2. CASE SettlePaid(r) /\ Finish(r)
  BY <1>2, FinishKeepsOthers, SettlePaidKeepsPlace, QuietStep
<1>3. CASE UNCHANGED rows /\ Finish(r)
  BY <1>3, FinishKeepsOthers, QuietStep DEF SamePlace
<1>4. CASE SettleReleased(r)
  BY <1>4, QuietStep
     DEF SettleReleased, Goto, locks, CInv, IInv, TypeOK, EntryStep, Schedules, Want,
         SamePlace
<1>5. ASSUME NEW step \in {"customer", "person", "resource"}, Goto(r, step),
             UNCHANGED <<rows, job, resourceLock>>
      PROVE  ChairLocked' /\ ChairStillFree' /\ NoResourceClash'
  BY <1>5, QuietStep DEF Goto, CInv, IInv, TypeOK, SamePlace
<1>6. CASE LockPerson(r) /\ Want(r).resource = None
  BY <1>6, QuietStep DEF LockPerson, Goto, CInv, IInv, TypeOK, Want, SamePlace
<1>7. CASE LockResource(r)
  <2> DEFINE x == Want(r).resource
  <2>1. /\ pc[r] = "resource" /\ pc'[r] = "check"
        /\ \A q \in Request : q # r => pc'[q] = pc[q]
        /\ resourceLock[x] = None /\ resourceLock' = [resourceLock EXCEPT ![x] = r]
        /\ UNCHANGED <<rows, job>>
    BY <1>7 DEF LockResource, Goto, CInv, IInv, TypeOK
  <2>2. Want(r)' = Want(r)
    BY <2>1 DEF Want
  <2>3. x # None => x \in Resource
    BY <2>1, WantTyped DEF CInv, Booking
  <2>4. x # None => resourceLock'[x] = r
    BY <2>1, <2>3 DEF CInv, IInv, TypeOK
  <2>5. \A y \in Resource, q \in Request :
           q # r /\ resourceLock[y] = q => resourceLock'[y] = q
    BY <2>1, NoneAssumption DEF CInv, IInv, TypeOK
  <2> HIDE DEF x
  <2> QED  BY <2>1, <2>2, <2>4, <2>5, QuietStep DEF SamePlace, x
<1>8. CASE CheckSucceeds(r)
  BY <1>8, QuietStep DEF CheckSucceeds, Goto, locks, CInv, IInv, TypeOK, SamePlace
<1>9. CASE CheckFails(r) /\ ~ Finish(r)
  <2>1. PICK b \in job[r].free :
           /\ job' = [job EXCEPT ![r].put.barber = b, ![r].free = @ \ {b}]
           /\ Goto(r, "phone") /\ EndTransaction(r)
    BY <1>9 DEF CheckFails
  <2>2. /\ UNCHANGED rows
        /\ pc'[r] = "phone"
        /\ \A q \in Request : q # r => pc'[q] = pc[q] /\ job'[q] = job[q]
        /\ \A x \in Resource, q \in Request :
              q # r /\ resourceLock[x] = q => resourceLock'[x] = q
    BY <1>9, <2>1 DEF CheckFails, Goto, EndTransaction, Released, CInv, IInv, TypeOK
  <2> QED  BY <2>2, QuietStep DEF SamePlace
<1>10. CASE SettleFails(r)
  BY <1>3, <1>10 DEF SettleFails
<1>11. CASE LockPhone(r)
  BY <1>5, <1>11 DEF LockPhone
<1>12. CASE CheckCustomer(r)
  BY <1>3, <1>5, <1>12 DEF CheckCustomer, locks
<1>13. CASE LockPerson(r) /\ Want(r).resource # None
  BY <1>5, <1>13 DEF LockPerson
<1>14. CASE CheckFails(r) /\ Finish(r)
  BY <1>3, <1>14 DEF CheckFails
<1> QED
  BY <1>1, <1>2, <1>4, <1>6, <1>7, <1>8, <1>9, <1>10, <1>11, <1>12, <1>13, <1>14

----------------------------------------------------------------------------
(* The write *)

(* What a write leaves in the row: a place that its request wanted and      *)
(* checked, or nothing on the schedule.                                     *)
LEMMA WrittenPlace ==
    ASSUME CInv, NEW r \in Request, Write(r)
    PROVE  /\ job[r].appt \in Appt
           /\ \A x \in Appt : x # job[r].appt => rows'[x] = rows[x]
           /\ Occupies(rows'[job[r].appt]) =>
                 \/ rows'[job[r].appt] = rows[job[r].appt]
                 \/ /\ Schedules(job[r])
                    /\ SamePlace(rows'[job[r].appt], Want(r))
<1> DEFINE a == job[r].appt
<1>1. a \in Appt /\ JobFits(job[r], pc[r]) /\ job[r] \in Job /\ pc[r] = "write"
  BY DEF Write, CInv, IInv, JobsFit, JobFits, TypeOK
<1>2. CASE ~ Writable(r)
  BY <1>1, <1>2 DEF Write
<1>3. CASE Writable(r) /\ job[r].op = "delete"
  BY <1>1, <1>3
     DEF Write, JobFits, CreateFits, ChangeFits, Creates, SetStatus, CInv, IInv, TypeOK,
         Booking, Occupies, Gone
<1>4. CASE Writable(r) /\ job[r].op # "delete"
  BY <1>4, <1>1, WrittenAsWanted DEF Write, CInv, IInv, TypeOK
<1> QED  BY <1>2, <1>3, <1>4

(* The write keeps the chairs apart: its own check still holds, and the     *)
(* lock it holds keeps its place away from what the others checked.         *)
LEMMA WriteChairs ==
    ASSUME CInv, NEW r \in Request, Write(r)
    PROVE  ChairLocked' /\ ChairStillFree' /\ NoResourceClash'
<1> DEFINE a == job[r].appt
           w == Want(r)
<1>1. Finish(r) /\ pc[r] = "write"
  BY DEF Write
<1>2. /\ pc'[r] = "idle"
      /\ \A q \in Request : q # r => pc'[q] = pc[q] /\ job'[q] = job[q]
      /\ \A x \in Resource, q \in Request :
            q # r /\ resourceLock[x] = q => resourceLock'[x] = q
  BY <1>1, FinishKeepsOthers
<1>3. CASE ~ Occupies(rows'[a]) \/ rows'[a] = rows[a]
  BY <1>3, WrittenPlace, <1>2, QuietStep DEF SamePlace
<1>4. CASE Schedules(job[r]) /\ Occupies(rows'[a]) /\ SamePlace(rows'[a], w)
  <2>1. /\ a \in Appt /\ \A x \in Appt : x # a => rows'[x] = rows[x]
        /\ rows'[a].resource = w.resource /\ rows'[a].start = w.start /\ rows'[a].end = w.end
    BY <1>4, WrittenPlace DEF SamePlace
  <2>2. w.resource # None =>
           /\ resourceLock[w.resource] = r
           /\ \A x \in Appt \ {a} : ChairApart(rows[x], w.resource, w.start, w.end)
    BY <1>1, <1>4 DEF CInv, ChairLocked, ChairStillFree, NeedsChair
  <2>3. ASSUME NEW q \in Request, q # r
        PROVE  /\ pc'[q] = pc[q] /\ job'[q] = job[q] /\ Want(q)' = Want(q)
               /\ NeedsChair(q)' = NeedsChair(q)
    BY <1>2, <2>3 DEF Want, NeedsChair, Schedules
  <2>4. ChairLocked'
    <3> SUFFICES ASSUME NEW q \in Request,
                        (pc'[q] = "check" /\ Want(q)'.resource # None) \/ NeedsChair(q)'
                 PROVE  resourceLock'[Want(q)'.resource] = q
      BY DEF ChairLocked
    <3>1. q # r
      BY <1>2 DEF NeedsChair
    <3>2. pc[q] # "idle" /\ Want(q).resource # None /\ resourceLock[Want(q).resource] = q
      BY <2>3, <3>1 DEF CInv, ChairLocked, NeedsChair
    <3>3. Want(q).resource \in Resource
      BY <3>2, WantTyped DEF CInv, Booking
    <3> QED  BY <1>2, <2>3, <3>1, <3>2, <3>3
  <2>5. ChairStillFree'
    <3> SUFFICES ASSUME NEW q \in Request, NeedsChair(q)', NEW x \in Appt \ {job'[q].appt}
                 PROVE  ChairApart(rows[x], Want(q).resource, Want(q).start, Want(q).end)'
      BY DEF ChairStillFree
    <3>1. q # r
      BY <1>2 DEF NeedsChair
    <3>2. /\ Want(q)' = Want(q) /\ job'[q] = job[q] /\ resourceLock[Want(q).resource] = q
          /\ ChairApart(rows[x], Want(q).resource, Want(q).start, Want(q).end)
      BY <2>3, <3>1 DEF CInv, ChairLocked, ChairStillFree, NeedsChair
    <3>3. CASE x # a
      BY <2>1, <3>2, <3>3 DEF ChairApart
    <3>4. CASE x = a
      BY <2>3, <3>1, <2>1, <2>2, <3>2, <3>4 DEF NeedsChair, ChairApart
    <3> QED  BY <3>3, <3>4
  <2>6. NoResourceClash'
    <3> SUFFICES ASSUME NEW x \in Appt, NEW y \in Appt, x # y,
                        Occupies(rows'[x]), Occupies(rows'[y]),
                        rows'[x].resource = rows'[y].resource, rows'[x].resource # None
                 PROVE  ~ Overlap(rows'[x], rows'[y].start, rows'[y].end)
      BY DEF NoResourceClash
    <3>1. CASE x # a /\ y # a
      BY <2>1, <3>1 DEF CInv, NoResourceClash
    <3>2. CASE x = a \/ y = a
      BY <2>1, <2>2, <3>2 DEF ChairApart, Overlap
    <3> QED  BY <3>1, <3>2
  <2> QED  BY <2>4, <2>5, <2>6
<1> QED  BY <1>3, <1>4, WrittenPlace
----------------------------------------------------------------------------
(* Deletions *)

(* A request changes its own program counter, its own job and, at most, the *)
(* row it works on.                                                         *)
LEMMA OwnStep ==
    ASSUME CInv, NEW q \in Request,
           \/ Start(q) \/ Advance(q) \/ LockPhone(q) \/ LockPerson(q) \/ LockResource(q)
    PROVE  /\ \A r \in Request : r # q => pc'[r] = pc[r] /\ job'[r] = job[r]
           /\ \A x \in Appt : rows'[x] # rows[x] => pc[q] # "idle" /\ x = job[q].appt
<1> USE DEF CInv, IInv, TypeOK
<1>1. CASE Start(q)
  <2>1. PICK step, j : Begin(q, step, j)
    BY <1>1, StartBegins
  <2> QED  BY <2>1 DEF Begin
<1>2. CASE SettlePaid(q)
  BY <1>2, SettlePaidKeepsPlace DEF SettlePaid, Finish, Goto
<1>3. CASE Write(q)
  BY <1>3, WrittenPlace, FinishKeepsOthers DEF Write
<1>4. CASE CheckFails(q)
  BY <1>4 DEF CheckFails, Finish, Goto
<1>5. CASE \/ SettleReleased(q) \/ SettleFails(q) \/ CheckCustomer(q) \/ CheckSucceeds(q)
           \/ LockPhone(q) \/ LockPerson(q) \/ LockResource(q)
  BY <1>5 DEF SettleReleased, SettleFails, CheckCustomer, CheckSucceeds, LockPhone,
              LockPerson, LockResource, Finish, Goto
<1> QED  BY <1>1, <1>2, <1>3, <1>4, <1>5 DEF Advance

(* A deletion arrives on an appointment that did not happen, and goes on    *)
(* with that appointment.                                                   *)
LEMMA OwnDeletion ==
    ASSUME CInv, NEW r \in Request, Start(r) \/ Advance(r),
           pc'[r] # "idle", job'[r].op = "delete"
    PROVE  UNCHANGED rows /\ rows[job'[r].appt].status \notin Happened
<1> USE DEF CInv, IInv, TypeOK
<1>1. CASE Start(r)
  <2>1. CASE DeleteAppointment(r)
    BY <2>1 DEF DeleteAppointment, Begin, Deletable
  <2>2. CASE ~ DeleteAppointment(r)
    <3>1. PICK step, j : Begin(r, step, j) /\ j.op # "delete"
      BY <1>1, <2>2, StartBegins
    <3> QED  BY <3>1 DEF Begin
  <2> QED  BY <2>1, <2>2
<1>2. CASE Advance(r)
  <2>1. ~ Finish(r)
    BY FinishKeepsOthers
  <2>2. CASE SettlePaid(r)
    BY <2>1, <2>2 DEF SettlePaid, Job
  <2>3. CASE CheckFails(r)
    BY <2>1, <2>3 DEF CheckFails, Job, JobsFit, JobFits
  <2>4. CASE SettleReleased(r) \/ CheckCustomer(r) \/ CheckSucceeds(r)
    BY <2>1, <2>4 DEF SettleReleased, CheckCustomer, CheckSucceeds, DeletesOpen
  <2> QED  BY <1>2, <2>1, <2>2, <2>3, <2>4 DEF Advance, Write, SettleFails
<1> QED  BY <1>1, <1>2

(* A row that a deletion is about to remove gains no status of Happened:    *)
(* nobody else edits it, and the conditional writes only confirm or cancel. *)
LEMMA DeletesOpenStep ==
    ASSUME CInv, [Next]_vars
    PROVE  DeletesOpen'
<1> SUFFICES ASSUME NEW r \in Request, pc'[r] # "idle", job'[r].op = "delete"
             PROVE  rows'[job'[r].appt].status \notin Happened
  BY DEF DeletesOpen
<1> DEFINE a == job'[r].appt
<1> USE DEF CInv
<1>1. ASSUME pc'[r] = pc[r], job'[r] = job[r]
      PROVE  a \in Appt /\ rows[a].status \notin Happened
  BY <1>1 DEF DeletesOpen, IInv, JobsFit, JobFits
<1>2. ASSUME NEW q \in Request, q # r,
             \/ Start(q) \/ Advance(q) \/ LockPhone(q) \/ LockPerson(q) \/ LockResource(q)
      PROVE  rows'[a].status \notin Happened
  BY <1>2, OwnStep, <1>1 DEF IInv, OneRequestPerRow
<1>3. CASE Start(r) \/ Advance(r)
  BY <1>3, OwnDeletion
<1>4. CASE LockPhone(r) \/ LockPerson(r) \/ LockResource(r)
  BY <1>4 DEF LockPhone, LockPerson, LockResource, DeletesOpen
<1>5. ASSUME NEW x \in Appt, NEW handler, NEW from, NEW to \in {"CONFIRMED", "CANCELLED"},
             MoveStatus(handler, x, from, to)
      PROVE  rows'[a].status \notin Happened
  BY <1>5, <1>1 DEF MoveStatus, SetStatus, IInv, TypeOK, Booking, NoRow, Happened
<1>6. ASSUME NEW x \in Appt,
             \/ CancelManagedAppointment(x) \/ CancelFromHere(x) \/ CancelAffected(x)
             \/ ConfirmPaidHold(x) \/ ReleaseUnpaidHold(x)
      PROVE  rows'[a].status \notin Happened
  BY <1>5, <1>6
  DEF CancelManagedAppointment, CancelFromHere, CancelAffected, ConfirmPaidHold,
      ReleaseUnpaidHold
<1>7. CASE Tick \/ UNCHANGED vars
  BY <1>7 DEF Tick, vars, DeletesOpen
<1> QED  BY <1>2, <1>3, <1>4, <1>6, <1>7 DEF Next
----------------------------------------------------------------------------
(* The conditional status changes and the clock leave the chairs alone. *)
LEMMA MoveStatusQuiet ==
    ASSUME CInv, NEW a \in Appt, NEW handler,
           NEW from \in {"CONFIRMED", "PENDING_PAYMENT"},
           NEW to \in {"CONFIRMED", "CANCELLED"},
           MoveStatus(handler, a, from, to)
    PROVE  ChairLocked' /\ ChairStillFree' /\ NoResourceClash'
BY NoneAssumption, QuietStep
   DEF MoveStatus, CInv, IInv, TypeOK, NoRow, Occupies, Gone, SetStatus, SamePlace,
       Booking, locks

(* The invariant holds initially. *)
LEMMA InitCInv == ~ SharedRows /\ Init => CInv
<1> SUFFICES ASSUME ~ SharedRows, Init  PROVE CInv
  OBVIOUS
<1>1. ChairLocked /\ ChairStillFree /\ DeletesOpen
  BY DEF Init, ChairLocked, ChairStillFree, NeedsChair, DeletesOpen
<1>2. NoResourceClash
  BY DEF Init, NoResourceClash, Occupies, NoRow, Gone
<1> QED  BY <1>1, <1>2, InitIInv DEF CInv

(* Every step keeps the invariant. *)
LEMMA NextCInv == CInv /\ [Next]_vars => CInv'
<1> SUFFICES ASSUME CInv, [Next]_vars  PROVE CInv'
  OBVIOUS
<1>1. IInv'
  BY NextIInv DEF CInv
<1>2. ChairLocked' /\ ChairStillFree' /\ NoResourceClash'
  BY StartQuiet, AdvanceQuiet, WriteChairs, MoveStatusQuiet, NoneAssumption, QuietStep
     DEF Advance, CancelManagedAppointment, CancelFromHere, CancelAffected,
         ConfirmPaidHold, ReleaseUnpaidHold, Tick, vars, locks, SamePlace, Next
<1>3. DeletesOpen'
  BY DeletesOpenStep
<1> QED  BY <1>1, <1>2, <1>3 DEF CInv

(* While no two requests edit one appointment at once, lockSchedule and     *)
(* ensureResourceAvailable keep every chair and room from two appointments  *)
(* at the same time, under any interleaving of the requests.                *)
THEOREM AgendaNoResourceClash == ~ SharedRows /\ Spec => []NoResourceClash
<1>1. CInv => NoResourceClash
  BY DEF CInv
<1> QED  BY <1>1, InitCInv, NextCInv, PTL DEF Spec

(* deleteAppointment refuses what happened on the row it read before its    *)
(* transaction; while nobody else edits the appointment that answer is      *)
(* still true when the row is removed.                                      *)
THEOREM AgendaHappenedNeverDeleted == ~ SharedRows /\ Spec => HappenedNeverDeleted
<1>1. ASSUME CInv, [Next]_vars, NEW a \in Appt, rows[a].status \in Happened
      PROVE  rows'[a].status # "DELETED"
  <2> USE DEF CInv, IInv, TypeOK
  <2>1. rows[a].status # "DELETED"
    BY <1>1 DEF Happened
  <2>2. CASE rows'[a] = rows[a]
    BY <2>1, <2>2
  <2>3. ASSUME NEW x \in Appt, NEW t \in {"CONFIRMED", "CANCELLED"}, SetStatus(x, t)
        PROVE  rows'[a].status # "DELETED"
    BY <1>1, <2>1, <2>3 DEF SetStatus, Booking, NoRow, Happened
  <2>4. ASSUME NEW r \in Request, Write(r)
        PROVE  rows'[a].status # "DELETED"
    <3>1. CASE a # job[r].appt
      BY <2>1, <2>4, <3>1, WrittenPlace, <1>1
    <3>2. CASE a = job[r].appt /\ job[r].op = "delete"
      BY <1>1, <2>4, <3>2 DEF DeletesOpen, Write
    <3>3. CASE a = job[r].appt /\ job[r].op # "delete" /\ Writable(r)
      BY <1>1, <2>4, <3>3, NoneAssumption, <2>1
         DEF Write, Job, Edit, Status, StaffStatus, Merge, Default
    <3>4. CASE ~ Writable(r)
      BY <2>1, <2>4, <3>4 DEF Write
    <3> QED  BY <3>1, <3>2, <3>3, <3>4
  <2>5. ASSUME NEW r \in Request, SettlePaid(r)
        PROVE  rows'[a].status # "DELETED"
    BY <1>1, <2>1, <2>5, SettlePaidKeepsPlace
  <2>6. CASE UNCHANGED rows
    BY <2>1, <2>6
  <2>7. ASSUME NEW r \in Request, Start(r) \/ Advance(r), ~ Write(r), ~ SettlePaid(r)
        PROVE  UNCHANGED rows
    BY <2>7, StartBegins DEF Advance, Begin, SettleReleased, SettleFails, CheckCustomer,
       CheckSucceeds, CheckFails
  <2>8. ASSUME NEW x \in Appt,
               \/ CancelManagedAppointment(x) \/ CancelFromHere(x) \/ CancelAffected(x)
               \/ ConfirmPaidHold(x) \/ ReleaseUnpaidHold(x)
        PROVE  rows'[a].status # "DELETED"
    BY <2>3, <2>8
    DEF CancelManagedAppointment, CancelFromHere, CancelAffected, ConfirmPaidHold,
        ReleaseUnpaidHold, MoveStatus
  <2> QED
    BY <1>1, <2>4, <2>5, <2>6, <2>7, <2>8
    DEF Next, LockPhone, LockPerson, LockResource, Tick, vars
<1>2. CInv /\ [Next]_vars
         => [\A a \in Appt : rows[a].status \in Happened => rows'[a].status # "DELETED"]_vars
  BY <1>1
<1> QED  BY <1>2, InitCInv, NextCInv, PTL DEF Spec, HappenedNeverDeleted

----------------------------------------------------------------------------
(* The refinement *)

(* A step that leaves every appointment's place and whether it holds the    *)
(* schedule is a stutter of the calendar.                                   *)
LEMMA SamePlacesSameBook ==
    ASSUME \A x \in Appt : /\ Occupies(rows'[x]) <=> Occupies(rows[x])
                           /\ Occupies(rows[x]) => SamePlace(rows'[x], rows[x])
    PROVE  Book' = Book
BY DEF SlotOf, SamePlace, Book

(* One appointment that leaves the schedule frees its slot. *)
LEMMA LeavingFrees ==
    ASSUME NEW a \in Appt, ~ Occupies(rows'[a]),
           \A x \in Appt : x # a => rows'[x] = rows[x]
    PROVE  CalendarView!Next
BY DEF Book, SlotOf, CalendarView!Next, CalendarView!Free

(* A write that puts an appointment on the schedule places it in a slot     *)
(* that clashes with no other booking.                                      *)
LEMMA WritePlaces ==
    ASSUME CInv, NEW r \in Request, Write(r), Schedules(job[r]),
           Occupies(rows'[job[r].appt]), SamePlace(rows'[job[r].appt], Want(r))
    PROVE  CalendarView!Next
<1> DEFINE a == job[r].appt
           w == Want(r)
           slot == [who |-> PersonOf[w.barber], chair |-> w.resource,
                    start |-> w.start, end |-> w.end]
<1>1. a \in Appt /\ \A x \in Appt : x # a => rows'[x] = rows[x]
  BY WrittenPlace
<1>2. pc[r] = "write" /\ w \in Booking /\ PersonOf[w.barber] \in Person
  BY WantTyped DEF Write, CInv
<1>3. slot \in [who : Person, chair : Resource \cup {None}, start : Time, end : Time]
  BY <1>2 DEF Booking
<1>4. Book' = [Book EXCEPT ![a] = slot]
  <2>1. \A x \in Appt : Book'[x] = IF x = a THEN slot ELSE Book[x]
    BY <1>1 DEF Book, SlotOf, SamePlace
  <2> HIDE DEF slot
  <2> QED  BY <2>1 DEF Book
<1>5. CalendarView!Fits(a, slot)
  <2> SUFFICES ASSUME NEW b \in Appt \ {a}, Book[b] # None
               PROVE  ~ CalendarView!Clash(slot, Book[b])
    BY DEF CalendarView!Fits
  <2>1. /\ Occupies(rows[b])
        /\ Book[b] = [who |-> PersonOf[rows[b].barber], chair |-> rows[b].resource,
                      start |-> rows[b].start, end |-> rows[b].end]
    BY DEF Book, SlotOf
  <2>2. Apart(rows[b], PersonOf[w.barber], w.start, w.end)
    BY <1>2 DEF CInv, IInv, StillFree
  <2>3. w.resource # None => ChairApart(rows[b], w.resource, w.start, w.end)
    BY <1>2 DEF CInv, ChairStillFree, NeedsChair
  <2> QED  BY <2>1, <2>2, <2>3 DEF CalendarView!Clash, Apart, ChairApart, Overlap
<1> HIDE DEF slot
<1> QED  BY <1>1, <1>3, <1>4, <1>5 DEF CalendarView!Next, CalendarView!Place

(* A step of the agenda is a step of the calendar, or leaves it alone. *)
LEMMA StepRefines == CInv /\ [Next]_vars => [CalendarView!Next]_Book
<1> SUFFICES ASSUME CInv, [Next]_vars, Book' # Book  PROVE CalendarView!Next
  OBVIOUS
<1>1. ASSUME UNCHANGED rows  PROVE FALSE
  BY <1>1 DEF Book
<1>2. ASSUME NEW r \in Request, Start(r) \/ Advance(r), ~ Write(r), ~ SettlePaid(r)
      PROVE  FALSE
  BY <1>1, <1>2, StartBegins DEF Advance, Begin, SettleReleased, SettleFails, CheckCustomer,
     CheckSucceeds, CheckFails
<1>3. ASSUME NEW r \in Request, SettlePaid(r)  PROVE FALSE
  BY <1>3, SettlePaidKeepsPlace, SamePlacesSameBook
<1>4. ASSUME NEW r \in Request, Write(r)  PROVE CalendarView!Next
  BY <1>4, WrittenPlace, LeavingFrees, SamePlacesSameBook, WritePlaces DEF SamePlace
<1>5. ASSUME NEW a \in Appt, NEW handler, NEW from \in {"CONFIRMED", "PENDING_PAYMENT"},
             NEW to \in {"CONFIRMED", "CANCELLED"}, MoveStatus(handler, a, from, to)
      PROVE  CalendarView!Next
  BY <1>5, SamePlacesSameBook, LeavingFrees
     DEF MoveStatus, CInv, IInv, TypeOK, NoRow, Occupies, Gone, SetStatus, SamePlace,
         Booking
<1>6. ASSUME NEW a \in Appt,
             \/ CancelManagedAppointment(a) \/ CancelFromHere(a) \/ CancelAffected(a)
             \/ ConfirmPaidHold(a) \/ ReleaseUnpaidHold(a)
      PROVE  CalendarView!Next
  BY <1>5, <1>6
  DEF CancelManagedAppointment, CancelFromHere, CancelAffected, ConfirmPaidHold,
      ReleaseUnpaidHold
<1> QED
  BY <1>1, <1>2, <1>3, <1>4, <1>6
  DEF Next, LockPhone, LockPerson, LockResource, Tick, vars

(* The requests implement the calendar: whatever their interleaving, the    *)
(* appointment book changes one booking at a time and a booking is placed   *)
(* only where it clashes with no other (lockSchedule and the conflict check *)
(* make the check and the write one step for everybody else).               *)
THEOREM AgendaImplementsCalendar == ~ SharedRows /\ Spec => ImplementsCalendar
<1>1. Init => CalendarView!Init
  BY DEF Init, Book, SlotOf, Occupies, Gone, NoRow, CalendarView!Init
<1> QED
  BY <1>1, InitCInv, NextCInv, StepRefines, PTL
  DEF Spec, ImplementsCalendar, CalendarView!Spec

-----------------------------------------------------------------------------
(***************************************************************************)

(* A body that hands the appointment over, gives it a chair or takes it off *)
(* the schedule.                                                            *)
HandsOver(put) ==
    /\ put.customer = None /\ put.start = None /\ put.end = None
    /\ put.status \in {None, "CANCELLED", "NO_SHOW"}

(* A body that names the two times only *)
Moves(put) == put.customer = None /\ put.status = None

(* Only the public page puts a customer on the schedule. *)
PublicOnly ==
    /\ ~ SharedRows
    /\ IsFiniteSet(Appt)
    /\ "createAppointment" \notin Handlers
    /\ \A put \in Edits : HandsOver(put)

Open == {"CONFIRMED", "PENDING_PAYMENT"}

(* What each request under way may write *)
BodiesFit ==
    \A r \in Request : pc[r] # "idle" =>
        /\ job[r].op # "create"
        /\ pc[r] = "settle" => job[r].op \in {"update", "delete"}
        /\ job[r].op = "update" => HandsOver(job[r].put)
        /\ job[r].op = "reschedule" =>
              Moves(job[r].put) /\ rows[job[r].appt].customer = job[r].snap.customer

(* A public booking holds its customer's lock from LockPhone to the end of  *)
(* its transaction.                                                         *)
PhoneLocked ==
    \A r \in Request :
        job[r].op = "public" /\ pc[r] \notin {"idle", "phone"}
        => phoneLock[Want(r).customer] = r

(* A customer's move runs while the customer does nothing else. *)
Alone ==
    \A q, r \in Request :
        q # r /\ job[q].op = "reschedule" /\ job[r].op \in {"public", "reschedule"}
            => ~ OfOneCustomer(q, r)

(* A request that checked its customer and did not yet write *)
Checked(r) ==
    job[r].op \in {"public", "reschedule"} /\ pc[r] \in {"person", "resource", "check", "write"}

(* What assertPublicCustomerCanBook found still holds at the write. *)
StillCanBook ==
    \A r \in Request : Checked(r) =>
        CustomerCanBook(Want(r).customer, Want(r).start, Want(r).end, job[r].appt)

LInv ==
    /\ CInv
    /\ BodiesFit
    /\ PhoneLocked
    /\ Alone
    /\ StillCanBook
    /\ CustomerWithinLimits
----------------------------------------------------------------------------
(* A step that gives no row more of a customer's time *)
Milder ==
    \A x \in Appt :
        /\ rows[x] # NoRow => rows'[x].customer = rows[x].customer
        /\ Occupies(rows'[x]) => /\ Occupies(rows[x])
                                 /\ rows'[x].start = rows[x].start
                                 /\ rows'[x].end = rows[x].end
        /\ rows'[x].status \in Open => rows[x].status \in Open

(* An open appointment holds the schedule. *)
LEMMA OpenOccupies == \A row : row.status \in Open => Occupies(row)
BY DEF Open, Occupies, Gone

(* The upcoming appointments of a customer are finitely many. *)
LEMMA UpcomingFinite ==
    ASSUME IsFiniteSet(Appt), NEW c, NEW a
    PROVE  /\ IsFiniteSet(Upcoming(c, a)) /\ IsFiniteSet(Upcoming(c, a)')
           /\ Cardinality(Upcoming(c, a)) \in Nat /\ Cardinality(Upcoming(c, a)') \in Nat
BY FS_Subset, FS_CardinalityType DEF Upcoming

(* After such a step a customer has no more upcoming appointments... *)
LEMMA MilderUpcoming ==
    ASSUME LInv, Milder, now' \in Time, now <= now', IsFiniteSet(Appt), NEW c, NEW a
    PROVE  Cardinality(Upcoming(c, a)') <= Cardinality(Upcoming(c, a))
<1>1. ASSUME NEW x \in Upcoming(c, a)'  PROVE x \in Upcoming(c, a)
  <2>1. x \in Appt \ {a} /\ rows'[x].status \in Open /\ rows'[x].start > now'
        /\ rows'[x].customer = c
    BY <1>1 DEF Upcoming, Open
  <2>2. rows[x].status \in Open /\ Occupies(rows[x]) /\ rows'[x].start = rows[x].start
    BY <2>1, OpenOccupies DEF Milder
  <2>3. rows[x] # NoRow
    BY <2>2 DEF Occupies, Gone, NoRow
  <2>4. rows[x].customer = c
    BY <2>1, <2>3 DEF Milder
  <2>5. rows[x].start \in Int /\ now \in Int /\ now' \in Int
    BY <2>1, <2>3, BoundAssumption DEF LInv, CInv, IInv, TypeOK, Booking, Time
  <2>6. rows[x].start > now
    BY <2>1, <2>2, <2>5
  <2> QED  BY <2>1, <2>2, <2>4, <2>6 DEF Upcoming, Open
<1>2. Upcoming(c, a)' \subseteq Upcoming(c, a)
  BY <1>1
<1> QED  BY <1>2, UpcomingFinite, FS_Subset

(* ... and who could book still can. *)
LEMMA MilderCanBook ==
    ASSUME LInv, Milder, now' \in Time, now <= now', IsFiniteSet(Appt),
           NEW c, NEW s, NEW e, NEW a, CustomerCanBook(c, s, e, a)
    PROVE  CustomerCanBook(c, s, e, a)'
<1>1. Cardinality(Upcoming(c, a)') < PublicLimit
  BY BoundAssumption, MilderUpcoming, UpcomingFinite DEF CustomerCanBook
<1>2. ASSUME NEW x \in Appt \ {a}
      PROVE  ~ (Occupies(rows'[x]) /\ rows'[x].customer = c /\ Overlap(rows'[x], s, e))
  <2> SUFFICES ASSUME Occupies(rows'[x]), rows'[x].customer = c, Overlap(rows'[x], s, e)
               PROVE  FALSE
    OBVIOUS
  <2>1. Occupies(rows[x]) /\ Overlap(rows[x], s, e)
    BY DEF Milder, Overlap
  <2>2. rows[x].customer = c
    BY <2>1 DEF Milder, Occupies, Gone, NoRow
  <2> QED  BY <2>1, <2>2 DEF CustomerCanBook
<1> QED  BY <1>1, <1>2 DEF CustomerCanBook

(* The limits survive such a step. *)
LEMMA MilderLimits ==
    ASSUME LInv, Milder, now' \in Time, now <= now', IsFiniteSet(Appt)
    PROVE  CustomerWithinLimits'
<1> SUFFICES ASSUME NEW c \in Customer
             PROVE  /\ \A a1, a2 \in Appt :
                          /\ a1 # a2
                          /\ Occupies(rows'[a1]) /\ rows'[a1].customer = c
                          /\ Occupies(rows'[a2]) /\ rows'[a2].customer = c
                          => ~ Overlap(rows'[a1], rows'[a2].start, rows'[a2].end)
                    /\ Cardinality(Upcoming(c, None)') <= PublicLimit
  BY DEF CustomerWithinLimits
<1>1. \A x \in Appt : Occupies(rows'[x]) /\ rows'[x].customer = c =>
         /\ Occupies(rows[x]) /\ rows[x].customer = c
         /\ rows'[x].start = rows[x].start /\ rows'[x].end = rows[x].end
  BY DEF Milder, Occupies, Gone, NoRow
<1>2. Cardinality(Upcoming(c, None)) <= PublicLimit
  BY DEF LInv, CustomerWithinLimits
<1>3. Cardinality(Upcoming(c, None)') <= PublicLimit
  BY <1>2, MilderUpcoming, UpcomingFinite, BoundAssumption
<1>4. \A a1, a2 \in Appt :
         /\ a1 # a2
         /\ Occupies(rows[a1]) /\ rows[a1].customer = c
         /\ Occupies(rows[a2]) /\ rows[a2].customer = c
         => ~ Overlap(rows[a1], rows[a2].start, rows[a2].end)
  BY DEF LInv, CustomerWithinLimits
<1> QED  BY <1>1, <1>3, <1>4 DEF Overlap
(* A step that gives no row more of a customer's time keeps the invariant   *)
(* if it leaves the other requests and their locks alone, its own request   *)
(* holds the phone's lock where it must, and comes past the check of the    *)
(* customer only when that check succeeds.                                  *)
LEMMA QuietLimits ==
    ASSUME LInv, CInv', IsFiniteSet(Appt), NEW r,
           [MovesAlone]_vars, Milder, now' \in Time, now <= now',
           \A q \in Request : q # r => pc'[q] = pc[q] /\ job'[q] = job[q],
           \A c \in Customer, q \in Request : q # r /\ phoneLock[c] = q => phoneLock'[c] = q,
           r \in Request =>
               /\ pc'[r] # "idle" =>
                     /\ job'[r].op # "create"
                     /\ pc'[r] = "settle" => job'[r].op \in {"update", "delete"}
                     /\ job'[r].op = "update" => HandsOver(job'[r].put)
                     /\ job'[r].op = "reschedule" =>
                           /\ Moves(job'[r].put)
                           /\ rows'[job'[r].appt].customer = job'[r].snap.customer
               /\ job'[r].op = "public" /\ pc'[r] \notin {"idle", "phone"}
                     => phoneLock'[Want(r)'.customer] = r
               /\ Checked(r)' =>
                     \/ Checked(r) /\ job'[r] = job[r]
                     \/ /\ UNCHANGED <<job, rows, now>>
                        /\ CustomerCanBook(Want(r).customer, Want(r).start, Want(r).end,
                                           job[r].appt)
    PROVE  LInv'
<1>1. ASSUME NEW q \in Request, q # r
      PROVE  /\ pc'[q] = pc[q] /\ job'[q] = job[q] /\ Want(q)' = Want(q)
             /\ Checked(q)' = Checked(q)
  BY <1>1 DEF Want, Checked
<1>2. BodiesFit'
  <2> SUFFICES ASSUME NEW q \in Request, q # r, pc'[q] # "idle"
               PROVE  /\ job'[q].op # "create"
                      /\ pc'[q] = "settle" => job'[q].op \in {"update", "delete"}
                      /\ job'[q].op = "update" => HandsOver(job'[q].put)
                      /\ job'[q].op = "reschedule" =>
                            /\ Moves(job'[q].put)
                            /\ rows'[job'[q].appt].customer = job'[q].snap.customer
    BY DEF BodiesFit
  <2>1. /\ job[q].op # "create"
        /\ pc[q] = "settle" => job[q].op \in {"update", "delete"}
        /\ job[q].op = "update" => HandsOver(job[q].put)
        /\ job[q].op = "reschedule" =>
              Moves(job[q].put) /\ rows[job[q].appt].customer = job[q].snap.customer
    BY <1>1 DEF LInv, BodiesFit
  <2>2. job[q].op = "reschedule" => job[q].appt \in Appt /\ rows[job[q].appt] # NoRow
    BY <1>1, NoRowNotBooking
    DEF LInv, CInv, IInv, JobsFit, JobFits, CreateFits, ChangeFits, Creates
  <2> QED  BY <1>1, <2>1, <2>2 DEF Milder
<1>3. PhoneLocked'
  <2> SUFFICES ASSUME NEW q \in Request, q # r, job'[q].op = "public",
                      pc'[q] \notin {"idle", "phone"}
               PROVE  phoneLock'[Want(q)'.customer] = q
    BY DEF PhoneLocked
  <2>1. phoneLock[Want(q).customer] = q
    BY <1>1 DEF LInv, PhoneLocked
  <2>2. Want(q).customer \in Customer
    BY <1>1, WantTyped DEF LInv, CInv, Booking
  <2> QED  BY <1>1, <2>1, <2>2
<1>4. Alone'
  BY DEF LInv, Alone, MovesAlone, vars, OfOneCustomer, Want
<1>5. StillCanBook'
  <2> SUFFICES ASSUME NEW q \in Request, Checked(q)'
               PROVE  CustomerCanBook(Want(q).customer, Want(q).start, Want(q).end,
                                      job[q].appt)'
    BY DEF StillCanBook
  <2>1. CASE Checked(q) /\ job'[q] = job[q]
    <3>1. Want(q)' = Want(q)
      BY <2>1 DEF Want
    <3>2. CustomerCanBook(Want(q).customer, Want(q).start, Want(q).end, job[q].appt)
      BY <2>1 DEF LInv, StillCanBook
    <3> DEFINE c == Want(q).customer  s == Want(q).start  e == Want(q).end  a == job[q].appt
    <3>3. CustomerCanBook(c, s, e, a)
      BY <3>2
    <3>4. c' = c /\ s' = s /\ e' = e /\ a' = a
      BY <2>1, <3>1
    <3> HIDE DEF c, s, e, a
    <3>5. PICK cc, ss, ee, aa : cc = c /\ ss = s /\ ee = e /\ aa = a
      OBVIOUS
    <3>6. CustomerCanBook(cc, ss, ee, aa)
      BY <3>3, <3>5
    <3>7. CustomerCanBook(cc, ss, ee, aa)'
      BY <3>6, MilderCanBook
    <3> QED  BY <3>4, <3>5, <3>7 DEF CustomerCanBook, Upcoming, c, s, e, a
  <2>2. CASE q = r /\ ~ (Checked(q) /\ job'[q] = job[q])
    BY <2>2 DEF CustomerCanBook, Upcoming, Want
  <2> QED  BY <1>1, <2>1, <2>2
<1>6. CustomerWithinLimits'
  BY MilderLimits
<1> QED  BY <1>2, <1>3, <1>4, <1>5, <1>6 DEF LInv
----------------------------------------------------------------------------
(* The write of a booking or of a move *)

(* What the write of a request leaves in its row *)
LEMMA WrittenRow ==
    ASSUME LInv, NEW r \in Request, Write(r)
    PROVE  \/ /\ job[r].op \in {"public", "reschedule"}
              /\ Occupies(rows'[job[r].appt])
              /\ rows'[job[r].appt].customer = Want(r).customer
              /\ rows'[job[r].appt].start = Want(r).start
              /\ rows'[job[r].appt].end = Want(r).end
              /\ rows[job[r].appt] # NoRow => rows[job[r].appt].customer = Want(r).customer
           \/ Milder
<1> USE DEF LInv, CInv
<1> DEFINE a == job[r].appt
<1>1. /\ a \in Appt /\ \A x \in Appt : x # a => rows'[x] = rows[x]
      /\ pc[r] = "write" /\ JobFits(job[r], pc[r]) /\ job[r] \in Job
      /\ Occupies(rows'[a]) =>
            rows'[a] = rows[a] \/ (Schedules(job[r]) /\ SamePlace(rows'[a], Want(r)))
  BY WrittenPlace DEF Write, IInv, JobsFit, TypeOK
<1>2. CASE ~ Writable(r)
  BY <1>1, <1>2 DEF Write, Milder
<1>3. CASE Writable(r) /\ job[r].op = "delete"
  BY <1>1, <1>3
     DEF Write, JobFits, CreateFits, ChangeFits, Creates, SetStatus, IInv, TypeOK,
         Booking, Milder, Occupies, Gone, Open
<1>4. CASE Writable(r) /\ job[r].op # "delete"
  <2>1. rows'[a] = Merge(rows[a], job[r].put)
    BY <1>1, <1>4 DEF Write, IInv, TypeOK
  <2>2. CASE job[r].op = "update"
    BY <1>1, <2>2, <2>1
       DEF BodiesFit, Merge, Default, HandsOver, Milder, Occupies, Gone, Open
  <2>3. CASE job[r].op = "public"
    BY <1>1, <2>3, <2>1, OpenOccupies
       DEF JobFits, ChangeFits, Changes, CreateFits, Want, Milder
  <2>4. CASE job[r].op = "reschedule"
    <3>1. Moves(job[r].put) /\ rows[a].customer = job[r].snap.customer
      BY <1>1, <2>4 DEF BodiesFit
    <3>2. /\ rows'[a].customer = rows[a].customer /\ rows'[a].status = rows[a].status
          /\ Want(r).customer = rows[a].customer
      BY <2>1, <3>1 DEF Merge, Default, Moves, Want
    <3>3. rows[a].status = "CONFIRMED"
      BY <1>4, <2>4 DEF Writable
    <3>4. Occupies(rows'[a])
      BY <3>2, <3>3 DEF Occupies, Gone
    <3>5. CASE rows'[a] = rows[a]
      BY <1>1, <3>5 DEF Milder
    <3>6. CASE SamePlace(rows'[a], Want(r))
      BY <2>4, <3>2, <3>4, <3>6 DEF SamePlace
    <3> QED  BY <1>1, <3>4, <3>5, <3>6
  <2>5. job[r].op \in {"update", "public", "reschedule"}
    BY <1>1, <1>4 DEF BodiesFit, JobFits, CreateFits, ChangeFits, Creates, Changes
  <2> QED  BY <2>2, <2>3, <2>4, <2>5
<1> QED  BY <1>2, <1>3, <1>4

(* Two requests that book or move past their check are not of one customer. *)
LEMMA ApartCustomers ==
    ASSUME LInv, NEW r \in Request, NEW q \in Request, q # r,
           job[r].op \in {"public", "reschedule"}, pc[r] = "write", Checked(q)
    PROVE  Want(q).customer # Want(r).customer
BY DEF LInv, PhoneLocked, Checked, Alone, OfOneCustomer

(* One element adds at most one to a finite set. *)
LEMMA OneMore ==
    ASSUME NEW S, IsFiniteSet(S), NEW x
    PROVE  /\ IsFiniteSet(S \cup {x}) /\ Cardinality(S \cup {x}) \in Nat
           /\ Cardinality(S \cup {x}) <= Cardinality(S) + 1
<1>1. Cardinality(S) \in Nat
  BY FS_CardinalityType
<1>2. /\ IsFiniteSet(S \cup {x})
      /\ Cardinality(S \cup {x}) = IF x \in S THEN Cardinality(S) ELSE Cardinality(S) + 1
  BY FS_AddElement
<1> QED  BY <1>1, <1>2

(* A booking or a move is written where its customer could still book.      *)
LEMMA WriteLimits ==
    ASSUME LInv, CInv', IsFiniteSet(Appt), NEW r \in Request, Write(r), [MovesAlone]_vars,
           job[r].op \in {"public", "reschedule"},
           Occupies(rows'[job[r].appt]),
           rows'[job[r].appt].customer = Want(r).customer,
           rows'[job[r].appt].start = Want(r).start,
           rows'[job[r].appt].end = Want(r).end,
           rows[job[r].appt] # NoRow => rows[job[r].appt].customer = Want(r).customer
    PROVE  LInv'
<1> USE DEF LInv, CInv
<1> DEFINE a == job[r].appt
           w == Want(r)
<1>1. /\ a \in Appt /\ \A x \in Appt : x # a => rows'[x] = rows[x]
      /\ pc[r] = "write" /\ Finish(r) /\ now' = now
  BY WrittenPlace DEF Write, Finish
<1>2. /\ pc'[r] = "idle"
      /\ \A q \in Request : q # r => pc'[q] = pc[q] /\ job'[q] = job[q]
      /\ job'[r].op = "none"
  BY <1>1, FinishKeepsOthers DEF Finish, IInv, TypeOK, NoJob
<1>3. \A c \in Customer, q \in Request : q # r /\ phoneLock[c] = q => phoneLock'[c] = q
  BY <1>1 DEF Finish, EndTransaction, Released, IInv, TypeOK
<1>4. ASSUME NEW q \in Request, q # r
      PROVE  Want(q)' = Want(q) /\ Checked(q)' = Checked(q)
  BY <1>2, <1>4 DEF Want, Checked
<1>5. CustomerCanBook(w.customer, w.start, w.end, a)
  BY <1>1 DEF StillCanBook, Checked
<1>6. BodiesFit'
  <2> SUFFICES ASSUME NEW q \in Request, q # r, pc'[q] # "idle"
               PROVE  /\ job'[q].op # "create"
                      /\ pc'[q] = "settle" => job'[q].op \in {"update", "delete"}
                      /\ job'[q].op = "update" => HandsOver(job'[q].put)
                      /\ job'[q].op = "reschedule" =>
                            /\ Moves(job'[q].put)
                            /\ rows'[job'[q].appt].customer = job'[q].snap.customer
    BY <1>2 DEF BodiesFit
  <2>1. job[q].appt \in Appt /\ job[q].appt # a
    BY <1>1, <1>2 DEF IInv, OneRequestPerRow, JobsFit, JobFits
  <2> QED  BY <1>1, <1>2, <2>1 DEF BodiesFit
<1>7. PhoneLocked'
  <2> SUFFICES ASSUME NEW q \in Request, job'[q].op = "public", pc'[q] \notin {"idle", "phone"}
               PROVE  phoneLock'[Want(q)'.customer] = q
    BY DEF PhoneLocked
  <2>1. q # r
    BY <1>2
  <2>2. phoneLock[Want(q).customer] = q /\ Want(q).customer \in Customer
    BY <1>2, <2>1, WantTyped DEF PhoneLocked, Booking
  <2> QED  BY <1>3, <1>4, <2>1, <2>2
<1>8. Alone'
  BY DEF Alone, MovesAlone, vars, OfOneCustomer, Want
<1>9. StillCanBook'
  <2> SUFFICES ASSUME NEW q \in Request, Checked(q)'
               PROVE  CustomerCanBook(Want(q).customer, Want(q).start, Want(q).end,
                                      job[q].appt)'
    BY DEF StillCanBook
  <2>1. q # r /\ Checked(q) /\ job'[q] = job[q] /\ Want(q)' = Want(q)
    BY <1>2, <1>4 DEF Checked
  <2>2. Want(q).customer # w.customer
    BY <1>1, <2>1, ApartCustomers
  <2>3. CustomerCanBook(Want(q).customer, Want(q).start, Want(q).end, job[q].appt)
    BY <2>1 DEF StillCanBook
  <2>4. \A x \in Appt : rows'[x].customer = Want(q).customer => rows'[x] = rows[x]
    BY <1>1, <2>2
  <2>5. Cardinality(Upcoming(Want(q).customer, job[q].appt)') < PublicLimit
    <3>1. Upcoming(Want(q).customer, job[q].appt)' \subseteq Upcoming(Want(q).customer, job[q].appt)
      BY <1>1, <2>1, <2>4 DEF Upcoming
    <3>2. Upcoming(Want(q).customer, job[q].appt) \subseteq Appt
      BY DEF Upcoming
    <3>3. IsFiniteSet(Upcoming(Want(q).customer, job[q].appt))
      BY <3>2, FS_Subset
    <3>4. /\ Cardinality(Upcoming(Want(q).customer, job[q].appt)')
                <= Cardinality(Upcoming(Want(q).customer, job[q].appt))
          /\ IsFiniteSet(Upcoming(Want(q).customer, job[q].appt)')
      BY <3>1, <3>3, FS_Subset
    <3>5. /\ Cardinality(Upcoming(Want(q).customer, job[q].appt)) \in Nat
          /\ Cardinality(Upcoming(Want(q).customer, job[q].appt)') \in Nat
      BY <3>3, <3>4, FS_CardinalityType
    <3>6. Cardinality(Upcoming(Want(q).customer, job[q].appt)) < PublicLimit
      BY <2>3 DEF CustomerCanBook
    <3> QED  BY <3>4, <3>5, <3>6, BoundAssumption
  <2>6. \A x \in Appt \ {job[q].appt} :
           ~ (/\ Occupies(rows'[x]) /\ rows'[x].customer = Want(q).customer
              /\ Overlap(rows'[x], Want(q).start, Want(q).end))
    BY <2>3, <2>4 DEF CustomerCanBook
  <2> QED  BY <2>1, <2>5, <2>6 DEF CustomerCanBook
<1>10. CustomerWithinLimits'
  <2> SUFFICES ASSUME NEW c \in Customer
               PROVE  /\ \A a1, a2 \in Appt :
                            /\ a1 # a2
                            /\ Occupies(rows'[a1]) /\ rows'[a1].customer = c
                            /\ Occupies(rows'[a2]) /\ rows'[a2].customer = c
                            => ~ Overlap(rows'[a1], rows'[a2].start, rows'[a2].end)
                      /\ Cardinality(Upcoming(c, None)') <= PublicLimit
    BY DEF CustomerWithinLimits
  <2>1. \A a1, a2 \in Appt :
           /\ a1 # a2
           /\ Occupies(rows[a1]) /\ rows[a1].customer = c
           /\ Occupies(rows[a2]) /\ rows[a2].customer = c
           => ~ Overlap(rows[a1], rows[a2].start, rows[a2].end)
    BY DEF CustomerWithinLimits
  <2>2. \A x \in Appt \ {a} :
           ~ (Occupies(rows[x]) /\ rows[x].customer = w.customer /\ Overlap(rows[x], w.start, w.end))
    BY <1>5 DEF CustomerCanBook
  <2>3. ASSUME NEW a1 \in Appt, NEW a2 \in Appt, a1 # a2,
               Occupies(rows'[a1]), rows'[a1].customer = c,
               Occupies(rows'[a2]), rows'[a2].customer = c
        PROVE  ~ Overlap(rows'[a1], rows'[a2].start, rows'[a2].end)
    BY <1>1, <2>1, <2>3, <2>2 DEF Overlap
  <2>4. CASE c = w.customer
    <3>1. Upcoming(c, None)' \subseteq Upcoming(c, a) \cup {a}
      BY <1>1, <2>4 DEF Upcoming
    <3>2. /\ IsFiniteSet(Upcoming(c, a)) /\ Cardinality(Upcoming(c, a)) \in Nat
          /\ Cardinality(Upcoming(c, None)') \in Nat
      BY UpcomingFinite
    <3>3. /\ IsFiniteSet(Upcoming(c, a) \cup {a}) /\ Cardinality(Upcoming(c, a) \cup {a}) \in Nat
          /\ Cardinality(Upcoming(c, a) \cup {a}) <= Cardinality(Upcoming(c, a)) + 1
      BY <3>2, OneMore
    <3>4. Cardinality(Upcoming(c, None)') <= Cardinality(Upcoming(c, a) \cup {a})
      BY <3>1, <3>3, FS_Subset
    <3>6. Cardinality(Upcoming(c, a)) < PublicLimit
      BY <1>5, <2>4 DEF CustomerCanBook
    <3> QED  BY <2>3, <3>2, <3>3, <3>4, <3>6, BoundAssumption
  <2>5. CASE c # w.customer
    <3>1. Upcoming(c, None)' \subseteq Upcoming(c, None)
      BY <1>1, <2>5 DEF Upcoming
    <3>2. Cardinality(Upcoming(c, None)') <= Cardinality(Upcoming(c, None))
      BY <3>1, UpcomingFinite, FS_Subset
    <3>3. Cardinality(Upcoming(c, None)) <= PublicLimit
      BY DEF CustomerWithinLimits
    <3> QED  BY <2>3, <3>2, <3>3, UpcomingFinite, BoundAssumption
  <2> QED  BY <2>4, <2>5
<1> QED  BY <1>6, <1>7, <1>8, <1>9, <1>10
----------------------------------------------------------------------------
(* The other steps *)

(* No step of a request takes another request's phone lock away, and only   *)
(* LockPhone takes one.                                                     *)
LEMMA PhoneLocksKept ==
    ASSUME LInv, NEW r \in Request,
           \/ Start(r) \/ Advance(r) \/ LockPhone(r) \/ LockPerson(r) \/ LockResource(r)
    PROVE  /\ \A c \in Customer, q \in Request : q # r /\ phoneLock[c] = q => phoneLock'[c] = q
           /\ now' = now
<1> USE DEF LInv, CInv, IInv, TypeOK
<1>1. ASSUME EndTransaction(r)
      PROVE  \A c \in Customer, q \in Request : q # r /\ phoneLock[c] = q => phoneLock'[c] = q
  BY <1>1 DEF EndTransaction, Released
<1>2. CASE Start(r)
  BY <1>2, StartBegins DEF Begin, locks
<1>3. CASE Advance(r)
  BY <1>1, <1>3 DEF Advance, SettlePaid, SettleReleased, SettleFails, CheckCustomer,
     CheckSucceeds, CheckFails, Write, Finish, locks
<1>4. CASE LockPhone(r)
  BY <1>4, NoneAssumption DEF LockPhone
<1>5. CASE LockPerson(r) \/ LockResource(r)
  BY <1>5 DEF LockPerson, LockResource
<1> QED  BY <1>2, <1>3, <1>4, <1>5

(* A request arrives with a body it may write. *)
LEMMA StartLimits ==
    ASSUME LInv, CInv', PublicOnly, NEW r \in Request, Start(r), [MovesAlone]_vars
    PROVE  LInv'
<1> USE DEF LInv, CInv, IInv, TypeOK
<1>1. \E step, j : /\ Begin(r, step, j)
                   /\ step \in {"person", "phone", "settle", "write", "customer"}
                   /\ j.op # "create"
                   /\ step = "settle" => j.op \in {"update", "delete"}
                   /\ j.op = "update" => HandsOver(j.put)
                   /\ j.op = "reschedule" =>
                         Moves(j.put) /\ rows[j.appt].customer = j.snap.customer
                   /\ j.op = "public" => step = "phone"
                   /\ j.op = "reschedule" => step = "customer"
  <2>1. CASE CreateAppointment(r)
    BY <2>1 DEF PublicOnly, CreateAppointment, Arrives
  <2>2. CASE CreatePublicAppointment(r)
    <3>1. PICK j : Begin(r, "phone", j) /\ j.op = "public"
      BY <2>2 DEF CreatePublicAppointment
    <3> QED  BY <3>1
  <2>3. CASE UpdateAppointment(r)
    <3>1. PICK a \in Appt, body \in Edits :
        LET put == KeepDuration(body, rows[a])
        IN  Begin(r, IF /\ rows[a].status = "PENDING_PAYMENT"
                        /\ put.status \notin {None, "PENDING_PAYMENT"}
                     THEN "settle" ELSE EntryStep(Merge(rows[a], put)),
                  [op |-> "update", appt |-> a, snap |-> rows[a], put |-> put, free |-> {}])
      BY <2>3 DEF UpdateAppointment
    <3>2. HandsOver(KeepDuration(body, rows[a]))
      BY DEF PublicOnly, KeepDuration, HandsOver
    <3> QED  BY <3>1, <3>2 DEF EntryStep
  <2>4. CASE RescheduleManagedAppointment(r)
    <3>1. PICK a \in Appt, s \in Time :
        Begin(r, "customer",
              [op |-> "reschedule", appt |-> a, snap |-> rows[a], free |-> {},
               put |-> MoveTo(s, s + (rows[a].end - rows[a].start))])
      BY <2>4 DEF RescheduleManagedAppointment
    <3> QED  BY <3>1 DEF MoveTo, Moves
  <2>5. CASE DeleteAppointment(r)
    <3>1. PICK a \in Appt :
        Begin(r, IF rows[a].status = "PENDING_PAYMENT" THEN "settle" ELSE "write",
              [op |-> "delete", appt |-> a, snap |-> rows[a], put |-> NoEdit, free |-> {}])
      BY <2>5 DEF DeleteAppointment
    <3> QED  BY <3>1
  <2> QED  BY <2>1, <2>2, <2>3, <2>4, <2>5 DEF Start
<1>2. PICK step, j : /\ Begin(r, step, j)
                     /\ step \in {"person", "phone", "settle", "write", "customer"}
                     /\ j.op # "create"
                     /\ step = "settle" => j.op \in {"update", "delete"}
                     /\ j.op = "update" => HandsOver(j.put)
                     /\ j.op = "reschedule" =>
                           Moves(j.put) /\ rows[j.appt].customer = j.snap.customer
                     /\ j.op = "public" => step = "phone"
                     /\ j.op = "reschedule" => step = "customer"
  BY <1>1
<1>3. /\ pc'[r] = step /\ job'[r] = j /\ UNCHANGED <<rows, now, phoneLock>>
      /\ \A q \in Request : q # r => pc'[q] = pc[q] /\ job'[q] = job[q]
  BY <1>2 DEF Begin, locks
<1>4. Milder /\ now' \in Time /\ now <= now'
  BY <1>3, BoundAssumption DEF Milder, Time
<1>5. ~ Checked(r)'
  BY <1>2, <1>3 DEF Checked
<1> QED
  <2> USE DEF PublicOnly
  <2> HIDE DEF LInv, CInv, IInv, TypeOK
  <2> QED  BY <1>2, <1>3, <1>4, <1>5, QuietLimits
(* A request that ends without giving its row more time keeps the limits.   *)
LEMMA FinishLimits ==
    ASSUME LInv, CInv', IsFiniteSet(Appt), NEW r \in Request, Finish(r), Milder,
           [MovesAlone]_vars,
           \A c \in Customer, q \in Request : q # r /\ phoneLock[c] = q => phoneLock'[c] = q
    PROVE  LInv'
BY FinishKeepsOthers, BoundAssumption, QuietLimits
   DEF LInv, CInv, IInv, TypeOK, Finish, NoJob, Time, Checked

(* A request that only moves on keeps the limits, if it enters the part     *)
(* past the check of its customer through that check.                       *)
LEMMA GotoLimits ==
    ASSUME LInv, CInv', IsFiniteSet(Appt), NEW r \in Request, NEW step, step # "settle",
           pc[r] # "idle", Goto(r, step), UNCHANGED <<rows, job, now>>, [MovesAlone]_vars,
           \A c \in Customer, q \in Request : q # r /\ phoneLock[c] = q => phoneLock'[c] = q,
           job[r].op = "public" /\ step # "phone" => phoneLock'[Want(r).customer] = r,
           Checked(r)' => \/ Checked(r)
                          \/ CustomerCanBook(Want(r).customer, Want(r).start, Want(r).end,
                                             job[r].appt)
    PROVE  LInv'
BY BoundAssumption, QuietLimits
   DEF Goto, LInv, CInv, IInv, TypeOK, Milder, Time, BodiesFit, Want

(* The steps of a request before its write *)
LEMMA AdvanceLimits ==
    ASSUME LInv, CInv', IsFiniteSet(Appt), NEW r \in Request, [MovesAlone]_vars,
           \/ SettlePaid(r) \/ SettleReleased(r) \/ SettleFails(r) \/ LockPhone(r)
           \/ CheckCustomer(r) \/ LockPerson(r) \/ LockResource(r) \/ CheckSucceeds(r)
           \/ CheckFails(r)
    PROVE  LInv'
<1>0. /\ \A c \in Customer, q \in Request : q # r /\ phoneLock[c] = q => phoneLock'[c] = q
      /\ now' = now /\ now' \in Time /\ now <= now'
      /\ \A q \in Request : q # r => pc'[q] = pc[q] /\ job'[q] = job[q]
  BY PhoneLocksKept, OwnStep, BoundAssumption DEF Advance, LInv, CInv, IInv, TypeOK, Time
<1>1. CASE UNCHANGED rows /\ Finish(r)
  BY <1>1, <1>0, FinishLimits DEF Milder
<1>2. CASE SettlePaid(r)
  <2>1. Milder
    <3>1. LInv => CInv
      BY DEF LInv
    <3>2. /\ \A x \in Appt : x # job[r].appt => rows'[x] = rows[x]
          /\ job[r].appt \in Appt /\ rows[job[r].appt] \in Booking
          /\ rows'[job[r].appt].start = rows[job[r].appt].start
          /\ rows'[job[r].appt].end = rows[job[r].appt].end
          /\ Occupies(rows'[job[r].appt]) => Occupies(rows[job[r].appt])
      BY <1>2, <3>1, SettlePaidKeepsPlace DEF SamePlace
    <3>3. rows'[job[r].appt].customer = rows[job[r].appt].customer
      BY <1>2, <3>2 DEF SettlePaid, SetStatus, LInv, CInv, IInv, TypeOK, Booking
    <3> QED  BY <1>2, <3>2, <3>3 DEF Milder, SettlePaid, Open
  <2>2. CASE Finish(r)
    BY <1>0, <2>1, <2>2, FinishLimits
  <2>3. CASE ~ Finish(r)
    <3>1. /\ job'[r].op = job[r].op /\ job'[r].put = job[r].put
          /\ pc'[r] \in {"person", "write"}
          /\ job[r].op = "update" /\ HandsOver(job[r].put)
      BY <1>2, <2>3 DEF SettlePaid, Goto, EntryStep, LInv, CInv, IInv, TypeOK, Job, BodiesFit
    <3>2. ~ Checked(r)'
      BY <3>1 DEF Checked
    <3> QED  BY <1>0, <2>1, <3>1, <3>2, QuietLimits
  <2> QED  BY <2>2, <2>3
<1>3. CASE CheckFails(r) /\ ~ Finish(r)
  <2>1. PICK b \in job[r].free :
           /\ job' = [job EXCEPT ![r].put.barber = b, ![r].free = @ \ {b}]
           /\ Goto(r, "phone")
    BY <1>3 DEF CheckFails
  <2>2. /\ UNCHANGED rows /\ pc'[r] = "phone" /\ job'[r].op = job[r].op
        /\ job[r].op = "public"
    BY <1>3, <2>1 DEF CheckFails, Goto, LInv, CInv, IInv, TypeOK, Job, JobsFit, JobFits
  <2>3. Milder /\ ~ Checked(r)'
    BY <2>2 DEF Milder, Checked
  <2> QED  BY <1>0, <2>2, <2>3, QuietLimits
<1>4. CASE SettleReleased(r)
  <2> DEFINE step == IF job[r].op = "delete" THEN "write" ELSE EntryStep(Want(r))
  <2>1. /\ Goto(r, step) /\ UNCHANGED <<rows, job>> /\ pc[r] # "idle"
        /\ step \in {"person", "write"} /\ job[r].op \in {"update", "delete"}
    BY <1>4 DEF SettleReleased, EntryStep, LInv, BodiesFit
  <2>2. ~ Checked(r)'
    BY <2>1 DEF Checked
  <2> HIDE DEF step
  <2> QED  BY <1>0, <2>1, <2>2, GotoLimits
<1>5. CASE LockPhone(r)
  BY <1>5, WantTyped, <1>0, GotoLimits, ZenonT(60)
     DEF LockPhone, LInv, CInv, Booking, IInv, TypeOK, Checked, Goto
<1>6. CASE CheckCustomer(r) /\ ~ Finish(r)
  BY <1>6, <1>0, GotoLimits DEF CheckCustomer, locks, LInv, PhoneLocked
<1>7. ASSUME NEW step \in {"resource", "check", "write"}, Goto(r, step),
             UNCHANGED <<rows, job, phoneLock>>, pc[r] \in {"person", "resource", "check"}
      PROVE  LInv'
  BY <1>7, <1>0, GotoLimits DEF LInv, PhoneLocked, Checked
<1>8. CASE LockPerson(r) \/ LockResource(r) \/ CheckSucceeds(r)
  BY <1>7, <1>8 DEF LockPerson, LockResource, CheckSucceeds, locks
<1> QED
  BY <1>1, <1>2, <1>3, <1>4, <1>5, <1>6, <1>8
  DEF SettleFails, CheckCustomer, CheckFails

----------------------------------------------------------------------------
(* The theorem *)

(* The invariant holds initially. *)
LEMMA InitLInv == PublicOnly /\ Init => LInv
<1> SUFFICES ASSUME PublicOnly, Init  PROVE LInv
  OBVIOUS
<1>1. CInv
  BY InitCInv DEF PublicOnly
<1>2. \A r \in Request : pc[r] = "idle" /\ job[r].op = "none"
  BY DEF Init, NoJob
<1>3. BodiesFit /\ PhoneLocked /\ Alone /\ StillCanBook
  BY <1>2 DEF BodiesFit, PhoneLocked, Alone, StillCanBook, Checked
<1>4. CustomerWithinLimits
  <2>1. \A x \in Appt : ~ Occupies(rows[x]) /\ rows[x].status \notin Open
    BY DEF Init, NoRow, Occupies, Gone, Open
  <2>2. \A c : Upcoming(c, None) = {}
    BY <2>1 DEF Upcoming, Open
  <2>3. Cardinality({}) = 0
    BY FS_EmptySet
  <2> QED  BY <2>1, <2>2, <2>3, BoundAssumption DEF CustomerWithinLimits
<1> QED  BY <1>1, <1>3, <1>4 DEF LInv

(* Every step keeps the invariant. *)
LEMMA NextLInv == PublicOnly /\ LInv /\ [Next]_vars /\ [MovesAlone]_vars => LInv'
<1> SUFFICES ASSUME PublicOnly, LInv, [Next]_vars, [MovesAlone]_vars  PROVE LInv'
  OBVIOUS
<1>1. CInv' /\ IsFiniteSet(Appt)
  BY NextCInv DEF LInv, PublicOnly
<1>2. ASSUME NEW r \in Request, Start(r)  PROVE LInv'
  BY <1>1, <1>2, StartLimits
<1>3. ASSUME NEW r \in Request, Write(r)  PROVE LInv'
  BY <1>3, PhoneLocksKept, <1>1, FinishLimits, WrittenRow, WriteLimits DEF Write, Advance
<1>4. ASSUME NEW r \in Request,
             Advance(r) \/ LockPhone(r) \/ LockPerson(r) \/ LockResource(r), ~ Write(r)
      PROVE  LInv'
  BY <1>1, <1>4, AdvanceLimits DEF Advance
<1>5. ASSUME UNCHANGED <<pc, job, phoneLock>>, Milder, now' \in Time, now <= now'
      PROVE  LInv'
  BY NoneAssumption, <1>1, <1>5, QuietLimits
<1>6. ASSUME NEW a \in Appt, NEW handler, NEW from \in Open, NEW to \in {"CONFIRMED", "CANCELLED"},
             MoveStatus(handler, a, from, to)
      PROVE  LInv'
  BY <1>6, OpenOccupies, <1>5, BoundAssumption
     DEF MoveStatus, locks, LInv, CInv, IInv, TypeOK, NoRow, Open, SetStatus, Booking,
         Milder, Time
<1>7. ASSUME NEW a \in Appt,
             \/ CancelManagedAppointment(a) \/ CancelFromHere(a) \/ CancelAffected(a)
             \/ ConfirmPaidHold(a) \/ ReleaseUnpaidHold(a)
      PROVE  LInv'
  BY <1>6, <1>7
  DEF CancelManagedAppointment, CancelFromHere, CancelAffected, ConfirmPaidHold,
      ReleaseUnpaidHold, Open
<1>8. CASE Tick \/ UNCHANGED vars
  BY <1>8, BoundAssumption, <1>5
     DEF Tick, vars, locks, LInv, CInv, IInv, TypeOK, Time, Milder
<1> QED  BY <1>2, <1>3, <1>4, <1>7, <1>8 DEF Next

(* However many tabs book at once, through the public page one customer     *)
(* holds no two appointments at the same time and at most PublicLimit       *)
(* upcoming ones.                                                           *)
THEOREM AgendaCustomerWithinLimits ==
    PublicOnly /\ Spec /\ [][MovesAlone]_vars => []CustomerWithinLimits
<1> SUFFICES ASSUME PublicOnly
             PROVE  Spec /\ [][MovesAlone]_vars => []CustomerWithinLimits
  OBVIOUS
<1>1. Init => LInv
  BY InitLInv
<1>2. LInv /\ [Next]_vars /\ [MovesAlone]_vars => LInv'
  BY NextLInv
<1>3. LInv => CustomerWithinLimits
  BY DEF LInv
<1> QED  BY <1>1, <1>2, <1>3, PTL DEF Spec
=============================================================================
