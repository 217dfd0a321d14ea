------------------------------ MODULE Customers -----------------------------
(***************************************************************************)
(* The customers of a network: their records, and the sheet that brings    *)
(* them.                                                                   *)
(***************************************************************************)
EXTENDS Integers, FiniteSets, Sequences

CONSTANTS
    Part,       \* the flow that is explored: "records", "sheet"
    Worker,
    None,
    RecId,
    EntryId,
    SubId,
    Ops,        \* which requests are made
    Faults,     \* "overlap": requests run together; "stripe": it may refuse
    Barber,     \* the name of each professional: a function to sets of words
    Sheet,      \* the lines of the sheet: phone, wanted, start, status
    CreatedAt,  \* when the agenda was opened, if it is of one person
    MaxTime,
    Overlap

VARIABLES
    rec,        \* phone, email (None: empty), linked, out, blocked, deleted, apart
    booked,     \* records with an appointment to come
    packs,      \* records with sessions left in a package
    entry,      \* the waiting list: record, status
    sub,        \* of the account: "none", "ACTIVE", "PAST_DUE", "ending", "CANCELED"
    suspended,  \* the account, by the platform
    req,        \* phone: known ones; line: next one; step; at
    now,
    customer,   \* telephones that have a record
    appt        \* the rows, a sequence: phone, barber, start, status, source

(***************************************************************************)
(* "records". The records of the customers of a network: telephones and    *)
(* e-mails that are unique, the record that is removed, the one that is    *)
(* blocked, with the club that is cancelled and the waiting list that is   *)
(* left, and the link to the one account of the model, whose e-mail and    *)
(* telephone are "e1" and "p1". A request checks and then writes.          *)
(***************************************************************************)

recordVars == <<rec, booked, packs, entry, sub, suspended, req>>

Phone == {"p1", "p2"}
Email == {"e1", "e2"}
RecordFree == [op |-> "free", rec |-> None, row |-> None, todo |-> {}, paid |-> FALSE]
RecordIdle == \A w \in Worker : req[w] = RecordFree
May(w, op) == req[w] = RecordFree /\ op \in Ops /\ (RecordIdle \/ "overlap" \in Faults)
Done(w) == req' = [req EXCEPT ![w] = RecordFree]

CustomerRow == [phone : Phone \cup {None}, email : Email \cup {None}, linked : BOOLEAN,
                out : BOOLEAN, blocked : BOOLEAN, deleted : BOOLEAN, apart : BOOLEAN]
New(p, e) == [phone |-> p, email |-> e, linked |-> FALSE, out |-> FALSE, blocked |-> FALSE, deleted |-> FALSE, apart |-> FALSE]

RecordInit ==
    /\ rec = [r \in RecId |-> None] /\ booked = {} /\ packs = {}
    /\ entry = [e \in EntryId |-> None] /\ sub = [s \in SubId |-> "none"]
    /\ suspended = FALSE /\ req = [w \in Worker |-> RecordFree]

Live == {r \in RecId : rec[r] # None /\ ~rec[r].deleted}

ByPhone(p) == {r \in Live : p # None /\ rec[r].phone = p}
ByEmail(e) == {r \in Live : e # None /\ rec[r].email = e}
First(S) == CHOOSE r \in S : \A q \in S : r <= q

PhoneFree(p, r) == ByPhone(p) \subseteq {r}

(* The account of a record: its link, or the same e-mail and telephone. *)
AccountOf(r) == rec[r].linked \/ (rec[r].email = "e1" /\ rec[r].phone = "p1")

(***************************************************************************)
(* The team: createCustomer, updateCustomer, deleteCustomer                *)
(***************************************************************************)

CreateCustomer(w, p, e) ==
    /\ May(w, "create") /\ (p # None \/ e # None)
    /\ PhoneFree(p, None) /\ ByEmail(e) = {}
    /\ req' = [req EXCEPT ![w] = [RecordFree EXCEPT !.op = "create", !.row = New(p, e)]]
    /\ UNCHANGED <<rec, booked, packs, entry, sub, suspended>>

WriteCustomer(w, r) ==
    /\ req[w].op = "create" /\ rec[r] = None
    /\ rec' = [rec EXCEPT ![r] = req[w].row] /\ Done(w)
    /\ UNCHANGED <<booked, packs, entry, sub, suspended>>

Unlinks(r, e) == rec[r].linked /\ e # "e1"

Update(w, r, f) ==
    /\ May(w, "update") /\ r \in Live
    /\ req' = [req EXCEPT ![w] = [RecordFree EXCEPT !.op = "update", !.rec = r, !.row = f]]
    /\ UNCHANGED <<booked, packs, entry, sub, suspended>>

UpdatePhone(w, r, p) == PhoneFree(p, r) /\ Update(w, r, [phone |-> p]) /\ UNCHANGED rec

UpdateEmail(w, r, e) ==
    /\ Update(w, r, IF rec[r] # None /\ Unlinks(r, e) THEN [email |-> e, linked |-> FALSE] ELSE [email |-> e])
    /\ UNCHANGED rec

(* who leaves, leaves with every record of the same e-mail or telephone *)
UpdateOptOut(w, r) ==
    /\ Update(w, r, [out |-> TRUE])
    /\ rec' = [q \in RecId |-> IF q \in ByEmail(rec[r].email) \cup ByPhone(rec[r].phone) THEN [rec[q] EXCEPT !.out = TRUE] ELSE rec[q]]

UpdateOptIn(w, r) == r \in Live /\ ~rec[r].out /\ Update(w, r, [out |-> FALSE]) /\ UNCHANGED rec

WriteUpdate(w) ==
    /\ req[w].op = "update"
    /\ LET f == req[w].row IN
       rec' = [rec EXCEPT ![req[w].rec] = [k \in DOMAIN @ |-> IF k \in DOMAIN f THEN f[k] ELSE @[k]]]
    /\ Done(w)
    /\ UNCHANGED <<booked, packs, entry, sub, suspended>>

MayDelete(r) == r \notin booked /\ r \notin packs

DeleteCustomer(w, r) ==
    /\ May(w, "delete") /\ r \in Live /\ MayDelete(r)
    /\ req' = [req EXCEPT ![w] = [RecordFree EXCEPT !.op = "delete", !.rec = r]]
    /\ UNCHANGED <<rec, booked, packs, entry, sub, suspended>>

WriteDelete(w) ==
    /\ req[w].op = "delete"
    /\ LET r == req[w].rec IN
       /\ rec' = [rec EXCEPT ![r] = [@ EXCEPT !.phone = None, !.email = None, !.linked = FALSE, !.out = TRUE, !.deleted = TRUE]]
       /\ entry' = [e \in EntryId |-> IF entry[e] # None /\ entry[e].rec = r THEN None ELSE entry[e]]
    /\ Done(w) /\ UNCHANGED <<booked, packs, sub, suspended>>

(* What the team adds to a record: ensureCustomerOfNetwork. *)
CounterBooks(r) ==
    /\ "delete" \in Ops /\ r \in Live /\ (RecordIdle \/ "overlap" \in Faults)
    /\ \/ booked' = booked \cup {r} /\ UNCHANGED packs
       \/ packs' = packs \cup {r} /\ UNCHANGED booked
    /\ UNCHANGED <<rec, entry, sub, suspended, req>>

Ended(r) ==
    /\ "delete" \in Ops /\ (r \in booked \/ r \in packs)
    /\ booked' = booked \ {r} /\ packs' = packs \ {r}
    /\ UNCHANGED <<rec, entry, sub, suspended, req>>

(* createWaitlistEntry: any record of the network *)
CounterWaits(e, r) ==
    /\ "staffWaits" \in Ops /\ entry[e] = None /\ rec[r] # None /\ RecordIdle
    /\ entry' = [entry EXCEPT ![e] = [rec |-> r, status |-> "WAITING", public |-> FALSE]]
    /\ UNCHANGED <<rec, booked, packs, sub, suspended, req>>

(***************************************************************************)
(* The block                                                               *)
(***************************************************************************)

Charging == {s \in SubId : sub[s] \in {"ACTIVE", "PAST_DUE"}}

(* setCustomerBlocked: the club first, when it was asked *)
SetCustomerBlocked(w, r, cancel, refund) ==
    /\ May(w, "block") /\ rec[r] # None
    /\ req' = [req EXCEPT ![w] = [op |-> "club", rec |-> r, row |-> refund, paid |-> cancel,
                                  todo |-> IF cancel /\ AccountOf(r) THEN {[id |-> s, was |-> sub[s]] : s \in Charging} ELSE {}]]
    /\ UNCHANGED <<rec, booked, packs, entry, sub, suspended>>

(* Without a refund, what is paid runs to its end. *)
Cancelled(t, refund) == IF t.was = "ACTIVE" /\ ~refund THEN "ending" ELSE "CANCELED"

CancelClubSub(w, t) ==
    /\ req[w].op \in {"club", "suspend"} /\ t \in req[w].todo
    /\ sub' = [sub EXCEPT ![t.id] = Cancelled(t, req[w].row)]
    /\ req' = [req EXCEPT ![w].todo = @ \ {t}]
    /\ UNCHANGED <<rec, booked, packs, entry, suspended>>

(* Stripe refuses: nobody is blocked or suspended *)
CancelFails(w) ==
    /\ req[w].todo # {} /\ "stripe" \in Faults
    /\ Done(w) /\ UNCHANGED <<rec, booked, packs, entry, sub, suspended>>

WriteBlocked(w) ==
    /\ req[w].op = "club" /\ req[w].todo = {}
    /\ rec' = [rec EXCEPT ![req[w].rec].blocked = TRUE]
    /\ req' = [req EXCEPT ![w].op = "drop"]
    /\ UNCHANGED <<booked, packs, entry, sub, suspended>>

SamePerson(r) == {r} \cup ByPhone(rec[r].phone) \cup {q \in RecId : AccountOf(r) /\ rec[q] # None /\ rec[q].linked}

(* the entries of the same person leave the waiting list *)
DropEntries(w) ==
    /\ req[w].op = "drop"
    /\ entry' = [e \in EntryId |->
                   IF entry[e] # None /\ entry[e].status = "WAITING" /\ entry[e].rec \in SamePerson(req[w].rec)
                   THEN [entry[e] EXCEPT !.status = "CANCELLED"] ELSE entry[e]]
    /\ Done(w) /\ UNCHANGED <<rec, booked, packs, sub, suspended>>

Unblock(r) ==
    /\ "block" \in Ops /\ rec[r] # None /\ rec[r].blocked /\ RecordIdle
    /\ rec' = [rec EXCEPT ![r].blocked = FALSE]
    /\ UNCHANGED <<booked, packs, entry, sub, suspended, req>>

(* setSuspended: the club is cancelled before, unless it was kept *)
SetSuspended(w, cancel, refund) ==
    /\ May(w, "suspend")
    /\ req' = [req EXCEPT ![w] = [op |-> "suspend", rec |-> None, row |-> refund, paid |-> cancel,
                                  todo |-> IF cancel /\ ~suspended THEN {[id |-> s, was |-> sub[s]] : s \in Charging} ELSE {}]]
    /\ UNCHANGED <<rec, booked, packs, entry, sub, suspended>>

WriteSuspended(w) ==
    /\ req[w].op = "suspend" /\ req[w].todo = {}
    /\ suspended' = TRUE /\ Done(w)
    /\ UNCHANGED <<rec, booked, packs, entry, sub>>

Reactivate ==
    /\ suspended /\ RecordIdle /\ suspended' = FALSE
    /\ UNCHANGED <<rec, booked, packs, entry, sub, req>>

(***************************************************************************)
(* The customer: a booking, the waiting list and the club                  *)
(***************************************************************************)

NotBlocked(p, e, logged) ==
    ~\E r \in RecId : /\ rec[r] # None /\ rec[r].blocked
                      /\ \/ r \in ByPhone(p)
                         \/ e # None /\ rec[r].email = e
                         \/ logged /\ rec[r].linked

NotSuspended(p, e, logged) ==
    suspended => /\ ~logged /\ e # "e1" /\ p # "p1"
                 /\ \A r \in ByEmail(e) \cup ByPhone(p) : ~rec[r].linked

Asks(w, op, p, e, logged) ==
    /\ May(w, op) /\ NotBlocked(p, e, logged) /\ NotSuspended(p, e, logged)
    /\ req' = [req EXCEPT ![w] = [RecordFree EXCEPT !.op = op, !.row = [New(p, e) EXCEPT !.linked = logged]]]
    /\ UNCHANGED <<rec, booked, packs, entry, sub, suspended>>

(* createPublicAppointment: the record is the first one with the telephone *)
BookOnline(w, r) ==
    /\ req[w].op = "book"
    /\ LET same == ByPhone(req[w].row.phone) IN
       /\ IF same = {} THEN rec[r] = None ELSE r = First(same)
       /\ rec' = IF same = {} THEN [rec EXCEPT ![r] = req[w].row] ELSE rec
    /\ booked' = booked \cup {r}
    /\ Done(w) /\ UNCHANGED <<packs, entry, sub, suspended>>

(* The telephone is not confirmed: the e-mail agrees, or the name when the *)
(* record has none.                                                        *)
SamePublicPerson(r, row, name) == IF rec[r].email # None THEN rec[r].email = row.email ELSE name

(* joinPublicWaitlist: otherwise a record of its own *)
JoinWaitlist(w, e, r, name) ==
    /\ req[w].op = "wait" /\ entry[e] = None
    /\ LET row == req[w].row
           same == {q \in ByPhone(row.phone) : SamePublicPerson(q, row, name)}
       IN  /\ IF same = {} THEN rec[r] = None ELSE r = First(same)
           /\ rec' = IF same = {} THEN [rec EXCEPT ![r] = [row EXCEPT !.apart = TRUE]] ELSE rec
    /\ entry' = [entry EXCEPT ![e] = [rec |-> r, status |-> "WAITING", public |-> TRUE]]
    /\ Done(w) /\ UNCHANGED <<booked, packs, sub, suspended>>

(* subscribeToPlan, by the account *)
Subscribe(s) ==
    /\ sub[s] = "none" /\ RecordIdle /\ ~suspended /\ NotBlocked("p1", "e1", TRUE)
    /\ \A r \in {q \in Live : rec[q].linked} : NotBlocked(rec[r].phone, rec[r].email, TRUE)
    /\ sub' = [sub EXCEPT ![s] = "ACTIVE"]
    /\ UNCHANGED <<rec, booked, packs, entry, suspended, req>>

InvoiceFails(s) ==
    /\ sub[s] = "ACTIVE"
    /\ sub' = [sub EXCEPT ![s] = "PAST_DUE"]
    /\ UNCHANGED <<rec, booked, packs, entry, suspended, req>>

Requests(w) ==
    \/ \E p \in Phone \cup {None}, e \in Email \cup {None} : CreateCustomer(w, p, e)
    \/ \E r \in RecId : WriteCustomer(w, r) \/ UpdateOptOut(w, r) \/ UpdateOptIn(w, r) \/ DeleteCustomer(w, r) \/ BookOnline(w, r)
    \/ \E r \in RecId, p \in Phone \cup {None} : UpdatePhone(w, r, p)
    \/ \E r \in RecId, e \in Email \cup {None} : UpdateEmail(w, r, e)
    \/ \E r \in RecId, c, f \in BOOLEAN : SetCustomerBlocked(w, r, c, f)
    \/ WriteUpdate(w) \/ WriteDelete(w) \/ WriteBlocked(w) \/ DropEntries(w) \/ CancelFails(w)
    \/ \E c, f \in BOOLEAN : SetSuspended(w, c, f)
    \/ WriteSuspended(w)
    \/ \E t \in req[w].todo : CancelClubSub(w, t)
    \/ \E op \in {"book", "wait"}, p \in Phone, e \in Email \cup {None}, l \in BOOLEAN : Asks(w, op, p, e, l)
    \/ \E e \in EntryId, r \in RecId, name \in BOOLEAN : JoinWaitlist(w, e, r, name)

RecordNext ==
    \/ \E w \in Worker : Requests(w)
    \/ \E r \in RecId : CounterBooks(r) \/ Ended(r) \/ Unblock(r)
    \/ \E e \in EntryId, r \in RecId : CounterWaits(e, r)
    \/ \E s \in SubId : Subscribe(s) \/ InvoiceFails(s)
    \/ Reactivate

(***************************************************************************)
(* Properties                                                              *)
(***************************************************************************)

RecordTypeOK ==
    /\ rec \in [RecId -> CustomerRow \cup {None}]
    /\ booked \subseteq RecId /\ packs \subseteq RecId /\ suspended \in BOOLEAN
    /\ \A e \in EntryId : entry[e] # None => entry[e].rec \in RecId /\ entry[e].status \in {"WAITING", "CANCELLED"}
    /\ sub \in [SubId -> {"none", "ACTIVE", "PAST_DUE", "ending", "CANCELED"}]

Serial == "overlap" \notin Faults

(* A telephone has one record, whatever the team, the import or a booking  *)
(* wrote, but for the ones that the waiting list keeps apart because the   *)
(* telephone is not confirmed (assertPhoneFree, samePublicPerson).         *)
OneRecordPerPhone ==
    Serial => \A r, q \in Live : r # q /\ rec[r].phone = rec[q].phone /\ rec[r].phone # None => rec[r].apart \/ rec[q].apart

(* Who joins the list with the telephone of another person does not get    *)
(* into their record: an entry is of a record whose e-mail is the one that *)
(* was typed, or has none (joinPublicWaitlist).                            *)
OwnRecord ==
    \A e \in EntryId : entry[e] = None /\ entry'[e] # None /\ entry'[e].public =>
        LET r == entry'[e].rec IN
        \E w \in Worker : req[w].op = "wait" /\ (rec[r] # None => rec[r].email \in {None, req[w].row.email})

(* A removed record keeps nothing: no booking to come, no sessions left,   *)
(* nobody waiting, no account (deleteCustomer, ensureCustomerOfNetwork).   *)
DeletedKeepsNothing ==
    Serial => \A r \in RecId : rec[r] # None /\ rec[r].deleted =>
        /\ r \notin booked /\ r \notin packs /\ ~rec[r].linked /\ rec[r].out
        /\ "staffWaits" \notin Ops => \A e \in EntryId : entry[e] # None => entry[e].rec # r

(* Nobody waits online with the record or the telephone of a blocked       *)
(* customer (setCustomerBlocked, ensureNotBlocked).                        *)
BlockedDoesNotWait ==
    Serial /\ RecordIdle => \A e \in EntryId : entry[e] # None /\ entry[e].public /\ entry[e].status = "WAITING" =>
        \A r \in {q \in Live : rec[q].blocked} : r # entry[e].rec /\ r \notin ByPhone(rec[entry[e].rec].phone)

(* A block or a suspension that was asked with the end of the club leaves  *)
(* no charge of that account, late payments included (cancelClubSubs).     *)
BlockEndsClub ==
    Serial => \A w \in {v \in Worker : req[v].paid} :
        (\/ req[w].op = "club" /\ req'[w].op = "drop" /\ AccountOf(req[w].rec)
         \/ req[w].op = "suspend" /\ suspended' /\ ~suspended) => Charging = {}

(* The account of an e-mail that was changed does not see the record any   *)
(* more: a record is linked with the e-mail of the account, or with the    *)
(* one that was typed when it was made (updateCustomer).                   *)
LinkFollowsEmail ==
    Serial => \A r \in RecId : rec[r] # None /\ rec'[r].linked => rec'[r].email \in {rec[r].email, "e1"}

(* Who is suspended by the platform books nothing with their telephone or  *)
(* records (ensureNotPlatformSuspended).                                   *)
SuspendedBooksNothing ==
    Serial /\ suspended => \A w \in Worker : req[w].op = "book" /\ req'[w] = RecordFree =>
        \A r \in booked' \ booked : ~rec'[r].linked /\ rec'[r].phone # "p1"

(***************************************************************************)
(* "sheet". A sheet with customers and appointments is imported, maybe     *)
(* again, maybe twice at once: who is known is reused, the professional is *)
(* found by name and an appointment that is there is not written again.    *)
(* The agenda of the professional is locked when an appointment is         *)
(* written.                                                                *)
(***************************************************************************)

sheetVars == <<now, customer, appt, req>>

Lines == DOMAIN Sheet
SheetFree == [step |-> "free", known |-> {}, line |-> 1, at |-> 0]
SheetIdle == \A w \in Worker : req[w] = SheetFree

SheetInit == now = 0 /\ customer = {} /\ appt = <<>> /\ req = [w \in Worker |-> SheetFree]

(* parseSheet: what has not begun stays booked, and what has is history    *)
Status(l, t) ==
    IF Sheet[l].start >= t THEN "CONFIRMED" ELSE IF Sheet[l].status = "missed" THEN "NO_SHOW" ELSE "COMPLETED"

(* In an agenda of one person only what came before it is history. *)
Source(l, t) ==
    IF Sheet[l].start < t /\ (CreatedAt # None => Sheet[l].start < CreatedAt) THEN "HISTORY" ELSE "IMPORT"

(* matchImportedBarber: the same name first, then the only one that holds  *)
(* the other; no name is enough in a team of one.                          *)
Match(wanted) ==
    LET exact == {b \in DOMAIN Barber : Barber[b] = wanted}
        part == {b \in DOMAIN Barber : wanted \subseteq Barber[b] \/ Barber[b] \subseteq wanted}
        found == IF wanted = {} THEN DOMAIN Barber ELSE IF exact # {} THEN exact ELSE part
    IN  IF Cardinality(found) = 1 THEN found ELSE {}

(* run: the telephones are read once *)
Begin(w) ==
    /\ req[w] = SheetFree /\ (SheetIdle \/ Overlap)
    /\ req' = [req EXCEPT ![w] = [SheetFree EXCEPT !.step = "customers", !.known = customer, !.at = now]]
    /\ UNCHANGED <<now, customer, appt>>

(* a telephone that somebody else registered meanwhile is refused, and its *)
(* lines are skipped                                                       *)
ImportCustomer(w) ==
    /\ req[w].step = "customers"
    /\ LET p == Sheet[req[w].line].phone IN
       /\ customer' = customer \cup {p}
       /\ req' = [req EXCEPT ![w].known = IF p \in customer THEN @ ELSE @ \cup {p},
                             ![w].line = IF @ = Len(Sheet) THEN 1 ELSE @ + 1,
                             ![w].step = IF req[w].line = Len(Sheet) THEN "check" ELSE @]
    /\ UNCHANGED <<now, appt>>

NextLine(w) ==
    req' = [req EXCEPT ![w] = IF @.line = Len(Sheet) THEN SheetFree ELSE [@ EXCEPT !.line = @ + 1, !.step = "check"]]

Already(l, b) == \E i \in DOMAIN appt : appt[i].phone = Sheet[l].phone /\ appt[i].barber = b /\ appt[i].start = Sheet[l].start

(* importAppointment: the line is skipped *)
Skips(l, known) == Sheet[l].phone \notin known \/ Match(Sheet[l].wanted) = {} \/ \E b \in Match(Sheet[l].wanted) : Already(l, b)

SkipLine(w) ==
    /\ req[w].step = "check" /\ Skips(req[w].line, req[w].known)
    /\ NextLine(w) /\ UNCHANGED <<now, customer, appt>>

CheckLine(w) ==
    /\ req[w].step = "check" /\ ~Skips(req[w].line, req[w].known)
    /\ req' = [req EXCEPT ![w].step = "write"]
    /\ UNCHANGED <<now, customer, appt>>

(* createAppointment: under the lock, a missed one does not fill the agenda *)
Clash(b, start) == \E i \in DOMAIN appt : appt[i].barber = b /\ appt[i].start = start /\ appt[i].status # "NO_SHOW"

WriteLine(w) ==
    /\ req[w].step = "write"
    /\ LET l == req[w].line st == Status(l, req[w].at) IN
       \E b \in Match(Sheet[l].wanted) :
          /\ appt' = IF Clash(b, Sheet[l].start) THEN appt
                     ELSE Append(appt, [phone |-> Sheet[l].phone, barber |-> b, start |-> Sheet[l].start,
                                        status |-> st, source |-> Source(l, req[w].at)])
          /\ NextLine(w)
    /\ UNCHANGED <<now, customer>>

Tick == now < MaxTime /\ now' = now + 1 /\ UNCHANGED <<customer, appt, req>>

SheetNext ==
    \/ \E w \in Worker : Begin(w) \/ ImportCustomer(w) \/ SkipLine(w) \/ CheckLine(w) \/ WriteLine(w)
    \/ Tick

SheetTypeOK ==
    /\ now \in 0 .. MaxTime /\ customer \subseteq {Sheet[l].phone : l \in Lines}
    /\ \A w \in Worker : req[w].line \in Lines /\ req[w].known \subseteq customer

(* A sheet that is imported again writes nothing twice: one row for a      *)
(* customer, a professional and a time; two imports at once may repeat     *)
(* only what was missed, which fills no agenda (importAppointment).        *)
ImportedOnce ==
    \A i, j \in DOMAIN appt : /\ i # j /\ appt[i].phone = appt[j].phone
                              /\ appt[i].barber = appt[j].barber /\ appt[i].start = appt[j].start
        => Overlap /\ "NO_SHOW" \in {appt[i].status, appt[j].status}

(* No line lands on somebody by a name that fits another one as well, and  *)
(* nothing that is still to come is written as done or missed              *)
(* (matchImportedBarber, appointmentStatus).                               *)
LinesUnderstood ==
    \A i \in DOMAIN appt :
        /\ \E l \in Lines : /\ Sheet[l].phone = appt[i].phone /\ Sheet[l].start = appt[i].start
                            /\ Barber[appt[i].barber] # Sheet[l].wanted =>
                                  \A b \in DOMAIN Barber \ {appt[i].barber} :
                                     ~(Sheet[l].wanted \subseteq Barber[b] \/ Barber[b] \subseteq Sheet[l].wanted)
        /\ appt[i].start >= now => appt[i].status = "CONFIRMED"

(* What happened in the agenda of one person after it was opened counts in *)
(* its quota, imported or not (run, historyBefore).                        *)
QuotaNotEscaped ==
    \A i \in DOMAIN appt : appt[i].source = "HISTORY" => appt[i].start < now /\ (CreatedAt # None => appt[i].start < CreatedAt)

(***************************************************************************)
(* The component: one part at a time. The other parts have no state then.  *)
(***************************************************************************)

vars == <<rec, booked, packs, entry, sub, suspended, req, now, customer, appt>>

Init ==
    \/ /\ Part = "records" /\ RecordInit
          /\ now = None /\ customer = None /\ appt = None
    \/ /\ Part = "sheet" /\ SheetInit
          /\ rec = None /\ booked = None /\ packs = None /\ entry = None /\ sub = None
          /\ suspended = None

Next ==
    \/ Part = "records" /\ RecordNext /\ UNCHANGED <<now, customer, appt>>
    \/ Part = "sheet" /\ SheetNext /\ UNCHANGED <<rec, booked, packs, entry, sub, suspended>>

Spec == Init /\ [][Next]_vars

TypeOK ==
    /\ Part = "records" => RecordTypeOK
    /\ Part = "sheet" => SheetTypeOK
=============================================================================
