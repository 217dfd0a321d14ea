------------------------------ MODULE Messages ------------------------------
(***************************************************************************)
(* What people are told: the reminders of an appointment, and the notices  *)
(* of the team.                                                            *)
(***************************************************************************)
EXTENDS Integers, FiniteSets

CONSTANTS
    Part,      \* the flow that is explored: "reminders", "notices"
    Worker,
    None,
    Channels,  \* how the customer is reached: "email", "whatsapp"
    MaxTime,   \* bound on the clock
    MaxMoves,  \* bound on the moves of the appointment
    Faults,    \* "redis": the queue may refuse; "moves": an appointment is moved while a job
               \* is halfway; "edits": the row is changed without moving the appointment
    Staff,     \* of "owner", "manager", "reception", "barber", "other"
    EventId,   \* numbers
    MaxStock,  \* bound on the stock of the product
    Edits      \* whether a sale is edited and the minimum is changed

VARIABLES
    now,
    appt,     \* the row: status, start, created, reminderSentAt, and whether it was changed in
              \* the last fifteen minutes
    noticed,  \* when the e-mail of booking or moving gave the time it has
    moves,
    told,     \* the reminders in the queue, by their ids; what was told: event, category and
              \* person; the bell and the e-mails of who wants both go to the same people
    again,    \* whether a reminder by e-mail repeated a time that an e-mail of the same day
              \* had given
    req,
    team,     \* who is in the shop, with an account that is active
    wants,    \* NotificationPreference, the same for every category
    stock,
    min,      \* of the one product of the shop
    events    \* what happened: kind, who did it, who was in, movement

(***************************************************************************)
(* "reminders". The reminder of an appointment, by e-mail and by WhatsApp: *)
(* the job of every five minutes on several processes, while the           *)
(* appointment is moved, edited and cancelled. Time is counted in half     *)
(* days.                                                                   *)
(***************************************************************************)

reminderVars == <<now, appt, noticed, moves, told, again, req>>

Day == 2
Time == 0 .. MaxTime
ApptRow == [status : {"CONFIRMED", "CANCELLED"}, start : Time, created : Time, mark : BOOLEAN, recent : BOOLEAN]
ReminderFree == [op |-> "free", start |-> 0, skip |-> FALSE]
ReminderIdle == \A w \in Worker : req[w] = ReminderFree

(* reminderCoveredByNotice *)
Covered(at, start) == start - at <= Day

(* The appointment is booked at 0; the confirmation goes by e-mail. *)
ReminderInit ==
    /\ now = 0
    /\ \E t \in Time \ {0} :
          appt = [status |-> "CONFIRMED", start |-> t, created |-> 0, mark |-> FALSE, recent |-> FALSE]
    /\ noticed = 0 /\ moves = 0 /\ told = {} /\ again = FALSE
    /\ req = [w \in Worker |-> ReminderFree]

(***************************************************************************)
(* The job (enqueueDueReminders)                                           *)
(***************************************************************************)

Due == appt.status = "CONFIRMED" /\ ~appt.mark /\ now <= appt.start /\ appt.start <= now + Day

EmailAlreadySent == "email" \in Channels /\ Covered(appt.created, appt.start)
(* Mutant: only the confirmation counts. *)
MutJustMoved == FALSE

JustMoved == ~EmailAlreadySent /\ "email" \in Channels /\ appt.recent

JobReads(w) ==
    /\ Due /\ req[w] = ReminderFree
    /\ req' = [req EXCEPT ![w] =
          LET skip == EmailAlreadySent \/ JustMoved IN
          [op |-> IF skip /\ "whatsapp" \notin Channels THEN "mark" ELSE "claim", start |-> appt.start, skip |-> skip]]
    /\ UNCHANGED <<now, appt, noticed, moves, told, again>>

MarkOnly(w) ==
    /\ req[w].op = "mark"
    /\ appt' = [appt EXCEPT !.mark = TRUE, !.recent = @ \/ ~appt.mark]
    /\ req' = [req EXCEPT ![w] = ReminderFree]
    /\ UNCHANGED <<now, noticed, moves, told, again>>

Claims == ~appt.mark

Claim(w) ==
    /\ req[w].op = "claim"
    /\ IF Claims THEN /\ appt' = [appt EXCEPT !.mark = TRUE, !.recent = TRUE]
                      /\ req' = [req EXCEPT ![w].op = "send"]
       ELSE UNCHANGED appt /\ req' = [req EXCEPT ![w] = ReminderFree]
    /\ UNCHANGED <<now, noticed, moves, told, again>>

Sends(w) == IF req[w].skip THEN Channels \ {"email"} ELSE Channels

(* the ids of the queue hold the time, so what is there is not repeated *)
Send(w) ==
    /\ req[w].op = "send"
    /\ told' = told \cup {<<req[w].start, c>> : c \in Sends(w)}
    /\ again' = (again \/ ("email" \in Sends(w) /\ req[w].start = appt.start /\ noticed = now))
    /\ req' = [req EXCEPT ![w] = ReminderFree]
    /\ UNCHANGED <<now, appt, noticed, moves>>

Released(a) == [a EXCEPT !.mark = FALSE, !.recent = TRUE]

(* the e-mail may be in the queue already when WhatsApp fails *)
SendFails(w) ==
    /\ "redis" \in Faults /\ req[w].op = "send"
    /\ \E done \in {{}, Sends(w) \cap {"email"}} : told' = told \cup {<<req[w].start, c>> : c \in done}
    /\ appt' = Released(appt)
    /\ req' = [req EXCEPT ![w] = ReminderFree]
    /\ UNCHANGED <<now, noticed, moves, again>>

(***************************************************************************)
(* The appointment                                                         *)
(***************************************************************************)

(* reminderSentAtAfterMove *)
MarkAfterMove(start) == Covered(now, start) /\ "whatsapp" \notin Channels

(* updateAppointment, rescheduleManagedAppointment: the row changes only   *)
(* if its time is the one that was read                                    *)
Move(start) ==
    /\ appt.status = "CONFIRMED" /\ start # appt.start /\ start > now /\ now <= appt.start
    /\ "moves" \in Faults \/ ReminderIdle
    /\ appt' = [appt EXCEPT !.start = start, !.mark = MarkAfterMove(start), !.recent = TRUE]
    /\ moves < MaxMoves /\ moves' = moves + 1 /\ noticed' = now
    /\ UNCHANGED <<now, told, again, req>>

Edit ==
    /\ "edits" \in Faults /\ appt.status = "CONFIRMED" /\ ~appt.recent /\ appt' = [appt EXCEPT !.recent = TRUE]
    /\ UNCHANGED <<now, noticed, moves, told, again, req>>

Cancel ==
    /\ appt.status = "CONFIRMED" /\ appt' = [appt EXCEPT !.status = "CANCELLED"]
    /\ UNCHANGED <<now, noticed, moves, told, again, req>>

(* Half a day has many runs of the job: what is due has been looked at. *)
Tick ==
    /\ now < MaxTime /\ ReminderIdle /\ ~Due
    /\ now' = now + 1 /\ appt' = [appt EXCEPT !.recent = FALSE]
    /\ UNCHANGED <<noticed, moves, told, again, req>>

ReminderNext ==
    \/ Tick \/ Cancel \/ Edit
    \/ \E t \in Time : Move(t)
    \/ \E w \in Worker : JobReads(w) \/ MarkOnly(w) \/ Claim(w) \/ Send(w) \/ SendFails(w)

(***************************************************************************)
(* Properties                                                              *)
(***************************************************************************)

ReminderTypeOK ==
    /\ now \in Time /\ appt \in ApptRow /\ again \in BOOLEAN
    /\ noticed \in Time /\ moves \in 0 .. MaxMoves /\ told \subseteq Time \X Channels
    /\ req \in [Worker -> [op : {"free", "mark", "claim", "send"}, start : Time, skip : BOOLEAN]]

(* An e-mail gave the time in the day before it. *)
Noticed(c) == c = "email" /\ Covered(noticed, appt.start)

(* Whoever has an appointment was told of its time within the day before,  *)
(* on every channel, however it was moved and whichever job runs, and also *)
(* by WhatsApp though the queue refuses (enqueueDueReminders,              *)
(* reminderSentAtAfterMove). Any change of the row counts as a move for    *)
(* fifteen minutes: an edit, and the release of a reservation after the    *)
(* queue refused, lose the e-mail; a move while a job is halfway loses the *)
(* reminder of the new time.                                               *)
NobodyForgotten ==
    /\ Faults = {} \/ (Faults = {"redis"} /\ "email" \notin Channels)
    /\ ReminderIdle /\ appt.status = "CONFIRMED" /\ now >= appt.start
    => \A c \in Channels : <<appt.start, c>> \in told \/ Noticed(c)

(* The two e-mails, of the time that was booked or moved to and of the     *)
(* reminder, do not go out together (justMoved, reminderSentAtAfterMove).  *)
NotToldTwice == "moves" \notin Faults => ~again

(***************************************************************************)
(* "notices". What the team of a shop is told of: bookings, sales,         *)
(* members, reviews and low stock, on the bell of the page and by e-mail.  *)
(* The notice is made after the operation, outside its request.            *)
(***************************************************************************)

noticeVars == <<team, wants, stock, min, events, told, req>>

Kinds == {"appointments", "sales", "team", "reviews", "inventory"}
NoEvent == [kind |-> "none", actor |-> None, in |-> {}, before |-> 0, after |-> 0]
EventRow == [kind : Kinds \cup {"none"}, actor : Staff \cup {None}, in : SUBSET Staff,
             before : 0 .. MaxStock, after : 0 .. MaxStock]
NoticeFree == [op |-> "free", event |-> 0, category |-> "none", to |-> {}]
Next1 == CHOOSE e \in EventId : events[e] = NoEvent /\ \A d \in EventId : d < e => events[d] # NoEvent
Room == \E e \in EventId : events[e] = NoEvent
NoticeIdle == \A w \in Worker : req[w] = NoticeFree

NoticeInit ==
    /\ team = Staff
    /\ wants \in {Staff} \cup {Staff \ {p} : p \in Staff}
    /\ stock = MaxStock /\ min \in {None, 1}
    /\ events = [e \in EventId |-> NoEvent] /\ told = {}
    /\ req = [w \in Worker |-> NoticeFree]

(***************************************************************************)
(* What happens, and the category it is told under                         *)
(***************************************************************************)

Happens(w, event) ==
    /\ req[w] = NoticeFree /\ Room
    /\ events' = [events EXCEPT ![Next1] = event]
    /\ req' = [req EXCEPT ![w] = [NoticeFree EXCEPT !.op = "read", !.event = Next1, !.category = event.kind]]

(* appointmentCreated, appointmentStatusChanged, appointmentRescheduled:   *)
(* the customer acts from the public page                                  *)
AppointmentEvent(w) ==
    \E actor \in team \cup {None} : Happens(w, [NoEvent EXCEPT !.kind = "appointments", !.actor = actor, !.in = team])
    /\ UNCHANGED <<team, wants, stock, min, told>>

(* memberJoined, sharedLocationEvent, chairRentEvent: by somebody else *)
TeamEvent(w) ==
    /\ Happens(w, [NoEvent EXCEPT !.kind = "team", !.in = team])
    /\ UNCHANGED <<team, wants, stock, min, told>>

(* reviewPosted, by a customer *)
ReviewPosted(w) ==
    /\ Happens(w, [NoEvent EXCEPT !.kind = "reviews", !.in = team])
    /\ UNCHANGED <<team, wants, stock, min, told>>

(* createSale and saleCreated: what was sold leaves the stock *)
SaleCreated(w) ==
    /\ stock > 0 /\ stock' = stock - 1
    /\ \E actor \in team : Happens(w, [kind |-> "sales", actor |-> actor, in |-> team, before |-> stock, after |-> stock - 1])
    /\ UNCHANGED <<team, wants, min, told>>

(* adjustInventory and stockAdjusted: a loss, an entry or a count *)
StockAdjusted(w) ==
    /\ stock' \in 0 .. MaxStock \ {stock}
    /\ \E actor \in team \cap {"owner", "manager"} :
          Happens(w, [kind |-> "inventory", actor |-> actor, in |-> team, before |-> stock, after |-> stock'])
    /\ UNCHANGED <<team, wants, min, told>>

(* updateSale and updateInventoryItem, which tell nobody *)
EditStock ==
    /\ Edits /\ stock' \in 0 .. MaxStock /\ min' \in {None, 1, 2} /\ <<stock', min'>> # <<stock, min>>
    /\ UNCHANGED <<team, wants, events, told, req>>

Leaves(p) ==
    /\ p \in team /\ team' = team \ {p}
    /\ UNCHANGED <<wants, stock, min, events, told, req>>

(***************************************************************************)
(* Who is told (deliver)                                                   *)
(***************************************************************************)

(* the owner of the network or the unit and the managers, the reception of *)
(* the agenda, and the professional it is about                            *)
Hears(category) == {"owner", "manager"} \cup
    (IF category = "appointments" THEN {"reception"} ELSE {}) \cup
    (IF category \in {"appointments", "sales"} THEN {"barber"} ELSE {})

(* a low stock is told to whoever made it, too *)
Actor(w) == IF req[w].category = "inventory" THEN None ELSE events[req[w].event].actor

Recipients(w) == (Hears(req[w].category) \cap team \cap wants) \ {Actor(w)}

(* lowStock: the movement that went from above the minimum to it or below *)
Crossed(e) == min # None /\ events[e].before > min /\ events[e].after <= min

(* What is not low is not told of; the team and the accounts are read. *)
DeliverReads(w) ==
    /\ req[w].op = "read"
    /\ req' = [req EXCEPT ![w] =
          IF req[w].category = "inventory" /\ ~Crossed(req[w].event) THEN NoticeFree
          ELSE [@ EXCEPT !.op = "tell", !.to = Recipients(w)]]
    /\ UNCHANGED <<team, wants, stock, min, events, told>>

(* The bell, then the e-mails, whose ids keep them from being queued twice; *)
(* after a sale its stock is looked at (lowStockAfterSale).                 *)
Deliver(w) ==
    /\ req[w].op = "tell"
    /\ told' = told \cup {<<req[w].event, req[w].category, p>> : p \in req[w].to}
    /\ req' = [req EXCEPT ![w] = IF req[w].category = "sales"
                                 THEN [NoticeFree EXCEPT !.op = "read", !.event = req[w].event, !.category = "inventory"]
                                 ELSE NoticeFree]
    /\ UNCHANGED <<team, wants, stock, min, events>>

NoticeNext ==
    \/ EditStock \/ \E p \in Staff : Leaves(p)
    \/ \E w \in Worker :
         \/ AppointmentEvent(w) \/ TeamEvent(w) \/ ReviewPosted(w) \/ SaleCreated(w) \/ StockAdjusted(w)
         \/ DeliverReads(w) \/ Deliver(w)

(***************************************************************************)
(* Properties                                                              *)
(***************************************************************************)

NoticeTypeOK ==
    /\ team \subseteq Staff /\ wants \subseteq Staff
    /\ stock \in 0 .. MaxStock /\ min \in {None, 1, 2} /\ events \in [EventId -> EventRow]
    /\ told \subseteq EventId \X Kinds \X Staff
    /\ req \in [Worker -> [op : {"free", "read", "tell"}, event : EventId \cup {0},
                           category : Kinds \cup {"none"}, to : SUBSET Staff]]

(* Nobody is told of what happened after they left, or of what is not for  *)
(* their role, or of what they did themselves (deliver).                   *)
ToldToWhoMayKnow ==
    \A t \in told :
        /\ t[3] \in events[t[1]].in
        /\ t[3] = "reception" => t[2] = "appointments"
        /\ t[3] = "barber" => t[2] \in {"appointments", "sales"}
        /\ t[3] = events[t[1]].actor => t[2] = "inventory"

(* The stock is told of once when it falls to its minimum, not again while *)
(* it stays there, however sales and adjustments overlap (moveStock,       *)
(* lowStock): of two movements that were told of, one went above it.       *)
LowStockToldPerFall ==
    ~Edits => \A s, t \in told :
        s[2] = "inventory" /\ t[2] = "inventory" /\ s[1] < t[1] =>
            \E d \in EventId : s[1] < d /\ d <= t[1] /\ events[d].before > min

(* Once all is quiet, whoever may know and is still there was told of      *)
(* everything, and of every time the stock fell (deliver, lowStock).       *)
EveryoneHeard ==
    NoticeIdle /\ ~Edits => \A e \in EventId, p \in team, c \in Kinds :
        /\ p \in wants \cap Hears(c)
        /\ events[e] # NoEvent /\ IF c = "inventory" THEN Crossed(e) ELSE c = events[e].kind
        /\ p # events[e].actor \/ c = "inventory"
        => <<e, c, p>> \in told

(***************************************************************************)
(* The component: one part at a time. The other parts have no state then.  *)
(***************************************************************************)

vars == 
    <<now, appt, noticed, moves, told, again, req, team, wants, stock, min, events>>

Init ==
    \/ /\ Part = "reminders" /\ ReminderInit
          /\ team = None /\ wants = None /\ stock = None /\ min = None /\ events = None
    \/ /\ Part = "notices" /\ NoticeInit
          /\ now = None /\ appt = None /\ noticed = None /\ moves = None /\ again = None

Next ==
    \/ Part = "reminders" /\ ReminderNext /\ UNCHANGED <<team, wants, stock, min, events>>
    \/ Part = "notices" /\ NoticeNext /\ UNCHANGED <<now, appt, noticed, moves, again>>

Spec == Init /\ [][Next]_vars

TypeOK ==
    /\ Part = "reminders" => ReminderTypeOK
    /\ Part = "notices" => NoticeTypeOK
=============================================================================
