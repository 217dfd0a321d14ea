------------------------------ MODULE Waitlist ------------------------------
(***************************************************************************)
(* The waiting list of one shop for one day.  A slot that becomes free is  *)
(* offered to the first entry that waits; it stays bookable by anyone.  An *)
(* offer nobody takes in 30 minutes is passed on by a job, and so is the   *)
(* offer of who leaves.                                                    *)
(*                                                                         *)
(* Entries are numbered in the order in which they joined (createdAt).     *)
(* Every entry asks for what every slot gives: filters by professional and *)
(* service only make the list shorter.                                     *)
(***************************************************************************)
EXTENDS Integers, FiniteSetsExt

CONSTANTS
    Worker,     \* requests and runs of the job
    EntryId,    \* a set of numbers
    Slot,       \* start times, a set of numbers
    None,
    Blocked,    \* entries whose customer may not book (waitlistCustomerCanBook)
    MaxFreed,   \* bound on how often a slot becomes free
    MayCrash

VARIABLES
    entry,    \* the rows of WaitlistEntry
    slot,     \* what the agenda says of each slot
    booked,   \* entries whose customer booked a slot of the day after joining
    job,      \* what each request or job is doing
    freed,    \* history: how often each slot became free
    crashed   \* history: a process stopped halfway

vars == <<entry, slot, booked, job, freed, crashed>>

Entry == [status : {"none", "WAITING", "NOTIFIED", "BOOKED", "EXPIRED", "CANCELLED"},
          offer : Slot \cup {None}, lapsed : BOOLEAN]

(* slots: still to be offered; rest: candidates read and not yet visited;   *)
(* of: the entry a request or the job took the offer from                   *)
Job == [op : {"idle", "walk", "pass", "passing", "back", "sweep", "drop", "leave", "left"},
        slots : SUBSET Slot, rest : SUBSET EntryId, of : EntryId \cup {None},
        offer : Slot \cup {None}]

Idle == [op |-> "idle", slots |-> {}, rest |-> {}, of |-> None, offer |-> None]
Ends(w) == job' = [job EXCEPT ![w] = Idle]
Becomes(w, j) == job' = [job EXCEPT ![w] = j]

InList == {"WAITING", "NOTIFIED"}
Waiting == {e \in EntryId : entry[e].status = "WAITING"}
Closed(status) == [status |-> status, offer |-> None, lapsed |-> FALSE]
WaitsAgain == [status |-> "WAITING", offer |-> None, lapsed |-> FALSE]

Offered(t) == [status |-> "NOTIFIED", offer |-> t, lapsed |-> FALSE]

Init ==
    /\ entry = [e \in EntryId |-> Closed("none")]
    /\ slot \in [Slot -> {"busy", "closed"}]
    /\ booked = {}
    /\ job = [w \in Worker |-> Idle]
    /\ freed = [t \in Slot |-> 0]
    /\ crashed = FALSE

(***************************************************************************)
(* The agenda and the clock                                                *)
(***************************************************************************)

Walk(slots, of) == [op |-> "walk", slots |-> slots, rest |-> Waiting, of |-> of, offer |-> None]

(* checkWaitlistOnCancellation, at the end of the cancellation *)
SlotFreed(w, t) ==
    /\ job[w] = Idle /\ slot[t] = "busy" /\ freed[t] < MaxFreed
    /\ slot' = [slot EXCEPT ![t] = "free"]
    /\ freed' = [freed EXCEPT ![t] = @ + 1]
    /\ \E who \in SUBSET booked : Cardinality(who) <= 1 /\ booked' = booked \ who
    /\ Becomes(w, Walk({t}, None))
    /\ UNCHANGED <<entry, crashed>>

(* withWaitlistOpening: the schedule opens slots that were not there before *)
ScheduleOpens(w) ==
    LET opened == {t \in Slot : slot[t] = "closed"} IN
    /\ job[w] = Idle /\ opened # {}
    /\ slot' = [t \in Slot |-> IF t \in opened THEN "free" ELSE slot[t]]
    /\ freed' = [t \in Slot |-> IF t \in opened THEN freed[t] + 1 ELSE freed[t]]
    /\ Becomes(w, Walk(opened, None))
    /\ UNCHANGED <<entry, booked, crashed>>

Book(t) ==
    /\ slot[t] = "free"
    /\ slot' = [slot EXCEPT ![t] = "busy"]
    /\ \E who \in SUBSET {e \in EntryId : entry[e].status \in InList} :
         Cardinality(who) <= 1 /\ booked' = booked \cup who
    /\ UNCHANGED <<entry, job, freed, crashed>>

SlotPasses(t) ==
    /\ slot[t] # "past"
    /\ slot' = [slot EXCEPT ![t] = "past"]
    /\ UNCHANGED <<entry, booked, job, freed, crashed>>

OfferLapses(e) ==
    /\ entry[e].status = "NOTIFIED" /\ ~entry[e].lapsed
    /\ entry' = [entry EXCEPT ![e].lapsed = TRUE]
    /\ UNCHANGED <<slot, booked, job, freed, crashed>>

(***************************************************************************)
(* Joining and the walk along the list                                     *)
(***************************************************************************)

DayOver == \A t \in Slot : slot[t] = "past"

(* createWaitlistEntry and joinPublicWaitlist *)
Join(e) ==
    /\ entry[e].status = "none" /\ ~DayOver
    /\ \A d \in EntryId : d < e => entry[d].status # "none"
    /\ entry' = [entry EXCEPT ![e] = WaitsAgain]
    /\ UNCHANGED <<slot, booked, job, freed, crashed>>

(* waitlistCustomerCanBook: neither blocked by the shop nor suspended *)
CanBook(e) == e \notin Blocked

AfterWalk(j) == IF j.of = None THEN Idle ELSE [Idle EXCEPT !.op = "back", !.of = j.of]

(* One candidate: closeWaitlistIfBooked, waitlistCustomerCanBook and the    *)
(* conditional claim.  A slot that is over is offered to nobody.            *)
WalkStep(w) ==
    LET j == job[w]
        e == Min(j.rest)
        t == Min(j.slots)
        claims == e \notin booked /\ CanBook(e) /\ entry[e].status = "WAITING"
        next == [j EXCEPT !.rest = @ \ {e}, !.slots = IF claims THEN @ \ {t} ELSE @]
    IN
    /\ j.op = "walk"
    /\ IF j.rest = {} \/ j.slots = {} \/ slot[t] = "past"
       THEN Becomes(w, AfterWalk(j)) /\ UNCHANGED entry
       ELSE /\ entry' = IF e \in booked /\ entry[e].status \in InList
                        THEN [entry EXCEPT ![e] = Closed("BOOKED")]
                        ELSE IF claims THEN [entry EXCEPT ![e] = Offered(t)] ELSE entry
            /\ Becomes(w, next)
    /\ UNCHANGED <<slot, booked, freed, crashed>>

(***************************************************************************)
(* passExpiredWaitlistOffers                                               *)
(***************************************************************************)

LapsedOffers ==
    {e \in EntryId : /\ entry[e].status = "NOTIFIED" /\ entry[e].lapsed
                     /\ entry[e].offer # None /\ slot[entry[e].offer] # "past"}

PassReads(w) ==
    /\ job[w] = Idle
    /\ \/ \E e \in LapsedOffers :
            Becomes(w, [Idle EXCEPT !.op = "pass", !.of = e, !.offer = entry[e].offer])
       \/ /\ \E e \in EntryId : entry[e].offer # None /\ slot[entry[e].offer] = "past"
          /\ Becomes(w, [Idle EXCEPT !.op = "sweep"])
    /\ UNCHANGED <<entry, slot, booked, freed, crashed>>

(* Only who clears the offer passes it on. *)
PassClaims(w) ==
    LET j == job[w] IN
    /\ j.op = "pass"
    /\ \/ /\ entry[j.of].offer = j.offer
          /\ entry' = [entry EXCEPT ![j.of].offer = None]
          /\ Becomes(w, [j EXCEPT !.op = "passing"])
       \/ entry[j.of].offer # j.offer /\ Becomes(w, [Idle EXCEPT !.op = "sweep"]) /\ UNCHANGED entry
    /\ UNCHANGED <<slot, booked, freed, crashed>>

(* Mutant: who let the offer lapse waits again before the walk. *)
MutPassWaitlistOffer(w) ==
    LET j == job[w]
        again == {e \in EntryId : e = j.of /\ entry[e].status = "NOTIFIED"}
    IN
    /\ j.op = "passing"
    /\ entry' = [e \in EntryId |-> IF e \in again THEN WaitsAgain ELSE entry[e]]
    /\ Becomes(w, IF slot[j.offer] = "free"
                  THEN [Walk({j.offer}, None) EXCEPT !.rest = @ \cup again] ELSE Idle)
    /\ UNCHANGED <<slot, booked, freed, crashed>>

(* passWaitlistOffer: a slot that is still open goes to the next candidate. *)
PassWaitlistOffer(w) ==
    LET j == job[w] IN
    /\ j.op = "passing"
    /\ Becomes(w, IF slot[j.offer] = "free" THEN Walk({j.offer}, j.of) ELSE AfterWalk(j))
    /\ UNCHANGED <<entry, slot, booked, freed, crashed>>

BackToWaiting(w) ==
    LET j == job[w] IN
    /\ j.op = "back"
    /\ entry' = IF entry[j.of].status = "NOTIFIED"
                THEN [entry EXCEPT ![j.of] = WaitsAgain] ELSE entry
    /\ Becomes(w, [Idle EXCEPT !.op = "sweep"])
    /\ UNCHANGED <<slot, booked, freed, crashed>>

(* The last statement of the job: offers of slots that are over *)
SweepPastOffers(w) ==
    /\ job[w].op = "sweep"
    /\ entry' = [e \in EntryId |->
                   IF /\ entry[e].status = "NOTIFIED" /\ entry[e].offer # None
                      /\ slot[entry[e].offer] = "past"
                   THEN WaitsAgain ELSE entry[e]]
    /\ Ends(w)
    /\ UNCHANGED <<slot, booked, freed, crashed>>

(***************************************************************************)
(* Leaving                                                                 *)
(***************************************************************************)

StandingOffer(e) ==
    IF entry[e].status = "NOTIFIED" /\ entry[e].offer # None /\ slot[entry[e].offer] # "past"
    THEN entry[e].offer ELSE None

(* cancelWaitlistEntry by the staff and leaveWaitlist by the customer *)
LeaveReads(w, e, op) ==
    /\ job[w] = Idle /\ entry[e].status \in InList
    /\ Becomes(w, [Idle EXCEPT !.op = op, !.of = e, !.offer = StandingOffer(e)])
    /\ UNCHANGED <<entry, slot, booked, freed, crashed>>

StillAsRead(j) ==
    /\ entry[j.of].status \in InList
    /\ j.offer # None => entry[j.of].offer = j.offer

LeaveClaims(w) ==
    LET j == job[w] IN
    /\ j.op \in {"drop", "leave"}
    /\ \/ /\ StillAsRead(j)
          /\ entry' = [entry EXCEPT ![j.of] = Closed("CANCELLED")]
          /\ Becomes(w, IF j.offer = None THEN Idle
                        ELSE [Idle EXCEPT !.op = "passing", !.offer = j.offer])
       \/ /\ ~StillAsRead(j)
          /\ Becomes(w, IF j.op = "leave" THEN [j EXCEPT !.op = "left"] ELSE Idle)
          /\ UNCHANGED entry
    /\ UNCHANGED <<slot, booked, freed, crashed>>

(* leaveWaitlist closes the entry even when the job took its offer. *)
LeaveAnyway(w) ==
    LET j == job[w] IN
    /\ j.op = "left"
    /\ entry' = IF entry[j.of].status \in InList
                THEN [entry EXCEPT ![j.of] = Closed("CANCELLED")] ELSE entry
    /\ Ends(w)
    /\ UNCHANGED <<slot, booked, freed, crashed>>

CloseStaleWaitlistEntries ==
    /\ entry' = [e \in EntryId |->
                   IF entry[e].status \notin InList THEN entry[e]
                   ELSE IF DayOver THEN Closed("EXPIRED")
                   ELSE IF e \in booked THEN Closed("BOOKED") ELSE entry[e]]
    /\ entry' # entry
    /\ UNCHANGED <<slot, booked, job, freed, crashed>>

(* The process stops: the request or the job does not go on. *)
Crash(w) ==
    /\ MayCrash /\ ~crashed /\ job[w] # Idle
    /\ crashed' = TRUE
    /\ Ends(w)
    /\ UNCHANGED <<entry, slot, booked, freed>>

Goes(w) ==
    \/ WalkStep(w) \/ PassClaims(w) \/ PassWaitlistOffer(w) \/ BackToWaiting(w)
    \/ SweepPastOffers(w) \/ LeaveClaims(w) \/ LeaveAnyway(w)

Next ==
    \/ CloseStaleWaitlistEntries
    \/ \E t \in Slot : Book(t) \/ SlotPasses(t)
    \/ \E e \in EntryId : Join(e) \/ OfferLapses(e)
    \/ \E w \in Worker :
         \/ Goes(w) \/ PassReads(w) \/ ScheduleOpens(w) \/ Crash(w)
         \/ \E t \in Slot : SlotFreed(w, t)
         \/ \E e \in EntryId : LeaveReads(w, e, "drop") \/ LeaveReads(w, e, "leave")

Spec == Init /\ [][Next]_vars

(* Requests end, offers lapse with the clock, and the job of the queue runs *)
(* every few minutes (register-schedulers).                                 *)
Fairness ==
    /\ \A w \in Worker : WF_vars(Goes(w)) /\ SF_vars(PassReads(w))
    /\ \A e \in EntryId : WF_vars(OfferLapses(e))
    /\ WF_vars(CloseStaleWaitlistEntries)

FairSpec == Spec /\ Fairness

(***************************************************************************)
(* Properties                                                              *)
(***************************************************************************)

TypeOK ==
    /\ entry \in [EntryId -> Entry]
    /\ slot \in [Slot -> {"closed", "busy", "free", "past"}]
    /\ booked \subseteq EntryId
    /\ job \in [Worker -> Job]
    /\ freed \in [Slot -> Nat] /\ crashed \in BOOLEAN

Holders(t) == {e \in EntryId : entry[e].offer = t}
Carriers(t) == {w \in Worker : t \in job[w].slots \/ (job[w].op = "passing" /\ job[w].offer = t)}

(* A slot that became free once is in the hands of one person or one job at *)
(* a time, though the expiry job, people who leave and staff who cancel     *)
(* race for its offer (the conditional clears of offeredStartAt).           *)
OfferedOnce == \A t \in Slot : Cardinality(Holders(t)) + Cardinality(Carriers(t)) <= freed[t]

(* An entry that was told and whose offer is gone waits again, unless the   *)
(* process stopped in the middle of passing the offer on (backToWaiting).   *)
NoticeNotForgotten ==
    \A e \in EntryId :
      (entry[e].status = "NOTIFIED" /\ entry[e].offer = None /\ ~crashed)
      => \E w \in Worker : job[w].of = e

(* Who leaves by the link of the e-mail is out when the request ends, even  *)
(* if the job takes the offer in the middle (leaveWaitlist).                *)
LeavingIsHonoured ==
    \A w \in Worker :
       (job[w].op \in {"leave", "left"} /\ job'[w].op \in {"idle", "passing"} /\ crashed' = crashed)
       => entry'[job[w].of].status \notin InList

InHand(t) == Holders(t) # {} \/ Carriers(t) # {}

=============================================================================
