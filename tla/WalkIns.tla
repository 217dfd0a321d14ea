------------------------------ MODULE WalkIns ------------------------------
(***************************************************************************)
(* The queue of who comes without an appointment: entries of a day with a  *)
(* position, who takes them, the history of what was done, and the job     *)
(* that closes the queue of a day that is over.                            *)
(***************************************************************************)
EXTENDS Integers, FiniteSets, FiniteSetsExt

CONSTANTS
    Worker, None,
    WalkInId,
    Barber,   \* who may take an entry
    MaxDay,   \* bound on the days
    MaxPlace, \* bound on the places that are given in a day
    Overlap   \* whether two requests run together

VARIABLES
    today,
    walkIn,   \* the rows
    history,  \* how often an entry is in the history of its customer
    late,     \* entries of a day that was closed and that somebody took again
    req

vars == <<today, walkIn, history, late, req>>

WALK_IN_NEXT ==
    [s \in {"WAITING", "IN_PROGRESS", "COMPLETED", "CANCELLED", "NOT_SERVED"} |->
        CASE s = "WAITING"     -> {"IN_PROGRESS", "CANCELLED", "NOT_SERVED"}
          [] s = "IN_PROGRESS" -> {"COMPLETED", "CANCELLED", "WAITING", "NOT_SERVED"}
          [] OTHER             -> {}]
WALK_IN_STATUSES == DOMAIN WALK_IN_NEXT

WalkInRow == [status : WALK_IN_STATUSES, position : Nat, day : 0 .. MaxDay, barber : Barber \cup {None}]
Free == [op |-> "free", id |-> None, was |-> "WAITING", to |-> "WAITING", barber |-> None]
Idle == \A w \in Worker : req[w] = Free
May(w) == req[w] = Free /\ (Idle \/ Overlap)
Open == {"WAITING", "IN_PROGRESS"}

Init ==
    /\ today = 0 /\ walkIn = [i \in WalkInId |-> None] /\ history = [i \in WalkInId |-> 0] /\ late = {}
    /\ req = [w \in Worker |-> Free]

Queue == {i \in WalkInId : walkIn[i] # None /\ walkIn[i].status = "WAITING" /\ walkIn[i].day = today}

NextQueuePosition == IF Queue = {} THEN 1 ELSE Max({walkIn[i].position : i \in Queue}) + 1

(* the transaction holds the lock of the queue of the shop *)
CreateWalkIn(w, i) ==
    /\ May(w) /\ walkIn[i] = None
    /\ \E b \in Barber \cup {None} :
          walkIn' = [walkIn EXCEPT ![i] = [status |-> "WAITING", position |-> NextQueuePosition, day |-> today, barber |-> b]]
    /\ UNCHANGED <<today, history, late, req>>

(* updateWalkInStatus: own is the professional that asks, None for the     *)
(* reception, who may choose who serves                                    *)
ReadWalkIn(w, i) ==
    /\ May(w) /\ walkIn[i] # None
    /\ \E own \in Barber \cup {None}, chosen \in Barber \cup {None}, to \in WALK_IN_NEXT[walkIn[i].status] :
          /\ own # None => walkIn[i].barber \in {None, own} /\ chosen \in {None, own}
          /\ chosen # None => to = "IN_PROGRESS"
          /\ to = "WAITING" => NextQueuePosition <= MaxPlace
          /\ req' = [req EXCEPT ![w] = [op |-> "write", id |-> i, was |-> walkIn[i].status, to |-> to,
                barber |-> IF to # "IN_PROGRESS" \/ (chosen = None /\ walkIn[i].barber # None) THEN walkIn[i].barber
                           ELSE IF chosen # None THEN chosen ELSE own]]
    /\ UNCHANGED <<today, walkIn, history, late>>

(* who goes back to the queue goes to its end *)
Written(r) ==
    [walkIn[r.id] EXCEPT !.status = r.to,
                         !.position = IF r.to = "WAITING" THEN NextQueuePosition ELSE @,
                         !.barber = IF r.to = "IN_PROGRESS" THEN r.barber ELSE @]

(* what was done, for an entry that somebody served *)
Served(r) == r.to = "COMPLETED" /\ r.barber # None

UpdateWalkInStatus(w) ==
    /\ req[w].op = "write"
    /\ LET r == req[w] IN
       /\ walkIn' = [walkIn EXCEPT ![r.id] = Written(r)]
       /\ history' = [history EXCEPT ![r.id] = IF Served(r) THEN @ + 1 ELSE @]
       /\ late' = IF walkIn[r.id].status = "NOT_SERVED" /\ r.to \in Open THEN late \cup {r.id} ELSE late
    /\ req' = [req EXCEPT ![w] = Free]
    /\ UNCHANGED today

Stale(i) == walkIn[i] # None /\ walkIn[i].status \in Open /\ walkIn[i].day < today

(* closeStaleWalkIns, one statement; it runs often enough for every entry  *)
(* to be closed within a day                                               *)
CloseStaleWalkIns ==
    /\ Idle \/ Overlap
    /\ walkIn' = [i \in WalkInId |-> IF Stale(i) THEN [walkIn[i] EXCEPT !.status = "NOT_SERVED"] ELSE walkIn[i]]
    /\ walkIn' # walkIn
    /\ UNCHANGED <<today, history, late, req>>

NextDay ==
    /\ today < MaxDay /\ (Idle \/ Overlap) /\ ~\E i \in WalkInId : Stale(i)
    /\ today' = today + 1
    /\ UNCHANGED <<walkIn, history, late, req>>

Next ==
    \/ CloseStaleWalkIns \/ NextDay
    \/ \E w \in Worker : UpdateWalkInStatus(w) \/ \E i \in WalkInId : CreateWalkIn(w, i) \/ ReadWalkIn(w, i)

Spec == Init /\ [][Next]_vars

(***************************************************************************)
(* Properties                                                              *)
(***************************************************************************)

TypeOK ==
    /\ today \in 0 .. MaxDay /\ walkIn \in [WalkInId -> WalkInRow \cup {None}]
    /\ history \in [WalkInId -> Nat] /\ late \subseteq WalkInId
    /\ \A w \in Worker : req[w].op \in {"free", "write"} /\ req[w].was \in WALK_IN_STATUSES

(* No two people that wait today have the same place, whoever comes,       *)
(* leaves and goes back to the queue meanwhile (nextQueuePosition under    *)
(* its lock).                                                              *)
PlacesUnique == \A i, j \in Queue : i # j => walkIn[i].position # walkIn[j].position

(* What was done is once in the history of the customer, and only for who  *)
(* was served; the status is read before the transaction, so two clicks    *)
(* together write it twice.                                                *)
ServedOnce ==
    ~Overlap => \A i \in WalkInId : history[i] = IF walkIn[i] # None /\ walkIn[i].status = "COMPLETED" /\ walkIn[i].barber # None
                                                 THEN 1 ELSE 0

(* Nobody is still in the queue two days later, and the queue of a day     *)
(* that was closed stays closed (closeStaleWalkIns), unless a request was  *)
(* halfway when it was closed.                                             *)
ClosedDayStays ==
    ~Overlap => /\ \A i \in WalkInId : walkIn[i] # None /\ walkIn[i].day + 1 < today => walkIn[i].status \notin Open
                /\ late = {}

=============================================================================
