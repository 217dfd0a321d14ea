----------------------------- MODULE MCProgress -----------------------------
(***************************************************************************)
(* What must happen in the end, on small instances of the agenda, of the   *)
(* deposit and of the waiting list.  They share no rows here, so a         *)
(* behaviour is about one subject, and v1 .. v9 hold its state.            *)
(***************************************************************************)
EXTENDS Integers, TLC

CONSTANTS
    Worker,   \* two requests at a time
    One, Two, \* row ids
    b1, b3,   \* two professionals of one shop, b3 gone before the last slot
    x1,       \* the chair they share
    None

VARIABLES subject, v1, v2, v3, v4, v5, v6, v7, v8, v9

mcVars == <<subject, v1, v2, v3, v4, v5, v6, v7, v8, v9>>

(* Requests that need the phone, person and chair locks *)
Ag == INSTANCE Agenda WITH
    Request <- Worker, Appt <- Two, Barber <- {b1, b3}, Resource <- {x1}, Customer <- One,
    Person <- {b1, b3}, Shop <- {"shop"}, PersonOf <- [b \in {b1, b3} |-> b],
    ShopOf <- [b \in {b1, b3, x1} |-> "shop"],
    Engagement <- b1 :> 0..2 @@ b3 :> 0..2 \ {1},
    Horizon <- 2, Edits <- {},
    Handlers <- {"createAppointment", "createPublicAppointment",
                 "rescheduleManagedAppointment"},
    PublicLimit <- 1, SharedRows <- FALSE, NoShowGrace <- 1, InProgressEarly <- 1,
    rows <- v1, pc <- v2, job <- v3, personLock <- v4, resourceLock <- v5,
    phoneLock <- v6, now <- v7

(* One PaymentIntent, two calls that overlap *)
DepositMix == [ops |-> {"start", "webhook", "expire", "staffConfirm", "clientCancel"},
               serial |-> {}, faults |-> FALSE]

Dep == INSTANCE Deposit WITH
    Intent <- One, Mixes <- {DepositMix}, mix <- v9,
    row <- v1, intents <- v2, repaid <- v3, handed <- v4, events <- v5, expired <- v6,
    pc <- v7, call <- v8

(* Two people wait for one slot *)
List == INSTANCE Waitlist WITH
    Worker <- One, EntryId <- {1, 2}, Slot <- {1}, Blocked <- {}, MaxFreed <- 1,
    MayCrash <- FALSE,
    entry <- v1, slot <- v2, booked <- v3, job <- v4, freed <- v5, crashed <- v6

MCInit ==
    \/ subject = "agenda" /\ Ag!Init /\ v8 = None /\ v9 = None
    \/ subject = "deposit" /\ Dep!Init
    \/ subject = "waitlist" /\ List!Init /\ v7 = None /\ v8 = None /\ v9 = None

InAgenda(A) == subject = "agenda" /\ A /\ UNCHANGED <<subject, v8, v9>>
InDeposit(A) == subject = "deposit" /\ A /\ UNCHANGED subject
InWaitlist(A) == subject = "waitlist" /\ A /\ UNCHANGED <<subject, v7, v8, v9>>

MCNext == InAgenda(Ag!Next) \/ InDeposit(Dep!Next) \/ InWaitlist(List!Next)

(* The fairness of each module.  A behaviour is about one subject, so one   *)
(* condition on a disjunction stands for one condition per subject.         *)
Runs(w) ==
    InAgenda(Ag!Advance(w)) \/ InDeposit(Dep!Advance(w)) \/ InWaitlist(\E c \in One : List!Goes(c))
First(w) ==
    \/ InAgenda(Ag!LockPhone(w))
    \/ InDeposit(\E v \in Worker, i \in One : Dep!Deliver(v, i))
    \/ InWaitlist(\E c \in One : List!PassReads(c))
Second(w) == InAgenda(Ag!LockPerson(w)) \/ InDeposit(\E v \in Worker : Dep!Expire(v))
Third(w) == InAgenda(Ag!LockResource(w))
Clock == InDeposit(Dep!TimeOut) \/ InWaitlist(List!CloseStaleWaitlistEntries)
Lapse(e) == InWaitlist(List!OfferLapses(e))

Fairness ==
    /\ \A w \in Worker :
          WF_mcVars(Runs(w)) /\ SF_mcVars(First(w)) /\ SF_mcVars(Second(w)) /\ SF_mcVars(Third(w))
    /\ WF_mcVars(Clock)
    /\ \A e \in {1, 2} : WF_mcVars(Lapse(e))

MCSpec == MCInit /\ [][MCNext]_mcVars /\ Fairness

(* Every request ends, whatever locks the others hold: the order phone,     *)
(* person, resource admits no circular wait and no lock outlives its        *)
(* transaction (lockSchedule).                                              *)
RequestsFinish ==
    \A w \in Worker :
        (subject = "agenda" /\ v2[w] # "idle") ~> (subject = "agenda" /\ v2[w] = "idle")

(* A captured payment is applied to the reservation or given back, though   *)
(* screen, webhook, expiry and staff overlap (finalize).                    *)
PaymentSettles ==
    \A i \in One :
        (subject = "deposit" /\ v2[i] = "succeeded")
        ~> (subject = "deposit" /\ Dep!Settled(i))

(* A reservation never waits for its deposit for ever: it is confirmed,     *)
(* cancelled or deleted (expireHolds).                                      *)
HoldResolves ==
    (subject = "deposit" /\ v1.status = "PENDING_PAYMENT")
    ~> (subject = "deposit" /\ v1.status # "PENDING_PAYMENT")

(* While a free slot is on offer, each person who waits and may book is     *)
(* told in the end ("avisa o próximo da fila", passExpiredWaitlistOffers).  *)
EveryoneIsTold ==
    \A e \in {1, 2} :
      (subject = "waitlist" /\ v1[e].status = "WAITING" /\ List!InHand(1))
      ~> (subject = "waitlist"
          /\ (v1[e].status # "WAITING" \/ v2[1] # "free" \/ ~List!InHand(1)))
=============================================================================
