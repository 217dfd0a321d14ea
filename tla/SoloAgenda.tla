----------------------------- MODULE SoloAgenda -----------------------------
(***************************************************************************)
(* The professional who works alone: the agenda with its quota, and the    *)
(* months of Pro.                                                          *)
(***************************************************************************)
EXTENDS Integers, FiniteSets

CONSTANTS
    Part,       \* the flow that is explored: "agenda", "referral"
    Worker,
    None,
    ShopId,
    RowId,
    Limit,      \* finished bookings, or products, of a month
    LastMonth,  \* bound on the clock
    Overlap,
    UserId,     \* accounts, in the order of their locks
    MaxMonths,  \* months that one account may earn by its code
    NewFor,     \* months for which an account is new
    MaxTime     \* bound on the clock

VARIABLES
    month,
    shop,      \* "none", "open", "closed"
    pro,       \* the Pro is active
    row,       \* bookings and sales: shop, kind, month, status, source
    late,      \* rows written after their month was closed to what is new
    req,
    now,
    proUntil,  \* end of the Pro
    created,   \* of the account, or None
    same,      \* pairs of accounts with one document or telephone
    referral,  \* by who was referred: inviter, granted
    served,    \* accounts that have a finished booking of a customer
    used       \* months of Pro that went by

(***************************************************************************)
(* "agenda". The agenda of a professional on their own: one open agenda at *)
(* a time, and the free quota of finished bookings and sold products,      *)
(* where the first month above it is tolerated and the second one in a row *)
(* stops what is new. A request checks and then writes.                    *)
(***************************************************************************)

agendaVars == <<month, shop, pro, row, late, req>>

Months == 0 .. LastMonth
AgendaFree == [op |-> "free", row |-> None]
Idle == \A w \in Worker : req[w] = AgendaFree
May(w) == req[w] = AgendaFree /\ (Idle \/ Overlap)
AgendaDone(w) == req' = [req EXCEPT ![w] = AgendaFree]

Rows == [shop : ShopId, kind : {"service", "product"}, at : Months, made : Months,
         status : {"CONFIRMED", "COMPLETED", "CANCELLED"}, source : {"STAFF", "HISTORY"}]

AgendaInit ==
    /\ month = 0 /\ shop = [s \in ShopId |-> "none"] /\ pro \in BOOLEAN
    /\ row = [r \in RowId |-> None] /\ late = {} /\ req = [w \in Worker |-> AgendaFree]

OpenShops == {s \in ShopId : shop[s] = "open"}

(* completedInRange and productsInRange: every agenda of the owner *)
Counts(r, kind, m) ==
    /\ row[r] # None /\ row[r].kind = kind /\ row[r].at = m /\ row[r].status = "COMPLETED"
    /\ row[r].source # "HISTORY"

Completed(kind, m) == Cardinality({r \in RowId : Counts(r, kind, m)})

SoloDecision(kind, m) ==
    LET over == Completed(kind, m) >= Limit
        before == m > 0 /\ Completed(kind, m - 1) >= Limit
    IN  [blocked |-> over /\ before, grace |-> over /\ ~before]

AssertAllowed(kind, m) == ~pro => ~SoloDecision(kind, m).blocked

(* start: the first reading, and then the transaction under a lock *)
Start(w) ==
    /\ May(w) /\ OpenShops = {}
    /\ req' = [req EXCEPT ![w] = [op |-> "start", row |-> None]]
    /\ UNCHANGED <<month, shop, pro, row, late>>

MayOpen == OpenShops = {}

StartTx(w, s) ==
    /\ req[w].op = "start" /\ shop[s] = "none"
    /\ shop' = IF MayOpen THEN [shop EXCEPT ![s] = "open"] ELSE shop
    /\ AgendaDone(w) /\ UNCHANGED <<month, pro, row, late>>

(* deleteBarbershop: the agenda is closed, its rows stay *)
Close(s) ==
    /\ shop[s] = "open" /\ Idle
    /\ shop' = [shop EXCEPT ![s] = "closed"]
    /\ UNCHANGED <<month, pro, row, late, req>>

(* createAppointment by its own month, createSale by the current one *)
Book(w, s, kind, m) ==
    /\ May(w) /\ shop[s] = "open" /\ (kind = "product" => m = month) /\ m >= month
    /\ AssertAllowed(kind, m)
    /\ req' = [req EXCEPT ![w] = [op |-> "write", row |->
                 [shop |-> s, kind |-> kind, at |-> m, made |-> month, source |-> "STAFF",
                  status |-> IF kind = "product" THEN "COMPLETED" ELSE "CONFIRMED"]]]
    /\ UNCHANGED <<month, shop, pro, row, late>>

Write(w, r) ==
    /\ req[w].op = "write" /\ row[r] = None
    /\ row' = [row EXCEPT ![r] = req[w].row]
    /\ late' = IF AssertAllowed(req[w].row.kind, req[w].row.at) THEN late ELSE late \cup {r}
    /\ AgendaDone(w) /\ UNCHANGED <<month, shop, pro>>

(* ShopImportService: only what happened before the agenda is out of the   *)
(* quota; here, a booking of a month that ended before it was opened.      *)
ImportHistory(r, s, m) ==
    /\ Idle /\ shop[s] = "open" /\ row[r] = None /\ m < month
    /\ row' = [row EXCEPT ![r] = [shop |-> s, kind |-> "service", at |-> m, made |-> month,
                                  status |-> "COMPLETED", source |-> "HISTORY"]]
    /\ UNCHANGED <<month, shop, pro, late, req>>

(* The booking is served, or cancelled; a sale is refunded. *)
Finish(r, status) ==
    /\ (Idle \/ Overlap) /\ row[r] # None /\ status # row[r].status /\ row[r].status # "CANCELLED"
    /\ (status = "COMPLETED" => row[r].at = month) /\ status \in {"COMPLETED", "CANCELLED"}
    /\ row' = [row EXCEPT ![r].status = status]
    /\ UNCHANGED <<month, shop, pro, late, req>>

NextMonth ==
    /\ month < LastMonth /\ Idle /\ month' = month + 1
    /\ UNCHANGED <<shop, pro, row, late, req>>

AgendaNext ==
    \/ \E w \in Worker : Start(w)
    \/ \E w \in Worker, s \in ShopId : StartTx(w, s)
    \/ \E w \in Worker, s \in ShopId, kind \in {"service", "product"}, m \in Months : Book(w, s, kind, m)
    \/ \E w \in Worker, r \in RowId : Write(w, r)
    \/ \E r \in RowId, s \in ShopId, m \in Months : ImportHistory(r, s, m)
    \/ \E r \in RowId, status \in {"COMPLETED", "CANCELLED"} : Finish(r, status)
    \/ \E s \in ShopId : Close(s)
    \/ NextMonth

AgendaTypeOK ==
    /\ month \in Months /\ shop \in [ShopId -> {"none", "open", "closed"}]
    /\ row \in [RowId -> Rows \cup {None}] /\ late \subseteq RowId

(* Two requests to begin open one agenda (start).                          *)
OneSoloAgenda == Cardinality(OpenShops) <= 1

(* The second month in a row above the limit takes nothing new, whatever   *)
(* was closed and opened again meanwhile, unless two requests overlap; and *)
(* a month that follows one within the limit is never stopped              *)
(* (soloDecision, assertSoloBookingAllowed).                               *)
QuotaHolds ==
    /\ ~Overlap => late = {}
    /\ \A kind \in {"service", "product"}, m \in Months :
          LET n(k) == Cardinality({r \in RowId : row[r] # None /\ row[r].kind = kind /\ row[r].at = k
                                                  /\ row[r].status = "COMPLETED" /\ row[r].source = "STAFF"})
          IN  ~pro => (AssertAllowed(kind, m) <=> ~(n(m) >= Limit /\ m > 0 /\ n(m - 1) >= Limit))

(***************************************************************************)
(* "referral". The referral of professionals: who is referred has a month  *)
(* of the Pro at once, who referred has theirs when the new account has    *)
(* served a customer. Months are ticks of the clock. A request checks      *)
(* before its transaction, which holds the locks of both accounts.         *)
(***************************************************************************)

referralVars == <<now, proUntil, created, same, referral, served, used, req>>

ReferralFree == [op |-> "free", user |-> None, of |-> None]
ReferralDone(w) == req' = [req EXCEPT ![w] = ReferralFree]
ProReferralRow == [inviter : UserId, granted : BOOLEAN]

ReferralInit ==
    /\ now = 0 /\ proUntil = [u \in UserId |-> 0] /\ created = [u \in UserId |-> IF u = 1 THEN 0 ELSE None]
    /\ same \in {{}, {{1, 2}}} /\ referral = [u \in UserId |-> None]
    /\ served = {} /\ used = [u \in UserId |-> 0] /\ req = [w \in Worker |-> ReferralFree]

Sent(u) == {v \in UserId : referral[v] # None /\ referral[v].inviter = u}
Pending(u) == {v \in Sent(u) : ~referral[v].granted}
IsProActive(u) == proUntil[u] > now

(* After the end of what is already paid, or from now on. *)
ExtendProUntil(u) == (IF IsProActive(u) THEN proUntil[u] ELSE now) + 1
Grants(u) == proUntil' = [proUntil EXCEPT ![u] = ExtendProUntil(u)]

SignUp(u) ==
    /\ created[u] = None /\ created' = [created EXCEPT ![u] = now]
    /\ UNCHANGED <<now, proUntil, same, referral, served, used, req>>

Serves(u) ==
    /\ created[u] # None /\ u \notin served /\ served' = served \cup {u}
    /\ UNCHANGED <<now, proUntil, created, same, referral, used, req>>

IsNewProAccount(u) == now <= created[u] + NewFor

Claim(w, u, v) ==
    /\ req[w] = ReferralFree /\ created[u] # None /\ created[v] # None /\ u # v
    /\ IsNewProAccount(u) /\ {u, v} \notin same
    /\ req' = [req EXCEPT ![w] = [op |-> "claim", user |-> u, of |-> v]]
    /\ UNCHANGED <<now, proUntil, created, same, referral, served, used>>

(* The row of an account is unique, and two accounts do not refer each     *)
(* other.                                                                  *)
MayClaim(u, v) == referral[u] = None /\ v \notin Sent(u) /\ Cardinality(Sent(v)) < MaxMonths

ClaimTx(w) ==
    /\ req[w].op = "claim"
    /\ LET u == req[w].user v == req[w].of IN
       IF MayClaim(u, v)
       THEN referral' = [referral EXCEPT ![u] = [inviter |-> v, granted |-> FALSE]] /\ Grants(u)
       ELSE UNCHANGED <<referral, proUntil>>
    /\ ReferralDone(w) /\ UNCHANGED <<now, created, same, served, used>>

(* releaseInviterMonths: read, and then a transaction for each *)
ReleaseInviterMonths(w, u) ==
    /\ req[w] = ReferralFree
    /\ \E v \in Pending(u) \cap served : req' = [req EXCEPT ![w] = [op |-> "release", user |-> v, of |-> u]]
    /\ UNCHANGED <<now, proUntil, created, same, referral, served, used>>

(* Mutant: what was read is not claimed again. *)
MutClaimed(v) == TRUE

Claimed(v) == ~referral[v].granted

ReleaseTx(w) ==
    /\ req[w].op = "release"
    /\ LET v == req[w].user IN
       IF Claimed(v)
       THEN referral' = [referral EXCEPT ![v].granted = TRUE] /\ Grants(req[w].of)
       ELSE UNCHANGED <<referral, proUntil>>
    /\ ReferralDone(w) /\ UNCHANGED <<now, created, same, served, used>>

Tick ==
    /\ now < MaxTime /\ now' = now + 1
    /\ used' = [u \in UserId |-> used[u] + (IF IsProActive(u) THEN 1 ELSE 0)]
    /\ UNCHANGED <<proUntil, created, same, referral, served, req>>

ReferralNext ==
    \/ \E w \in Worker : ClaimTx(w) \/ ReleaseTx(w)
    \/ \E w \in Worker, u, v \in UserId : Claim(w, u, v)
    \/ \E w \in Worker, u \in UserId : ReleaseInviterMonths(w, u)
    \/ \E u \in UserId : SignUp(u) \/ Serves(u)
    \/ Tick

ReferralTypeOK ==
    /\ now \in 0 .. MaxTime /\ proUntil \in [UserId -> 0 .. MaxTime + MaxMonths + 1] /\ used \in [UserId -> 0 .. MaxTime]
    /\ \A u \in UserId : referral[u] # None => referral[u] \in ProReferralRow

(* Every month that was earned is had once: what went by and what is left  *)
(* are the month of the claim and those of the accounts that served        *)
(* somebody (extendProUntil, grant, releaseInviterMonths).                 *)
MonthsAddUp ==
    \A u \in UserId :
        used[u] + (IF IsProActive(u) THEN proUntil[u] - now ELSE 0)
            = (IF referral[u] # None THEN 1 ELSE 0) + Cardinality(Sent(u) \ Pending(u))

(* Nobody earns months from who they were referred by, from themselves     *)
(* under another account, or above the limit, and a month of who referred  *)
(* waits for a real appointment (claim, realAppointmentWhere).             *)
ReferralsHonest ==
    \A u \in UserId : referral[u] # None =>
        LET v == referral[u].inviter IN
        /\ referral[v] # None => referral[v].inviter # u
        /\ {u, v} \notin same /\ Cardinality(Sent(v)) <= MaxMonths
        /\ referral[u].granted => u \in served

(***************************************************************************)
(* The component: one part at a time. The other parts have no state then.  *)
(***************************************************************************)

vars == 
    <<month, shop, pro, row, late, req, now, proUntil, created, same, referral, served,
      used>>

Init ==
    \/ /\ Part = "agenda" /\ AgendaInit
          /\ now = None /\ proUntil = None /\ created = None /\ same = None /\ referral = None
          /\ served = None /\ used = None
    \/ /\ Part = "referral" /\ ReferralInit
          /\ month = None /\ shop = None /\ pro = None /\ row = None /\ late = None

Next ==
    \/ Part = "agenda" /\ AgendaNext /\ UNCHANGED <<now, proUntil, created, same, referral, served, used>>
    \/ Part = "referral" /\ ReferralNext /\ UNCHANGED <<month, shop, pro, row, late>>

Spec == Init /\ [][Next]_vars

TypeOK ==
    /\ Part = "agenda" => AgendaTypeOK
    /\ Part = "referral" => ReferralTypeOK
=============================================================================
