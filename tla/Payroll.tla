------------------------------ MODULE Payroll -------------------------------
(***************************************************************************)
(* The pay of one professional: entries (tips, advances, bonuses and       *)
(* deductions), the payout of a period with the entries it closes, the     *)
(* advance it carries over when the professional owes, and its undo.       *)
(*                                                                         *)
(* A period is a range of days.  The payout runs under the lock of the     *)
(* professional; entries are deleted and payouts undone without it.        *)
(* Money is in whole units; the cash session the money leaves from is in   *)
(* CashDrawer.                                                             *)
(***************************************************************************)
EXTENDS Integers, Functions

CONSTANTS
    Worker,      \* concurrent requests
    EntryId,     \* rows of BarberPayEntry
    PayoutId,    \* rows of BarberPayout
    None,
    Day,         \* days with something to pay, a set of numbers
    Commission,  \* commission earned on each day
    PayTypes,    \* ways of paying that are tried
    FixedPerDay, \* fixed amount, in proportion to the days of the period
    Types,       \* types of the entries that are added
    Amounts      \* and their amounts

VARIABLES
    payType,     \* BarberPayConfig
    entries,     \* the rows of BarberPayEntry
    payouts,     \* the rows of BarberPayout
    job,         \* what each request read
    raced        \* history: an entry was deleted after a payout took it

vars == <<payType, entries, payouts, job, raced>>

EntryType == {"TIP", "BONUS", "DEDUCTION", "ADVANCE"}

Entry == [exists : BOOLEAN, type : EntryType, amount : Nat, date : Nat,
          payout : PayoutId \cup {None}]

Payout == [exists : BOOLEAN, from : Nat, to : Nat, base : Nat, total : Nat,
           carry : EntryId \cup {None}]

Job == [op : {"idle", "pay", "undo", "delete"}, entry : EntryId \cup {None},
        payout : PayoutId \cup {None}, from : Nat, to : Nat, taken : SUBSET EntryId, sum : Int]

NoEntry == [exists |-> FALSE, type |-> "TIP", amount |-> 0, date |-> 0, payout |-> None]
NoPayout == [exists |-> FALSE, from |-> 0, to |-> 0, base |-> 0, total |-> 0, carry |-> None]
Idle == [op |-> "idle", entry |-> None, payout |-> None, from |-> 0, to |-> 0,
         taken |-> {}, sum |-> 0]
Ends(w) == job' = [job EXCEPT ![w] = Idle]

Init ==
    /\ payType \in PayTypes
    /\ entries = [e \in EntryId |-> NoEntry]
    /\ payouts = [p \in PayoutId |-> NoPayout]
    /\ job = [w \in Worker |-> Idle]
    /\ raced = FALSE

(***************************************************************************)
(* What is due                                                             *)
(***************************************************************************)

MaxOf(a, b) == IF a > b THEN a ELSE b

CommissionOf(from, to) == SumFunctionOnSet(Commission, from .. to)

(* periodShare, then the rule of the way of paying *)
BaseAmount(from, to) ==
    LET fixed == FixedPerDay * (to - from + 1)
        commission == CommissionOf(from, to)
    IN  CASE payType = "COMMISSION" -> commission
          [] payType = "FIXED" -> fixed
          [] payType = "FIXED_PLUS_COMMISSION" -> fixed + commission
          [] payType = "GREATER_OF" -> MaxOf(fixed, commission)

Signed(e) == IF entries[e].type \in {"TIP", "BONUS"} THEN entries[e].amount
             ELSE -entries[e].amount

SumOf(es) == SumFunctionOnSet([e \in es |-> Signed(e)], es)

(* Every entry still outside a payout up to the end of the period *)
OpenUntil(to) ==
    {e \in EntryId : entries[e].exists /\ entries[e].payout = None /\ entries[e].date <= to}

(***************************************************************************)
(* Entries                                                                 *)
(***************************************************************************)

SetConfig(type) ==
    /\ type # payType
    /\ payType' = type
    /\ UNCHANGED <<entries, payouts, job, raced>>

Unused == {e \in EntryId : entries[e] = NoEntry}

AddEntry(type, amount, day) ==
    /\ \E e \in Unused :
         entries' = [entries EXCEPT ![e] = [exists |-> TRUE, type |-> type, amount |-> amount,
                                            date |-> day, payout |-> None]]
    /\ UNCHANGED <<payType, payouts, job, raced>>

DeleteReads(w, e) ==
    /\ job[w] = Idle
    /\ entries[e].exists /\ entries[e].payout = None
    /\ job' = [job EXCEPT ![w].op = "delete", ![w].entry = e]
    /\ UNCHANGED <<payType, entries, payouts, raced>>

(* The row read before is deleted with its expense, whatever it is now. *)
DeleteEntry(w) ==
    LET e == job[w].entry IN
    /\ job[w].op = "delete"
    /\ entries' = [entries EXCEPT ![e].exists = FALSE, ![e].payout = None]
    /\ raced' = (raced \/ entries[e].payout # None
                       \/ \E v \in Worker : e \in job[v].taken)
    /\ Ends(w)
    /\ UNCHANGED <<payType, payouts>>

(***************************************************************************)
(* Paying a period                                                         *)
(***************************************************************************)

Locked == \E w \in Worker : job[w].op = "pay"

Overlapping(from, to) ==
    \E p \in PayoutId : payouts[p].exists /\ payouts[p].from <= to /\ payouts[p].to >= from

(* The lock, the clash and compute *)
PayComputes(w, from, to) ==
    LET open == OpenUntil(to) IN
    /\ job[w] = Idle /\ ~Locked /\ ~Overlapping(from, to)
    /\ \E p \in PayoutId : payouts[p] = NoPayout
    /\ job' = [job EXCEPT ![w] = [op |-> "pay", entry |-> None, payout |-> None,
                                  from |-> from, to |-> to, taken |-> open,
                                  sum |-> SumOf(open)]]
    /\ UNCHANGED <<payType, entries, payouts, raced>>

CarryOf(total) == MaxOf(-total, 0)

(* The payout, its entries and what it carries over, committed at once *)
Pay(w) ==
    LET j == job[w]
        base == BaseAmount(j.from, j.to)
        total == base + j.sum
        carry == CarryOf(total)
    IN
    /\ j.op = "pay"
    /\ \E p \in PayoutId, c \in IF carry > 0 THEN Unused ELSE {None} :
         /\ payouts[p] = NoPayout
         /\ payouts' = [payouts EXCEPT ![p] =
                          [exists |-> TRUE, from |-> j.from, to |-> j.to, base |-> base,
                           total |-> MaxOf(total, 0), carry |-> c]]
         /\ entries' = [e \in EntryId |->
                          IF e = c THEN [exists |-> TRUE, type |-> "ADVANCE", amount |-> carry,
                                         date |-> j.to + 1, payout |-> None]
                          ELSE IF e \in j.taken /\ entries[e].exists /\ entries[e].payout = None
                          THEN [entries[e] EXCEPT !.payout = p] ELSE entries[e]]
    /\ Ends(w)
    /\ UNCHANGED <<payType, raced>>

(***************************************************************************)
(* Undoing                                                                 *)
(***************************************************************************)

UndoReads(w, p) ==
    /\ job[w] = Idle /\ payouts[p].exists
    /\ payouts[p].carry # None => entries[payouts[p].carry].payout = None
    /\ job' = [job EXCEPT ![w].op = "undo", ![w].payout = p]
    /\ UNCHANGED <<payType, entries, payouts, raced>>

(* The delete of a payout that is already gone fails and undoes the rest. *)
UndoPayout(w) ==
    LET p == job[w].payout
        c == payouts[p].carry
    IN
    /\ job[w].op = "undo"
    /\ \/ /\ payouts[p].exists
          /\ payouts' = [payouts EXCEPT ![p].exists = FALSE]
          /\ entries' = [e \in EntryId |->
                           IF e = c THEN [entries[e] EXCEPT !.exists = FALSE, !.payout = None]
                           ELSE IF entries[e].payout = p THEN [entries[e] EXCEPT !.payout = None]
                           ELSE entries[e]]
          /\ raced' = (raced \/ (c # None /\ (\/ entries[c].payout # None
                                               \/ \E v \in Worker : c \in job[v].taken)))
       \/ ~payouts[p].exists /\ UNCHANGED <<payouts, entries, raced>>
    /\ Ends(w)
    /\ UNCHANGED payType

Next ==
    \/ \E type \in PayTypes : SetConfig(type)
    \/ \E type \in Types, amount \in Amounts, day \in Day : AddEntry(type, amount, day)
    \/ \E w \in Worker :
         \/ DeleteEntry(w) \/ Pay(w) \/ UndoPayout(w)
         \/ \E e \in EntryId : DeleteReads(w, e)
         \/ \E p \in PayoutId : UndoReads(w, p)
         \/ \E from, to \in Day : from <= to /\ PayComputes(w, from, to)

Spec == Init /\ [][Next]_vars

(***************************************************************************)
(* Properties                                                              *)
(***************************************************************************)

TypeOK ==
    /\ payType \in PayTypes
    /\ entries \in [EntryId -> Entry]
    /\ payouts \in [PayoutId -> Payout]
    /\ job \in [Worker -> Job]
    /\ raced \in BOOLEAN

Standing == {p \in PayoutId : payouts[p].exists}
Covers(p, day) == payouts[p].from <= day /\ day <= payouts[p].to

(* No day is paid by two payouts, however clicks and undos overlap          *)
(* (pg_advisory_xact_lock(4), overlapping).                                 *)
DayPaidOnce ==
    \A p, q \in Standing : p # q => \A day \in Day : ~(Covers(p, day) /\ Covers(q, day))

(* While no entry is deleted behind a payout that took it, what a payout    *)
(* paid is its base plus the entries it holds, and the advance it carries   *)
(* over, until somebody deletes it, is what was missing (pay, undoPayout).  *)
PayoutAddsUp ==
    ~raced => \A p \in Standing :
      LET due == payouts[p].base + SumOf({e \in EntryId : entries[e].payout = p})
          c == payouts[p].carry
      IN  /\ payouts[p].total = MaxOf(due, 0)
          /\ due < 0 => c # None
          /\ (c # None /\ entries[c].exists) => entries[c].amount = -due
=============================================================================
