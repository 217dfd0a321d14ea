------------------------------ MODULE Approvals ------------------------------
(***************************************************************************)
(* What the team of the platform does only with the confirmation of an     *)
(* administrator: erasing an account, refunds above a limit, e-mails to    *)
(* many people; and what each one does alone below those limits.           *)
(***************************************************************************)
EXTENDS Integers, FiniteSets

CONSTANTS
    Worker, None,
    Person,        \* members of the team
    ApprovalId,    \* rows of BackofficeApproval
    Target,        \* what is asked for: "refund" is the refund of one payment
    Paid,          \* what was paid by the customer
    RefundLimit,   \* what comes back without a confirmation
    MailLimit,     \* MASS_EMAIL_LIMIT, people in 24 hours
    Overlap

VARIABLES
    role,       \* of each person: "admin", "manager" or "out"
    approval,   \* rows of BackofficeApproval
    command,    \* approvals whose execution was queued by the backoffice API
    refunded,   \* what came back of the payment
    direct,     \* the part of it that no administrator saw
    mails,      \* people in the rows of BackofficeEmailSend, by who asked
    req

vars == <<role, approval, command, refunded, direct, mails, req>>
rows == <<approval, command>>
money == <<refunded, direct>>

(* "late": older than the time to decide; "runs": how often it was done    *)
ApprovalRow ==
    [status : {"none", "pending", "executing", "executed", "failed", "rejected", "cancelled", "expired"},
     target : Target \cup {None}, by : Person \cup {None}, decidedBy : Person \cup {None},
     late : BOOLEAN, runs : 0 .. 2]
NoRow == [status |-> "none", target |-> None, by |-> None, decidedBy |-> None, late |-> FALSE, runs |-> 0]

Free == [op |-> "free", who |-> None, id |-> None, target |-> None, amount |-> 0]
MayStart(w) == req[w] = Free /\ (Overlap \/ \A v \in Worker : req[v] = Free)
Starts(w, op, p, id, t, n) ==
    MayStart(w) /\ req' = [req EXCEPT ![w] = [op |-> op, who |-> p, id |-> id, target |-> t, amount |-> n]]
Goes(w, op) == req' = [req EXCEPT ![w].op = op]
Ends(w) == req' = [req EXCEPT ![w] = Free]

Init ==
    /\ role \in [Person -> {"admin", "manager"}]
    /\ approval = [i \in ApprovalId |-> NoRow] /\ command = {}
    /\ refunded = 0 /\ direct = 0
    /\ mails = [p \in Person |-> 0]
    /\ req = [w \in Worker |-> Free]

(* People are promoted, and leave the team (backoffice API) *)
ChangeRole(p) ==
    /\ role' = [role EXCEPT ![p] = CASE @ = "manager" -> "admin" [] @ = "admin" -> "out" [] OTHER -> "manager"]
    /\ UNCHANGED <<rows, money, mails, req>>

TimePasses(i) ==
    /\ approval[i].status = "pending"
    /\ approval' = [approval EXCEPT ![i].late = TRUE]
    /\ UNCHANGED <<role, command, money, mails, req>>

(***************************************************************************)
(* Asking                                                                  *)
(***************************************************************************)

ExpireStale(a) ==
    [i \in ApprovalId |-> IF a[i].status = "pending" /\ a[i].late THEN [a[i] EXCEPT !.status = "expired"] ELSE a[i]]

(* sameApprovalTarget *)
SameTarget(a, t) == \E i \in ApprovalId : a[i].status = "pending" /\ a[i].target = t

(* request: the old ones expire, then an equal one is looked for           *)
RequestReads(w, p, t) ==
    /\ role[p] = "manager" /\ ~SameTarget(ExpireStale(approval), t)
    /\ Starts(w, "ask", p, None, t, 0)
    /\ approval' = ExpireStale(approval)
    /\ UNCHANGED <<role, command, money, mails>>

RequestCreates(w, i) ==
    /\ req[w].op = "ask" /\ approval[i].status = "none"
    /\ approval' = [approval EXCEPT ![i] = [NoRow EXCEPT !.status = "pending", !.target = req[w].target, !.by = req[w].who]]
    /\ Ends(w)
    /\ UNCHANGED <<role, command, money, mails>>

(***************************************************************************)
(* Deciding                                                                *)
(***************************************************************************)

(* Mutant: who was promoted decides on an own request. *)
MutMayDecide(p, row) == role[p] = "admin" /\ role[row.by] # "out"

(* decide: an administrator, never who asked, who is still on the team     *)
MayDecide(p, row) == role[p] = "admin" /\ row.by # p /\ role[row.by] # "out"

DecideReads(w, p, i, approve) ==
    LET row == approval[i] IN
    /\ row.status = "pending" /\ ~row.late /\ MayDecide(p, row)
    /\ Starts(w, IF approve THEN "approve" ELSE "reject", p, i, None, 0)
    /\ UNCHANGED <<role, rows, money, mails>>

DecideTooLate(p, i) ==
    /\ approval[i].status = "pending" /\ approval[i].late /\ role[p] = "admin" /\ approval[i].by # p
    /\ approval' = [approval EXCEPT ![i].status = "expired"]
    /\ UNCHANGED <<role, command, money, mails, req>>

(* where: { id, status: 'pending' } *)
StillPending(i) == approval[i].status = "pending"

DecideClaims(w) ==
    LET i == req[w].id IN
    /\ req[w].op \in {"approve", "reject"}
    /\ IF StillPending(i)
       THEN /\ approval' = [approval EXCEPT ![i].decidedBy = req[w].who,
                              ![i].status = IF req[w].op = "approve" THEN "executing" ELSE "rejected"]
            /\ IF req[w].op = "approve" THEN Goes(w, "run") ELSE Ends(w)
       ELSE UNCHANGED approval /\ Ends(w)
    /\ UNCHANGED <<role, command, money, mails>>

(* execute: a refund that is more than what is left is refused             *)
Executes(i, ok) ==
    /\ ok /\ approval[i].target = "refund" => refunded < Paid
    /\ refunded' = IF ok /\ approval[i].target = "refund" THEN refunded + 1 ELSE refunded
    /\ UNCHANGED direct
Ran(row, ok) == [row EXCEPT !.runs = IF ok THEN @ + 1 ELSE @]

DecideRuns(w, ok) ==
    LET i == req[w].id IN
    /\ req[w].op = "run" /\ Executes(i, ok)
    /\ approval' = [approval EXCEPT ![i] = Ran(@, ok)]
    /\ Goes(w, IF ok THEN "executed" ELSE "failed")
    /\ UNCHANGED <<role, command, mails>>

DecideWrites(w) ==
    /\ req[w].op \in {"executed", "failed"}
    /\ approval' = [approval EXCEPT ![req[w].id].status = req[w].op]
    /\ Ends(w)
    /\ UNCHANGED <<role, command, money, mails>>

(* cancel: one conditional write *)
Cancel(i) ==
    /\ approval[i].status \notin {"none"} /\ StillPending(i)
    /\ approval' = [approval EXCEPT ![i].status = "cancelled", ![i].decidedBy = approval[i].by]
    /\ UNCHANGED <<role, command, money, mails, req>>

(***************************************************************************)
(* The backoffice API decides and queues the execution here                *)
(***************************************************************************)

ConfirmedOutside(p, i) ==
    /\ approval[i].status = "pending" /\ ~approval[i].late /\ MayDecide(p, approval[i])
    /\ approval' = [approval EXCEPT ![i].status = "executing", ![i].decidedBy = p]
    /\ command' = command \cup {i}
    /\ UNCHANGED <<role, money, mails, req>>

(* executeConfirmed, delivered again when a process stops *)
CommandReads(w, i) ==
    /\ i \in command /\ approval[i].status = "executing"
    /\ Starts(w, "command", None, i, None, 0)
    /\ UNCHANGED <<role, rows, money, mails>>

(* marked as done before it is done *)
ClaimsExecution(i) == approval[i].status = "executing"

CommandClaims(w) ==
    LET i == req[w].id IN
    /\ req[w].op = "command"
    /\ IF ClaimsExecution(i)
       THEN approval' = [approval EXCEPT ![i].status = "executed"] /\ Goes(w, "commanded")
       ELSE UNCHANGED approval /\ Ends(w)
    /\ UNCHANGED <<role, command, money, mails>>

CommandRuns(w, ok) ==
    LET i == req[w].id IN
    /\ req[w].op = "commanded" /\ Executes(i, ok)
    /\ approval' = [approval EXCEPT ![i] = Ran(@, ok)]
    /\ IF ok THEN Ends(w) ELSE Goes(w, "failed")
    /\ UNCHANGED <<role, command, mails>>

Crash(w) ==
    /\ req[w] # Free /\ Ends(w)
    /\ UNCHANGED <<role, rows, money, mails>>

(***************************************************************************)
(* Below the limits                                                        *)
(***************************************************************************)

(* adminRefundAppPayment: with what already came back of the payment       *)
RefundExceedsLimit(value) == value + refunded > RefundLimit

AdminRefundReads(w, p, value) ==
    /\ role[p] = "admin" \/ (role[p] = "manager" /\ ~RefundExceedsLimit(value))
    /\ refunded + value <= Paid
    /\ Starts(w, IF role[p] = "admin" THEN "adminRefund" ELSE "refund", p, None, None, value)
    /\ UNCHANGED <<role, rows, money, mails>>

AdminRefundRuns(w) ==
    /\ req[w].op \in {"refund", "adminRefund"}
    /\ IF refunded + req[w].amount <= Paid
       THEN /\ refunded' = refunded + req[w].amount
            /\ direct' = IF req[w].op = "adminRefund" THEN direct ELSE direct + req[w].amount
       ELSE UNCHANGED money
    /\ Ends(w)
    /\ UNCHANGED <<role, rows, mails>>

Fits(p, n) == mails[p] + n <= MailLimit

(* reserveDirectEmail: under a lock of the person; then sendDirect         *)
ReserveDirectEmail(w, p, n) ==
    /\ role[p] = "manager" /\ Fits(p, n)
    /\ mails' = [mails EXCEPT ![p] = @ + n]
    /\ Starts(w, "mail", p, None, None, n)
    /\ UNCHANGED <<role, rows, money>>

(* sent, or refused and taken out of the count *)
SendDirect(w, ok) ==
    /\ req[w].op = "mail"
    /\ mails' = IF ok THEN mails ELSE [mails EXCEPT ![req[w].who] = @ - req[w].amount]
    /\ Ends(w)
    /\ UNCHANGED <<role, rows, money>>

Next ==
    \/ \E p \in Person : ChangeRole(p) \/ \E i \in ApprovalId : DecideTooLate(p, i) \/ ConfirmedOutside(p, i)
    \/ \E i \in ApprovalId : TimePasses(i) \/ Cancel(i)
    \/ \E w \in Worker :
         \/ DecideClaims(w) \/ DecideWrites(w) \/ CommandClaims(w) \/ AdminRefundRuns(w) \/ Crash(w)
         \/ \E ok \in BOOLEAN : DecideRuns(w, ok) \/ CommandRuns(w, ok) \/ SendDirect(w, ok)
         \/ \E i \in ApprovalId : RequestCreates(w, i) \/ CommandReads(w, i)
         \/ \E p \in Person :
              \/ \E t \in Target : RequestReads(w, p, t)
              \/ \E i \in ApprovalId, approve \in BOOLEAN : DecideReads(w, p, i, approve)
              \/ \E value \in 1 .. Paid : AdminRefundReads(w, p, value)
              \/ \E n \in 1 .. MailLimit : ReserveDirectEmail(w, p, n)

Spec == Init /\ [][Next]_vars

(***************************************************************************)
(* Properties                                                              *)
(***************************************************************************)

TypeOK ==
    /\ role \in [Person -> {"admin", "manager", "out"}]
    /\ approval \in [ApprovalId -> ApprovalRow] /\ command \subseteq ApprovalId
    /\ refunded \in 0 .. Paid /\ direct \in 0 .. Paid
    /\ mails \in [Person -> 0 .. MailLimit]
    /\ req \in [Worker -> [op : {"free", "ask", "approve", "reject", "run", "executed", "failed", "command",
                                 "commanded", "refund", "adminRefund", "mail"},
                           who : Person \cup {None}, id : ApprovalId \cup {None},
                           target : Target \cup {None}, amount : 0 .. Paid + MailLimit]]

(* What was confirmed is done at most once, though the command is          *)
(* delivered again, two administrators decide at once and processes stop   *)
(* halfway (executeConfirmed, decide).                                     *)
ActionRunsOnce == \A i \in ApprovalId : approval[i].runs <= 1

(* What was done was confirmed by somebody else than who asked, and was    *)
(* not withdrawn, rejected or expired (decide, cancel, expireStale).       *)
RunsOnlyApproved ==
    \A i \in ApprovalId : approval[i].runs > 0 =>
        /\ approval[i].status \in {"executing", "executed", "failed"}
        /\ approval[i].decidedBy \notin {None, approval[i].by}

(* One request at a time, no two equal requests wait for a decision        *)
(* (sameApprovalTarget).                                                   *)
OnePending ==
    ~Overlap => \A i, j \in ApprovalId :
        i # j /\ approval[i].status = "pending" /\ approval[j].status = "pending"
        => approval[i].target # approval[j].target

(* One request at a time, what came back without an administrator is       *)
(* within the limit, in however many parts (adminRefundAppPayment).        *)
DirectRefundWithinLimit == ~Overlap => direct <= RefundLimit

=============================================================================
