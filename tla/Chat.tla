-------------------------------- MODULE Chat --------------------------------
(***************************************************************************)
(* The two conversations of one appointment (with the shop, with the       *)
(* professional), the complaints about them and the day they are erased.   *)
(***************************************************************************)
EXTENDS Integers, FiniteSets

CONSTANTS
    Worker, None,
    Barber,    \* professionals with an account; one of them has the appointment
    Kind,      \* the conversations there are: "unit" and "professional", or
               \* only the latter when the shop is one person
    Overlap    \* whether requests run together

VARIABLES
    barber,    \* the professional of the appointment
    open,      \* neither cancelled nor past the seven days
    blocked,   \* the shop receives nothing from the customer
    thread,    \* rows of ChatThread
    reports,   \* who has an open complaint about each conversation
    req

vars == <<barber, open, blocked, thread, reports, req>>

Side == {"client", "staff"}
Other(side) == IF side = "client" THEN "staff" ELSE "client"

(* "to": whom the messages were written to; "unread": the sides that have  *)
(* messages to read; "mailed": an e-mail in the last half hour; "mails":   *)
(* e-mails since then; "idle": twelve months without a message.            *)
ThreadRow == [live : BOOLEAN, barber : Barber \cup {None}, closed : BOOLEAN, held : BOOLEAN,
              to : SUBSET Barber, unread : SUBSET Side, mailed : BOOLEAN, mails : 0 .. 2, idle : BOOLEAN]

NoThread == [live |-> FALSE, barber |-> None, closed |-> FALSE, held |-> FALSE,
             to |-> {}, unread |-> {}, mailed |-> FALSE, mails |-> 0, idle |-> FALSE]

Free == [op |-> "free", kind |-> None, side |-> None, to |-> None, mail |-> FALSE]
MayStart(w) == req[w] = Free /\ (Overlap \/ \A v \in Worker : req[v] = Free)
Starts(w, op, k, s, to) ==
    MayStart(w) /\ req' = [req EXCEPT ![w] = [op |-> op, kind |-> k, side |-> s, to |-> to, mail |-> FALSE]]
Goes(w, op) == req' = [req EXCEPT ![w].op = op]
Ends(w) == req' = [req EXCEPT ![w] = Free]

Busy(k) == \E w \in Worker : req[w].op # "free" /\ req[w].kind = k

Init ==
    /\ barber \in Barber
    /\ open = TRUE /\ blocked = FALSE
    /\ thread = [k \in Kind |-> NoThread]
    /\ reports = [k \in Kind |-> {}]
    /\ req = [w \in Worker |-> Free]

(***************************************************************************)
(* The appointment                                                         *)
(***************************************************************************)

ChangeBarber == barber' \in Barber /\ open /\ UNCHANGED <<open, blocked, thread, reports, req>>
CloseAppointment == open /\ open' = FALSE /\ UNCHANGED <<barber, blocked, thread, reports, req>>
BlockCustomer == blocked' = ~blocked /\ UNCHANGED <<barber, open, thread, reports, req>>

(***************************************************************************)
(* Messages                                                                *)
(***************************************************************************)

(* professionalOf: the conversation stays with who opened it *)
CurrentProfessional(k) == k = "professional" /\ thread[k].live => thread[k].barber = barber

(* send: what forbids a message *)
SendReads(w, k, s) ==
    /\ open /\ (s = "client" => ~blocked)
    /\ CurrentProfessional(k) /\ ~thread[k].closed
    /\ Starts(w, "send", k, s, barber)
    /\ UNCHANGED <<barber, open, blocked, thread, reports>>

(* The conversation is created, or takes one more message. Who writes has  *)
(* read it.                                                                *)
UpsertThread(w) ==
    LET k == req[w].kind
        row == thread[k]
    IN
    /\ req[w].op = "send"
    /\ thread' = [thread EXCEPT ![k] =
         IF row.live THEN [row EXCEPT !.idle = FALSE, !.unread = @ \ {req[w].side}]
         ELSE [NoThread EXCEPT !.live = TRUE, !.barber = IF k = "professional" THEN req[w].to ELSE None]]
    /\ req' = [req EXCEPT ![w].op = "message", ![w].mail = ~row.mailed]
    /\ UNCHANGED <<barber, open, blocked, reports>>

CreateMessage(w) ==
    LET k == req[w].kind IN
    /\ req[w].op = "message"
    /\ IF thread[k].live
       THEN /\ thread' = [thread EXCEPT ![k].unread = @ \cup {Other(req[w].side)},
                                        ![k].to = IF k = "professional" THEN @ \cup {req[w].to} ELSE @]
            /\ IF req[w].side = "staff" /\ req[w].mail THEN Goes(w, "mail") ELSE Ends(w)
       ELSE UNCHANGED thread /\ Ends(w)
    /\ UNCHANGED <<barber, open, blocked, reports>>

MarkMailed(row) == [row EXCEPT !.mailed = TRUE, !.mails = @ + 1]

(* notifyClient: one e-mail in half an hour *)
NotifyClient(w) ==
    LET k == req[w].kind IN
    /\ req[w].op = "mail"
    /\ thread' = [thread EXCEPT ![k] = IF @.live /\ @.mails < 2 THEN MarkMailed(@) ELSE @]
    /\ Ends(w)
    /\ UNCHANGED <<barber, open, blocked, reports>>

HalfHour(k) ==
    /\ thread[k].mailed
    /\ thread' = [thread EXCEPT ![k].mailed = FALSE, ![k].mails = 0]
    /\ UNCHANGED <<barber, open, blocked, reports, req>>

(* threads: opening shows the messages and marks them as read *)
OpenThreads(k, s) ==
    /\ s \in thread[k].unread
    /\ thread' = [thread EXCEPT ![k].unread = @ \ {s}]
    /\ UNCHANGED <<barber, open, blocked, reports, req>>

(***************************************************************************)
(* Complaints                                                              *)
(***************************************************************************)

(* report, reportChatThread: the complaint, then the text is held *)
Report(w, k, s) ==
    /\ thread[k].live /\ Starts(w, "hold", k, s, None)
    /\ reports' = [reports EXCEPT ![k] = @ \cup {s}]
    /\ UNCHANGED <<barber, open, blocked, thread>>

Hold(row) == [row EXCEPT !.held = row.live]

HoldThread(w) ==
    /\ req[w].op = "hold"
    /\ thread' = [thread EXCEPT ![req[w].kind] = Hold(@)]
    /\ Ends(w)
    /\ UNCHANGED <<barber, open, blocked, reports>>

(* resolve: closing the conversation, leaving it or opening it again       *)
Resolve(w, k, action) ==
    /\ thread[k].live
    /\ IF action = "restore" THEN MayStart(w) /\ UNCHANGED req ELSE Starts(w, "decide", k, None, None)
    /\ thread' = [thread EXCEPT ![k].closed = IF action = "dismiss" THEN @ ELSE action = "hide"]
    /\ UNCHANGED <<barber, open, blocked, reports>>

(* ... then the complaints are closed, then the text is let go *)
CloseReports(w) ==
    /\ req[w].op = "decide"
    /\ reports' = [reports EXCEPT ![req[w].kind] = {}]
    /\ Goes(w, "letGo")
    /\ UNCHANGED <<barber, open, blocked, thread>>

LetGo(w) ==
    /\ req[w].op = "letGo"
    /\ thread' = [thread EXCEPT ![req[w].kind].held = FALSE]
    /\ Ends(w)
    /\ UNCHANGED <<barber, open, blocked, reports>>

(***************************************************************************)
(* Retention                                                               *)
(***************************************************************************)

TwelveMonths(k) ==
    /\ thread[k].live /\ ~thread[k].idle /\ ~open
    /\ thread' = [thread EXCEPT ![k].idle = TRUE]
    /\ UNCHANGED <<barber, open, blocked, reports, req>>

Erase(k) ==
    /\ thread[k].live /\ thread[k].idle /\ ~thread[k].held
    /\ Overlap \/ ~Busy(k)
    /\ thread' = [thread EXCEPT ![k] = NoThread]
    /\ UNCHANGED <<barber, open, blocked, reports, req>>

Next ==
    \/ ChangeBarber \/ CloseAppointment \/ BlockCustomer
    \/ \E k \in Kind : HalfHour(k) \/ TwelveMonths(k) \/ Erase(k) \/ \E s \in Side : OpenThreads(k, s)
    \/ \E w \in Worker :
         \/ UpsertThread(w) \/ CreateMessage(w) \/ NotifyClient(w) \/ HoldThread(w)
         \/ CloseReports(w) \/ LetGo(w)
         \/ \E k \in Kind :
              \/ \E s \in Side : SendReads(w, k, s) \/ Report(w, k, s)
              \/ \E action \in {"hide", "dismiss", "restore"} : Resolve(w, k, action)

Spec == Init /\ [][Next]_vars

(***************************************************************************)
(* Properties                                                              *)
(***************************************************************************)

TypeOK ==
    /\ barber \in Barber /\ open \in BOOLEAN /\ blocked \in BOOLEAN
    /\ thread \in [Kind -> ThreadRow]
    /\ reports \in [Kind -> SUBSET Side]
    /\ req \in [Worker -> [op : {"free", "send", "message", "mail", "hold", "decide", "letGo"},
                           kind : Kind \cup {None}, side : Side \cup {None}, to : Barber \cup {None},
                           mail : BOOLEAN]]

(* What is written to a professional is read by that professional, though  *)
(* the appointment changes hands while a message is sent, one message at a *)
(* time (professionalOf, send).                                            *)
WrittenToWhoReads ==
    ~Overlap => \A k \in Kind : thread[k].to \subseteq {thread[k].barber}

(* The text of a conversation with an open complaint is there until the    *)
(* platform decides, one request at a time (reportChatThread, resolve).    *)
HeldWhileReported ==
    ~Overlap => \A k \in Kind : reports[k] # {} /\ ~Busy(k) => thread[k].live /\ thread[k].held

(* One e-mail in half an hour for a conversation, one message at a time,   *)
(* however many messages of the team (notifyClient).                       *)
MailsSpaced == ~Overlap => \A k \in Kind : thread[k].mails <= 1

=============================================================================
