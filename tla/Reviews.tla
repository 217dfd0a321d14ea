------------------------------- MODULE Reviews ------------------------------
(***************************************************************************)
(* What customers write of a shop: the requests for a review, and the      *)
(* reviews.                                                                *)
(***************************************************************************)
EXTENDS Integers, FiniteSetsExt

CONSTANTS
    Part,     \* the flow that is explored: "asking", "reviews"
    Worker,
    None,
    Overlap,  \* whether requests and jobs run together; whether requests run together
    RowId,    \* numbers
    Text      \* comments and answers

VARIABLES
    at,        \* who marked each request as sent: staffReviewRequestedAt, reviewRequestSentAt,
               \* clientRatingRequestSentAt
    sent,      \* e-mails in the queue
    skipped,   \* marked, and nothing to send
    reviewed,  \* the customer reviewed the visit
    rated,     \* the professional rated the customer
    optOut,    \* the customer, or the professional, wants no e-mails
    req,
    review,    \* rows of Review
    linked     \* whether the record of the customer is tied to an account

(***************************************************************************)
(* "asking". What is asked after a finished visit: the review, by the team *)
(* or by the e-mail that goes out by itself, and the rating of the         *)
(* customer, in the summary of the day of the professional.                *)
(***************************************************************************)

askingVars == <<at, sent, skipped, reviewed, rated, optOut, req>>

Channel == {"staff", "auto", "digest"}

AskingFree == [on |-> None, marked |-> FALSE, staffAsked |-> FALSE]
AskingEnds(w) == req' = [req EXCEPT ![w] = AskingFree]
AskingMayStart(w) == req[w] = AskingFree /\ (Overlap \/ \A v \in Worker : req[v] = AskingFree)

AskingInit ==
    /\ at = [c \in Channel |-> None]
    /\ sent = [c \in Channel |-> 0]
    /\ skipped = [c \in Channel |-> FALSE]
    /\ reviewed = FALSE /\ rated = FALSE /\ optOut = FALSE
    /\ req = [w \in Worker |-> AskingFree]

(* submitReview for the professional, rate, the links of the e-mails *)
Review == reviewed' = TRUE /\ UNCHANGED <<at, sent, skipped, rated, optOut, req>>
Rate == rated' = TRUE /\ UNCHANGED <<at, sent, skipped, reviewed, optOut, req>>
OptOut == optOut' = ~optOut /\ UNCHANGED <<at, sent, skipped, reviewed, rated, req>>

(* What a request or a job looks at before it marks the visit *)
Starts(w, c) ==
    /\ AskingMayStart(w) /\ at[c] = None
    /\ req' = [req EXCEPT ![w] = [on |-> c, marked |-> FALSE, staffAsked |-> at["staff"] # None]]
    /\ UNCHANGED <<at, sent, skipped, reviewed, rated, optOut>>

StaffReviewLink(w) == ~optOut /\ Starts(w, "staff")
EnqueueDueRequests(w) == Starts(w, "auto")
SendDailyDigest(w) == ~rated /\ Starts(w, "digest")

Claims(c) == at[c] = None

(* updateMany where the mark is null: one of them goes on *)
Claim(w, c) ==
    /\ req[w].on = c /\ ~req[w].marked
    /\ IF Claims(c) THEN at' = [at EXCEPT ![c] = w] /\ req' = [req EXCEPT ![w].marked = TRUE]
       ELSE UNCHANGED at /\ AskingEnds(w)
    /\ UNCHANGED <<sent, skipped, reviewed, rated, optOut>>

(* Whoever is skipped stays marked. *)
AutoSkips(w) == optOut \/ req[w].staffAsked \/ reviewed
DigestSkips == optOut
NothingToSend(w, c) == (c = "auto" /\ AutoSkips(w)) \/ (c = "digest" /\ DigestSkips)

Send(w, c) ==
    /\ req[w].on = c /\ req[w].marked
    /\ IF NothingToSend(w, c) THEN skipped' = [skipped EXCEPT ![c] = TRUE] /\ UNCHANGED sent
       ELSE sent' = [sent EXCEPT ![c] = @ + 1] /\ UNCHANGED skipped
    /\ AskingEnds(w)
    /\ UNCHANGED <<at, reviewed, rated, optOut>>

(* The request of the team takes back its own mark, the jobs any. *)
Released(w, c) == IF c = "staff" /\ at[c] # w THEN at ELSE [at EXCEPT ![c] = None]

QueueFails(w, c) ==
    /\ req[w].on = c /\ req[w].marked /\ ~NothingToSend(w, c)
    /\ at' = Released(w, c)
    /\ AskingEnds(w)
    /\ UNCHANGED <<sent, skipped, reviewed, rated, optOut>>

AskingNext ==
    \/ Review \/ Rate \/ OptOut
    \/ \E w \in Worker : StaffReviewLink(w) \/ EnqueueDueRequests(w) \/ SendDailyDigest(w)
    \/ \E w \in Worker, c \in Channel : Claim(w, c) \/ Send(w, c) \/ QueueFails(w, c)

(***************************************************************************)
(* Properties                                                              *)
(***************************************************************************)

AskingTypeOK ==
    /\ at \in [Channel -> Worker \cup {None}]
    /\ sent \in [Channel -> 0 .. 2]
    /\ skipped \in [Channel -> BOOLEAN]
    /\ {reviewed, rated, optOut} \subseteq BOOLEAN
    /\ req \in [Worker -> [on : Channel \cup {None}, marked : BOOLEAN, staffAsked : BOOLEAN]]

(* Each of the three requests goes out at most once for a visit, though     *)
(* clicks and runs of the job overlap and the queue may refuse an e-mail    *)
(* (staffReviewLink, enqueueDueRequests, sendDailyDigest).                  *)
AskedOnce == \A c \in Channel : sent[c] <= 1

(* A visit that is marked, with nobody at work on it, was asked about or    *)
(* had nothing to send: a queue that fails does not lose the request.       *)
MarkMeansAsked ==
    \A c \in Channel : (at[c] # None /\ ~\E w \in Worker : req[w].on = c /\ req[w].marked)
                       => sent[c] = 1 \/ skipped[c]

(* One at a time, the e-mail that goes out by itself does not follow the    *)
(* request of the team (enqueueDueRequests).                                *)
NotAskedTwice == (~Overlap /\ sent["staff"] = 1) => sent'["auto"] = sent["auto"]

(***************************************************************************)
(* "reviews". The reviews of one customer in one shop: written with the    *)
(* account or by the link of the visit, answered and reported by the shop, *)
(* taken out and put back by the platform.                                 *)
(***************************************************************************)

reviewVars == <<review, linked, req>>

(* "removed": the platform took the comment out and did not put it back;   *)
(* "about": the comment the answer was written for; "mails": notices sent. *)
ReviewRow == [live : BOOLEAN, account : BOOLEAN, card : BOOLEAN, comment : Text \cup {None},
              hidden : BOOLEAN, withdrawn : BOOLEAN, reported : BOOLEAN, kept : Text \cup {None},
              reply : Text \cup {None}, replyHidden : BOOLEAN, replyStale : BOOLEAN, notified : BOOLEAN,
              removed : BOOLEAN, about : Text \cup {None}, mails : 0 .. 2]

Blank == [live |-> FALSE, account |-> FALSE, card |-> FALSE, comment |-> None,
          hidden |-> FALSE, withdrawn |-> FALSE, reported |-> FALSE, kept |-> None,
          reply |-> None, replyHidden |-> FALSE, replyStale |-> FALSE, notified |-> FALSE,
          removed |-> FALSE, about |-> None, mails |-> 0]

ReviewFree == [op |-> "free", row |-> None, text |-> None, seen |-> {}]
ReviewMayStart(w) == req[w] = ReviewFree /\ (Overlap \/ \A v \in Worker : req[v] = ReviewFree)

(* What a request takes from the rows it reads is the facts it acts on. *)
Fact == {"changed", "answered", "same", "untold", "linked"}
Reads(w, op, r, t, facts) == req' = [req EXCEPT ![w] = [op |-> op, row |-> r, text |-> t, seen |-> facts]]
If(p, f) == IF p THEN {f} ELSE {}
ReviewEnds(w) == req' = [req EXCEPT ![w] = ReviewFree]

Live == {r \in RowId : review[r].live}
Spare == RowId \ Live
OfAccount == {r \in Live : review[r].account}
OfCard == {r \in Live : review[r].card}

ReviewInit ==
    /\ review = [r \in RowId |-> Blank]
    /\ linked = FALSE
    /\ req = [w \in Worker |-> ReviewFree]

(* linkVerifiedCustomers: the account takes the record of the shop, then   *)
(* the review of the record, unless the account has one there.             *)
LinkAccount(w) ==
    /\ ~linked /\ linked' = TRUE
    /\ ReviewMayStart(w) /\ Reads(w, "claim", None, None, {})
    /\ UNCHANGED review

ClaimFichaReviews(w) ==
    /\ req[w].op = "claim"
    /\ review' = IF OfAccount # {} \/ OfCard = {} THEN review
                 ELSE [review EXCEPT ![Min(OfCard)].account = TRUE]
    /\ ReviewEnds(w)
    /\ UNCHANGED linked

(***************************************************************************)
(* Writing                                                                 *)
(***************************************************************************)

(* reviewEditData: what changes is decided on the row that was read *)
ReviewEditData(row, seen, t) ==
    [row EXCEPT !.comment = t,
                !.reported = @ /\ "changed" \notin seen,
                !.replyStale = @ \/ {"changed", "answered"} \subseteq seen]

EditFacts(r, t) == IF r = None THEN {}
                   ELSE If(review[r].comment # t, "changed") \cup If(review[r].reply # None, "answered")

Written(t, byAccount, byCard) ==
    [Blank EXCEPT !.live = TRUE, !.comment = t, !.account = byAccount, !.card = byCard]

(* Two rows of one account in one shop are refused by the database. *)
Create(t, byAccount, byCard) ==
    IF Spare = {} \/ (byAccount /\ OfAccount # {}) THEN review
    ELSE [review EXCEPT ![Min(Spare)] = Written(t, byAccount, byCard)]

(* The row of the account comes first, then the one of the record. *)
Existing(withAccount) ==
    IF withAccount /\ OfAccount # {} THEN Min(OfAccount)
    ELSE IF OfCard # {} THEN Min(OfCard) ELSE None

(* createOrUpdateReview: a finished visit of the account, then its review *)
AccountReads(w, t) ==
    /\ ReviewMayStart(w) /\ linked
    /\ Reads(w, "account", Existing(TRUE), t, EditFacts(Existing(TRUE), t))
    /\ UNCHANGED <<review, linked>>

CreateOrUpdateReview(w) ==
    LET r == req[w].row IN
    /\ req[w].op = "account"
    /\ review' = IF r = None THEN Create(req[w].text, TRUE, FALSE)
                 ELSE IF review[r].live /\ OfAccount \subseteq {r}
                 THEN [review EXCEPT ![r] = [ReviewEditData(@, req[w].seen, req[w].text)
                                             EXCEPT !.account = TRUE, !.withdrawn = FALSE]]
                 ELSE review
    /\ ReviewEnds(w)
    /\ UNCHANGED linked

(* submitReview: by the link, with or without an account *)
LinkReads(w, t) ==
    /\ ReviewMayStart(w)
    /\ Reads(w, "link", Existing(linked), t, EditFacts(Existing(linked), t) \cup If(linked, "linked"))
    /\ UNCHANGED <<review, linked>>

SubmitReview(w) ==
    LET r == req[w].row IN
    /\ req[w].op = "link"
    /\ review' = IF r # None
                 THEN IF review[r].live
                      THEN [review EXCEPT ![r] = [ReviewEditData(@, req[w].seen, req[w].text)
                                                  EXCEPT !.withdrawn = FALSE]]
                      ELSE review
                 ELSE IF OfCard # {}
                 THEN [review EXCEPT ![Min(OfCard)] = ReviewEditData(@, {}, req[w].text)]
                 ELSE Create(req[w].text, "linked" \in req[w].seen, TRUE)
    /\ ReviewEnds(w)
    /\ UNCHANGED linked

MayDelete(row) == ~row.hidden

(* deleteReview: a hidden one only leaves the eyes of the customer *)
Withdraw(w) ==
    /\ ReviewMayStart(w) /\ OfAccount # {}
    /\ review' = [r \in RowId |-> IF r \in OfAccount /\ review[r].hidden
                                 THEN [review[r] EXCEPT !.withdrawn = TRUE] ELSE review[r]]
    /\ Reads(w, "delete", None, None, {})
    /\ UNCHANGED linked

DeleteReview(w) ==
    /\ req[w].op = "delete"
    /\ review' = [r \in RowId |-> IF r \in OfAccount /\ MayDelete(review[r])
                                 THEN [Blank EXCEPT !.removed = review[r].removed] ELSE review[r]]
    /\ ReviewEnds(w)
    /\ UNCHANGED linked

(***************************************************************************)
(* The shop                                                                *)
(***************************************************************************)

ReplyReads(w, r, t) ==
    /\ ReviewMayStart(w) /\ r \in Live
    /\ Reads(w, "reply", r, t, If(t # None /\ review[r].replyHidden /\ review[r].reply = t, "same")
                               \cup If(t # None /\ ~review[r].notified, "untold"))
    /\ UNCHANGED <<review, linked>>

(* reply: the text that was hidden stays hidden, another one shows *)
Reply(w) ==
    LET r == req[w].row
        t == req[w].text
    IN
    /\ req[w].op = "reply"
    /\ IF review[r].live
       THEN /\ review' = [review EXCEPT ![r].reply = t, ![r].replyStale = FALSE, ![r].replyHidden = "same" \in req[w].seen,
                                        ![r].about = IF t = None THEN None ELSE review[r].comment]
            /\ IF "untold" \in req[w].seen THEN Reads(w, "notify", r, None, {}) ELSE ReviewEnds(w)
       ELSE UNCHANGED review /\ ReviewEnds(w)
    /\ UNCHANGED linked

ClaimsNotice(row) == ~row.notified

NotifyReviewer(w) ==
    LET r == req[w].row IN
    /\ req[w].op = "notify"
    /\ review' = IF review[r].live /\ ClaimsNotice(review[r])
                 THEN [review EXCEPT ![r].notified = TRUE, ![r].mails = @ + 1] ELSE review
    /\ ReviewEnds(w)
    /\ UNCHANGED linked

MayReport(row) == ~row.hidden /\ (row.kept = None \/ row.kept # row.comment)

ReportReads(w, r) ==
    /\ ReviewMayStart(w) /\ r \in Live /\ MayReport(review[r])
    /\ Reads(w, "report", r, None, {})
    /\ UNCHANGED <<review, linked>>

Report(w) ==
    LET r == req[w].row IN
    /\ req[w].op = "report"
    /\ review' = [review EXCEPT ![r].reported = review[r].live]
    /\ ReviewEnds(w)
    /\ UNCHANGED linked

(***************************************************************************)
(* The platform                                                            *)
(***************************************************************************)

Hiding(row) == [row EXCEPT !.hidden = TRUE, !.removed = TRUE]

(* moderate: hides, or keeps (and puts back) *)
ModerateReads(w, r) ==
    /\ ReviewMayStart(w) /\ r \in Live
    /\ Reads(w, "moderate", r, IF review[r].reported THEN review[r].comment ELSE None, {})
    /\ UNCHANGED <<review, linked>>

Moderate(w, hide) ==
    LET r == req[w].row IN
    /\ req[w].op = "moderate"
    /\ review' = IF ~review[r].live THEN review
                 ELSE IF hide THEN [review EXCEPT ![r] = Hiding(@)]
                 ELSE [review EXCEPT ![r].hidden = FALSE, ![r].removed = FALSE, ![r].reported = FALSE,
                                     ![r].kept = IF req[w].text # None THEN req[w].text ELSE @]
    /\ ReviewEnds(w)
    /\ UNCHANGED linked

(* resolve, over the complaints of the public *)
Resolve(r, action) ==
    /\ r \in Live
    /\ review' = [review EXCEPT ![r] =
         CASE action = "hide" -> Hiding(@)
           [] action = "hide_reply" -> [@ EXCEPT !.replyHidden = TRUE]
           [] action = "restore" -> [@ EXCEPT !.hidden = FALSE, !.removed = FALSE, !.replyHidden = FALSE]]
    /\ UNCHANGED <<linked, req>>

ReviewNext ==
    \/ \E r \in RowId, action \in {"hide", "hide_reply", "restore"} : Resolve(r, action)
    \/ \E w \in Worker :
         \/ \E t \in Text : AccountReads(w, t) \/ LinkReads(w, t)
         \/ LinkAccount(w) \/ ClaimFichaReviews(w)
         \/ CreateOrUpdateReview(w) \/ SubmitReview(w) \/ Withdraw(w) \/ DeleteReview(w)
         \/ \E r \in RowId : ReportReads(w, r) \/ ModerateReads(w, r)
                             \/ \E t \in Text \cup {None} : ReplyReads(w, r, t)
         \/ Reply(w) \/ NotifyReviewer(w) \/ Report(w)
         \/ \E hide \in BOOLEAN : Moderate(w, hide)

(***************************************************************************)
(* Properties                                                              *)
(***************************************************************************)

Op == {"free", "claim", "account", "link", "delete", "reply", "notify", "report", "moderate"}

ReviewTypeOK ==
    /\ review \in [RowId -> ReviewRow]
    /\ linked \in BOOLEAN
    /\ \A w \in Worker : req[w].op \in Op /\ req[w].seen \subseteq Fact

(* A review the platform took out is still there and still hidden, whatever *)
(* the customer edits, deletes, writes again or sends by the link at the    *)
(* same time (deleteReview, submitReview).                                  *)
RemovedStaysOut == \A r \in RowId : review[r].removed => review[r].live /\ review[r].hidden

(* A customer has one review in the shop, one request at a time: by the     *)
(* account and by the link it is the same row (findAccountReview).          *)
OneReviewPerCustomer == ~Overlap => Cardinality(Live) <= 1

(* The customer hears of an answer once, though answers are deleted,        *)
(* written again and sent together (reply).                                 *)
ReplyToldOnce == \A r \in RowId : review[r].mails <= 1

(* An answer to a comment that changed since says so (reviewEditData).      *)
StaleReplyMarked ==
    \A r \in RowId : (~Overlap /\ review[r].reply # None /\ review[r].about # review[r].comment)
                     => review[r].replyStale

(* What the platform decided to keep is not back in its queue (report).     *)
KeptNotReported ==
    \A r \in RowId : ~Overlap /\ review[r].kept # None /\ review[r].kept = review[r].comment
                     => ~review[r].reported

(***************************************************************************)
(* The component: one part at a time. The other parts have no state then.  *)
(***************************************************************************)

vars == <<at, sent, skipped, reviewed, rated, optOut, req, review, linked>>

Init ==
    \/ /\ Part = "asking" /\ AskingInit
          /\ review = None /\ linked = None
    \/ /\ Part = "reviews" /\ ReviewInit
          /\ at = None /\ sent = None /\ skipped = None /\ reviewed = None /\ rated = None
          /\ optOut = None

Next ==
    \/ Part = "asking" /\ AskingNext /\ UNCHANGED <<review, linked>>
    \/ Part = "reviews" /\ ReviewNext /\ UNCHANGED <<at, sent, skipped, reviewed, rated, optOut>>

Spec == Init /\ [][Next]_vars

TypeOK ==
    /\ Part = "asking" => AskingTypeOK
    /\ Part = "reviews" => ReviewTypeOK
=============================================================================
