------------------------------ MODULE MCPeople ------------------------------
(***************************************************************************)
(* Small instances of the people around a shop: who waits, who logs in,    *)
(* who works there, who asks to work there, what customers write, and what *)
(* the platform decides. They share no rows, so a behaviour is about one   *)
(* subject, and v1 .. v15 hold the state of that subject.                  *)
(***************************************************************************)
EXTENDS Integers, TLC

CONSTANTS
    Worker,  \* two requests at a time
    Two,     \* two row ids
    Three,   \* three row ids
    None

VARIABLES subject, v1, v2, v3, v4, v5, v6, v7, v8, v9, v10, v11, v12, v13, v14, v15

mcVars == <<subject, v1, v2, v3, v4, v5, v6, v7, v8, v9, v10, v11, v12, v13, v14, v15>>

\* A customer of a campaign.
Customer(e, p, in) == [email |-> e, phone |-> p, in |-> in, out |-> FALSE]
AllBooks ==
    [1 .. 3 -> {Customer(e, p, TRUE) : e \in {"e1", "e2", None}, p \in {"p1", None}}]
        \cup {<<Customer("e1", "p1", TRUE), Customer("e1", None, FALSE), Customer("e2", "p1", FALSE)>>}
OneBook == {<<Customer("e1", None, TRUE)>>}
\* Two professionals who do their services, and a sheet of bookings.
TwoBarbers == [x \in {"ana", "bia"} |-> IF x = "ana" THEN {1, 3} ELSE {1, 2}]
Line(p, n, t, s) == [phone |-> p, wanted |-> n, start |-> t, status |-> s]
FourLines == <<Line("p1", {1, 2}, 1, "missed"), Line("p2", {1}, 2, ""),
               Line("p1", {2}, 0, "missed"), Line("p1", {2}, 0, "missed")>>

(* Two people wait, two slots are free *)
List == INSTANCE Waitlist WITH
    EntryId <- {1, 2}, Slot <- {1, 2}, Blocked <- {}, MaxFreed <- 0, MayCrash <- FALSE,
    entry <- v1, slot <- v2, booked <- v3, job <- v4, freed <- v5, crashed <- v6

(* Two people wait for one slot, the last may not book, and a process may   *)
(* stop                                                                     *)
Blocked == INSTANCE Waitlist WITH
    EntryId <- {1, 2}, Slot <- {1}, Blocked <- {2}, MaxFreed <- 1, MayCrash <- TRUE,
    entry <- v1, slot <- v2, booked <- v3, job <- v4, freed <- v5, crashed <- v6

(* Codes are sent while others are tried *)
Codes == INSTANCE Logins WITH
    Part <- "codes", LoginId <- {1, 2}, MaxAttempts <- 2, MaxFails <- 2, Overlap <- TRUE,
    Provider <- None, MaxSent <- None,
    key <- v1, attempts <- v2, byUser <- v3, fails <- v4, blocked <- v5, req <- v6,
    past <- v7, accounts <- v8, user <- v9, link <- v10, code <- v11, sentKey <- v12

(* One code is sent at a time *)
OneCode == INSTANCE Logins WITH
    Part <- "codes", LoginId <- {1, 2}, MaxAttempts <- 2, MaxFails <- 2, Overlap <- FALSE,
    Provider <- None, MaxSent <- None,
    key <- v1, attempts <- v2, byUser <- v3, fails <- v4, blocked <- v5, req <- v6,
    past <- v7, accounts <- v8, user <- v9, link <- v10, code <- v11, sentKey <- v12

(* One provider, requests run together *)
Signs == INSTANCE Logins WITH
    Part <- "signup", Provider <- {"google"}, MaxAttempts <- 2, MaxSent <- 2,
    Overlap <- TRUE, LoginId <- None, MaxFails <- None,
    key <- v1, attempts <- v2, byUser <- v3, fails <- v4, blocked <- v5, req <- v6,
    past <- v7, accounts <- v8, user <- v9, link <- v10, code <- v11, sentKey <- v12

(* Two providers, one request at a time *)
Doors == INSTANCE Logins WITH
    Part <- "signup", Provider <- {"google", "facebook"}, MaxAttempts <- 2, MaxSent <- 2,
    Overlap <- FALSE, LoginId <- None, MaxFails <- None,
    key <- v1, attempts <- v2, byUser <- v3, fails <- v4, blocked <- v5, req <- v6,
    past <- v7, accounts <- v8, user <- v9, link <- v10, code <- v11, sentKey <- v12

(* One link for a new password, requests run together *)
Accounts == INSTANCE ClientArea WITH
    Part <- "account", TokenId <- {1}, MaxPw <- 3, MaxV <- 1, Purposes <- {"reset"},
    Overlap <- TRUE, AccountId <- None, Identity <- None, MaxMoves <- None,
    acc <- v1, staffPw <- v2, lastPw <- v3, token <- v4, sess <- v5, card <- v6, club <- v7,
    req <- v8, acct <- v9, social <- v10, mailOf <- v11, moves <- v12, staff <- v13,
    inside <- v14, claimed <- v15

(* Two links of every kind, one request at a time *)
Links == INSTANCE ClientArea WITH
    Part <- "account", TokenId <- {1, 2}, MaxPw <- 3, MaxV <- 1,
    Purposes <- {"reset", "verify", "delete"}, Overlap <- FALSE, AccountId <- None,
    Identity <- None, MaxMoves <- None,
    acc <- v1, staffPw <- v2, lastPw <- v3, token <- v4, sess <- v5, card <- v6, club <- v7,
    req <- v8, acct <- v9, social <- v10, mailOf <- v11, moves <- v12, staff <- v13,
    inside <- v14, claimed <- v15

(* Two people, one place, two payments *)
Opening == INSTANCE JobOpenings WITH
    AppId <- Two, IntentId <- {1, 2}, Slots <- 1, Faults <- {},
    opening <- v1, app <- v2, intent <- v3, req <- v4

(* Payments, refunds and the hourly job in any order *)
Fees == INSTANCE JobOpenings WITH
    AppId <- Two, IntentId <- {1}, Slots <- 1,
    Faults <- {"job", "paynow", "panel", "refuse"},
    opening <- v1, app <- v2, intent <- v3, req <- v4

(* Three seats in a plan of two, one request at a time *)
OpenSeats == INSTANCE Team WITH
    Part <- "seats", SeatId <- {1, 2, 3}, InviteId <- {1, 2}, PlanSeats <- 2,
    Overlap <- FALSE, Barber <- None, ApptId <- None, EntryId <- None, Seats <- None,
    MaxTime <- None, Faults <- None,
    seat <- v1, invite <- v2, account <- v3, req <- v4, now <- v5, barber <- v6, appt <- v7,
    entry <- v8, told <- v9

(* Two seats, requests run together *)
Joining == INSTANCE Team WITH
    Part <- "seats", SeatId <- {1, 2}, InviteId <- {1, 2}, PlanSeats <- 2, Overlap <- TRUE,
    Barber <- None, ApptId <- None, EntryId <- None, Seats <- None, MaxTime <- None,
    Faults <- None,
    seat <- v1, invite <- v2, account <- v3, req <- v4, now <- v5, barber <- v6, appt <- v7,
    entry <- v8, told <- v9

(* Two reviews, one request at a time *)
Review == INSTANCE Reviews WITH
    Part <- "reviews", RowId <- {1, 2}, Text <- Two, Overlap <- FALSE,
    at <- v1, sent <- v2, skipped <- v3, reviewed <- v4, rated <- v5, optOut <- v6,
    req <- v7, review <- v8, linked <- v9

(* One review, requests run together *)
Replies == INSTANCE Reviews WITH
    Part <- "reviews", RowId <- {1}, Text <- {"a"}, Overlap <- TRUE,
    at <- v1, sent <- v2, skipped <- v3, reviewed <- v4, rated <- v5, optOut <- v6,
    req <- v7, review <- v8, linked <- v9

(* The team and the jobs ask together *)
Asking == INSTANCE Reviews WITH
    Part <- "asking", Overlap <- TRUE, RowId <- None, Text <- None,
    at <- v1, sent <- v2, skipped <- v3, reviewed <- v4, rated <- v5, optOut <- v6,
    req <- v7, review <- v8, linked <- v9

(* One request or job at a time *)
Digest == INSTANCE Reviews WITH
    Part <- "asking", Overlap <- FALSE, RowId <- None, Text <- None,
    at <- v1, sent <- v2, skipped <- v3, reviewed <- v4, rated <- v5, optOut <- v6,
    req <- v7, review <- v8, linked <- v9

(* A conversation with the professional *)
Talk == INSTANCE Chat WITH
    Barber <- Two, Kind <- {"professional"}, Overlap <- FALSE,
    barber <- v1, open <- v2, blocked <- v3, thread <- v4, reports <- v5, req <- v6

(* A conversation with the shop *)
UnitTalk == INSTANCE Chat WITH
    Barber <- Two, Kind <- {"unit"}, Overlap <- FALSE,
    barber <- v1, open <- v2, blocked <- v3, thread <- v4, reports <- v5, req <- v6

(* One request for an approval, decided twice at once *)
Decide == INSTANCE Approvals WITH
    Person <- Two, ApprovalId <- {1}, Target <- {"delete"}, Paid <- 0, RefundLimit <- 0,
    MailLimit <- 0, Overlap <- TRUE,
    role <- v1, approval <- v2, command <- v3, refunded <- v4, direct <- v5, mails <- v6,
    req <- v7

(* Two requests for the same, one step at a time *)
Pending == INSTANCE Approvals WITH
    Person <- Two, ApprovalId <- {1, 2}, Target <- {"delete"}, Paid <- 0, RefundLimit <- 0,
    MailLimit <- 0, Overlap <- FALSE,
    role <- v1, approval <- v2, command <- v3, refunded <- v4, direct <- v5, mails <- v6,
    req <- v7

(* Refunds and e-mails around their limits *)
Limits == INSTANCE Approvals WITH
    Person <- Two, ApprovalId <- {1}, Target <- {"refund"}, Paid <- 2, RefundLimit <- 1,
    MailLimit <- 2, Overlap <- FALSE,
    role <- v1, approval <- v2, command <- v3, refunded <- v4, direct <- v5, mails <- v6,
    req <- v7

(* The cover, three files *)
Cover == INSTANCE PageContent WITH
    Part <- "images", Key <- Three, Kind <- "cover", MaxGallery <- 2, Overlap <- FALSE,
    S3Fails <- TRUE, Faults <- None,
    used <- v1, files <- v2, slot <- v3, retired <- v4, gallery <- v5, open <- v6,
    judged <- v7, req <- v8, post <- v9, out <- v10, account <- v11, shop <- v12

(* The gallery, requests run together *)
Gallery == INSTANCE PageContent WITH
    Part <- "images", Key <- Two, Kind <- "gallery", MaxGallery <- 2, Overlap <- TRUE,
    S3Fails <- FALSE, Faults <- None,
    used <- v1, files <- v2, slot <- v3, retired <- v4, gallery <- v5, open <- v6,
    judged <- v7, req <- v8, post <- v9, out <- v10, account <- v11, shop <- v12

(* A post while every request runs together *)
Posts == INSTANCE PageContent WITH
    Part <- "posts", Faults <- {}, Key <- None, Kind <- None, MaxGallery <- None,
    Overlap <- None, S3Fails <- None,
    used <- v1, files <- v2, slot <- v3, retired <- v4, gallery <- v5, open <- v6,
    judged <- v7, req <- v8, post <- v9, out <- v10, account <- v11, shop <- v12

(* A job may stop, and a post is tried again *)
Stops == INSTANCE PageContent WITH
    Part <- "posts", Faults <- {"crash", "again"}, Key <- None, Kind <- None,
    MaxGallery <- None, Overlap <- None, S3Fails <- None,
    used <- v1, files <- v2, slot <- v3, retired <- v4, gallery <- v5, open <- v6,
    judged <- v7, req <- v8, post <- v9, out <- v10, account <- v11, shop <- v12

(* Both channels, the appointment moves twice *)
Remind == INSTANCE Messages WITH
    Part <- "reminders", Channels <- {"email", "whatsapp"}, MaxTime <- 5, MaxMoves <- 2,
    Faults <- {}, Staff <- None, EventId <- None, MaxStock <- None, Edits <- None,
    now <- v1, appt <- v2, noticed <- v3, moves <- v4, told <- v5, again <- v6, req <- v7,
    team <- v8, wants <- v9, stock <- v10, min <- v11, events <- v12

(* The queue may refuse the message *)
RemindRedis == INSTANCE Messages WITH
    Part <- "reminders", Channels <- {"whatsapp"}, MaxTime <- 5, MaxMoves <- 2,
    Faults <- {"redis"}, Staff <- None, EventId <- None, MaxStock <- None, Edits <- None,
    now <- v1, appt <- v2, noticed <- v3, moves <- v4, told <- v5, again <- v6, req <- v7,
    team <- v8, wants <- v9, stock <- v10, min <- v11, events <- v12

(* The queue may refuse, and the row is edited *)
RemindEdits == INSTANCE Messages WITH
    Part <- "reminders", Channels <- {"email", "whatsapp"}, MaxTime <- 5, MaxMoves <- 2,
    Faults <- {"redis", "edits"}, Staff <- None, EventId <- None, MaxStock <- None,
    Edits <- None,
    now <- v1, appt <- v2, noticed <- v3, moves <- v4, told <- v5, again <- v6, req <- v7,
    team <- v8, wants <- v9, stock <- v10, min <- v11, events <- v12

(* The owner and three events *)
Shelf == INSTANCE Messages WITH
    Part <- "notices", Staff <- {"owner"}, EventId <- {1, 2, 3}, MaxStock <- 2,
    Edits <- FALSE, Channels <- None, MaxTime <- None, MaxMoves <- None, Faults <- None,
    now <- v1, appt <- v2, noticed <- v3, moves <- v4, told <- v5, again <- v6, req <- v7,
    team <- v8, wants <- v9, stock <- v10, min <- v11, events <- v12

(* A team of three and two events *)
Bell == INSTANCE Messages WITH
    Part <- "notices", Worker <- {"w"}, Staff <- {"owner", "reception", "barber"},
    EventId <- {1, 2}, MaxStock <- 1, Edits <- FALSE, Channels <- None, MaxTime <- None,
    MaxMoves <- None, Faults <- None,
    now <- v1, appt <- v2, noticed <- v3, moves <- v4, told <- v5, again <- v6, req <- v7,
    team <- v8, wants <- v9, stock <- v10, min <- v11, events <- v12

(* Two people at the counter, two days *)
Queue == INSTANCE WalkIns WITH
    WalkInId <- Two, Barber <- {1, 2}, MaxDay <- 2, MaxPlace <- 3, Overlap <- FALSE,
    today <- v1, walkIn <- v2, history <- v3, late <- v4, req <- v5

(* Two people at the counter, requests run together *)
Calls == INSTANCE WalkIns WITH
    WalkInId <- Two, Barber <- {}, MaxDay <- 0, MaxPlace <- 4, Overlap <- TRUE,
    today <- v1, walkIn <- v2, history <- v3, late <- v4, req <- v5

(* One campaign for every small book of customers *)
Mailing == INSTANCE Outreach WITH
    Part <- "campaigns", Worker <- {"w"}, Shop <- {"s"}, Books <- AllBooks,
    CampaignId <- {1}, Limit <- 3, MaxTime <- 0, Overlap <- FALSE, Client <- None,
    Form <- None, RecId <- None,
    now <- v1, customer <- v2, silent <- v3, campaign <- v4, req <- v5, gone <- v6,
    record <- v7, answered <- v8, chose <- v9

(* Two shops of a network and their limits *)
Campaigns == INSTANCE Outreach WITH
    Part <- "campaigns", Shop <- Two, Books <- OneBook, CampaignId <- {1, 2, 3}, Limit <- 1,
    MaxTime <- 2, Overlap <- TRUE, Client <- None, Form <- None, RecId <- None,
    now <- v1, customer <- v2, silent <- v3, campaign <- v4, req <- v5, gone <- v6,
    record <- v7, answered <- v8, chose <- v9

(* Conversations are erased when they are old *)
Data == INSTANCE Endings WITH
    Part <- "retention", RowId <- Two, Kind <- "conversation", Batch <- 1, MaxTime <- 4,
    Overlap <- FALSE, ApptId <- None, SubId <- None, Requests <- None, Faults <- None,
    shop <- v1, appt <- v2, sub <- v3, link <- v4, pack <- v5, owner <- v6, made <- v7,
    req <- v8, now <- v9, rows <- v10, lost <- v11, job <- v12

(* Invitations are erased when they are old *)
OldInvites == INSTANCE Endings WITH
    Part <- "retention", RowId <- Two, Kind <- "invitation", Batch <- 1, MaxTime <- 4,
    Overlap <- FALSE, ApptId <- None, SubId <- None, Requests <- None, Faults <- None,
    shop <- v1, appt <- v2, sub <- v3, link <- v4, pack <- v5, owner <- v6, made <- v7,
    req <- v8, now <- v9, rows <- v10, lost <- v11, job <- v12

(* Reports of conduct are erased when they are old *)
Conduct == INSTANCE Endings WITH
    Part <- "retention", RowId <- Two, Kind <- "conduct", Batch <- 1, MaxTime <- 4,
    Overlap <- FALSE, ApptId <- None, SubId <- None, Requests <- None, Faults <- None,
    shop <- v1, appt <- v2, sub <- v3, link <- v4, pack <- v5, owner <- v6, made <- v7,
    req <- v8, now <- v9, rows <- v10, lost <- v11, job <- v12

(* A professional leaves, with a booking and somebody who waits *)
Leaving == INSTANCE Team WITH
    Part <- "leaving", Worker <- {"w"}, Barber <- {"b"}, ApptId <- {"a"}, EntryId <- {"e"},
    Seats <- 1, MaxTime <- 1, Faults <- {}, SeatId <- None, InviteId <- None,
    PlanSeats <- None, Overlap <- None,
    seat <- v1, invite <- v2, account <- v3, req <- v4, now <- v5, barber <- v6, appt <- v7,
    entry <- v8, told <- v9

(* The job of departures may stop *)
Departure == INSTANCE Team WITH
    Part <- "leaving", Worker <- {"w"}, Barber <- {"b"}, ApptId <- {"a"}, EntryId <- {"e"},
    Seats <- 1, MaxTime <- 1, Faults <- {"leaves", "crash"}, SeatId <- None,
    InviteId <- None, PlanSeats <- None, Overlap <- None,
    seat <- v1, invite <- v2, account <- v3, req <- v4, now <- v5, barber <- v6, appt <- v7,
    entry <- v8, told <- v9

(* Two professionals, one seat in the plan *)
Chairs == INSTANCE Team WITH
    Part <- "leaving", Worker <- {"w"}, Barber <- Two, ApptId <- {}, EntryId <- {},
    Seats <- 1, MaxTime <- 0, Faults <- {}, SeatId <- None, InviteId <- None,
    PlanSeats <- None, Overlap <- None,
    seat <- v1, invite <- v2, account <- v3, req <- v4, now <- v5, barber <- v6, appt <- v7,
    entry <- v8, told <- v9

(* Two records and their telephones *)
Phones == INSTANCE Customers WITH
    Part <- "records", Worker <- {"w"}, RecId <- {1, 2}, EntryId <- {1}, SubId <- {},
    Ops <- {"create", "update", "wait"}, Faults <- {}, Barber <- None, Sheet <- None,
    CreatedAt <- None, MaxTime <- None, Overlap <- None,
    rec <- v1, booked <- v2, packs <- v3, entry <- v4, sub <- v5, suspended <- v6,
    req <- v7, now <- v8, customer <- v9, appt <- v10

(* Records are anonymised *)
RemovedRecords == INSTANCE Customers WITH
    Part <- "records", Worker <- {"w"}, RecId <- {1, 2}, EntryId <- {}, SubId <- {},
    Ops <- {"create", "delete", "update"}, Faults <- {}, Barber <- None, Sheet <- None,
    CreatedAt <- None, MaxTime <- None, Overlap <- None,
    rec <- v1, booked <- v2, packs <- v3, entry <- v4, sub <- v5, suspended <- v6,
    req <- v7, now <- v8, customer <- v9, appt <- v10

(* A customer is blocked while somebody waits and books *)
BlockedRecords == INSTANCE Customers WITH
    Part <- "records", Worker <- {"w"}, RecId <- {1, 2}, EntryId <- {1}, SubId <- {},
    Ops <- {"wait", "block", "book"}, Faults <- {}, Barber <- None, Sheet <- None,
    CreatedAt <- None, MaxTime <- None, Overlap <- None,
    rec <- v1, booked <- v2, packs <- v3, entry <- v4, sub <- v5, suspended <- v6,
    req <- v7, now <- v8, customer <- v9, appt <- v10

(* A member of the club is blocked, Stripe may refuse *)
BlockedClub == INSTANCE Customers WITH
    Part <- "records", Worker <- {"w"}, RecId <- {1, 2}, EntryId <- {}, SubId <- {1},
    Ops <- {"block", "book"}, Faults <- {"stripe"}, Barber <- None, Sheet <- None,
    CreatedAt <- None, MaxTime <- None, Overlap <- None,
    rec <- v1, booked <- v2, packs <- v3, entry <- v4, sub <- v5, suspended <- v6,
    req <- v7, now <- v8, customer <- v9, appt <- v10

(* An account is suspended *)
Suspended == INSTANCE Customers WITH
    Part <- "records", Worker <- {"w"}, RecId <- {1, 2}, EntryId <- {}, SubId <- {1},
    Ops <- {"suspend", "book", "create"}, Faults <- {}, Barber <- None, Sheet <- None,
    CreatedAt <- None, MaxTime <- None, Overlap <- None,
    rec <- v1, booked <- v2, packs <- v3, entry <- v4, sub <- v5, suspended <- v6,
    req <- v7, now <- v8, customer <- v9, appt <- v10

(* The desk puts records on the list *)
Desk == INSTANCE Customers WITH
    Part <- "records", Worker <- {"w"}, RecId <- {1, 2}, EntryId <- {1}, SubId <- {},
    Ops <- {"create", "delete", "staffWaits"}, Faults <- {}, Barber <- None, Sheet <- None,
    CreatedAt <- None, MaxTime <- None, Overlap <- None,
    rec <- v1, booked <- v2, packs <- v3, entry <- v4, sub <- v5, suspended <- v6,
    req <- v7, now <- v8, customer <- v9, appt <- v10

(* A sheet of four lines, one request at a time *)
Imported == INSTANCE Customers WITH
    Part <- "sheet", Worker <- {"w"}, Barber <- TwoBarbers, Sheet <- FourLines,
    CreatedAt <- 1, MaxTime <- 3, Overlap <- FALSE, RecId <- None, EntryId <- None,
    SubId <- None, Ops <- None, Faults <- None,
    rec <- v1, booked <- v2, packs <- v3, entry <- v4, sub <- v5, suspended <- v6,
    req <- v7, now <- v8, customer <- v9, appt <- v10

(* A sheet is sent twice at once *)
ImportedTwice == INSTANCE Customers WITH
    Part <- "sheet", Barber <- TwoBarbers, Sheet <- FourLines, CreatedAt <- 1, MaxTime <- 3,
    Overlap <- TRUE, RecId <- None, EntryId <- None, SubId <- None, Ops <- None,
    Faults <- None,
    rec <- v1, booked <- v2, packs <- v3, entry <- v4, sub <- v5, suspended <- v6,
    req <- v7, now <- v8, customer <- v9, appt <- v10

(* Two people at a provider, one request at a time *)
Providers == INSTANCE ClientArea WITH
    Part <- "doors", Worker <- {"w"}, AccountId <- {1, 2}, Identity <- {"i1", "i2"},
    MaxMoves <- 1, Overlap <- FALSE, TokenId <- None, MaxPw <- None, MaxV <- None,
    Purposes <- None,
    acc <- v1, staffPw <- v2, lastPw <- v3, token <- v4, sess <- v5, card <- v6, club <- v7,
    req <- v8, acct <- v9, social <- v10, mailOf <- v11, moves <- v12, staff <- v13,
    inside <- v14, claimed <- v15

(* One account and two people at a provider, requests run together *)
ProvidersRace == INSTANCE ClientArea WITH
    Part <- "doors", AccountId <- {1}, Identity <- {"i1", "i2"}, MaxMoves <- 1,
    Overlap <- TRUE, TokenId <- None, MaxPw <- None, MaxV <- None, Purposes <- None,
    acc <- v1, staffPw <- v2, lastPw <- v3, token <- v4, sess <- v5, card <- v6, club <- v7,
    req <- v8, acct <- v9, social <- v10, mailOf <- v11, moves <- v12, staff <- v13,
    inside <- v14, claimed <- v15

(* Two accounts with one telephone, written in two ways *)
Answers == INSTANCE Outreach WITH
    Part <- "outs", Worker <- {"w"}, Client <- Two, Form <- {"long", "short"}, RecId <- {},
    Overlap <- FALSE, Shop <- None, Books <- None, CampaignId <- None, Limit <- None,
    MaxTime <- None,
    now <- v1, customer <- v2, silent <- v3, campaign <- v4, req <- v5, gone <- v6,
    record <- v7, answered <- v8, chose <- v9

(* Two records and their e-mails *)
Mails == INSTANCE Outreach WITH
    Part <- "outs", Client <- {"a"}, Form <- {}, RecId <- {1, 2}, Overlap <- TRUE,
    Shop <- None, Books <- None, CampaignId <- None, Limit <- None, MaxTime <- None,
    now <- v1, customer <- v2, silent <- v3, campaign <- v4, req <- v5, gone <- v6,
    record <- v7, answered <- v8, chose <- v9

MCInit ==
    \/ subject = "waitlist" /\ List!Init /\ v7 = None /\ v8 = None /\ v9 = None /\ v10 = None /\ v11 = None /\ v12 = None /\ v13 = None /\ v14 = None /\ v15 = None
    \/ subject = "blocked" /\ Blocked!Init /\ v7 = None /\ v8 = None /\ v9 = None /\ v10 = None /\ v11 = None /\ v12 = None /\ v13 = None /\ v14 = None /\ v15 = None
    \/ subject = "codes" /\ Codes!Init /\ v13 = None /\ v14 = None /\ v15 = None
    \/ subject = "oneCode" /\ OneCode!Init /\ v13 = None /\ v14 = None /\ v15 = None
    \/ subject = "signup" /\ Signs!Init /\ v13 = None /\ v14 = None /\ v15 = None
    \/ subject = "doors" /\ Doors!Init /\ v13 = None /\ v14 = None /\ v15 = None
    \/ subject = "client" /\ Accounts!Init
    \/ subject = "links" /\ Links!Init
    \/ subject = "opening" /\ Opening!Init /\ v5 = None /\ v6 = None /\ v7 = None /\ v8 = None /\ v9 = None /\ v10 = None /\ v11 = None /\ v12 = None /\ v13 = None /\ v14 = None /\ v15 = None
    \/ subject = "fees" /\ Fees!Init /\ v5 = None /\ v6 = None /\ v7 = None /\ v8 = None /\ v9 = None /\ v10 = None /\ v11 = None /\ v12 = None /\ v13 = None /\ v14 = None /\ v15 = None
    \/ subject = "team" /\ OpenSeats!Init /\ v10 = None /\ v11 = None /\ v12 = None /\ v13 = None /\ v14 = None /\ v15 = None
    \/ subject = "joining" /\ Joining!Init /\ v10 = None /\ v11 = None /\ v12 = None /\ v13 = None /\ v14 = None /\ v15 = None
    \/ subject = "review" /\ Review!Init /\ v10 = None /\ v11 = None /\ v12 = None /\ v13 = None /\ v14 = None /\ v15 = None
    \/ subject = "replies" /\ Replies!Init /\ v10 = None /\ v11 = None /\ v12 = None /\ v13 = None /\ v14 = None /\ v15 = None
    \/ subject = "asking" /\ Asking!Init /\ v10 = None /\ v11 = None /\ v12 = None /\ v13 = None /\ v14 = None /\ v15 = None
    \/ subject = "digest" /\ Digest!Init /\ v10 = None /\ v11 = None /\ v12 = None /\ v13 = None /\ v14 = None /\ v15 = None
    \/ subject = "talk" /\ Talk!Init /\ v7 = None /\ v8 = None /\ v9 = None /\ v10 = None /\ v11 = None /\ v12 = None /\ v13 = None /\ v14 = None /\ v15 = None
    \/ subject = "unitTalk" /\ UnitTalk!Init /\ v7 = None /\ v8 = None /\ v9 = None /\ v10 = None /\ v11 = None /\ v12 = None /\ v13 = None /\ v14 = None /\ v15 = None
    \/ subject = "decide" /\ Decide!Init /\ v8 = None /\ v9 = None /\ v10 = None /\ v11 = None /\ v12 = None /\ v13 = None /\ v14 = None /\ v15 = None
    \/ subject = "pending" /\ Pending!Init /\ v8 = None /\ v9 = None /\ v10 = None /\ v11 = None /\ v12 = None /\ v13 = None /\ v14 = None /\ v15 = None
    \/ subject = "limits" /\ Limits!Init /\ v8 = None /\ v9 = None /\ v10 = None /\ v11 = None /\ v12 = None /\ v13 = None /\ v14 = None /\ v15 = None
    \/ subject = "cover" /\ Cover!Init /\ v13 = None /\ v14 = None /\ v15 = None
    \/ subject = "gallery" /\ Gallery!Init /\ v13 = None /\ v14 = None /\ v15 = None
    \/ subject = "posts" /\ Posts!Init /\ v13 = None /\ v14 = None /\ v15 = None
    \/ subject = "stops" /\ Stops!Init /\ v13 = None /\ v14 = None /\ v15 = None
    \/ subject = "remind" /\ Remind!Init /\ v13 = None /\ v14 = None /\ v15 = None
    \/ subject = "remindRedis" /\ RemindRedis!Init /\ v13 = None /\ v14 = None /\ v15 = None
    \/ subject = "remindEdits" /\ RemindEdits!Init /\ v13 = None /\ v14 = None /\ v15 = None
    \/ subject = "shelf" /\ Shelf!Init /\ v13 = None /\ v14 = None /\ v15 = None
    \/ subject = "bell" /\ Bell!Init /\ v13 = None /\ v14 = None /\ v15 = None
    \/ subject = "queue" /\ Queue!Init /\ v6 = None /\ v7 = None /\ v8 = None /\ v9 = None /\ v10 = None /\ v11 = None /\ v12 = None /\ v13 = None /\ v14 = None /\ v15 = None
    \/ subject = "calls" /\ Calls!Init /\ v6 = None /\ v7 = None /\ v8 = None /\ v9 = None /\ v10 = None /\ v11 = None /\ v12 = None /\ v13 = None /\ v14 = None /\ v15 = None
    \/ subject = "books" /\ Mailing!Init /\ v10 = None /\ v11 = None /\ v12 = None /\ v13 = None /\ v14 = None /\ v15 = None
    \/ subject = "campaigns" /\ Campaigns!Init /\ v10 = None /\ v11 = None /\ v12 = None /\ v13 = None /\ v14 = None /\ v15 = None
    \/ subject = "data" /\ Data!Init /\ v13 = None /\ v14 = None /\ v15 = None
    \/ subject = "oldInvites" /\ OldInvites!Init /\ v13 = None /\ v14 = None /\ v15 = None
    \/ subject = "conduct" /\ Conduct!Init /\ v13 = None /\ v14 = None /\ v15 = None
    \/ subject = "leaving" /\ Leaving!Init /\ v10 = None /\ v11 = None /\ v12 = None /\ v13 = None /\ v14 = None /\ v15 = None
    \/ subject = "departure" /\ Departure!Init /\ v10 = None /\ v11 = None /\ v12 = None /\ v13 = None /\ v14 = None /\ v15 = None
    \/ subject = "chairs" /\ Chairs!Init /\ v10 = None /\ v11 = None /\ v12 = None /\ v13 = None /\ v14 = None /\ v15 = None
    \/ subject = "phones" /\ Phones!Init /\ v11 = None /\ v12 = None /\ v13 = None /\ v14 = None /\ v15 = None
    \/ subject = "removed" /\ RemovedRecords!Init /\ v11 = None /\ v12 = None /\ v13 = None /\ v14 = None /\ v15 = None
    \/ subject = "blockedRecord" /\ BlockedRecords!Init /\ v11 = None /\ v12 = None /\ v13 = None /\ v14 = None /\ v15 = None
    \/ subject = "blockedClub" /\ BlockedClub!Init /\ v11 = None /\ v12 = None /\ v13 = None /\ v14 = None /\ v15 = None
    \/ subject = "suspended" /\ Suspended!Init /\ v11 = None /\ v12 = None /\ v13 = None /\ v14 = None /\ v15 = None
    \/ subject = "desk" /\ Desk!Init /\ v11 = None /\ v12 = None /\ v13 = None /\ v14 = None /\ v15 = None
    \/ subject = "sheet" /\ Imported!Init /\ v11 = None /\ v12 = None /\ v13 = None /\ v14 = None /\ v15 = None
    \/ subject = "sheetTwice" /\ ImportedTwice!Init /\ v11 = None /\ v12 = None /\ v13 = None /\ v14 = None /\ v15 = None
    \/ subject = "providers" /\ Providers!Init
    \/ subject = "providersRace" /\ ProvidersRace!Init
    \/ subject = "answers" /\ Answers!Init /\ v10 = None /\ v11 = None /\ v12 = None /\ v13 = None /\ v14 = None /\ v15 = None
    \/ subject = "mails" /\ Mails!Init /\ v10 = None /\ v11 = None /\ v12 = None /\ v13 = None /\ v14 = None /\ v15 = None

MCNext ==
    /\ \/ subject = "waitlist" /\ List!Next /\ UNCHANGED <<v7, v8, v9, v10, v11, v12, v13, v14, v15>>
       \/ subject = "blocked" /\ Blocked!Next /\ UNCHANGED <<v7, v8, v9, v10, v11, v12, v13, v14, v15>>
       \/ subject = "codes" /\ Codes!Next /\ UNCHANGED <<v13, v14, v15>>
       \/ subject = "oneCode" /\ OneCode!Next /\ UNCHANGED <<v13, v14, v15>>
       \/ subject = "signup" /\ Signs!Next /\ UNCHANGED <<v13, v14, v15>>
       \/ subject = "doors" /\ Doors!Next /\ UNCHANGED <<v13, v14, v15>>
       \/ subject = "client" /\ Accounts!Next
       \/ subject = "links" /\ Links!Next
       \/ subject = "opening" /\ Opening!Next /\ UNCHANGED <<v5, v6, v7, v8, v9, v10, v11, v12, v13, v14, v15>>
       \/ subject = "fees" /\ Fees!Next /\ UNCHANGED <<v5, v6, v7, v8, v9, v10, v11, v12, v13, v14, v15>>
       \/ subject = "team" /\ OpenSeats!Next /\ UNCHANGED <<v10, v11, v12, v13, v14, v15>>
       \/ subject = "joining" /\ Joining!Next /\ UNCHANGED <<v10, v11, v12, v13, v14, v15>>
       \/ subject = "review" /\ Review!Next /\ UNCHANGED <<v10, v11, v12, v13, v14, v15>>
       \/ subject = "replies" /\ Replies!Next /\ UNCHANGED <<v10, v11, v12, v13, v14, v15>>
       \/ subject = "asking" /\ Asking!Next /\ UNCHANGED <<v10, v11, v12, v13, v14, v15>>
       \/ subject = "digest" /\ Digest!Next /\ UNCHANGED <<v10, v11, v12, v13, v14, v15>>
       \/ subject = "talk" /\ Talk!Next /\ UNCHANGED <<v7, v8, v9, v10, v11, v12, v13, v14, v15>>
       \/ subject = "unitTalk" /\ UnitTalk!Next /\ UNCHANGED <<v7, v8, v9, v10, v11, v12, v13, v14, v15>>
       \/ subject = "decide" /\ Decide!Next /\ UNCHANGED <<v8, v9, v10, v11, v12, v13, v14, v15>>
       \/ subject = "pending" /\ Pending!Next /\ UNCHANGED <<v8, v9, v10, v11, v12, v13, v14, v15>>
       \/ subject = "limits" /\ Limits!Next /\ UNCHANGED <<v8, v9, v10, v11, v12, v13, v14, v15>>
       \/ subject = "cover" /\ Cover!Next /\ UNCHANGED <<v13, v14, v15>>
       \/ subject = "gallery" /\ Gallery!Next /\ UNCHANGED <<v13, v14, v15>>
       \/ subject = "posts" /\ Posts!Next /\ UNCHANGED <<v13, v14, v15>>
       \/ subject = "stops" /\ Stops!Next /\ UNCHANGED <<v13, v14, v15>>
       \/ subject = "remind" /\ Remind!Next /\ UNCHANGED <<v13, v14, v15>>
       \/ subject = "remindRedis" /\ RemindRedis!Next /\ UNCHANGED <<v13, v14, v15>>
       \/ subject = "remindEdits" /\ RemindEdits!Next /\ UNCHANGED <<v13, v14, v15>>
       \/ subject = "shelf" /\ Shelf!Next /\ UNCHANGED <<v13, v14, v15>>
       \/ subject = "bell" /\ Bell!Next /\ UNCHANGED <<v13, v14, v15>>
       \/ subject = "queue" /\ Queue!Next /\ UNCHANGED <<v6, v7, v8, v9, v10, v11, v12, v13, v14, v15>>
       \/ subject = "calls" /\ Calls!Next /\ UNCHANGED <<v6, v7, v8, v9, v10, v11, v12, v13, v14, v15>>
       \/ subject = "books" /\ Mailing!Next /\ UNCHANGED <<v10, v11, v12, v13, v14, v15>>
       \/ subject = "campaigns" /\ Campaigns!Next /\ UNCHANGED <<v10, v11, v12, v13, v14, v15>>
       \/ subject = "data" /\ Data!Next /\ UNCHANGED <<v13, v14, v15>>
       \/ subject = "oldInvites" /\ OldInvites!Next /\ UNCHANGED <<v13, v14, v15>>
       \/ subject = "conduct" /\ Conduct!Next /\ UNCHANGED <<v13, v14, v15>>
       \/ subject = "leaving" /\ Leaving!Next /\ UNCHANGED <<v10, v11, v12, v13, v14, v15>>
       \/ subject = "departure" /\ Departure!Next /\ UNCHANGED <<v10, v11, v12, v13, v14, v15>>
       \/ subject = "chairs" /\ Chairs!Next /\ UNCHANGED <<v10, v11, v12, v13, v14, v15>>
       \/ subject = "phones" /\ Phones!Next /\ UNCHANGED <<v11, v12, v13, v14, v15>>
       \/ subject = "removed" /\ RemovedRecords!Next /\ UNCHANGED <<v11, v12, v13, v14, v15>>
       \/ subject = "blockedRecord" /\ BlockedRecords!Next /\ UNCHANGED <<v11, v12, v13, v14, v15>>
       \/ subject = "blockedClub" /\ BlockedClub!Next /\ UNCHANGED <<v11, v12, v13, v14, v15>>
       \/ subject = "suspended" /\ Suspended!Next /\ UNCHANGED <<v11, v12, v13, v14, v15>>
       \/ subject = "desk" /\ Desk!Next /\ UNCHANGED <<v11, v12, v13, v14, v15>>
       \/ subject = "sheet" /\ Imported!Next /\ UNCHANGED <<v11, v12, v13, v14, v15>>
       \/ subject = "sheetTwice" /\ ImportedTwice!Next /\ UNCHANGED <<v11, v12, v13, v14, v15>>
       \/ subject = "providers" /\ Providers!Next
       \/ subject = "providersRace" /\ ProvidersRace!Next
       \/ subject = "answers" /\ Answers!Next /\ UNCHANGED <<v10, v11, v12, v13, v14, v15>>
       \/ subject = "mails" /\ Mails!Next /\ UNCHANGED <<v10, v11, v12, v13, v14, v15>>
    /\ UNCHANGED subject

MCSpec == MCInit /\ [][MCNext]_mcVars

(* The state of every subject is of its type. *)
TypesOK ==
    CASE subject = "waitlist" -> List!TypeOK
      [] subject = "blocked" -> Blocked!TypeOK
      [] subject = "codes" -> Codes!TypeOK
      [] subject = "oneCode" -> OneCode!TypeOK
      [] subject = "signup" -> Signs!TypeOK
      [] subject = "doors" -> Doors!TypeOK
      [] subject = "client" -> Accounts!TypeOK
      [] subject = "links" -> Links!TypeOK
      [] subject = "opening" -> Opening!TypeOK
      [] subject = "fees" -> Fees!TypeOK
      [] subject = "team" -> OpenSeats!TypeOK
      [] subject = "joining" -> Joining!TypeOK
      [] subject = "review" -> Review!TypeOK
      [] subject = "replies" -> Replies!TypeOK
      [] subject = "asking" -> Asking!TypeOK
      [] subject = "digest" -> Digest!TypeOK
      [] subject = "talk" -> Talk!TypeOK
      [] subject = "unitTalk" -> UnitTalk!TypeOK
      [] subject = "decide" -> Decide!TypeOK
      [] subject = "pending" -> Pending!TypeOK
      [] subject = "limits" -> Limits!TypeOK
      [] subject = "cover" -> Cover!TypeOK
      [] subject = "gallery" -> Gallery!TypeOK
      [] subject = "posts" -> Posts!TypeOK
      [] subject = "stops" -> Stops!TypeOK
      [] subject = "remind" -> Remind!TypeOK
      [] subject = "remindRedis" -> RemindRedis!TypeOK
      [] subject = "remindEdits" -> RemindEdits!TypeOK
      [] subject = "shelf" -> Shelf!TypeOK
      [] subject = "bell" -> Bell!TypeOK
      [] subject = "queue" -> Queue!TypeOK
      [] subject = "calls" -> Calls!TypeOK
      [] subject = "books" -> Mailing!TypeOK
      [] subject = "campaigns" -> Campaigns!TypeOK
      [] subject = "data" -> Data!TypeOK
      [] subject = "oldInvites" -> OldInvites!TypeOK
      [] subject = "conduct" -> Conduct!TypeOK
      [] subject = "leaving" -> Leaving!TypeOK
      [] subject = "departure" -> Departure!TypeOK
      [] subject = "chairs" -> Chairs!TypeOK
      [] subject = "phones" -> Phones!TypeOK
      [] subject = "removed" -> RemovedRecords!TypeOK
      [] subject = "blockedRecord" -> BlockedRecords!TypeOK
      [] subject = "blockedClub" -> BlockedClub!TypeOK
      [] subject = "suspended" -> Suspended!TypeOK
      [] subject = "desk" -> Desk!TypeOK
      [] subject = "sheet" -> Imported!TypeOK
      [] subject = "sheetTwice" -> ImportedTwice!TypeOK
      [] subject = "providers" -> Providers!TypeOK
      [] subject = "providersRace" -> ProvidersRace!TypeOK
      [] subject = "answers" -> Answers!TypeOK
      [] subject = "mails" -> Mails!TypeOK

(* What can be taken once is given once, to whom it was meant for: the slot *)
(* that became free, the place and the fee of an opening, the seat and the  *)
(* invitation of a team, the code, the lockout and the link of a login, the *)
(* one approval of an action, the request for a review, the answer to it,   *)
(* the notice of a message, the post of a shop, the reminder of an          *)
(* appointment, the notice of a low stock, the place in the walk-in queue,  *)
(* a campaign, the record of a telephone and a line of a sheet (claims by   *)
(* updateMany in the services, before what they protect).                   *)
GivenOnce ==
    /\ subject = "waitlist" => List!OfferedOnce /\ List!NoticeNotForgotten
    /\ subject = "blocked" => Blocked!OfferedOnce /\ Blocked!NoticeNotForgotten
    /\ subject = "codes" => Codes!TriesBounded /\ Codes!LockoutHolds
    /\ subject = "oneCode" =>
          /\ OneCode!TriesBounded
          /\ OneCode!LockoutHolds
          /\ OneCode!OneLiveCode
    /\ subject = "signup" => Signs!OneSignupPerCode
    /\ subject = "doors" => Doors!OneSignupPerCode
    /\ subject = "client" => Accounts!LinkServesOnce
    /\ subject = "links" => Links!LinkServesOnce
    /\ subject = "opening" => Opening!PlacesRespected /\ Opening!FeeEarned
    /\ subject = "fees" => Fees!PlacesRespected /\ Fees!FeeEarned
    /\ subject = "team" => OpenSeats!SeatsWithinPlan /\ OpenSeats!OneLiveInvite
    /\ subject = "review" => Review!OneReviewPerCustomer /\ Review!ReplyToldOnce
    /\ subject = "replies" => Replies!ReplyToldOnce
    /\ subject = "asking" => Asking!AskedOnce
    /\ subject = "digest" => Digest!AskedOnce
    /\ subject = "talk" => Talk!MailsSpaced
    /\ subject = "unitTalk" => UnitTalk!MailsSpaced
    /\ subject = "decide" => Decide!ActionRunsOnce
    /\ subject = "pending" => Pending!ActionRunsOnce /\ Pending!OnePending
    /\ subject = "limits" => Limits!ActionRunsOnce /\ Limits!DirectRefundWithinLimit
    /\ subject = "posts" => Posts!PostedOnce
    /\ subject = "remind" => Remind!NotToldTwice
    /\ subject = "remindRedis" => RemindRedis!NotToldTwice
    /\ subject = "remindEdits" => RemindEdits!NotToldTwice
    /\ subject = "shelf" => Shelf!LowStockToldPerFall
    /\ subject = "bell" => Bell!LowStockToldPerFall
    /\ subject = "queue" => Queue!PlacesUnique /\ Queue!ServedOnce
    /\ subject = "calls" => Calls!PlacesUnique /\ Calls!ServedOnce
    /\ subject = "books" => Mailing!EachPersonOnce /\ Mailing!LimitsHold
    /\ subject = "campaigns" => Campaigns!EachPersonOnce /\ Campaigns!LimitsHold
    /\ subject = "phones" => Phones!OneRecordPerPhone
    /\ subject = "removed" => RemovedRecords!OneRecordPerPhone
    /\ subject = "blockedRecord" => BlockedRecords!OneRecordPerPhone
    /\ subject = "desk" => Desk!OneRecordPerPhone
    /\ subject = "sheet" => Imported!ImportedOnce /\ Imported!QuotaNotEscaped
    /\ subject = "sheetTwice" => ImportedTwice!ImportedOnce /\ ImportedTwice!QuotaNotEscaped

(* Records that speak of one fact agree: an old password or an account that *)
(* was erased opens nothing, who was unlinked or made an account with the   *)
(* e-mail of another stays out, who joined has the place, what the platform *)
(* removed, hid or keeps is not shown, shown again or reported, an answer   *)
(* to a text that changed is marked, a message is read by whom it was       *)
(* written to, what was approved is what runs, a post says where it went    *)
(* out, a reminder or a notice reached everyone it is for and nobody else,  *)
(* a campaign nobody who left, a telephone that asked for silence has it in *)
(* every form, data is erased when it is due and not before, a professional *)
(* who left has no booking, nobody waiting and no seat, a record that was   *)
(* erased is referred to by nobody who waits, nor one that is blocked, and  *)
(* a sheet is read as it says.                                              *)
RecordsAgree ==
    /\ subject = "signup" => Signs!UnlinkedStaysOut
    /\ subject = "doors" => Doors!UnlinkedStaysOut
    /\ subject = "client" => Accounts!OldPasswordIsOut
    /\ subject = "links" =>
          /\ Links!OldPasswordIsOut
          /\ Links!ErasedKeepsNothing
          /\ Links!OnePassword
    /\ subject = "opening" => Opening!JoinedHasPlace
    /\ subject = "fees" => Fees!JoinedHasPlace
    /\ subject = "review" =>
          /\ Review!RemovedStaysOut
          /\ Review!StaleReplyMarked
          /\ Review!KeptNotReported
    /\ subject = "replies" => Replies!RemovedStaysOut
    /\ subject = "asking" => Asking!MarkMeansAsked
    /\ subject = "digest" => Digest!MarkMeansAsked
    /\ subject = "talk" => Talk!WrittenToWhoReads /\ Talk!HeldWhileReported
    /\ subject = "unitTalk" => UnitTalk!WrittenToWhoReads /\ UnitTalk!HeldWhileReported
    /\ subject = "decide" => Decide!RunsOnlyApproved
    /\ subject = "pending" => Pending!RunsOnlyApproved
    /\ subject = "limits" => Limits!RunsOnlyApproved
    /\ subject = "cover" => Cover!HiddenImageStaysOut
    /\ subject = "gallery" => Gallery!HiddenImageStaysOut
    /\ subject = "posts" => Posts!PostRecorded
    /\ subject = "remind" => Remind!NobodyForgotten
    /\ subject = "remindRedis" => RemindRedis!NobodyForgotten
    /\ subject = "shelf" => Shelf!ToldToWhoMayKnow /\ Shelf!EveryoneHeard
    /\ subject = "bell" => Bell!ToldToWhoMayKnow /\ Bell!EveryoneHeard
    /\ subject = "queue" => Queue!ClosedDayStays
    /\ subject = "calls" => Calls!ClosedDayStays
    /\ subject = "books" => Mailing!LeftIsLeft
    /\ subject = "campaigns" => Campaigns!LeftIsLeft
    /\ subject = "data" => Data!NeededIsKept /\ Data!RunErasesAllDue
    /\ subject = "oldInvites" => OldInvites!NeededIsKept /\ OldInvites!RunErasesAllDue
    /\ subject = "conduct" => Conduct!NeededIsKept /\ Conduct!RunErasesAllDue
    /\ subject = "leaving" =>
          /\ Leaving!NobodyStranded
          /\ Leaving!NobodyWaitsForWhoLeft
          /\ Leaving!TeamFitsPlan
    /\ subject = "departure" =>
          /\ Departure!NobodyStranded
          /\ Departure!NobodyWaitsForWhoLeft
          /\ Departure!TeamFitsPlan
    /\ subject = "chairs" =>
          /\ Chairs!NobodyStranded
          /\ Chairs!NobodyWaitsForWhoLeft
          /\ Chairs!TeamFitsPlan
    /\ subject = "phones" => Phones!DeletedKeepsNothing /\ Phones!BlockedDoesNotWait
    /\ subject = "removed" => RemovedRecords!DeletedKeepsNothing
    /\ subject = "blockedRecord" => BlockedRecords!BlockedDoesNotWait
    /\ subject = "blockedClub" => BlockedClub!BlockedDoesNotWait
    /\ subject = "desk" => Desk!DeletedKeepsNothing
    /\ subject = "sheet" => Imported!LinesUnderstood
    /\ subject = "sheetTwice" => ImportedTwice!LinesUnderstood
    /\ subject = "providers" => Providers!StrangerIsOut /\ Providers!DisconnectedStaysOut
    /\ subject = "providersRace" => ProvidersRace!StrangerIsOut
    /\ subject = "answers" => Answers!SilenceKept
    /\ subject = "mails" => Mails!OneMailOneChoice

(* What somebody chose is honoured by the requests and jobs that are        *)
(* halfway: who leaves the waiting list is out, a social login opens the    *)
(* account it opened before, an invitation opens a seat that is free, who   *)
(* answered or opted out is not asked again, a hidden post is not           *)
(* published, a professional who left is not made active again, a blocked   *)
(* member pays no club, a booking is on the record of who books, a changed  *)
(* e-mail ends the link and a suspended account books nothing               *)
(* (leaveWaitlist, socialLogin, acceptInvite, claim, publishPost).          *)
ChoicesHonoured ==
    [][ /\ subject = "waitlist" => List!LeavingIsHonoured
        /\ subject = "blocked" => Blocked!LeavingIsHonoured
        /\ subject = "doors" => Doors!SameDoor
        /\ subject = "team" => OpenSeats!EntersOpenSeat
        /\ subject = "joining" => Joining!EntersOpenSeat
        /\ subject = "digest" => Digest!NotAskedTwice
        /\ subject = "posts" => Posts!HiddenNotPosted
        /\ subject = "stops" => Stops!HiddenNotPosted
        /\ subject = "leaving" => Leaving!LeftStaysOut
        /\ subject = "departure" => Departure!LeftStaysOut
        /\ subject = "chairs" => Chairs!LeftStaysOut
        /\ subject = "phones" => Phones!BlockEndsClub /\ Phones!OwnRecord /\ Phones!LinkFollowsEmail /\ Phones!SuspendedBooksNothing
        /\ subject = "removed" => RemovedRecords!LinkFollowsEmail
        /\ subject = "blockedRecord" => BlockedRecords!OwnRecord
        /\ subject = "blockedClub" => BlockedClub!BlockEndsClub
        /\ subject = "suspended" => Suspended!SuspendedBooksNothing /\ Suspended!OwnRecord
        /\ subject = "providers" => Providers!SamePersonSameAccount
        /\ subject = "providersRace" => ProvidersRace!SamePersonSameAccount ]_mcVars

MCSymmetry == Permutations(Worker) \cup Permutations(Two)
=============================================================================
