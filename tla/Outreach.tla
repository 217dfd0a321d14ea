------------------------------ MODULE Outreach ------------------------------
(***************************************************************************)
(* What a shop sends: its campaigns, and who leaves them and comes back.   *)
(***************************************************************************)
EXTENDS Integers, FiniteSets, FiniteSetsExt, SequencesExt

CONSTANTS
    Part,        \* the flow that is explored: "campaigns", "outs"
    Worker,
    None,
    Shop,        \* the shops of the network
    Books,       \* the records of the customers: what may be in the network
    CampaignId,  \* 1 .. the campaigns that fit the model
    Limit,       \* addresses that a month allows on each channel
    MaxTime,     \* bound on the clock, in days; a month has two of them
    Overlap,     \* whether requests run together
    Client,      \* accounts that have the telephone
    Form,        \* ways to write the telephone
    RecId        \* records of the customers in the network

VARIABLES
    now,
    customer,  \* the records, a sequence: email, phone, in, out
    silent,    \* telephones that asked to leave by WhatsApp
    campaign,  \* the campaigns, with the addresses of each channel
    req,
    gone,      \* WhatsappOptOut: of each form, None or who it is of
    record,    \* email, account, out, deleted
    answered,  \* history: the last answer on WhatsApp asked to leave
    chose      \* history: accounts that asked to leave after coming back

(***************************************************************************)
(* "campaigns". The campaigns of a network with several shops: who         *)
(* receives one, once per person though the customer has several records,  *)
(* who left the campaigns, and the limits of a day and of a month.         *)
(***************************************************************************)

campaignVars == <<now, customer, silent, campaign, req>>

Day == 1
Month == 2
Ids == DOMAIN customer
Emails == {customer[i].email : i \in Ids} \ {None}
Phones == {customer[i].phone : i \in Ids} \ {None}
CampaignFree == [op |-> "free", shop |-> None, wide |-> FALSE, mail |-> {}, phones |-> {}, out |-> {}]
CampaignIdle == \A w \in Worker : req[w] = CampaignFree
CampaignMay(w) == req[w] = CampaignFree /\ (CampaignIdle \/ Overlap)

CampaignInit ==
    /\ now = 0 /\ customer \in Books /\ silent = {}
    /\ campaign = [c \in CampaignId |-> None]
    /\ req = [w \in Worker |-> CampaignFree]

(***************************************************************************)
(* uniqueRecipients                                                        *)
(***************************************************************************)

(* resolveMarketingSegment: the records of the shop, or of the network,    *)
(* that are active, not blocked and in the segment                         *)
Segment == {i \in Ids : customer[i].in}
Keys(i) == {customer[i].email, customer[i].phone} \ {None}
OptedOut == {i \in Ids : customer[i].out}
OutKeys == UNION {Keys(i) : i \in OptedOut}

(* a record joins the group of the first one with the same key *)
Join(root, i, k) ==
    LET owner == CHOOSE j \in Ids : j \in Segment /\ k \in Keys(j) /\ \A h \in Segment : k \in Keys(h) => j <= h
    IN [h \in Ids |-> IF root[h] = root[i] THEN root[owner] ELSE root[h]]

Groups ==
    FoldLeft(LAMBDA root, i : IF i \notin Segment THEN root ELSE
                LET e == IF customer[i].email = None THEN root ELSE Join(root, i, customer[i].email)
                IN IF customer[i].phone = None THEN e ELSE Join(e, i, customer[i].phone),
             [i \in Ids |-> i], [i \in Ids |-> i])

Members(g) == {i \in Segment : Groups[i] = g}
GroupIds == {Groups[i] : i \in Segment}
FirstOf(ids, key) == LET has == {i \in ids : customer[i][key] # None} IN IF has = {} THEN None ELSE customer[Min(has)][key]

CampaignMail == {FirstOf(Members(g), "email") : g \in {h \in GroupIds : \A i \in Members(h) : Keys(i) \cap OutKeys = {}}} \ {None}

(* candidatePhones, without the telephones that asked to leave *)
WhatsappPhones == ({FirstOf(Members(g), "phone") : g \in GroupIds} \ {None}) \ silent

(***************************************************************************)
(* sendMarketingBlast                                                      *)
(***************************************************************************)

Campaigns == {campaign[c] : c \in CampaignId} \ {None}

(* marketingLimitScope *)
LimitScope(shop, wide) == {c \in Campaigns : wide \/ c.shop = shop \/ c.wide}

DailyFree(shop, wide) == \A c \in LimitScope(shop, wide) : now - c.at >= Day

Within(shop, wide, channel, n) ==
    n + FoldSet(LAMBDA c, s : s + (IF now - c.at < Month THEN Cardinality(c[channel]) ELSE 0), 0, LimitScope(shop, wide)) <= Limit

Resolve(w, shop, wide) ==
    /\ CampaignMay(w) /\ DailyFree(shop, wide)
    /\ req' = [req EXCEPT ![w] = [op |-> "create", shop |-> shop, wide |-> wide, mail |-> CampaignMail, phones |-> WhatsappPhones,
                                  out |-> OptedOut]]
    /\ UNCHANGED <<now, customer, silent, campaign>>

(* under the lock of the network; then the messages go to the queues *)
Allowed(r) ==
    /\ DailyFree(r.shop, r.wide)
    /\ r.mail # {} => Within(r.shop, r.wide, "mail", Cardinality(r.mail))
    /\ r.phones # {} => Within(r.shop, r.wide, "phones", Cardinality(r.phones))

CreateCampaign(w) ==
    /\ req[w].op = "create"
    /\ LET r == req[w]
           left == {c \in CampaignId : campaign[c] = None} IN
       /\ left # {}
       /\ IF Allowed(r)
          THEN /\ campaign' = [campaign EXCEPT ![Min(left)] = [shop |-> r.shop, wide |-> r.wide, at |-> now, mail |-> r.mail,
                                                              phones |-> r.phones, out |-> r.out]]
          ELSE UNCHANGED campaign
    /\ req' = [req EXCEPT ![w] = CampaignFree]
    /\ UNCHANGED <<now, customer, silent>>

(***************************************************************************)
(* Leaving and coming back                                                 *)
(***************************************************************************)

SameEmail(i) == IF customer[i].email = None THEN {i} ELSE {j \in Ids : customer[j].email = customer[i].email}

Unsubscribe(i, out) ==
    /\ \E j \in SameEmail(i) : customer[j].out # out
    /\ customer' = [j \in Ids |-> IF j \in SameEmail(i) THEN [customer[j] EXCEPT !.out = out] ELSE customer[j]]
    /\ UNCHANGED <<now, silent, campaign, req>>

(* SAIR and VOLTAR, by WhatsApp *)
Silence(p) ==
    /\ silent' = IF p \in silent THEN silent \ {p} ELSE silent \cup {p}
    /\ UNCHANGED <<now, customer, campaign, req>>

Tick ==
    /\ now < MaxTime /\ CampaignIdle /\ now' = now + 1
    /\ UNCHANGED <<customer, silent, campaign, req>>

CampaignNext ==
    \/ Tick
    \/ \E w \in Worker : \/ \E s \in Shop, wide \in BOOLEAN : Resolve(w, s, wide)
                         \/ CreateCampaign(w)
    \/ \E i \in Ids, out \in BOOLEAN : Unsubscribe(i, out)
    \/ \E p \in Phones : Silence(p)

(***************************************************************************)
(* Properties                                                              *)
(***************************************************************************)

CampaignTypeOK ==
    /\ now \in 0 .. MaxTime /\ silent \subseteq Phones
    /\ \A c \in Campaigns : c.shop \in Shop /\ c.mail \subseteq Emails /\ c.phones \subseteq Phones
    /\ \A w \in Worker : req[w].op \in {"free", "create"}

(* The records of one person: those that an e-mail or a telephone links,   *)
(* through any other record.                                               *)
Linked(S) == {i \in Segment : \E j \in S : Keys(i) \cap Keys(j) # {} \/ i = j}
Person(i) == Linked(Linked({i}))

(* A campaign reaches each person once by e-mail, and nobody who had left  *)
(* with any record of the network that shares an e-mail or a telephone     *)
(* (uniqueRecipients).                                                     *)
EachPersonOnce ==
    \A c \in Campaigns : \A i \in Segment :
        LET emails == {customer[j].email : j \in Person(i)} \ {None}
            left == \E j \in Person(i), o \in c.out : Keys(j) \cap Keys(o) # {}
        IN Cardinality(emails \cap c.mail) = IF left \/ emails = {} THEN 0 ELSE 1

(* Who left by one record left with every record of that e-mail, whichever *)
(* link they used (unsubscribeFromMarketing, resubscribeToMarketing).      *)
LeftIsLeft == \A i, j \in Ids : customer[i].email # None /\ customer[i].email = customer[j].email
                                => customer[i].out = customer[j].out

(* A shop reaches its customers with one campaign a day and within the     *)
(* limit of a month, counted with those of the whole network, though two   *)
(* campaigns are sent together (assertMarketingDailyLimit under the lock). *)
LimitsHold ==
    \A s \in Shop : LET mine == {c \in CampaignId : campaign[c] # None /\ (campaign[c].shop = s \/ campaign[c].wide)} IN
        /\ \A c, d \in mine : c # d => campaign[c].at # campaign[d].at
        /\ \A c \in mine : FoldSet(LAMBDA d, n : n + (IF campaign[d].at \in campaign[c].at .. campaign[c].at + Month - 1
                                                     THEN Cardinality(campaign[d].mail) ELSE 0), 0, mine) <= Limit

(***************************************************************************)
(* "outs". Who leaves the campaigns and who comes back: by e-mail with the *)
(* link of a message or in the client area, for every record of the        *)
(* network with the same e-mail; by WhatsApp with an answer, or in the     *)
(* client area, where two accounts may have typed one telephone, in all    *)
(* its forms.                                                              *)
(***************************************************************************)

outsVars == <<gone, record, answered, chose, req>>

OutsMail == {"e1", "e2", None}
RecordRow == [email : OutsMail, owner : Client \cup {None}, out : BOOLEAN, deleted : BOOLEAN]
OutsFree == [op |-> "free", who |-> None, todo |-> {}]
OutsIdle == \A w \in Worker : req[w] = OutsFree
OutsMay(w) == req[w] = OutsFree /\ (OutsIdle \/ Overlap)
Done(w) == req' = [req EXCEPT ![w] = OutsFree]

OutsInit ==
    /\ gone = [f \in Form |-> None]
    /\ record \in [RecId -> [email : OutsMail, owner : Client \cup {None}, out : {FALSE}, deleted : {FALSE}]]
    /\ answered = FALSE /\ chose = {} /\ req = [w \in Worker |-> OutsFree]

(***************************************************************************)
(* WhatsApp                                                                *)
(***************************************************************************)

(* optOutFromReply: every form, one by one; a row of an account is taken   *)
Reply(w) ==
    /\ OutsMay(w)
    /\ req' = [req EXCEPT ![w] = [op |-> "reply", who |-> None, todo |-> {[form |-> f, had |-> gone[f]] : f \in Form}]]
    /\ answered' = TRUE
    /\ UNCHANGED <<gone, record, chose>>

Taken(t) == "reply"

(* a form that was not there is created: the key refuses it when it is     *)
(* there by now; and one that was there is updated, if it still is         *)
WriteForm(w, t) ==
    /\ req[w].op = "reply" /\ t \in req[w].todo
    /\ LET works == (t.had = None) = (gone[t.form] = None) IN
       /\ gone' = IF works THEN [gone EXCEPT ![t.form] = Taken(t)] ELSE gone
       /\ req' = [req EXCEPT ![w] = IF ~works \/ req[w].todo = {t} THEN OutsFree ELSE [@ EXCEPT !.todo = @ \ {t}]]
    /\ UNCHANGED <<record, answered, chose>>

ReplyBack ==
    /\ OutsIdle \/ Overlap
    /\ gone' = [f \in Form |-> None] /\ answered' = FALSE /\ chose' = {}
    /\ UNCHANGED <<record, req>>

(* setWhatsappOptOut: what is not there, and then the rows *)
Leaves(w, c) ==
    /\ OutsMay(w)
    /\ req' = [req EXCEPT ![w] = [op |-> "leave", who |-> c, todo |-> {f \in Form : gone[f] = None}]]
    /\ UNCHANGED <<gone, record, answered, chose>>

WriteLeaves(w) ==
    /\ req[w].op = "leave"
    /\ gone' = [f \in Form |-> IF f \in req[w].todo /\ gone[f] = None THEN req[w].who ELSE gone[f]]
    /\ chose' = IF \E f \in Form : gone[f] = None /\ f \in req[w].todo THEN chose \cup {req[w].who} ELSE chose
    /\ Done(w) /\ UNCHANGED <<record, answered>>

Own(f, c) == gone[f] = c

ComesBack(c) ==
    /\ OutsIdle \/ Overlap
    /\ gone' = [f \in Form |-> IF Own(f, c) THEN None ELSE gone[f]]
    /\ chose' = chose \ {c}
    /\ UNCHANGED <<record, answered, req>>

(***************************************************************************)
(* E-mail                                                                  *)
(***************************************************************************)

Live(r) == ~record[r].deleted

SameMail(r) == IF record[r].email = None THEN {r} ELSE {q \in RecId : record[q].email = record[r].email}

SetOut(S, out) == record' = [r \in RecId |-> IF r \in S THEN [record[r] EXCEPT !.out = out] ELSE record[r]]

UnsubscribeFromMarketing(r) == SetOut(SameMail(r), TRUE) /\ UNCHANGED <<gone, answered, chose, req>>

ResubscribeToMarketing(r) ==
    /\ Live(r)
    /\ SetOut({q \in SameMail(r) : Live(q)}, FALSE) /\ UNCHANGED <<gone, answered, chose, req>>

(* setNetworkEmailOptOut: the records of the account are read first *)
ChooseNetwork(w, c, out) ==
    /\ OutsMay(w)
    /\ LET own == {r \in RecId : record[r].owner = c /\ Live(r)} IN
       /\ own # {}
       /\ req' = [req EXCEPT ![w] = [op |-> IF out THEN "mailOut" ELSE "mailIn", who |-> c, todo |-> {record[r].email : r \in own} \ {None}]]
    /\ UNCHANGED <<gone, record, answered, chose>>

WriteNetwork(w) ==
    /\ req[w].op \in {"mailOut", "mailIn"}
    /\ SetOut({r \in RecId : Live(r) /\ (record[r].owner = req[w].who \/ record[r].email \in req[w].todo)}, req[w].op = "mailOut")
    /\ Done(w) /\ UNCHANGED <<gone, answered, chose>>

(* deleteCustomer, as in Customers *)
Erase(r) ==
    /\ Live(r) /\ OutsIdle
    /\ record' = [record EXCEPT ![r] = [email |-> None, owner |-> None, out |-> TRUE, deleted |-> TRUE]]
    /\ UNCHANGED <<gone, answered, chose, req>>

OutsNext ==
    \/ \E w \in Worker : \/ Reply(w) \/ WriteLeaves(w) \/ WriteNetwork(w)
                         \/ \E t \in req[w].todo : WriteForm(w, t)
                         \/ \E c \in Client : Leaves(w, c) \/ \E out \in BOOLEAN : ChooseNetwork(w, c, out)
    \/ \E c \in Client : ComesBack(c)
    \/ \E r \in RecId : UnsubscribeFromMarketing(r) \/ ResubscribeToMarketing(r) \/ Erase(r)
    \/ ReplyBack

(***************************************************************************)
(* Properties                                                              *)
(***************************************************************************)

OutsTypeOK ==
    /\ gone \in [Form -> Client \cup {"reply", None}] /\ record \in [RecId -> RecordRow]
    /\ chose \subseteq Client /\ answered \in BOOLEAN

(* A telephone that left with an answer on WhatsApp is out in every form   *)
(* of it until it answers again, whatever the accounts that typed it       *)
(* choose, and one that an account left is out until that account or the   *)
(* telephone comes back. It holds for requests that do not overlap: an     *)
(* answer that finds a row which was not there stops half way              *)
(* (optOutFromReply, setWhatsappOptOut).                                   *)
SilenceKept ==
    ~Overlap /\ OutsIdle =>
        /\ answered => \A f \in Form : gone[f] = "reply"
        /\ chose # {} => \A f \in Form : gone[f] # None

(* Records of one e-mail are out together, and a record that was erased    *)
(* stays out (unsubscribeFromMarketing, setNetworkEmailOptOut).            *)
OneMailOneChoice ==
    OutsIdle => \A r, q \in RecId :
        /\ ~Live(r) => record[r].out
        /\ record[r].email = record[q].email /\ record[r].email # None => record[r].out = record[q].out

(***************************************************************************)
(* The component: one part at a time. The other parts have no state then.  *)
(***************************************************************************)

vars == <<now, customer, silent, campaign, req, gone, record, answered, chose>>

Init ==
    \/ /\ Part = "campaigns" /\ CampaignInit
          /\ gone = None /\ record = None /\ answered = None /\ chose = None
    \/ /\ Part = "outs" /\ OutsInit
          /\ now = None /\ customer = None /\ silent = None /\ campaign = None

Next ==
    \/ Part = "campaigns" /\ CampaignNext /\ UNCHANGED <<gone, record, answered, chose>>
    \/ Part = "outs" /\ OutsNext /\ UNCHANGED <<now, customer, silent, campaign>>

Spec == Init /\ [][Next]_vars

TypeOK ==
    /\ Part = "campaigns" => CampaignTypeOK
    /\ Part = "outs" => OutsTypeOK
=============================================================================
