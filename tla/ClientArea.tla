----------------------------- MODULE ClientArea -----------------------------
(***************************************************************************)
(* The account of a client: its password, links and end, and the doors by  *)
(* a provider or by the team.                                              *)
(***************************************************************************)
EXTENDS Integers, FiniteSetsExt, FiniteSets

CONSTANTS
    Part,       \* the flow that is explored: "account", "doors"
    Worker,
    TokenId,    \* a set of numbers
    None,
    MaxPw,      \* bound on the passwords that are set; two exist at the start
    MaxV,       \* bound on the session versions a suspension makes
    Purposes,   \* what the links that are asked for are about
    Overlap,    \* whether requests run together
    AccountId,  \* rows of ClientAccount
    Identity,   \* people at the provider
    MaxMoves    \* bound on the e-mails that change there

VARIABLES
    acc,      \* the row of ClientAccount
    staffPw,  \* the password of the account of the team
    lastPw,
    token,    \* the rows of ClientAccountToken
    sess,     \* one of the sessions that were opened: its version and password
    card,     \* whether the card of the shop is tied to the account
    club,     \* the subscription: in the database, and whether Stripe will charge again
    req,
    acct,     \* email, verified, pw, staff, refused (the provider), v
    social,   \* the links: account, email and identity of each one
    mailOf,   \* the e-mail of each identity at the provider
    moves,
    staff,    \* the account of the team, of "e1": verified
    inside,   \* the last session of the stranger, and its version
    claimed   \* history: accounts whose e-mail the provider confirmed

(***************************************************************************)
(* "account". One account of the client area, and the account of the same  *)
(* person in the team of a shop, to which it may be linked: the password   *)
(* of the team is then the password of both. With its links by e-mail, its *)
(* sessions, its card at a shop, its club subscription, its suspension and *)
(* its end. Passwords are numbered in the order in which they are set.     *)
(***************************************************************************)

accountVars == <<acc, staffPw, lastPw, token, sess, card, club, req>>

AccountFree == [op |-> "free", v |-> 0, pw |-> 0, linked |-> FALSE, tok |-> None, subs |-> FALSE, sus |-> FALSE]
Step(w, r) == req' = [req EXCEPT ![w] = r]
Goes(w, op) == Step(w, [req[w] EXCEPT !.op = op])
Ends(w) == Step(w, AccountFree)
MayStart(w) == req[w] = AccountFree /\ (Overlap \/ \A x \in Worker : req[x] = AccountFree)
Open == ~acc.deleted
Seen(op) == [AccountFree EXCEPT !.op = op, !.v = acc.v, !.pw = acc.pw, !.linked = acc.linked,
                        !.sus = acc.suspended]

AccountInit ==
    /\ acc = [deleted |-> FALSE, v |-> 0, pw |-> 2, linked |-> FALSE, verified |-> FALSE,
              suspended |-> FALSE]
    /\ staffPw = 1 /\ lastPw = 2
    /\ token = [t \in TokenId |-> [purpose |-> None, live |-> FALSE, uses |-> 0]]
    /\ sess = None /\ card = FALSE /\ club = [db |-> FALSE, stripe |-> FALSE]
    /\ req = [w \in Worker |-> AccountFree]

(***************************************************************************)
(* validateCredentials and issueCookie                                     *)
(***************************************************************************)

LoginReads(w) ==
    /\ MayStart(w) /\ Open
    /\ Step(w, Seen("login"))
    /\ UNCHANGED <<acc, staffPw, lastPw, token, sess, card, club>>

(* The right password: the one of the team when the accounts are linked.    *)
(* The same password on both sides links them; link() gives back the row.   *)
(* A suspended account is refused after that (assertNotSuspended).          *)
LoginCompares(w) ==
    LET r == req[w] IN
    /\ r.op = "login" /\ (r.linked \/ r.pw # 0)
    /\ \/ /\ IF r.sus THEN Ends(w)
             ELSE Step(w, [r EXCEPT !.op = "cookie", !.pw = IF r.linked THEN staffPw ELSE r.pw])
          /\ UNCHANGED acc
       \/ /\ ~r.linked
          /\ acc' = [acc EXCEPT !.linked = TRUE, !.pw = 0, !.v = @ + 1]
          /\ IF acc.suspended THEN Ends(w)
             ELSE Step(w, [r EXCEPT !.op = "cookie", !.pw = staffPw, !.v = acc.v + 1])
    /\ UNCHANGED <<staffPw, lastPw, token, sess, card, club>>

CookieVersion(r) == r.v

(* openClientSession, then the cards that appeared since (a confirmed       *)
(* e-mail ties them)                                                        *)
OpenClientSession(w) ==
    LET r == req[w] IN
    /\ r.op = "cookie"
    /\ sess' \in {sess, [v |-> CookieVersion(r), pw |-> r.pw]}
    /\ card' = (card \/ acc.verified)
    /\ Ends(w)
    /\ UNCHANGED <<acc, staffPw, lastPw, token, club>>

EndSession ==
    /\ sess # None
    /\ sess' = None
    /\ UNCHANGED <<acc, staffPw, lastPw, token, card, club, req>>

(***************************************************************************)
(* AccountLinkService                                                      *)
(***************************************************************************)

(* linkFromClient and linkFromStaff: the password of the other side *)
LinkReads(w) ==
    /\ MayStart(w) /\ Open /\ ~acc.linked
    /\ Step(w, Seen("link"))
    /\ UNCHANGED <<acc, staffPw, lastPw, token, sess, card, club>>

Link(w) ==
    /\ req[w].op = "link"
    /\ acc' = [acc EXCEPT !.linked = TRUE, !.pw = 0, !.v = @ + 1]
    /\ Ends(w)
    /\ UNCHANGED <<staffPw, lastPw, token, sess, card, club>>

(* changePassword and resetPassword of the team: the new password, then     *)
(* revokeSessions, which also ends the sessions of the linked client area   *)
StaffPassword(w) ==
    /\ MayStart(w) /\ lastPw < MaxPw
    /\ staffPw' = lastPw + 1 /\ lastPw' = lastPw + 1
    /\ Step(w, [AccountFree EXCEPT !.op = "revoke"])
    /\ UNCHANGED <<acc, token, sess, card, club>>

RevokeSessions(w) ==
    /\ req[w].op = "revoke"
    /\ acc' = IF acc.linked THEN [acc EXCEPT !.v = @ + 1] ELSE acc
    /\ Ends(w)
    /\ UNCHANGED <<staffPw, lastPw, token, sess, card, club>>

(***************************************************************************)
(* The links by e-mail                                                     *)
(***************************************************************************)

NoPurpose == {t \in TokenId : token[t].purpose = None}

(* One link of each kind at a time: the ones before are marked as used. *)
CreateToken(p) ==
    LET new == Min(NoPurpose) IN
    /\ Open /\ NoPurpose # {}
    /\ p = "verify" => ~acc.verified
    /\ token' = [t \in TokenId |->
                   IF t = new THEN [purpose |-> p, live |-> TRUE, uses |-> 0]
                   ELSE IF token[t].purpose = p THEN [token[t] EXCEPT !.live = FALSE] ELSE token[t]]
    /\ UNCHANGED <<acc, staffPw, lastPw, sess, card, club, req>>

(* The row of the token and the account it belongs to are read together. *)
TokenReads(w, t) ==
    /\ MayStart(w) /\ token[t].live
    /\ Step(w, [Seen("consume") EXCEPT !.tok = t])
    /\ UNCHANGED <<acc, staffPw, lastPw, token, sess, card, club>>

Consumes(t) == token[t].live

ConsumeToken(w) ==
    LET t == req[w].tok IN
    /\ req[w].op = "consume"
    /\ IF Consumes(t)
       THEN /\ token' = [token EXCEPT ![t].live = FALSE, ![t].uses = @ + 1]
            /\ Goes(w, token[t].purpose)
       ELSE Ends(w) /\ UNCHANGED token
    /\ UNCHANGED <<acc, staffPw, lastPw, sess, card, club>>

(* verifyEmail *)
VerifyEmail(w) ==
    /\ req[w].op = "verify"
    /\ acc' = [acc EXCEPT !.verified = TRUE]
    /\ card' = TRUE
    /\ Ends(w)
    /\ UNCHANGED <<staffPw, lastPw, token, sess, club>>

(* resetPassword: a linked account has the password of the team *)
ResetStaffPassword(w) ==
    /\ req[w].op = "reset" /\ lastPw < MaxPw
    /\ lastPw' = lastPw + 1
    /\ staffPw' = IF req[w].linked THEN lastPw + 1 ELSE staffPw
    /\ Step(w, [req[w] EXCEPT !.op = "resetClient", !.pw = lastPw + 1])
    /\ UNCHANGED <<acc, token, sess, card, club>>

ResetPassword(w) ==
    /\ req[w].op = "resetClient"
    /\ acc' = [acc EXCEPT !.pw = IF req[w].linked THEN 0 ELSE req[w].pw,
                          !.verified = TRUE, !.v = @ + 1]
    /\ token' = [t \in TokenId |-> [token[t] EXCEPT !.live = FALSE]]
    /\ card' = TRUE
    /\ Ends(w)
    /\ UNCHANGED <<staffPw, lastPw, sess, club>>

(***************************************************************************)
(* The club, the suspension and the end of the account                     *)
(***************************************************************************)

(* External: the account subscribes to the club of a shop. *)
Subscribe ==
    /\ Open /\ ~acc.suspended /\ club = [db |-> FALSE, stripe |-> FALSE]
    /\ \A w \in Worker : req[w] = AccountFree
    /\ club' = [db |-> TRUE, stripe |-> TRUE]
    /\ UNCHANGED <<acc, staffPw, lastPw, token, sess, card, req>>

(* setSuspended: the club is cancelled first, unless the admin keeps it     *)
(* (options.cancelSubscriptions); an error of Stripe leaves the account.    *)
SetSuspended(w) ==
    /\ MayStart(w) /\ Open /\ ~acc.suspended /\ acc.v < MaxV
    /\ \E keep \in BOOLEAN :
         club' = IF keep THEN club ELSE [club EXCEPT !.stripe = FALSE]
    /\ Step(w, [AccountFree EXCEPT !.op = "suspend"])
    /\ UNCHANGED <<acc, staffPw, lastPw, token, sess, card>>

Suspend(w) ==
    /\ req[w].op = "suspend"
    /\ acc' = [acc EXCEPT !.suspended = TRUE, !.v = @ + 1]
    /\ Ends(w)
    /\ UNCHANGED <<staffPw, lastPw, token, sess, card, club>>

LiftSuspension ==
    /\ Open /\ acc.suspended
    /\ acc' = [acc EXCEPT !.suspended = FALSE]
    /\ UNCHANGED <<staffPw, lastPw, token, sess, card, club, req>>

(* deleteAccount, from the app (op "delete") or by the link of the e-mail *)
DeleteReads(w) ==
    /\ \/ MayStart(w) /\ ~acc.suspended
       \/ req[w].op = "delete"
    /\ IF Open THEN Step(w, [AccountFree EXCEPT !.op = "deleting", !.subs = club.db]) ELSE Ends(w)
    /\ UNCHANGED <<acc, staffPw, lastPw, token, sess, card, club>>

(* Stripe first: an error leaves everything as it was. *)
CancelAtStripe(w) ==
    /\ req[w].op = "deleting"
    /\ \/ /\ club' = [club EXCEPT !.stripe = IF req[w].subs THEN FALSE ELSE @]
          /\ Goes(w, "erase")
       \/ req[w].subs /\ Ends(w) /\ UNCHANGED club
    /\ UNCHANGED <<acc, staffPw, lastPw, token, sess, card>>

EraseAccount(w) ==
    /\ req[w].op = "erase"
    /\ acc' = [acc EXCEPT !.deleted = TRUE, !.pw = 0, !.linked = FALSE, !.verified = FALSE, !.v = @ + 1]
    /\ token' = [t \in TokenId |-> [token[t] EXCEPT !.live = FALSE]]
    /\ card' = FALSE
    /\ club' = [club EXCEPT !.db = FALSE]
    /\ Ends(w)
    /\ UNCHANGED <<staffPw, lastPw, sess>>

AccountNext ==
    \/ Subscribe \/ LiftSuspension \/ EndSession
    \/ \E p \in Purposes : CreateToken(p)
    \/ \E w \in Worker :
         \/ LoginReads(w) \/ LoginCompares(w) \/ OpenClientSession(w)
         \/ LinkReads(w) \/ Link(w) \/ StaffPassword(w) \/ RevokeSessions(w)
         \/ ConsumeToken(w) \/ VerifyEmail(w) \/ ResetStaffPassword(w) \/ ResetPassword(w)
         \/ SetSuspended(w) \/ Suspend(w) \/ DeleteReads(w) \/ CancelAtStripe(w) \/ EraseAccount(w)
         \/ \E t \in TokenId : TokenReads(w, t)

(***************************************************************************)
(* Properties                                                              *)
(***************************************************************************)

Op == {"free", "login", "cookie", "link", "revoke", "consume", "verify", "reset",
       "resetClient", "suspend", "delete", "deleting", "erase"}

AccountTypeOK ==
    /\ acc \in [deleted : BOOLEAN, v : Nat, pw : 0..MaxPw, linked : BOOLEAN,
                verified : BOOLEAN, suspended : BOOLEAN]
    /\ staffPw \in 1..MaxPw /\ lastPw \in 2..MaxPw
    /\ token \in [TokenId -> [purpose : Purposes \cup {None}, live : BOOLEAN, uses : Nat]]
    /\ sess \in [v : Nat, pw : 0..MaxPw] \cup {None}
    /\ card \in BOOLEAN /\ club \in [db : BOOLEAN, stripe : BOOLEAN]
    /\ req \in [Worker -> [op : Op, v : Nat, pw : 0..MaxPw, linked : BOOLEAN,
                           tok : TokenId \cup {None}, subs : BOOLEAN, sus : BOOLEAN]]

(* optionalClientAccountId *)
Alive == sess # None /\ Open /\ ~acc.suspended /\ sess.v = acc.v
Quiet == \A w \in Worker : req[w].op \notin {"revoke", "reset", "resetClient", "link"}

(* A session that was opened with a password that is no longer the password *)
(* of the account is dead, even when the login was halfway while the        *)
(* password was reset or changed (the version the cookie carries is the one *)
(* that was read before the password was compared).                         *)
OldPasswordIsOut == (Quiet /\ Alive) => sess.pw \in {staffPw, acc.pw}

(* A link of an e-mail serves once, though it is opened twice together      *)
(* (consumeToken).                                                          *)
LinkServesOnce == \A t \in TokenId : token[t].uses <= 1

(* One request at a time, an account that was erased keeps nothing: no card *)
(* of a shop, no link, no session and no club that Stripe still charges,    *)
(* though Stripe may fail on the way (deleteAccount).                       *)
ErasedKeepsNothing ==
    (~Overlap /\ acc.deleted) =>
       /\ ~card /\ ~acc.linked /\ ~club.db /\ ~club.stripe
       /\ \A t \in TokenId : ~token[t].live
       /\ ~Alive

(* One request at a time, a linked account has no password of its own.      *)
OnePassword == (~Overlap /\ acc.linked) => acc.pw = 0

(***************************************************************************)
(* "doors". The doors of the client area besides the password of the       *)
(* account: the login by a provider, whose people may change their e-mail  *)
(* there, the password of the team, and the links that the client makes    *)
(* and undoes. An old account may hold an e-mail that nobody confirmed,    *)
(* with the password of a stranger.                                        *)
(***************************************************************************)

doorsVars == <<acct, social, mailOf, moves, staff, inside, claimed, req>>

Email == {"e1", "e2"}
AccountRow == [email : Email, verified : BOOLEAN, pw : {None, "own", "stranger"}, staff : BOOLEAN, refused : BOOLEAN, v : 0 .. 3]
SocialRow == [acct : AccountId, email : Email, who : Identity \cup {None}]
New(e) == [email |-> e, verified |-> TRUE, pw |-> None, staff |-> FALSE, refused |-> FALSE, v |-> 0]
DoorsFree == [op |-> "free", who |-> None, acct |-> None, linked |-> FALSE, mail |-> None]
Idle == \A w \in Worker : req[w] = DoorsFree
May(w) == req[w] = DoorsFree /\ (Idle \/ Overlap)
Done(w) == req' = [req EXCEPT ![w] = DoorsFree]
Rows == {a \in AccountId : acct[a] # None}
WithEmail(e) == {a \in Rows : acct[a].email = e}
Unused == {a \in AccountId : acct[a] = None /\ \A b \in AccountId : acct[b] = None => a <= b}

DoorsInit ==
    /\ acct \in {[a \in AccountId |-> None],
                 [a \in AccountId |-> IF a = 1 THEN [New("e1") EXCEPT !.verified = FALSE, !.pw = "stranger"] ELSE None]}
    /\ social \in {{}} \cup {{[acct |-> 1, email |-> "e1", who |-> None]} : x \in {y \in {1} : acct[1] # None}}
    /\ mailOf \in [Identity -> Email] /\ moves = 0
    /\ \A i, j \in Identity : i # j => mailOf[i] # mailOf[j]
    /\ staff \in [verified : BOOLEAN]
    /\ inside = IF acct[1] = None THEN None ELSE [acct |-> 1, v |-> 0]
    /\ claimed = {} /\ req = [w \in Worker |-> DoorsFree]

(* at the provider: a free e-mail, so that it may go from one to another *)
ChangeMail(i, e) ==
    /\ moves < MaxMoves /\ moves' = moves + 1
    /\ mailOf' = [j \in Identity |-> IF j = i THEN e ELSE IF mailOf[j] = e THEN mailOf[i] ELSE mailOf[j]]
    /\ UNCHANGED <<acct, social, staff, inside, claimed, req>>

(***************************************************************************)
(* findOrCreateSocialAccount                                               *)
(***************************************************************************)

(* The identity, and then a link of that e-mail that has none. *)
PickSocialLink(i) ==
    LET byId == {l \in social : l.who = i}
        byEmail == {l \in social : l.email = mailOf[i]}
    IN  IF byId # {} THEN byId ELSE {l \in byEmail : l.who = None}

OfSomebodyElse(i) ==
    PickSocialLink(i) = {} /\ \E l \in social : l.email = mailOf[i] /\ l.who \notin {None, i}

MayEnter(a, linked) == ~linked => ~acct[a].refused

EnterSocial(w, i) ==
    /\ May(w) /\ ~OfSomebodyElse(i)
    /\ LET link == PickSocialLink(i)
           found == IF link # {} THEN {l.acct : l \in link} ELSE WithEmail(mailOf[i])
       IN  /\ social' = {IF l \in link THEN [l EXCEPT !.who = i] ELSE l : l \in social}
           /\ IF found = {}
              THEN req' = [req EXCEPT ![w] = [DoorsFree EXCEPT !.op = "create", !.who = i, !.mail = mailOf[i]]]
              ELSE \E a \in found :
                   /\ MayEnter(a, link # {})
                   /\ req' = [req EXCEPT ![w] = [op |-> "confirm", who |-> i, acct |-> a, linked |-> link # {}, mail |-> mailOf[i]]]
    /\ UNCHANGED <<acct, mailOf, moves, staff, inside, claimed>>

(* Who made the account before may not be the owner of the e-mail: out. *)
Confirmed(r) == [r EXCEPT !.verified = TRUE, !.pw = None, !.v = @ + 1]

ConfirmEmail(w) ==
    /\ req[w].op = "confirm"
    /\ LET a == req[w].acct IN
       IF ~acct[a].verified /\ acct[a].email = req[w].mail
       THEN acct' = [acct EXCEPT ![a] = Confirmed(@)] /\ claimed' = claimed \cup {a}
       ELSE UNCHANGED <<acct, claimed>>
    /\ req' = [req EXCEPT ![w] = IF req[w].linked THEN DoorsFree ELSE [req[w] EXCEPT !.op = "link"]]
    /\ UNCHANGED <<social, mailOf, moves, staff, inside>>

(* nobody else has the link, the account has none, and the e-mail is free *)
Fits(row) == \A l \in social : l.acct # row.acct /\ l.email # row.email /\ (row.who # None => l.who # row.who)

(* what the unique keys refuse is passed over *)
LinkSocial(w) ==
    /\ req[w].op = "link"
    /\ LET row == [acct |-> req[w].acct, email |-> req[w].mail, who |-> req[w].who] IN
       social' = IF Fits(row) THEN social \cup {row} ELSE social
    /\ Done(w) /\ UNCHANGED <<acct, mailOf, moves, staff, inside, claimed>>

CreateSocial(w) ==
    /\ req[w].op = "create"
    /\ IF WithEmail(req[w].mail) # {} \/ Unused = {}
       THEN Done(w) /\ UNCHANGED acct
       ELSE \E a \in Unused :
            /\ acct' = [acct EXCEPT ![a] = New(req[w].mail)]
            /\ req' = [req EXCEPT ![w].op = "link", ![w].acct = a]
    /\ UNCHANGED <<social, mailOf, moves, staff, inside, claimed>>

(***************************************************************************)
(* The account: signup, the password of the team, links                    *)
(***************************************************************************)

(* signup, with the code that was sent to the e-mail *)
SignUp(e, same) ==
    /\ Idle /\ WithEmail(e) = {} /\ (same => e = "e1" /\ \A b \in Rows : ~acct[b].staff)
    /\ \E a \in Unused : acct' = [acct EXCEPT ![a] = [New(e) EXCEPT !.pw = IF same THEN None ELSE "own", !.staff = same]]
    /\ UNCHANGED <<social, mailOf, moves, staff, inside, claimed, req>>

(* validateCredentials: the first login of the team makes the account *)
StaffLogin ==
    /\ Idle /\ WithEmail("e1") = {} /\ \A b \in Rows : ~acct[b].staff
    /\ \E a \in Unused : acct' = [acct EXCEPT ![a] = [New("e1") EXCEPT !.verified = staff.verified, !.staff = TRUE]]
    /\ UNCHANGED <<social, mailOf, moves, staff, inside, claimed, req>>

(* the password of the stranger, as long as it opens *)
StrangerLogin(a) ==
    /\ a \in Rows /\ acct[a].pw = "stranger" /\ ~acct[a].staff
    /\ inside' = [acct |-> a, v |-> acct[a].v]
    /\ UNCHANGED <<acct, social, mailOf, moves, staff, claimed, req>>

(* linkFromClient, linkFromStaff: the password of the other side *)
LinkStaff(a) ==
    /\ Idle /\ a \in WithEmail("e1") /\ ~acct[a].staff /\ acct[a].v < 3
    /\ \A b \in Rows : ~acct[b].staff
    /\ acct' = [acct EXCEPT ![a].staff = TRUE, ![a].pw = None, ![a].v = @ + 1]
    /\ UNCHANGED <<social, mailOf, moves, staff, inside, claimed, req>>

UnlinkSocial(a) ==
    /\ a \in Rows /\ (Overlap \/ Idle)
    /\ social' = {l \in social : l.acct # a}
    /\ acct' = [acct EXCEPT ![a].refused = TRUE]
    /\ UNCHANGED <<mailOf, moves, staff, inside, claimed, req>>

(* linkSocialAccountToClient: the identity and the e-mail are of this      *)
(* account, or of none                                                     *)
MayLink(a, i) ==
    /\ \A l \in social : l.who = i \/ l.email = mailOf[i] => l.acct = a /\ l.who \in {i, None}
    /\ \A l \in social : l.acct = a => l.who \in {i, None}
    /\ WithEmail(mailOf[i]) \subseteq {a}

ConnectSocial(w, a, i) ==
    /\ May(w) /\ a \in Rows /\ MayLink(a, i)
    /\ req' = [req EXCEPT ![w] = [DoorsFree EXCEPT !.op = "connect", !.who = i, !.acct = a, !.mail = mailOf[i]]]
    /\ UNCHANGED <<acct, social, mailOf, moves, staff, inside, claimed>>

(* the upsert; what the keys refuse is an error *)
WriteConnect(w) ==
    /\ req[w].op = "connect"
    /\ LET row == [acct |-> req[w].acct, email |-> req[w].mail, who |-> req[w].who]
           others == {l \in social : l.acct # row.acct}
       IN  IF \A l \in others : l.email # row.email /\ l.who # row.who
           THEN /\ social' = others \cup {row}
                /\ req' = [req EXCEPT ![w].op = "allow"]
           ELSE Done(w) /\ UNCHANGED social
    /\ UNCHANGED <<acct, mailOf, moves, staff, inside, claimed>>

AllowAgain(w) ==
    /\ req[w].op = "allow"
    /\ acct' = [acct EXCEPT ![req[w].acct].refused = FALSE]
    /\ Done(w) /\ UNCHANGED <<social, mailOf, moves, staff, inside, claimed>>

DoorsNext ==
    \/ \E w \in Worker : ConfirmEmail(w) \/ LinkSocial(w) \/ CreateSocial(w) \/ WriteConnect(w) \/ AllowAgain(w)
    \/ \E w \in Worker, i \in Identity : EnterSocial(w, i) \/ \E a \in AccountId : ConnectSocial(w, a, i)
    \/ \E i \in Identity, e \in Email : ChangeMail(i, e)
    \/ \E e \in Email, same \in BOOLEAN : SignUp(e, same)
    \/ StaffLogin
    \/ \E a \in AccountId : StrangerLogin(a) \/ LinkStaff(a) \/ UnlinkSocial(a)

(***************************************************************************)
(* Properties                                                              *)
(***************************************************************************)

DoorsTypeOK ==
    /\ acct \in [AccountId -> AccountRow \cup {None}] /\ social \subseteq SocialRow
    /\ mailOf \in [Identity -> Email] /\ claimed \subseteq AccountId

(* Who comes by a provider is let into the account they were linked to,    *)
(* though their e-mail there changed and is now of somebody else, and no   *)
(* link of a person goes to another one, unless two links of one account   *)
(* are made at once (pickSocialLink, linkSocialAccountToClient).           *)
SamePersonSameAccount ==
    /\ \A w \in Worker : req[w] = DoorsFree /\ req'[w].op = "confirm" =>
          \A l \in social : l.who = req'[w].who => l.acct = req'[w].acct
    /\ ~Overlap => \A l \in social : l.who # None =>
          \/ \E k \in social' : k.acct = l.acct /\ k.who = l.who
          \/ \A k \in social' : k.acct # l.acct

(* Once a provider confirmed the e-mail of an account, the password and    *)
(* the sessions of who had made it open nothing                            *)
(* (findOrCreateSocialAccount).                                            *)
StrangerIsOut ==
    \A a \in claimed : acct[a].pw # "stranger" /\ (inside # None /\ inside.acct = a => inside.v < acct[a].v)

(* Who disconnected a provider is not linked again by a login with the     *)
(* same e-mail: only the account links it. It holds for requests that do   *)
(* not overlap: a login that read the account before links it after        *)
(* (unlinkSocialAccount, findOrCreateSocialAccount).                       *)
DisconnectedStaysOut ==
    ~Overlap /\ Idle => \A l \in social : ~acct[l.acct].refused

(***************************************************************************)
(* The component: one part at a time. The other parts have no state then.  *)
(***************************************************************************)

vars == 
    <<acc, staffPw, lastPw, token, sess, card, club, req, acct, social, mailOf, moves,
      staff, inside, claimed>>

Init ==
    \/ /\ Part = "account" /\ AccountInit
          /\ acct = None /\ social = None /\ mailOf = None /\ moves = None /\ staff = None
          /\ inside = None /\ claimed = None
    \/ /\ Part = "doors" /\ DoorsInit
          /\ acc = None /\ staffPw = None /\ lastPw = None /\ token = None /\ sess = None
          /\ card = None /\ club = None

Next ==
    \/ Part = "account" /\ AccountNext /\ UNCHANGED <<acct, social, mailOf, moves, staff, inside, claimed>>
    \/ Part = "doors" /\ DoorsNext /\ UNCHANGED <<acc, staffPw, lastPw, token, sess, card, club>>

Spec == Init /\ [][Next]_vars

TypeOK ==
    /\ Part = "account" => AccountTypeOK
    /\ Part = "doors" => DoorsTypeOK
=============================================================================
