------------------------------- MODULE Logins -------------------------------
(***************************************************************************)
(* How one enters: the codes of the second step, and the making of an      *)
(* account.                                                                *)
(***************************************************************************)
EXTENDS Integers, FiniteSetsExt, SequencesExt

CONSTANTS
    Part,         \* the flow that is explored: "codes", "signup"
    Worker,
    LoginId,      \* a set of numbers: the login ids in the order they are made
    None,
    MaxAttempts,  \* LOGIN_CODE_MAX_ATTEMPTS
    MaxFails,     \* LOGIN_MAX_ATTEMPTS
    Overlap,      \* whether codes are sent while others are sent or tried; whether requests
                  \* run together
    Provider,
    MaxSent       \* bound on the codes that are sent

VARIABLES
    key,       \* code(loginId)
    attempts,  \* codeAttempts(loginId), 0 when the key is absent; signup-code-attempts(email)
    byUser,    \* codeByUser(email)
    fails,     \* login-fails(email), 0 when absent
    blocked,   \* login-blocked(email)
    req,       \* what each request is doing
    past,      \* history: wrong tries and logins of each code, wrong passwords; history: codes
               \* sent, accounts made by code, where logins landed
    accounts,  \* the rows of User, oldest first, each named by its provider
    user,      \* active, verified and the providers it disconnected
    link,      \* LinkedSocialAccount: the account of each provider
    code,      \* signup-code(email): the number of the code, 0 when absent
    sentKey    \* signup-code-sent(email)

(***************************************************************************)
(* "codes". The password of one account and the code of its second step,   *)
(* as Redis keeps them: the counter of wrong passwords and the block, the  *)
(* code of each login in progress and its counter of wrong tries. Redis    *)
(* answers (without it the counters of the password are suspended and no   *)
(* code can be verified).                                                  *)
(***************************************************************************)

codesVars == <<key, attempts, byUser, fails, blocked, req, past>>

CodesFree == [op |-> "free", id |-> None, n |-> 0]
CodesStep(w, r) == req' = [req EXCEPT ![w] = r]
CodesEnds(w) == CodesStep(w, CodesFree)
Live == {i \in LoginId : key[i] = "live"}
Unsent == {i \in LoginId : key[i] = "unsent"}

CodesInit ==
    /\ key = [i \in LoginId |-> "unsent"]
    /\ attempts = [i \in LoginId |-> 0]
    /\ byUser = None /\ fails = 0 /\ blocked = FALSE
    /\ req = [w \in Worker |-> CodesFree]
    /\ past = [wrong |-> [i \in LoginId |-> 0], opened |-> [i \in LoginId |-> 0], missed |-> 0]

(***************************************************************************)
(* verifyUser and the lockout                                              *)
(***************************************************************************)

Alone == Overlap \/ \A w \in Worker : req[w] = CodesFree

TypePassword(w) ==
    /\ req[w] = CodesFree /\ Alone /\ ~blocked
    /\ CodesStep(w, [CodesFree EXCEPT !.op = "typed"])
    /\ UNCHANGED <<key, attempts, byUser, fails, blocked, past>>

(* recordFailedLogin: INCR, then the block at the limit *)
CountFail(w) ==
    /\ req[w].op = "typed"
    /\ fails' = fails + 1
    /\ CodesStep(w, [req[w] EXCEPT !.op = "failed", !.n = fails + 1])
    /\ UNCHANGED <<key, attempts, byUser, blocked, past>>

BlockLogin(w) ==
    /\ req[w].op = "failed"
    /\ IF req[w].n >= MaxFails
       THEN /\ blocked' = TRUE /\ fails' = 0
            /\ past' = [past EXCEPT !.missed = 0]
       ELSE /\ past' = [past EXCEPT !.missed = IF req[w].n > 0 THEN @ + 1 ELSE @]
            /\ UNCHANGED <<fails, blocked>>
    /\ CodesEnds(w)
    /\ UNCHANGED <<key, attempts, byUser>>

(* A wrong password that was counted before the counter went away does not  *)
(* count in the history either.                                             *)
Forgotten(r) == IF r.op = "failed" /\ r.n < MaxFails THEN [r EXCEPT !.n = 0] ELSE r

(* clearFailedLogins, then the code of the second step (needsLoginCode) *)
RightPassword(w) ==
    /\ req[w].op = "typed"
    /\ fails' = 0 /\ past' = [past EXCEPT !.missed = 0]
    /\ req' = [v \in Worker |-> IF v = w THEN [CodesFree EXCEPT !.op = "send"] ELSE Forgotten(req[v])]
    /\ UNCHANGED <<key, attempts, byUser, blocked>>

(* The keys of the lockout expire by themselves. *)
LockoutExpires ==
    /\ fails > 0 \/ blocked
    /\ fails' = 0 /\ blocked' = FALSE
    /\ past' = [past EXCEPT !.missed = 0]
    /\ req' = [w \in Worker |-> Forgotten(req[w])]
    /\ UNCHANGED <<key, attempts, byUser>>

(***************************************************************************)
(* sendLoginCode and resendLoginCode                                       *)
(***************************************************************************)

ResendLoginCode(w, i) ==
    /\ req[w] = CodesFree /\ Alone /\ key[i] = "live"
    /\ CodesStep(w, [CodesFree EXCEPT !.op = "send"])
    /\ UNCHANGED <<key, attempts, byUser, fails, blocked, past>>

Without(i) ==
    /\ key' = [key EXCEPT ![i] = "gone"]
    /\ attempts' = [attempts EXCEPT ![i] = 0]

DropPrevious(w) ==
    /\ req[w].op = "send"
    /\ IF byUser = None THEN UNCHANGED <<key, attempts>> ELSE Without(byUser)
    /\ CodesStep(w, [req[w] EXCEPT !.op = "store"])
    /\ UNCHANGED <<byUser, fails, blocked, past>>

StoreCode(w) ==
    LET i == Min(Unsent) IN
    /\ req[w].op = "store" /\ Unsent # {}
    /\ key' = [key EXCEPT ![i] = "live"]
    /\ byUser' = i
    /\ CodesEnds(w)
    /\ UNCHANGED <<attempts, fails, blocked, past>>

CodeExpires(i) ==
    /\ key[i] = "live"
    /\ Without(i)
    /\ byUser' = IF byUser = i THEN None ELSE byUser
    /\ UNCHANGED <<fails, blocked, req, past>>

(***************************************************************************)
(* verifyLoginCode                                                         *)
(***************************************************************************)

VerifyLoginCode(w, i) ==
    /\ req[w] = CodesFree /\ Alone /\ key[i] # "unsent"
    /\ IF attempts[i] >= MaxAttempts
       THEN Without(i) /\ UNCHANGED req
       ELSE CodesStep(w, [CodesFree EXCEPT !.op = "check", !.id = i]) /\ UNCHANGED <<key, attempts>>
    /\ UNCHANGED <<byUser, fails, blocked, past>>

(* The code is read and compared: a wrong one, a right one, or none. *)
CompareCode(w) ==
    /\ req[w].op = "check"
    /\ \/ key[req[w].id] = "live" /\ \E op \in {"wrong", "right"} : CodesStep(w, [req[w] EXCEPT !.op = op])
       \/ key[req[w].id] # "live" /\ CodesEnds(w)
    /\ UNCHANGED <<key, attempts, byUser, fails, blocked, past>>

(* Mutant: the counter is written from the value read, as in a JSON. *)
MutCountWrong(w) ==
    /\ \/ /\ req[w].op = "wrong"
          /\ CodesStep(w, [req[w] EXCEPT !.op = "writing", !.n = attempts[req[w].id] + 1])
          /\ UNCHANGED attempts
       \/ /\ req[w].op = "writing"
          /\ attempts' = [attempts EXCEPT ![req[w].id] = req[w].n]
          /\ CodesStep(w, [req[w] EXCEPT !.op = "counted"])
    /\ UNCHANGED <<key, byUser, fails, blocked, past>>

CodesCountWrong(w) ==
    /\ req[w].op = "wrong"
    /\ attempts' = [attempts EXCEPT ![req[w].id] = @ + 1]
    /\ CodesStep(w, [req[w] EXCEPT !.op = "counted", !.n = attempts[req[w].id] + 1])
    /\ UNCHANGED <<key, byUser, fails, blocked, past>>

(* At the limit the code and its counter go away. *)
BurnCode(w) ==
    LET i == req[w].id IN
    /\ req[w].op = "counted"
    /\ IF req[w].n >= MaxAttempts THEN Without(i) ELSE UNCHANGED <<key, attempts>>
    /\ past' = [past EXCEPT !.wrong[i] = @ + 1]
    /\ CodesEnds(w)
    /\ UNCHANGED <<byUser, fails, blocked>>

(* del devolve 1: only the first right try takes the key *)
Takes(i) == key[i] = "live"

TakeCode(w) ==
    LET i == req[w].id IN
    /\ req[w].op = "right"
    /\ IF Takes(i)
       THEN /\ Without(i) /\ byUser' = None
            /\ \E active \in {0, 1} : past' = [past EXCEPT !.opened[i] = @ + active]
       ELSE UNCHANGED <<key, attempts, byUser, past>>
    /\ CodesEnds(w)
    /\ UNCHANGED <<fails, blocked>>

CodesNext ==
    \/ LockoutExpires
    \/ \E i \in LoginId : CodeExpires(i)
    \/ \E w \in Worker :
         \/ TypePassword(w) \/ CountFail(w) \/ BlockLogin(w) \/ RightPassword(w)
         \/ DropPrevious(w) \/ StoreCode(w)
         \/ CompareCode(w) \/ CodesCountWrong(w) \/ BurnCode(w) \/ TakeCode(w)
         \/ \E i \in LoginId : ResendLoginCode(w, i) \/ VerifyLoginCode(w, i)

(***************************************************************************)
(* Properties                                                              *)
(***************************************************************************)

CodesOp == {"free", "typed", "failed", "send", "store", "check", "wrong", "counted", "right"}

CodesTypeOK ==
    /\ key \in [LoginId -> {"unsent", "live", "gone"}]
    /\ attempts \in [LoginId -> Nat]
    /\ byUser \in LoginId \cup {None}
    /\ fails \in Nat /\ blocked \in BOOLEAN
    /\ req \in [Worker -> [op : CodesOp, id : LoginId \cup {None}, n : Nat]]
    /\ past \in [wrong : [LoginId -> Nat], opened : [LoginId -> Nat], missed : Nat]

(* A code that was tried wrong as often as the limit allows is gone, though *)
(* tries run together, and a code opens one session at most (the INCR and   *)
(* the del of verifyLoginCode).                                             *)
TriesBounded ==
    \A i \in LoginId : /\ past.wrong[i] >= MaxAttempts => key[i] # "live"
                       /\ past.opened[i] <= 1

(* Wrong passwords since the last right one never reach the limit without a *)
(* block, though tries run together (recordFailedLogin).                    *)
LockoutHolds == past.missed < MaxFails

(* One request at a time, the code that is sent is the only one that works  *)
(* (sendLoginCode takes back the one of the login before).                  *)
OneLiveCode == ~Overlap => Cardinality(Live) <= 1

(***************************************************************************)
(* "signup". The accounts of one e-mail: the signup with a password,       *)
(* confirmed by a code, and the login by a social provider, which finds,   *)
(* links or creates an account. The database allows one account per e-mail *)
(* and way of signing up, one link per provider and account, and one       *)
(* account per person of a provider. The person owns the e-mail at every   *)
(* provider.                                                               *)
(***************************************************************************)

signupVars == <<accounts, user, link, code, attempts, sentKey, req, past>>

Account == Provider \cup {"local"}
SignupFree == [op |-> "free", by |-> None, of |-> None]
SignupStep(w, op, p, a) == req' = [req EXCEPT ![w] = [op |-> op, by |-> p, of |-> a]]
SignupEnds(w) == req' = [req EXCEPT ![w] = SignupFree]
MayStart(w) == req[w] = SignupFree /\ (Overlap \/ \A v \in Worker : req[v] = SignupFree)
Exists(a) == a \in ToSet(accounts)
New(a) == accounts' = Append(accounts, a)

SignupInit ==
    /\ accounts = <<>> /\ link = [p \in Provider |-> None]
    /\ user = [a \in Account |-> [active |-> TRUE, verified |-> FALSE, unlinked |-> {}]]
    /\ code = 0 /\ attempts = 0 /\ sentKey = FALSE
    /\ req = [w \in Worker |-> SignupFree]
    /\ past = [sent |-> 0, made |-> 0, door |-> [p \in Provider |-> None]]

(***************************************************************************)
(* SignupCodes                                                             *)
(***************************************************************************)

(* One code a minute: the key of the last one is set with NX.  The new code *)
(* takes the place of the one before and its tries start again.             *)
Send ==
    /\ ~sentKey /\ past.sent < MaxSent
    /\ sentKey' = TRUE /\ code' = past.sent + 1 /\ attempts' = 0
    /\ past' = [past EXCEPT !.sent = @ + 1]
    /\ UNCHANGED <<accounts, user, link, req>>

KeyExpires ==
    /\ \/ sentKey /\ sentKey' = FALSE /\ UNCHANGED <<code, attempts>>
       \/ code # 0 /\ code' = 0 /\ attempts' = 0 /\ UNCHANGED sentKey
    /\ UNCHANGED <<accounts, user, link, req, past>>

(* check: the right code goes on and stays; a wrong one is counted, and the *)
(* code goes away at the limit.                                             *)
Check(w) ==
    /\ MayStart(w) /\ code # 0
    /\ \/ /\ attempts >= MaxAttempts
          /\ code' = 0 /\ attempts' = 0 /\ UNCHANGED req
       \/ /\ attempts < MaxAttempts
          /\ SignupStep(w, "checked", None, None) /\ UNCHANGED <<code, attempts>>
       \/ /\ attempts < MaxAttempts
          /\ SignupStep(w, "wrong", None, None) /\ UNCHANGED <<code, attempts>>
    /\ UNCHANGED <<accounts, user, link, sentKey, past>>

SignupCountWrong(w) ==
    /\ req[w].op = "wrong"
    /\ IF attempts + 1 >= MaxAttempts THEN code' = 0 /\ attempts' = 0
                                      ELSE attempts' = attempts + 1 /\ UNCHANGED code
    /\ SignupEnds(w)
    /\ UNCHANGED <<accounts, user, link, sentKey, past>>

(***************************************************************************)
(* createUser                                                              *)
(***************************************************************************)

(* Only an account of the same way of signing up is a duplicate. *)
FindDuplicate(w) ==
    /\ req[w].op = "checked"
    /\ IF Exists("local") THEN SignupEnds(w) ELSE SignupStep(w, "consume", None, None)
    /\ UNCHANGED <<accounts, user, link, code, attempts, sentKey, past>>

Consume(w) ==
    /\ req[w].op = "consume"
    /\ IF code = 0 THEN SignupEnds(w) /\ UNCHANGED <<code, attempts, sentKey, past>>
                   ELSE /\ code' = 0 /\ attempts' = 0 /\ sentKey' = FALSE
                        /\ SignupStep(w, "create", None, None)
                        /\ past' = [past EXCEPT !.made = @ + 1]
    /\ UNCHANGED <<accounts, user, link>>

(* The row is unique: a second one is an error. *)
CreateUser(w) ==
    /\ req[w].op = "create"
    /\ IF Exists("local") THEN UNCHANGED <<accounts, user>>
       ELSE New("local") /\ user' = [user EXCEPT !["local"].verified = TRUE]
    /\ SignupEnds(w)
    /\ UNCHANGED <<link, code, attempts, sentKey, past>>

(***************************************************************************)
(* findOrCreateSocialUser                                                  *)
(***************************************************************************)

Lands(p, a) == past' = [past EXCEPT !.door[p] = a]

(* A deactivated account, or one that disconnected this provider *)
Refused(a, p) == ~user[a].active \/ p \in user[a].unlinked

(* The link of the person, otherwise the oldest account of the e-mail *)
SocialLogin(w, p) ==
    /\ MayStart(w)
    /\ IF link[p] # None
       THEN /\ user[link[p]].active
            /\ Lands(p, link[p]) /\ UNCHANGED req
       ELSE /\ IF accounts = <<>> THEN SignupStep(w, "new", p, None)
               ELSE ~Refused(Head(accounts), p) /\ SignupStep(w, "join", p, None)
            /\ UNCHANGED past
    /\ UNCHANGED <<accounts, user, link, code, attempts, sentKey>>

(* The provider confirmed the e-mail.  An account that never did loses its  *)
(* password and sessions.  Somebody else may have linked meanwhile: the     *)
(* error of the unique index is ignored.                                    *)
JoinAccount(w) ==
    LET p == req[w].by
        a == Head(accounts)
    IN
    /\ req[w].op = "join"
    /\ user' = [user EXCEPT ![a].verified = TRUE]
    /\ link' = [link EXCEPT ![p] = IF @ = None THEN a ELSE @]
    /\ Lands(p, a)
    /\ SignupEnds(w)
    /\ UNCHANGED <<accounts, code, attempts, sentKey>>

CreateSocialUser(w) ==
    LET p == req[w].by IN
    /\ req[w].op = "new"
    /\ IF Exists(p) THEN SignupEnds(w) /\ UNCHANGED <<accounts, user>>
       ELSE /\ New(p) /\ user' = [user EXCEPT ![p].verified = TRUE]
            /\ SignupStep(w, "newLink", p, None)
    /\ UNCHANGED <<link, code, attempts, sentKey, past>>

(* The link of the new account; the process may stop before it. *)
LinkNewUser(w) ==
    LET p == req[w].by IN
    /\ req[w].op = "newLink"
    /\ \/ link[p] = None /\ link' = [link EXCEPT ![p] = p] /\ Lands(p, p)
       \/ UNCHANGED <<link, past>>
    /\ SignupEnds(w)
    /\ UNCHANGED <<accounts, user, code, attempts, sentKey>>

(***************************************************************************)
(* Links of somebody who is logged in, and the account                     *)
(***************************************************************************)

(* linkSocialAccountToUser, then allowSocialProviderAgain *)
LinkSocialAccount(w, a, p) ==
    /\ MayStart(w) /\ Exists(a)
    /\ link[p] \in {None, a} /\ ToSet(accounts) = {a}
    /\ link' = [link EXCEPT ![p] = a]
    /\ past' = [past EXCEPT !.door[p] = None]
    /\ SignupStep(w, "allow", p, a)
    /\ UNCHANGED <<accounts, user, code, attempts, sentKey>>

AllowAgain(w) ==
    /\ req[w].op = "allow"
    /\ user' = [user EXCEPT ![req[w].of].unlinked = @ \ {req[w].by}]
    /\ SignupEnds(w)
    /\ UNCHANGED <<accounts, link, code, attempts, sentKey, past>>

UnlinkSocialAccount(w, a, p) ==
    /\ MayStart(w) /\ link[p] = a
    /\ link' = [link EXCEPT ![p] = None]
    /\ user' = [user EXCEPT ![a].unlinked = @ \cup {p}]
    /\ past' = [past EXCEPT !.door[p] = None]
    /\ UNCHANGED <<accounts, code, attempts, sentKey, req>>

(* setUserActive, by the backoffice *)
SetUserActive(a) ==
    /\ Exists(a)
    /\ user' = [user EXCEPT ![a].active = ~@]
    /\ UNCHANGED <<accounts, link, code, attempts, sentKey, req, past>>

SignupNext ==
    \/ Send \/ KeyExpires
    \/ \E a \in Account : SetUserActive(a)
    \/ \E w \in Worker :
         \/ Check(w) \/ SignupCountWrong(w) \/ FindDuplicate(w) \/ Consume(w) \/ CreateUser(w)
         \/ JoinAccount(w) \/ CreateSocialUser(w) \/ LinkNewUser(w) \/ AllowAgain(w)
         \/ \E p \in Provider :
              \/ SocialLogin(w, p)
              \/ \E a \in Account : LinkSocialAccount(w, a, p) \/ UnlinkSocialAccount(w, a, p)

(***************************************************************************)
(* Properties                                                              *)
(***************************************************************************)

UserRow == [active : BOOLEAN, verified : BOOLEAN, unlinked : SUBSET Provider]

SignupOp == {"free", "wrong", "checked", "consume", "create", "join", "new", "newLink", "allow"}

SignupTypeOK ==
    /\ accounts \in UNION {[1..n -> Account] : n \in 0..Cardinality(Account)}
    /\ user \in [Account -> UserRow]
    /\ link \in [Provider -> Account \cup {None}]
    /\ code \in 0..MaxSent /\ attempts \in 0..(MaxAttempts - 1) /\ sentKey \in BOOLEAN
    /\ req \in [Worker -> [op : SignupOp, by : Provider \cup {None}, of : Account \cup {None}]]
    /\ past \in [sent : 0..MaxSent, made : 0..MaxSent, door : [Provider -> Account \cup {None}]]

(* A code makes one account at most, though two signups carry it together   *)
(* (SignupCodes.consume).                                                   *)
OneSignupPerCode == past.made + (IF code = 0 THEN 0 ELSE 1) <= past.sent

(* One request at a time, a person who came in by a provider comes in to    *)
(* the same account the next time, unless the link was changed in the       *)
(* profile, though accounts of the same e-mail are made in other ways and   *)
(* a process may stop between an account and its link                       *)
(* (findOrCreateSocialUser).                                                *)
SameDoor ==
    ~Overlap => \A p \in Provider :
       (past.door[p] # None /\ past'.door[p] # None) => past'.door[p] = past.door[p]

(* One request at a time, a provider that was disconnected does not link    *)
(* itself again (socialUnlinkedProviders).                                  *)
UnlinkedStaysOut ==
    ~Overlap => \A p \in Provider : link[p] # None =>
                  (p \notin user[link[p]].unlinked \/ \E w \in Worker : req[w].op = "allow")

(***************************************************************************)
(* The component: one part at a time. The other parts have no state then.  *)
(***************************************************************************)

vars == 
    <<key, attempts, byUser, fails, blocked, req, past, accounts, user, link, code,
      sentKey>>

Init ==
    \/ /\ Part = "codes" /\ CodesInit
          /\ accounts = None /\ user = None /\ link = None /\ code = None /\ sentKey = None
    \/ /\ Part = "signup" /\ SignupInit
          /\ key = None /\ byUser = None /\ fails = None /\ blocked = None

Next ==
    \/ Part = "codes" /\ CodesNext /\ UNCHANGED <<accounts, user, link, code, sentKey>>
    \/ Part = "signup" /\ SignupNext /\ UNCHANGED <<key, byUser, fails, blocked>>

Spec == Init /\ [][Next]_vars

TypeOK ==
    /\ Part = "codes" => CodesTypeOK
    /\ Part = "signup" => SignupTypeOK
=============================================================================
