---------------------------- MODULE FriendInvites ---------------------------
(***************************************************************************)
(* Invitations of friends to the platform: one free month for the friend   *)
(* who accepts, one for who invited when the friend pays a first plan.     *)
(*                                                                         *)
(* Accepting is a transaction that takes the rows of the invitations one   *)
(* by one; the database makes a second transaction wait for a row, and     *)
(* ends one of two that wait for each other.  The reward of the inviter is *)
(* given under the lock of the inviter.                                    *)
(***************************************************************************)
EXTENDS Integers, FiniteSets

CONSTANTS
    Worker,
    Inviter,
    Friend,      \* the e-mail invited and the account that has it
    InviteId,
    None,
    MaxRewards   \* MAX_REWARDS

VARIABLES
    registered,  \* friends who have an account with a confirmed e-mail
    invites,     \* the rows of FriendInvite
    paid,        \* friends who paid a plan
    rowLock,     \* transaction that holds the row of each invitation
    job

vars == <<registered, invites, paid, rowLock, job>>

Invite == [status : {"none", "PENDING", "ACCEPTED", "REJECTED"}, inviter : Inviter \cup {None},
           friend : Friend \cup {None}, late : BOOLEAN, friendCoupon : BOOLEAN,
           inviterCoupon : BOOLEAN]
Ops == {"idle", "create", "reject", "accept", "prior", "others", "reward", "counted"}
Job == [op : Ops, inviter : Inviter \cup {None}, friend : Friend \cup {None},
        invite : InviteId \cup {None}]

NoInvite == [status |-> "none", inviter |-> None, friend |-> None, late |-> FALSE,
             friendCoupon |-> FALSE, inviterCoupon |-> FALSE]
Idle == [op |-> "idle", inviter |-> None, friend |-> None, invite |-> None]
Ends(w) == job' = [job EXCEPT ![w] = Idle]
Goes(w, op) == job' = [job EXCEPT ![w].op = op]

Init ==
    /\ registered = {}
    /\ invites = [i \in InviteId |-> NoInvite]
    /\ paid = {}
    /\ rowLock = [i \in InviteId |-> None]
    /\ job = [w \in Worker |-> Idle]

Register(f) ==
    /\ f \notin registered
    /\ registered' = registered \cup {f}
    /\ UNCHANGED <<invites, paid, rowLock, job>>

(***************************************************************************)
(* createInvite                                                            *)
(***************************************************************************)

Rewards(a) == Cardinality({i \in InviteId : invites[i].inviter = a /\ invites[i].inviterCoupon})

CreateReads(w, a, f) ==
    /\ job[w] = Idle /\ f \notin registered
    /\ ~\E i \in InviteId : /\ invites[i].inviter = a /\ invites[i].friend = f
                            /\ invites[i].status \in {"PENDING", "ACCEPTED"}
    /\ Rewards(a) < MaxRewards
    /\ job' = [job EXCEPT ![w].op = "create", ![w].inviter = a, ![w].friend = f]
    /\ UNCHANGED <<registered, invites, paid, rowLock>>

(* late: the account is older than the invitation *)
CreateInvite(w) ==
    /\ job[w].op = "create"
    /\ \E i \in InviteId :
         /\ invites[i] = NoInvite
         /\ invites' = [invites EXCEPT ![i] =
                          [NoInvite EXCEPT !.status = "PENDING", !.inviter = job[w].inviter,
                                           !.friend = job[w].friend,
                                           !.late = job[w].friend \in registered]]
    /\ Ends(w)
    /\ UNCHANGED <<registered, paid, rowLock>>

(***************************************************************************)
(* acceptInvite                                                            *)
(***************************************************************************)

AcceptReads(w, i) ==
    /\ job[w] = Idle
    /\ invites[i].status = "PENDING" /\ invites[i].friend \in registered
    /\ job' = [job EXCEPT ![w].op = IF invites[i].late THEN "reject" ELSE "accept",
                          ![w].invite = i]
    /\ UNCHANGED <<registered, invites, paid, rowLock>>

Free(w, i) == rowLock[i] \in {None, w}

RejectOlderAccount(w) ==
    LET i == job[w].invite IN
    /\ job[w].op = "reject" /\ Free(w, i)
    /\ invites' = IF invites[i].status = "PENDING"
                  THEN [invites EXCEPT ![i].status = "REJECTED"] ELSE invites
    /\ Ends(w)
    /\ UNCHANGED <<registered, paid, rowLock>>

AcceptClaims(w) ==
    LET i == job[w].invite IN
    /\ job[w].op = "accept" /\ Free(w, i)
    /\ IF invites[i].status = "PENDING"
       THEN rowLock' = [rowLock EXCEPT ![i] = w] /\ Goes(w, "prior")
       ELSE Ends(w) /\ UNCHANGED rowLock
    /\ UNCHANGED <<registered, invites, paid>>

OfFriend(f) == {i \in InviteId : invites[i].friend = f}
Release(w) == rowLock' = [i \in InviteId |-> IF rowLock[i] = w THEN None ELSE rowLock[i]]

(* Another invitation the same account has already accepted *)
AcceptChecks(w) ==
    LET i == job[w].invite
        prior == {k \in OfFriend(invites[i].friend) : invites[k].status = "ACCEPTED"}
    IN
    /\ job[w].op = "prior"
    /\ IF prior = {}
       THEN Goes(w, "others") /\ UNCHANGED <<invites, rowLock>>
       ELSE /\ invites' = [invites EXCEPT ![i].status = "REJECTED"]
            /\ Release(w) /\ Ends(w)
    /\ UNCHANGED <<registered, paid>>

MutOthers(i) == {}

Others(i) == {k \in OfFriend(invites[i].friend) \ {i} : invites[k].status = "PENDING"}

(* The other invitations of the friend are refused and the coupon created. *)
AcceptCommits(w) ==
    LET i == job[w].invite IN
    /\ job[w].op = "others" /\ \A k \in Others(i) : Free(w, k)
    /\ invites' = [k \in InviteId |->
                     IF k = i THEN [invites[k] EXCEPT !.status = "ACCEPTED",
                                                      !.friendCoupon = TRUE]
                     ELSE IF k \in Others(i) THEN [invites[k] EXCEPT !.status = "REJECTED"]
                     ELSE invites[k]]
    /\ Release(w) /\ Ends(w)
    /\ UNCHANGED <<registered, paid>>

(* External: of two transactions that wait for each other one is ended. *)
DeadlockEnds(w) ==
    /\ job[w].op = "others"
    /\ \E v \in Worker \ {w} :
         /\ job[v].op = "others"
         /\ \E k \in Others(job[w].invite) : rowLock[k] = v
         /\ \E k \in Others(job[v].invite) : rowLock[k] = w
    /\ Release(w) /\ Ends(w)
    /\ UNCHANGED <<registered, invites, paid>>

(***************************************************************************)
(* rewardInviterOnFirstPayment, in the transaction of each payment         *)
(***************************************************************************)

PaymentReads(w, f) ==
    LET owed == {i \in OfFriend(f) : invites[i].status = "ACCEPTED" /\ ~invites[i].inviterCoupon}
    IN
    /\ job[w] = Idle /\ f \in registered
    /\ IF owed = {} THEN paid' = paid \cup {f} /\ UNCHANGED job
       ELSE /\ \E i \in owed : job' = [job EXCEPT ![w].op = "reward", ![w].invite = i]
            /\ UNCHANGED paid
    /\ UNCHANGED <<registered, invites, rowLock>>

InviterLocked(a) ==
    \E v \in Worker : job[v].op = "counted" /\ invites[job[v].invite].inviter = a

(* The lock of the inviter, then the count of the rewards *)
RewardCounts(w) ==
    LET i == job[w].invite
        a == invites[i].inviter
    IN
    /\ job[w].op = "reward" /\ ~InviterLocked(a)
    /\ IF Rewards(a) >= MaxRewards
       THEN paid' = paid \cup {invites[i].friend} /\ Ends(w)
       ELSE Goes(w, "counted") /\ UNCHANGED paid
    /\ UNCHANGED <<registered, invites, rowLock>>

(* A reward given meanwhile undoes the whole payment; it is tried again. *)
RewardCommits(w) ==
    LET i == job[w].invite IN
    /\ job[w].op = "counted"
    /\ IF invites[i].inviterCoupon THEN UNCHANGED <<invites, paid>>
       ELSE /\ invites' = [invites EXCEPT ![i].inviterCoupon = TRUE]
            /\ paid' = paid \cup {invites[i].friend}
    /\ Ends(w)
    /\ UNCHANGED <<registered, rowLock>>

Next ==
    \/ \E f \in Friend : Register(f)
    \/ \E w \in Worker :
         \/ CreateInvite(w) \/ RejectOlderAccount(w)
         \/ AcceptClaims(w) \/ AcceptChecks(w) \/ AcceptCommits(w) \/ DeadlockEnds(w)
         \/ RewardCounts(w) \/ RewardCommits(w)
         \/ \E i \in InviteId : AcceptReads(w, i)
         \/ \E f \in Friend : PaymentReads(w, f)
         \/ \E a \in Inviter, f \in Friend : CreateReads(w, a, f)

Spec == Init /\ [][Next]_vars

(***************************************************************************)
(* Properties                                                              *)
(***************************************************************************)

TypeOK ==
    /\ registered \subseteq Friend /\ paid \subseteq Friend
    /\ invites \in [InviteId -> Invite]
    /\ rowLock \in [InviteId -> Worker \cup {None}]
    /\ job \in [Worker -> Job]

(* Two links of different people accepted together give the friend one free *)
(* month, through the claim and the refusal of the other rows.              *)
FriendRewardedOnce ==
    \A f \in Friend : Cardinality({i \in OfFriend(f) : invites[i].friendCoupon}) <= 1

(* Friends who pay together do not carry the inviter past the limit, and a  *)
(* reward has a friend who accepted and paid behind it.                     *)
RewardsWithinLimit ==
    /\ \A a \in Inviter : Rewards(a) <= MaxRewards
    /\ \A i \in InviteId : invites[i].inviterCoupon =>
         invites[i].status = "ACCEPTED" /\ invites[i].friend \in paid
=============================================================================
