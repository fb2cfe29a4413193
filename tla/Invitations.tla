----------------------------- MODULE Invitations -----------------------------
(***************************************************************************)
(* Accounts by invitation: public access requests, the approve and reject  *)
(* endpoints, the two invite endpoints and accept-invite. The endpoints    *)
(* are plain functions that run in parallel on a thread pool and meet only *)
(* in the auth database; what one of them does within one connection is    *)
(* one transaction.                                                        *)
(*                                                                         *)
(* User names, passwords and the limit on submissions are left out: they   *)
(* can only refuse a call that then changes nothing.                       *)
(***************************************************************************)
EXTENDS Naturals

CONSTANTS
    Emails,       \* normalised addresses, none of them registered yet
    RequestIds,   \* rows that access_requests may come to hold
    Calls,        \* approve and invite calls; each creates at most one token
    Admins,       \* users with the admin role
    Leads,        \* users with the Team Lead role
    Roles,        \* VALID_ROLES
    LeadRole,     \* the one role of REQUESTABLE_ROLES
    MemberRoles,  \* TEAM_MEMBER_INVITABLE_ROLES
    Direct,       \* stands for the request of an invite call
    MaxFaults,    \* bound on failing mails and transactions
    MayCrash      \* whether the process may be restarted

ASSUME InviteAssumption ==
    /\ LeadRole \in Roles
    /\ MemberRoles \subseteq Roles \ {LeadRole}
    /\ Admins \cap Leads = {}
    /\ Direct \notin RequestIds
    /\ MaxFaults \in Nat
    /\ MayCrash \in BOOLEAN

VARIABLES
    request,   \* the access_requests table
    account,   \* the users rows of Emails
    token,     \* used_at and expires_at of the invite token of each call
    pc,        \* where each call is
    job,       \* what it works on; its token row holds the same values
    mailed,    \* the calls whose invitation reached its address
    faults     \* failures so far

vars == <<request, account, token, pc, job, mailed, faults>>

NoRow   == [status |-> "absent"]
Pending == [email : Emails, status : {"pending"}]
Decided == [email : Emails, status : {"approved", "rejected"}, by : Admins]

NoAccount == [state |-> "none"]
Accounts  == [state : {"invited", "active"}, role : Roles]

NoJob == [req |-> "none"]
Jobs  == [req : RequestIds \cup {Direct}, email : Emails, role : Roles,
          by : Admins \cup Leads]

Working == {"invite", "mail", "decide"}
Pcs     == Working \cup {"idle", "ok", "refused", "lost"}

TypeOK ==
    /\ request \in [RequestIds -> {NoRow} \cup Pending \cup Decided]
    /\ account \in [Emails -> {NoAccount} \cup Accounts]
    /\ token \in [Calls -> {"none", "open", "expired", "used"}]
    /\ pc \in [Calls -> Pcs]
    /\ job \in [Calls -> {NoJob} \cup Jobs]
    /\ mailed \subseteq Calls
    /\ faults \in 0..MaxFaults

Init ==
    /\ request = [i \in RequestIds |-> NoRow]
    /\ account = [e \in Emails |-> NoAccount]
    /\ token = [c \in Calls |-> "none"]
    /\ pc = [c \in Calls |-> "idle"]
    /\ job = [c \in Calls |-> NoJob]
    /\ mailed = {} /\ faults = 0

IsPending(i) == request[i].status = "pending"

-----------------------------------------------------------------------------
(* Access requests *)

\* create_access_request: one pending row per address, which the unique index
\* enforces as well; whether the address has an account is not asked.
Submit(i, e) ==
    /\ request[i] = NoRow
    /\ \A j \in RequestIds : IsPending(j) => request[j].email # e
    /\ request' = [request EXCEPT ![i] = [email |-> e, status |-> "pending"]]
    /\ UNCHANGED <<account, token, pc, job, mailed, faults>>

\* approve_access_request reads the pending row, and decides only at its end.
StartApprove(c, i, a) ==
    /\ pc[c] = "idle" /\ IsPending(i)
    /\ pc' = [pc EXCEPT ![c] = "invite"]
    /\ job' = [job EXCEPT ![c] = [req |-> i, email |-> request[i].email,
                                  role |-> LeadRole, by |-> a]]
    /\ UNCHANGED <<request, account, token, mailed, faults>>

\* Mutant: the update does not ask for a pending row.
DecideAny(c) ==
    /\ pc[c] = "decide"
    /\ request' = [request EXCEPT ![job[c].req] =
           [email |-> job[c].email, status |-> "approved", by |-> job[c].by]]
    /\ pc' = [pc EXCEPT ![c] = "ok"]
    /\ UNCHANGED <<account, token, job, mailed, faults>>

\* Mutant: the row count of the update is not looked at.
DecideUnchecked(c) ==
    /\ pc[c] = "decide"
    /\ request' = IF IsPending(job[c].req)
           THEN [request EXCEPT ![job[c].req] =
               [email |-> job[c].email, status |-> "approved", by |-> job[c].by]]
           ELSE request
    /\ pc' = [pc EXCEPT ![c] = "ok"]
    /\ UNCHANGED <<account, token, job, mailed, faults>>

\* decide_access_request at the end of an approve call; 409 if a reject call
\* was faster.
Decide(c) ==
    /\ pc[c] = "decide"
    /\ \/ /\ IsPending(job[c].req)
          /\ request' = [request EXCEPT ![job[c].req] =
                 [email |-> job[c].email, status |-> "approved", by |-> job[c].by]]
          /\ pc' = [pc EXCEPT ![c] = "ok"]
       \/ /\ ~IsPending(job[c].req)
          /\ pc' = [pc EXCEPT ![c] = "refused"]
          /\ UNCHANGED request
    /\ UNCHANGED <<account, token, job, mailed, faults>>

\* Mutant: decided_by is not written.
RejectAnonymous(i, a) ==
    /\ IsPending(i)
    /\ request' = [request EXCEPT ![i] = [email |-> request[i].email,
                                          status |-> "rejected"]]
    /\ UNCHANGED <<account, token, pc, job, mailed, faults>>

\* reject_access_request
Reject(i, a) ==
    /\ IsPending(i)
    /\ request' = [request EXCEPT ![i] = [email |-> request[i].email,
                                          status |-> "rejected", by |-> a]]
    /\ UNCHANGED <<account, token, pc, job, mailed, faults>>

-----------------------------------------------------------------------------
(* Invitations *)

MayInvite(p, r) == p \in Admins \/ (p \in Leads /\ r \in MemberRoles)

\* invite_user and invite_team_member
StartInvite(c, p, e, r) ==
    /\ pc[c] = "idle" /\ MayInvite(p, r)
    /\ pc' = [pc EXCEPT ![c] = "invite"]
    /\ job' = [job EXCEPT ![c] = [req |-> Direct, email |-> e, role |-> r, by |-> p]]
    /\ UNCHANGED <<request, account, token, mailed, faults>>

\* Mutant: an address that did not accept yet is invited again.
CreateTokenAgain(c) ==
    /\ pc[c] = "invite"
    /\ account[job[c].email].state # "active"
    /\ account' = [account EXCEPT ![job[c].email] =
                       [state |-> "invited", role |-> job[c].role]]
    /\ token' = [token EXCEPT ![c] = "open"]
    /\ pc' = [pc EXCEPT ![c] = "mail"]
    /\ UNCHANGED <<request, job, mailed, faults>>

\* create_invite_token
CreateToken(c) ==
    /\ pc[c] = "invite"
    /\ account[job[c].email] = NoAccount
    /\ account' = [account EXCEPT ![job[c].email] =
                       [state |-> "invited", role |-> job[c].role]]
    /\ token' = [token EXCEPT ![c] = "open"]
    /\ pc' = [pc EXCEPT ![c] = "mail"]
    /\ UNCHANGED <<request, job, mailed, faults>>

\* The address is registered or invited, or mail is switched off.
Refuse(c) ==
    /\ pc[c] = "invite"
    /\ pc' = [pc EXCEPT ![c] = "refused"]
    /\ UNCHANGED <<request, account, token, job, mailed, faults>>

SendMail(c) ==
    /\ pc[c] = "mail"
    /\ mailed' = mailed \cup {c}
    /\ pc' = [pc EXCEPT ![c] = IF job[c].req = Direct THEN "ok" ELSE "decide"]
    /\ UNCHANGED <<request, account, token, job, faults>>

\* Mutant: the result of the mail is not looked at.
MailFailsSilently(c) ==
    /\ pc[c] = "mail"
    /\ faults < MaxFaults /\ faults' = faults + 1
    /\ mailed' \in {mailed, mailed \cup {c}}
    /\ pc' = [pc EXCEPT ![c] = IF job[c].req = Direct THEN "ok" ELSE "decide"]
    /\ UNCHANGED <<request, account, token, job>>

\* EmailChannel.send reports a failure, which does not say that the mail was
\* not delivered. The rows of the invitation stay.
MailFails(c) ==
    /\ pc[c] = "mail"
    /\ faults < MaxFaults /\ faults' = faults + 1
    /\ mailed' \in {mailed, mailed \cup {c}}
    /\ pc' = [pc EXCEPT ![c] = "refused"]
    /\ UNCHANGED <<request, account, token, job>>

\* The token's or the decision's transaction fails (a locked database).
StoreFails(c) ==
    /\ pc[c] \in {"invite", "decide"}
    /\ faults < MaxFaults /\ faults' = faults + 1
    /\ pc' = [pc EXCEPT ![c] = "refused"]
    /\ UNCHANGED <<request, account, token, job, mailed>>

\* Mutant: used_at is not set.
AcceptAgain(c) ==
    /\ c \in mailed /\ token[c] = "open"
    /\ account[job[c].email].state = "invited"
    /\ account' = [account EXCEPT ![job[c].email] =
                       [state |-> "active", role |-> job[c].role]]
    /\ UNCHANGED <<request, token, pc, job, mailed, faults>>

\* consume_invite_token, called by who received the token.
Accept(c) ==
    /\ c \in mailed /\ token[c] = "open"
    /\ account[job[c].email].state = "invited"
    /\ account' = [account EXCEPT ![job[c].email] =
                       [state |-> "active", role |-> job[c].role]]
    /\ token' = [token EXCEPT ![c] = "used"]
    /\ UNCHANGED <<request, pc, job, mailed, faults>>

\* 48 hours pass.
Expire(c) ==
    /\ token[c] = "open"
    /\ token' = [token EXCEPT ![c] = "expired"]
    /\ UNCHANGED <<request, account, pc, job, mailed, faults>>

\* The process is restarted: the calls at work are gone, the rows are not.
Kill ==
    /\ MayCrash
    /\ \E c \in Calls : pc[c] \in Working
    /\ pc' = [c \in Calls |-> IF pc[c] \in Working THEN "lost" ELSE pc[c]]
    /\ UNCHANGED <<request, account, token, job, mailed, faults>>

-----------------------------------------------------------------------------
Invite(c) ==
    \/ CreateToken(c) \/ Refuse(c) \/ SendMail(c) \/ MailFails(c)
    \/ StoreFails(c) \/ Decide(c) \/ Accept(c) \/ Expire(c)

Next ==
    \/ \E i \in RequestIds, e \in Emails : Submit(i, e)
    \/ \E i \in RequestIds, a \in Admins : Reject(i, a)
    \/ \E c \in Calls, i \in RequestIds, a \in Admins : StartApprove(c, i, a)
    \/ \E c \in Calls, p \in Admins \cup Leads, e \in Emails, r \in Roles :
           StartInvite(c, p, e, r)
    \/ \E c \in Calls : Invite(c)
    \/ Kill

Spec == Init /\ [][Next]_vars

-----------------------------------------------------------------------------
(* Properties *)

Holder(c, e) == token[c] # "none" /\ job[c].email = e

\* However many approve and invite calls for one address overlap, one of them
\* creates its account and its token (create_invite_token).
OneInvitePerAddress == \A c, d \in Calls :
    token[c] # "none" /\ token[d] # "none" /\ job[c].email = job[d].email => c = d

\* An approved request stands for an invitation as Team Lead that went out
\* before the decision, sent by the admin that decided_by names, whatever
\* mails and transactions fail and whenever the process dies.
ApprovedWasInvited == \A i \in RequestIds :
    request[i].status = "approved" =>
        \E c \in mailed : /\ Holder(c, request[i].email)
                          /\ job[c].role = LeadRole /\ job[c].by = request[i].by

\* An active account was activated through an invitation that reached its
\* address and is used up, and has the role its inviter chose.
ActiveByInvite == \A e \in Emails :
    account[e].state = "active" =>
        \E c \in mailed : /\ Holder(c, e) /\ token[c] = "used"
                          /\ job[c].role = account[e].role

\* At most one approve call of a request succeeds, and then the row says so
\* and names its admin; a call that raced with a reject call is refused.
AnswersAreTrue == \A c \in Calls :
    pc[c] = "ok" /\ job[c].req # Direct =>
        /\ request[job[c].req].status = "approved"
        /\ request[job[c].req].by = job[c].by
        /\ \A d \in Calls : pc[d] = "ok" /\ job[d].req = job[c].req => c = d

\* No call changes a decided request, nor who decided it.
DecidedStays ==
    [][\A i \in RequestIds : request[i].status \in {"approved", "rejected"}
           => request'[i] = request[i]]_vars

\* USER_MANUAL.md: "Pending requests are stored and can be listed, approved, or
\* rejected". An invitation of its address bars approval, so a pending request
\* whose address is invited has one that reached it, or is about to be sent.
PendingCanBeApproved == \A i \in RequestIds :
    IsPending(i) /\ account[request[i].email].state = "invited" =>
        \E c \in Calls : /\ Holder(c, request[i].email)
                         /\ c \in mailed \/ pc[c] = "mail"
=============================================================================
