-------------------------- MODULE InvitationProofs --------------------------
(***************************************************************************)
(* Theorems about Invitations for any number of addresses, requests,       *)
(* calls, admins, roles and failures.                                      *)
(***************************************************************************)
EXTENDS Invitations, TLAPS

\* A call that has begun has a job. Its token is there exactly after the step
\* that creates it, and its mail is out before it decides or succeeds.
JobInv == \A c \in Calls :
    /\ pc[c] = "idle" => token[c] = "none"
    /\ pc[c] = "invite" => token[c] = "none"
    /\ pc[c] \in {"mail", "decide", "ok"} => token[c] # "none"
    /\ pc[c] # "idle" => job[c] \in Jobs
    /\ pc[c] = "decide" => job[c].req # Direct
    /\ pc[c] \in {"decide", "ok"} => c \in mailed
    /\ c \in mailed => token[c] # "none"

\* The job of an approve call is that of its request.
RequestInv == \A c \in Calls :
    pc[c] # "idle" /\ job[c].req # Direct =>
        /\ job[c].by \in Admins /\ job[c].role = LeadRole
        /\ request[job[c].req] # NoRow
        /\ request[job[c].req].email = job[c].email

TypeInv == TypeOK /\ JobInv /\ RequestInv

LEMMA InitTypeInv == Init => TypeInv
BY InviteAssumption DEF Init, TypeInv, TypeOK, Pcs, JobInv, RequestInv

LEMMA RowTypes ==
    ASSUME TypeOK, NEW i \in RequestIds, IsPending(i)
    PROVE  request[i] \in Pending
BY DEF TypeOK, IsPending, NoRow, Decided

LEMMA StepType == TypeInv /\ [Next]_vars => TypeOK'
<1> SUFFICES ASSUME TypeInv, [Next]_vars PROVE TypeOK'
  OBVIOUS
<1> USE InviteAssumption DEF TypeInv, TypeOK, Pcs, Working
<1>1. ASSUME NEW i \in RequestIds, NEW e \in Emails, Submit(i, e) PROVE TypeOK'
  BY <1>1 DEF Submit, Pending
<1>2. ASSUME NEW i \in RequestIds, NEW a \in Admins, Reject(i, a) PROVE TypeOK'
  BY <1>2, RowTypes DEF Reject, Pending, Decided
<1>3. ASSUME NEW c \in Calls, NEW i \in RequestIds, NEW a \in Admins,
             StartApprove(c, i, a)
      PROVE TypeOK'
  BY <1>3, RowTypes DEF StartApprove, Pending, Jobs
<1>4. ASSUME NEW c \in Calls, NEW p \in Admins \cup Leads, NEW e \in Emails,
             NEW r \in Roles, StartInvite(c, p, e, r)
      PROVE TypeOK'
  BY <1>4 DEF StartInvite, Jobs
<1>5. ASSUME NEW c \in Calls, CreateToken(c) PROVE TypeOK'
  BY <1>5 DEF CreateToken, JobInv, Jobs, Accounts
<1>6. ASSUME NEW c \in Calls, Refuse(c) PROVE TypeOK'
  BY <1>6 DEF Refuse
<1>7. ASSUME NEW c \in Calls, SendMail(c) PROVE TypeOK'
  BY <1>7 DEF SendMail
<1>8. ASSUME NEW c \in Calls, MailFails(c) PROVE TypeOK'
  BY <1>8 DEF MailFails
<1>9. ASSUME NEW c \in Calls, StoreFails(c) PROVE TypeOK'
  BY <1>9 DEF StoreFails
<1>10. ASSUME NEW c \in Calls, Decide(c) PROVE TypeOK'
  <2>1. job[c] \in Jobs /\ job[c].req \in RequestIds /\ job[c].by \in Admins
    BY <1>10 DEF Decide, JobInv, RequestInv, Jobs
  <2> QED
    BY <1>10, <2>1 DEF Decide, Jobs, Decided
<1>11. ASSUME NEW c \in Calls, Accept(c) PROVE TypeOK'
  <2>1. job[c] \in Jobs
    BY <1>11 DEF Accept, JobInv
  <2> QED
    BY <1>11, <2>1 DEF Accept, Jobs, Accounts
<1>12. ASSUME NEW c \in Calls, Expire(c) PROVE TypeOK'
  BY <1>12 DEF Expire
<1>13. CASE Kill
  BY <1>13 DEF Kill
<1>14. CASE UNCHANGED vars
  BY <1>14 DEF vars
<1> QED
  BY <1>1, <1>2, <1>3, <1>4, <1>5, <1>6, <1>7, <1>8, <1>9, <1>10, <1>11, <1>12,
     <1>13, <1>14
     DEF Next, Invite

LEMMA StepJob == TypeInv /\ [Next]_vars => JobInv'
<1> SUFFICES ASSUME TypeInv, [Next]_vars PROVE JobInv'
  OBVIOUS
<1> USE InviteAssumption DEF TypeInv, TypeOK, Pcs, Working, JobInv
<1>1. ASSUME NEW i \in RequestIds, NEW e \in Emails, Submit(i, e) PROVE JobInv'
  BY <1>1 DEF Submit
<1>2. ASSUME NEW i \in RequestIds, NEW a \in Admins, Reject(i, a) PROVE JobInv'
  BY <1>2 DEF Reject
<1>3. ASSUME NEW c \in Calls, NEW i \in RequestIds, NEW a \in Admins,
             StartApprove(c, i, a)
      PROVE JobInv'
  BY <1>3, RowTypes DEF StartApprove, Pending, Jobs
<1>4. ASSUME NEW c \in Calls, NEW p \in Admins \cup Leads, NEW e \in Emails,
             NEW r \in Roles, StartInvite(c, p, e, r)
      PROVE JobInv'
  BY <1>4 DEF StartInvite, Jobs
<1>5. ASSUME NEW c \in Calls, CreateToken(c) PROVE JobInv'
  BY <1>5 DEF CreateToken
<1>6. ASSUME NEW c \in Calls, Refuse(c) PROVE JobInv'
  BY <1>6 DEF Refuse
<1>7. ASSUME NEW c \in Calls, SendMail(c) PROVE JobInv'
  BY <1>7 DEF SendMail
<1>8. ASSUME NEW c \in Calls, MailFails(c) PROVE JobInv'
  BY <1>8 DEF MailFails
<1>9. ASSUME NEW c \in Calls, StoreFails(c) PROVE JobInv'
  BY <1>9 DEF StoreFails
<1>10. ASSUME NEW c \in Calls, Decide(c) PROVE JobInv'
  BY <1>10 DEF Decide
<1>11. ASSUME NEW c \in Calls, Accept(c) PROVE JobInv'
  BY <1>11 DEF Accept
<1>12. ASSUME NEW c \in Calls, Expire(c) PROVE JobInv'
  BY <1>12 DEF Expire
<1>13. CASE Kill
  BY <1>13 DEF Kill
<1>14. CASE UNCHANGED vars
  BY <1>14 DEF vars
<1> QED
  BY <1>1, <1>2, <1>3, <1>4, <1>5, <1>6, <1>7, <1>8, <1>9, <1>10, <1>11, <1>12,
     <1>13, <1>14
     DEF Next, Invite

\* Rows appear, and change their status; their address stays.
LEMMA StepRow ==
    ASSUME TypeInv, [Next]_vars, NEW i \in RequestIds, request[i] # NoRow
    PROVE  request'[i] # NoRow /\ request'[i].email = request[i].email
<1> USE DEF TypeInv, TypeOK, NoRow, Pending, Decided
<1>1. ASSUME NEW j \in RequestIds, NEW e \in Emails, Submit(j, e)
      PROVE  request'[i] # NoRow /\ request'[i].email = request[i].email
  BY <1>1 DEF Submit
<1>2. ASSUME NEW j \in RequestIds, NEW a \in Admins, Reject(j, a)
      PROVE  request'[i] # NoRow /\ request'[i].email = request[i].email
  BY <1>2 DEF Reject
<1>3. ASSUME NEW c \in Calls, Decide(c)
      PROVE  request'[i] # NoRow /\ request'[i].email = request[i].email
  <2>1. job[c].req \in RequestIds /\ request[job[c].req].email = job[c].email
    BY <1>3 DEF Decide, JobInv, RequestInv, Jobs
  <2> QED
    BY <1>3, <2>1 DEF Decide
<1>4. CASE UNCHANGED request
  BY <1>4
<1> QED
  BY <1>1, <1>2, <1>3, <1>4
     DEF Next, Invite, vars, StartApprove, StartInvite, CreateToken, Refuse,
         SendMail, MailFails, StoreFails, Accept, Expire, Kill

\* A call that has begun keeps its job.
LEMMA StepKeepsJob ==
    ASSUME TypeInv, [Next]_vars, NEW c \in Calls, pc[c] # "idle"
    PROVE  job'[c] = job[c] /\ pc'[c] # "idle"
BY DEF TypeInv, TypeOK, Pcs, Working, Next, Invite, vars, Submit, Reject,
       StartApprove, StartInvite, CreateToken, Refuse, SendMail, MailFails,
       StoreFails, Decide, Accept, Expire, Kill

LEMMA StepRequest == TypeInv /\ [Next]_vars => RequestInv'
<1> SUFFICES ASSUME TypeInv, [Next]_vars,
                    NEW c \in Calls, pc'[c] # "idle", job'[c].req # Direct
             PROVE  /\ job'[c].by \in Admins /\ job'[c].role = LeadRole
                    /\ request'[job'[c].req] # NoRow
                    /\ request'[job'[c].req].email = job'[c].email
  BY DEF RequestInv
<1>1. CASE pc[c] # "idle"
  <2>1. job'[c] = job[c] /\ job[c] \in Jobs
    BY <1>1, StepKeepsJob DEF TypeInv, JobInv
  <2>2. job[c].req \in RequestIds /\ request[job[c].req] # NoRow
    BY <1>1, <2>1 DEF TypeInv, RequestInv, Jobs
  <2> QED
    BY <1>1, <2>1, <2>2, StepRow DEF TypeInv, RequestInv
<1>2. CASE pc[c] = "idle"
  <2>1. ASSUME NEW d \in Calls, NEW i \in RequestIds, NEW a \in Admins,
               StartApprove(d, i, a)
        PROVE  /\ d = c /\ request' = request /\ IsPending(i)
               /\ job'[c] = [req |-> i, email |-> request[i].email,
                             role |-> LeadRole, by |-> a]
    BY <1>2, <2>1 DEF StartApprove, TypeInv, TypeOK
  <2>2. ASSUME NEW d \in Calls, NEW p \in Admins \cup Leads, NEW e \in Emails,
               NEW r \in Roles, StartInvite(d, p, e, r)
        PROVE  FALSE
    BY <1>2, <2>2 DEF StartInvite, TypeInv, TypeOK
  <2>3. \E d \in Calls, i \in RequestIds, a \in Admins : StartApprove(d, i, a)
    BY <1>2, <2>2
       DEF TypeInv, TypeOK, Working, Next, Invite, vars, Submit, Reject, CreateToken,
           Refuse, SendMail, MailFails, StoreFails, Decide, Accept, Expire, Kill
  <2>4. PICK i \in RequestIds, a \in Admins :
             /\ request' = request /\ IsPending(i)
             /\ job'[c] = [req |-> i, email |-> request[i].email,
                           role |-> LeadRole, by |-> a]
    BY <2>1, <2>3
  <2>5. request[i] # NoRow
    BY <2>4 DEF IsPending, NoRow
  <2> QED
    BY <2>4, <2>5
<1> QED
  BY <1>1, <1>2

LEMMA TypeInvHolds == Spec => []TypeInv
<1>1. TypeInv /\ [Next]_vars => TypeInv'
  BY StepType, StepJob, StepRequest DEF TypeInv
<1> QED
  BY <1>1, InitTypeInv, PTL DEF Spec

\* The tables and the calls keep their types: what a call decides about is a
\* row of access_requests, and who decides it is an admin.
THEOREM TypeCorrect == Spec => []TypeOK
<1>1. TypeInv => TypeOK
  BY DEF TypeInv
<1> QED
  BY <1>1, TypeInvHolds, PTL

-----------------------------------------------------------------------------
(* Tokens *)

\* An address with a token has an account, which is what keeps a second call
\* from creating another token for it.
TokenInv ==
    /\ \A c \in Calls : token[c] # "none" => account[job[c].email] # NoAccount
    /\ OneInvitePerAddress

\* Tokens are created by CreateToken only, and nothing removes them.
LEMMA StepTokens ==
    ASSUME TypeInv, [Next]_vars
    PROVE  \/ \E c \in Calls : CreateToken(c)
           \/ /\ \A c \in Calls : token'[c] # "none" <=> token[c] # "none"
              /\ \A e \in Emails : account[e] # NoAccount => account'[e] # NoAccount
<1> USE DEF TypeInv, TypeOK, NoAccount
<1>1. ASSUME NEW c \in Calls, Accept(c)
      PROVE /\ \A d \in Calls : token'[d] # "none" <=> token[d] # "none"
            /\ \A e \in Emails : account[e] # NoAccount => account'[e] # NoAccount
  BY <1>1 DEF Accept
<1>2. ASSUME NEW c \in Calls, Expire(c)
      PROVE /\ \A d \in Calls : token'[d] # "none" <=> token[d] # "none"
            /\ UNCHANGED account
  BY <1>2 DEF Expire
<1> QED
  BY <1>1, <1>2
     DEF Next, Invite, vars, Submit, Reject, StartApprove, StartInvite, Refuse,
         SendMail, MailFails, StoreFails, Decide, Kill

LEMMA StepTokenInv == TypeInv /\ TokenInv /\ [Next]_vars => TokenInv'
<1> SUFFICES ASSUME TypeInv, TokenInv, [Next]_vars PROVE TokenInv'
  OBVIOUS
<1>1. \A c \in Calls : token[c] # "none" =>
          pc[c] # "idle" /\ job[c] \in Jobs /\ job'[c] = job[c] /\ job[c].email \in Emails
  BY StepKeepsJob DEF TypeInv, JobInv, Jobs
<1>2. ASSUME NEW c \in Calls, CreateToken(c) PROVE TokenInv'
  <2>1. /\ job' = job /\ job[c].email \in Emails /\ token[c] = "none"
        /\ account[job[c].email] = NoAccount
    BY <1>2 DEF CreateToken, TypeInv, JobInv, Jobs
  <2>2. /\ \A d \in Calls \ {c} : token'[d] = token[d]
        /\ \A e \in Emails \ {job[c].email} : account'[e] = account[e]
        /\ account'[job[c].email] # NoAccount
    BY <1>2, <2>1 DEF CreateToken, TypeInv, TypeOK, NoAccount
  <2> QED
    BY <1>1, <2>1, <2>2 DEF TokenInv, OneInvitePerAddress
<1>3. CASE /\ \A c \in Calls : token'[c] # "none" <=> token[c] # "none"
           /\ \A e \in Emails : account[e] # NoAccount => account'[e] # NoAccount
  BY <1>1, <1>3 DEF TokenInv, OneInvitePerAddress
<1> QED
  BY <1>2, <1>3, StepTokens

LEMMA TokenInvHolds == Spec => []TokenInv
<1>1. Init => TokenInv
  BY DEF Init, TokenInv, OneInvitePerAddress
<1> QED
  BY <1>1, TypeInvHolds, StepTokenInv, PTL DEF Spec

\* Overlapping calls for one address create one token.
THEOREM OneInvite == Spec => []OneInvitePerAddress
<1>1. TokenInv => OneInvitePerAddress
  BY DEF TokenInv
<1> QED
  BY <1>1, TokenInvHolds, PTL

\* What an invitation consists of stays: its job, its mail, and its use.
LEMMA StepInvitation ==
    ASSUME TypeInv, [Next]_vars, NEW c \in Calls, token[c] # "none"
    PROVE  /\ job'[c] = job[c] /\ token'[c] # "none"
           /\ token[c] = "used" => token'[c] = "used"
           /\ c \in mailed => c \in mailed'
<1>1. pc[c] # "idle" /\ pc[c] # "invite"
  BY DEF TypeInv, JobInv
<1>2. job'[c] = job[c]
  BY <1>1, StepKeepsJob
<1>3. /\ token'[c] # "none"
      /\ token[c] = "used" => token'[c] = "used"
      /\ c \in mailed => c \in mailed'
  BY <1>1
     DEF TypeInv, TypeOK, Next, Invite, vars, Submit, Reject, StartApprove, StartInvite,
         CreateToken, Refuse, SendMail, MailFails, StoreFails, Decide, Accept,
         Expire, Kill
<1> QED
  BY <1>2, <1>3

-----------------------------------------------------------------------------
(* Decisions *)

\* A row that is approved was so before, or is by the Decide of a call on it.
LEMMA StepDecision ==
    ASSUME TypeInv, [Next]_vars, NEW i \in RequestIds
    PROVE  /\ request[i].status \in {"approved", "rejected"} => request'[i] = request[i]
           /\ request'[i].status = "approved" =>
                  \/ request[i].status = "approved"
                  \/ \E c \in Calls : Decide(c) /\ job[c].req = i
                                      /\ request'[i].email = job[c].email
                                      /\ request'[i].by = job[c].by
<1> USE DEF TypeInv, TypeOK, NoRow, Pending, Decided
<1> DEFINE Kept == request'[i] = request[i]
           Open == request[i].status \notin {"approved", "rejected"}
<1>1. ASSUME NEW j \in RequestIds, NEW e \in Emails, Submit(j, e)
      PROVE  Kept \/ (Open /\ request'[i].status # "approved")
  BY <1>1 DEF Submit
<1>2. ASSUME NEW j \in RequestIds, NEW a \in Admins, Reject(j, a)
      PROVE  Kept \/ (Open /\ request'[i].status # "approved")
  BY <1>2 DEF Reject, IsPending
<1>3. ASSUME NEW c \in Calls, Decide(c)
      PROVE  Kept \/ (/\ Open /\ job[c].req = i
                      /\ request'[i].email = job[c].email
                      /\ request'[i].by = job[c].by)
  BY <1>3 DEF Decide, IsPending
<1>4. CASE UNCHANGED request
  BY <1>4
<1>5. \/ UNCHANGED request
      \/ \E j \in RequestIds, e \in Emails : Submit(j, e)
      \/ \E j \in RequestIds, a \in Admins : Reject(j, a)
      \/ \E c \in Calls : Decide(c)
  BY DEF Next, Invite, vars, StartApprove, StartInvite, CreateToken, Refuse,
         SendMail, MailFails, StoreFails, Accept, Expire, Kill
<1>6. CASE \E c \in Calls : Decide(c)
  <2>1. PICK c \in Calls : Decide(c)
    BY <1>6
  <2> QED
    BY <2>1, <1>3
<1> QED
  BY <1>1, <1>2, <1>4, <1>5, <1>6

\* No call changes a decided request.
THEOREM Decisions == Spec => DecidedStays
<1>1. TypeInv /\ [Next]_vars =>
          [\A i \in RequestIds : request[i].status \in {"approved", "rejected"}
               => request'[i] = request[i]]_vars
  BY StepDecision
<1> QED
  BY <1>1, TypeInvHolds, PTL DEF Spec, DecidedStays

\* An approved request stands for a delivered invitation as Team Lead by the
\* admin who decided.
THEOREM Approvals == Spec => []ApprovedWasInvited
<1>1. Init => ApprovedWasInvited
  BY DEF Init, ApprovedWasInvited, NoRow
<1>2. TypeInv /\ ApprovedWasInvited /\ [Next]_vars => ApprovedWasInvited'
  <2> SUFFICES ASSUME TypeInv, ApprovedWasInvited, [Next]_vars,
                      NEW i \in RequestIds, request'[i].status = "approved"
               PROVE  \E c \in mailed' : /\ token'[c] # "none"
                                         /\ job'[c].email = request'[i].email
                                         /\ job'[c].role = LeadRole
                                         /\ job'[c].by = request'[i].by
    BY DEF ApprovedWasInvited, Holder
  <2>1. CASE request[i].status = "approved"
    <3>1. PICK c \in mailed : /\ token[c] # "none" /\ job[c].email = request[i].email
                              /\ job[c].role = LeadRole /\ job[c].by = request[i].by
      BY <2>1 DEF ApprovedWasInvited, Holder
    <3>2. c \in Calls /\ request'[i] = request[i]
      BY <2>1, StepDecision DEF TypeInv, TypeOK
    <3>3. job'[c] = job[c] /\ token'[c] # "none" /\ c \in mailed'
      BY <3>1, <3>2, StepInvitation
    <3> QED
      BY <3>1, <3>2, <3>3
  <2>2. CASE request[i].status # "approved"
    <3>1. PICK c \in Calls : /\ Decide(c) /\ job[c].req = i
                             /\ request'[i].email = job[c].email
                             /\ request'[i].by = job[c].by
      BY <2>2, StepDecision
    <3>2. /\ token[c] # "none" /\ c \in mailed /\ job[c].role = LeadRole
      BY <3>1 DEF Decide, TypeInv, JobInv, RequestInv
    <3> QED
      BY <3>1, <3>2, StepInvitation
  <2> QED
    BY <2>1, <2>2
<1> QED
  BY <1>1, <1>2, TypeInvHolds, PTL DEF Spec

-----------------------------------------------------------------------------
(* Answers *)

\* The part of AnswersAreTrue that is about one call.
AnswerInv == \A c \in Calls : pc[c] = "ok" /\ job[c].req # Direct =>
    request[job[c].req].status = "approved" /\ request[job[c].req].by = job[c].by

LEMMA StepAnswer == TypeInv /\ AnswerInv /\ [Next]_vars => AnswerInv'
<1> SUFFICES ASSUME TypeInv, AnswerInv, [Next]_vars,
                    NEW c \in Calls, pc'[c] = "ok", job'[c].req # Direct
             PROVE  /\ request'[job'[c].req].status = "approved"
                    /\ request'[job'[c].req].by = job'[c].by
  BY DEF AnswerInv
<1>1. CASE pc[c] = "ok"
  <2>1. job'[c] = job[c] /\ job[c].req \in RequestIds
    BY <1>1, StepKeepsJob DEF TypeInv, JobInv, Jobs
  <2> QED
    BY <1>1, <2>1, StepDecision DEF AnswerInv
<1>2. CASE pc[c] # "ok"
  <2>1. Decide(c)
    BY <1>2
       DEF TypeInv, TypeOK, Working, Next, Invite, vars, Submit, Reject,
           StartApprove, StartInvite, CreateToken, Refuse, SendMail, MailFails,
           StoreFails, Decide, Accept, Expire, Kill
  <2>2. job[c].req \in RequestIds
    BY <2>1 DEF Decide, TypeInv, JobInv, Jobs
  <2> QED
    BY <1>2, <2>1, <2>2 DEF Decide, TypeInv, TypeOK
<1> QED
  BY <1>1, <1>2

\* At most one approve call of a request is answered with success, and the row
\* bears it out.
THEOREM Answers == Spec => []AnswersAreTrue
<1>1. Init => AnswerInv
  BY DEF Init, AnswerInv
<1>2. TypeInv /\ TokenInv /\ AnswerInv => AnswersAreTrue
  <2> SUFFICES ASSUME TypeInv, TokenInv, AnswerInv,
                      NEW c \in Calls, pc[c] = "ok", job[c].req # Direct
               PROVE  /\ request[job[c].req].status = "approved"
                      /\ request[job[c].req].by = job[c].by
                      /\ \A d \in Calls : pc[d] = "ok" /\ job[d].req = job[c].req => c = d
    BY DEF AnswersAreTrue
  <2>1. ASSUME NEW d \in Calls, pc[d] = "ok", job[d].req = job[c].req PROVE c = d
    <3>1. token[c] # "none" /\ token[d] # "none"
      BY <2>1 DEF TypeInv, JobInv
    <3>2. job[c].email = job[d].email
      BY <2>1 DEF TypeInv, RequestInv
    <3> QED
      BY <3>1, <3>2 DEF TokenInv, OneInvitePerAddress
  <2> QED
    BY <2>1 DEF AnswerInv
<1> QED
  BY <1>1, <1>2, StepAnswer, TypeInvHolds, TokenInvHolds, PTL DEF Spec

-----------------------------------------------------------------------------
(* Accounts *)

\* An active account was activated through a used invitation that reached its
\* address, and has its role.
THEOREM Activations == Spec => []ActiveByInvite
<1>1. Init => ActiveByInvite
  BY DEF Init, ActiveByInvite, NoAccount
<1>2. TypeInv /\ ActiveByInvite /\ [Next]_vars => ActiveByInvite'
  <2> SUFFICES ASSUME TypeInv, ActiveByInvite, [Next]_vars,
                      NEW e \in Emails, account'[e].state = "active"
               PROVE  \E c \in mailed' : /\ token'[c] = "used" /\ job'[c].email = e
                                         /\ job'[c].role = account'[e].role
    BY DEF ActiveByInvite, Holder
  <2>1. CASE account[e].state = "active"
    <3>1. PICK c \in mailed : /\ token[c] = "used" /\ job[c].email = e
                              /\ job[c].role = account[e].role
      BY <2>1 DEF ActiveByInvite, Holder
    <3>2. account'[e] = account[e]
      <4>1. ASSUME NEW d \in Calls, CreateToken(d) PROVE account'[e] = account[e]
        BY <2>1, <4>1 DEF CreateToken, NoAccount, TypeInv, TypeOK
      <4>2. ASSUME NEW d \in Calls, Accept(d) PROVE account'[e] = account[e]
        BY <2>1, <4>2 DEF Accept, TypeInv, TypeOK
      <4> QED
        BY <4>1, <4>2
           DEF Next, Invite, vars, Submit, Reject, StartApprove, StartInvite, Refuse,
               SendMail, MailFails, StoreFails, Decide, Expire, Kill
    <3>3. c \in Calls /\ job'[c] = job[c] /\ token'[c] = "used" /\ c \in mailed'
      BY <3>1, StepInvitation DEF TypeInv, TypeOK
    <3> QED
      BY <3>1, <3>2, <3>3
  <2>2. CASE account[e].state # "active"
    <3>1. ASSUME NEW c \in Calls, CreateToken(c) PROVE FALSE
      BY <2>2, <3>1 DEF CreateToken, TypeInv, TypeOK
    <3>2. PICK c \in Calls : Accept(c)
      BY <2>2, <3>1
         DEF Next, Invite, vars, Submit, Reject, StartApprove, StartInvite, Refuse,
             SendMail, MailFails, StoreFails, Decide, Expire, Kill
    <3>3. job'[c] = job[c] /\ c \in mailed' /\ token'[c] = "used"
      BY <3>2 DEF Accept, TypeInv, TypeOK
    <3>4. job[c].email = e /\ account'[e].role = job[c].role
      BY <2>2, <3>2 DEF Accept, TypeInv, TypeOK
    <3> QED
      BY <3>3, <3>4
  <2> QED
    BY <2>1, <2>2
<1> QED
  BY <1>1, <1>2, TypeInvHolds, PTL DEF Spec
=============================================================================
