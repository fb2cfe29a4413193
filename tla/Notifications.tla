---------------------------- MODULE Notifications ----------------------------
(***************************************************************************)
(* Gmail notifications: notify claims the dedup key of an event in the     *)
(* database and then sends a mail or queues a line for the digest; the     *)
(* digest loop mails what is pending every 15 minutes. Agent threads, the  *)
(* event loop and the digest thread run in parallel and meet only in the   *)
(* database; a failure of one recipient is swallowed.                      *)
(*                                                                         *)
(* Each call here is a notify for one recipient: a loop over recipients is *)
(* as many calls. SMTP and LINE, which keep no state, are left out, as is  *)
(* notification_dedup.sent_at, which is written and never read, and an     *)
(* event whose claim fails, of which nothing remains.                      *)
(***************************************************************************)
EXTENDS Naturals, FiniteSets

CONSTANTS
    NotifyCalls,   \* events with a recipient
    RealtimeKeys,  \* dedup keys of events that are mailed at once
    DigestKeys,    \* dedup keys of events that wait for the digest
    Recipient,     \* the user whose id is part of each key
    NoKey,         \* stands for the key of a call not yet made
    Window,        \* DEDUP_WINDOW_SECONDS
    MaxTime,       \* bound on the clock
    MaxMishaps     \* bound on failing mails and writes and on restarts

DedupKeys == RealtimeKeys \cup DigestKeys
MailUsers == {Recipient[k] : k \in DedupKeys}

ASSUME NotifyAssumption ==
    /\ RealtimeKeys \cap DigestKeys = {} /\ NoKey \notin DedupKeys
    /\ Window \in Nat \ {0} /\ MaxTime \in Nat /\ MaxMishaps \in Nat

VARIABLES
    clock,
    expires,    \* notification_dedup.expires_at, 0 without a row
    step,       \* where each call is
    key,        \* its dedup key
    at,         \* history: the time its claim of the key carries
    mailed,     \* history: the calls whose own mail was delivered
    line,       \* the digest line of each call
    copies,     \* history: in how many digests it was delivered
    pass,       \* the pass of the digest loop
    mishaps     \* failures so far

notifyVars == <<clock, expires, step, key, at, mailed, line, copies, pass, mishaps>>

Resting == [stage |-> "rest"]
Passes  == [stage : {"send", "mark"}, todo : SUBSET MailUsers,
            lines : SUBSET NotifyCalls]

NotifyTypeOK ==
    /\ clock \in 0..MaxTime
    /\ expires \in [DedupKeys -> 0..(MaxTime + Window)]
    /\ step \in [NotifyCalls -> {"idle", "send", "enqueue", "over"}]
    /\ key \in [NotifyCalls -> DedupKeys \cup {NoKey}]
    /\ at \in [NotifyCalls -> 0..MaxTime]
    /\ mailed \subseteq NotifyCalls
    /\ line \in [NotifyCalls -> {"none", "pending", "sent"}]
    /\ copies \in [NotifyCalls -> 0..(MaxMishaps + 1)]
    /\ pass \in {Resting, [stage |-> "dead"]} \cup Passes
    /\ mishaps \in 0..MaxMishaps
    /\ \A c \in NotifyCalls : line[c] # "none" => key[c] \in DigestKeys

NotifyInit ==
    /\ clock = 0 /\ mishaps = 0 /\ mailed = {} /\ pass = Resting
    /\ expires = [k \in DedupKeys |-> 0]
    /\ step = [c \in NotifyCalls |-> "idle"]
    /\ key = [c \in NotifyCalls |-> NoKey]
    /\ at = [c \in NotifyCalls |-> 0]
    /\ line = [c \in NotifyCalls |-> "none"]
    /\ copies = [c \in NotifyCalls |-> 0]

Tick ==
    /\ clock < MaxTime /\ clock' = clock + 1
    /\ UNCHANGED <<expires, step, key, at, mailed, line, copies, pass, mishaps>>

Mishap == mishaps < MaxMishaps /\ mishaps' = mishaps + 1
-----------------------------------------------------------------------------
(* notify *)

\* Mutant: the key is looked up, and claimed only by who has delivered.
NotifyLooksOnly(c, k) == \E now \in 0..clock :
    /\ step[c] = "idle"
    /\ key' = [key EXCEPT ![c] = k]
    /\ \/ expires[k] > now /\ step' = [step EXCEPT ![c] = "over"] /\ UNCHANGED at
       \/ /\ expires[k] <= now
          /\ at' = [at EXCEPT ![c] = now]
          /\ step' = [step EXCEPT ![c] = IF k \in RealtimeKeys THEN "send" ELSE "enqueue"]
    /\ UNCHANGED <<clock, expires, mailed, line, copies, pass, mishaps>>

\* Mutant: an event that is mailed at once waits for the digest too.
NotifyQueues(c, k) ==
    /\ step[c] = "idle" /\ expires[k] <= clock
    /\ key' = [key EXCEPT ![c] = k]
    /\ expires' = [expires EXCEPT ![k] = clock + Window]
    /\ at' = [at EXCEPT ![c] = clock]
    /\ step' = [step EXCEPT ![c] = "enqueue"]
    /\ UNCHANGED <<clock, mailed, line, copies, pass, mishaps>>

\* should_dedup looks at the clock, which is now, and then waits for its BEGIN
\* IMMEDIATE transaction, in which it reads and writes the claim: within the
\* window the event is dropped, after it the claim is renewed.
Notify(c, k) == \E now \in 0..clock :
    /\ step[c] = "idle"
    /\ key' = [key EXCEPT ![c] = k]
    /\ \/ expires[k] > now /\ step' = [step EXCEPT ![c] = "over"] /\ UNCHANGED <<expires, at>>
       \/ /\ expires[k] <= now
          /\ expires' = [expires EXCEPT ![k] = now + Window]
          /\ at' = [at EXCEPT ![c] = now]
          /\ step' = [step EXCEPT ![c] = IF k \in RealtimeKeys THEN "send" ELSE "enqueue"]
    /\ UNCHANGED <<clock, mailed, line, copies, pass, mishaps>>

\* The mail is delivered. The call ends whether or not that is reported.
SendMail(c) ==
    /\ step[c] = "send"
    /\ step' = [step EXCEPT ![c] = "over"]
    /\ mailed' = mailed \cup {c}
    /\ UNCHANGED <<clock, expires, key, at, line, copies, pass, mishaps>>

\* enqueue_digest.
Enqueue(c) ==
    /\ step[c] = "enqueue"
    /\ step' = [step EXCEPT ![c] = "over"]
    /\ line' = [line EXCEPT ![c] = "pending"]
    /\ UNCHANGED <<clock, expires, key, at, mailed, copies, pass, mishaps>>

\* Mail or write fail and the exception is swallowed; the claim stays.
NotifyFails(c) ==
    /\ step[c] \in {"send", "enqueue"} /\ Mishap
    /\ step' = [step EXCEPT ![c] = "over"]
    /\ UNCHANGED <<clock, expires, key, at, mailed, line, copies, pass>>

-----------------------------------------------------------------------------
(* The digest loop *)

LinesOf(u, lines) == {c \in lines : Recipient[key[c]] = u}

\* send_pending_digests reads the pending lines and groups them by user.
StartPass ==
    /\ pass = Resting
    /\ LET pending == {c \in NotifyCalls : line[c] = "pending"} IN
          /\ pending # {}
          /\ pass' = [stage |-> "send", lines |-> pending,
                      todo |-> {Recipient[key[c]] : c \in pending}]
    /\ UNCHANGED <<clock, expires, step, key, at, mailed, line, copies, mishaps>>

\* The user the pass is at; the rows come ordered by user.
Turn == CHOOSE u \in pass.todo : TRUE

\* The pass without its first user; after the last one it is over.
Onward == IF pass.todo = {Turn} THEN Resting
          ELSE [pass EXCEPT !.stage = "send", !.todo = @ \ {Turn}]

\* One mail with all lines of the user. If it is reported as failed, delivered
\* or not, the next user has its turn.
SendDigest ==
    /\ pass.stage = "send"
    /\ \/ /\ copies' = [c \in NotifyCalls |-> copies[c]
                 + IF c \in LinesOf(Turn, pass.lines) THEN 1 ELSE 0]
          /\ \/ pass' = [pass EXCEPT !.stage = "mark"] /\ UNCHANGED mishaps
             \/ pass' = Onward /\ Mishap
       \/ pass' = Onward /\ Mishap /\ UNCHANGED copies
    /\ UNCHANGED <<clock, expires, step, key, at, mailed, line>>

\* Mutant: what the user has pending now is marked.
MarkAllPending ==
    /\ pass.stage = "mark"
    /\ line' = [c \in NotifyCalls |-> IF c \in LinesOf(Turn,
           {d \in NotifyCalls : line[d] = "pending"}) THEN "sent" ELSE line[c]]
    /\ pass' = Onward
    /\ UNCHANGED <<clock, expires, step, key, at, mailed, copies, mishaps>>

\* mark_digest_sent, of the rows that were in the mail.
MarkDigest ==
    /\ pass.stage = "mark"
    /\ line' = [c \in NotifyCalls |-> IF c \in LinesOf(Turn, pass.lines) THEN "sent" ELSE line[c]]
    /\ pass' = Onward
    /\ UNCHANGED <<clock, expires, step, key, at, mailed, copies, mishaps>>

\* Mutant: an exception ends the loop.
LoopDies ==
    /\ pass.stage = "mark" /\ Mishap
    /\ pass' = [stage |-> "dead"]
    /\ UNCHANGED <<clock, expires, step, key, at, mailed, line, copies>>

\* The update fails: the exception ends the pass and run_digest_loop goes on.
MarkFails ==
    /\ pass.stage = "mark" /\ Mishap
    /\ pass' = Resting
    /\ UNCHANGED <<clock, expires, step, key, at, mailed, line, copies>>

\* The process is restarted: its calls and its pass are gone.
NotifyRestart ==
    /\ Mishap /\ pass' = Resting
    /\ step' = [c \in NotifyCalls |-> IF step[c] = "idle" THEN "idle" ELSE "over"]
    /\ UNCHANGED <<clock, expires, key, at, mailed, line, copies>>

NotifyNext ==
    \/ Tick
    \/ \E c \in NotifyCalls :
          \/ \E k \in DedupKeys : Notify(c, k)
          \/ SendMail(c) \/ Enqueue(c) \/ NotifyFails(c)
    \/ StartPass \/ SendDigest \/ MarkDigest \/ MarkFails \/ NotifyRestart

\* The digest loop wakes up for ever and a pass goes on; mails and writes do
\* not fail for ever.
NotifyFairness == WF_notifyVars(StartPass \/ SendDigest \/ MarkDigest)

NotifySpec == NotifyInit /\ [][NotifyNext]_notifyVars /\ NotifyFairness

-----------------------------------------------------------------------------
(* Properties *)

\* Of two events of one key that are both mailed, one claimed the key a window
\* or more after the other: from however many threads, before and after restarts,
\* and whatever mails are still on their way. It is the claims that are spaced:
\* a mail that takes long may arrive together with the next one.
OneClaimPerWindow ==
    \A c, d \in mailed : c # d /\ key[c] = key[d] =>
        at[c] >= at[d] + Window \/ at[d] >= at[c] + Window

\* The books of the digest: a line marked as sent was in a delivered mail, lines
\* queued during a pass included, and it takes a failure or a restart between
\* mail and mark for each further copy of it.
DigestBooks ==
    \A c \in NotifyCalls :
        (line[c] = "sent" => copies[c] > 0) /\ copies[c] <= 1 + mishaps

\* A queued line is mailed some day: neither a failing mail of another user nor
\* an exception in a pass, nor a restart, loses it or stops the loop.
DigestArrives ==
    \A c \in NotifyCalls : line[c] = "pending" ~> copies[c] > 0
=============================================================================
