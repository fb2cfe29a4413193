----------------------------- MODULE LoginLimiter -----------------------------
(***************************************************************************)
(* The limit on failed logins, for one identifier and client address. The  *)
(* endpoint is a plain function, so requests run on a pool of threads:     *)
(* looking at the limit, checking the password and recording the failure   *)
(* are three steps of a request, and each operation of the limiter reads   *)
(* the clock before it takes its lock.                                     *)
(*                                                                         *)
(* A failure is [read, real]: the time read for it, which the limiter      *)
(* keeps, and the time at which it was appended, which it does not. What   *)
(* time.monotonic counts is a number here. Left out: the value of          *)
(* Retry-After, and the tokens of a session.                               *)
(***************************************************************************)
EXTENDS Naturals, Sequences, FiniteSets

CONSTANTS
    LoginThreads,  \* requests handled in parallel
    MaxAttempts,   \* max_attempts
    LoginWindow,   \* window_seconds
    LastSecond     \* bound on the clock

ASSUME LoginAssumption ==
    /\ IsFiniteSet(LoginThreads)
    /\ MaxAttempts \in Nat \ {0} /\ LoginWindow \in Nat \ {0} /\ LastSecond \in Nat

VARIABLES
    second,    \* time.monotonic
    attempts,  \* the deque of the key
    login,     \* where each request is
    seen       \* the clock as the request has read it

loginVars == <<second, attempts, login, seen>>

Failures == [read : 0..LastSecond, real : 0..LastSecond]

LoginInit ==
    /\ second = 0
    /\ attempts = <<>>
    /\ login = [t \in LoginThreads |-> "idle"]
    /\ seen = [t \in LoginThreads |-> 0]

Recent(f, now) == f.read + LoginWindow > now

\* Mutant: an if in place of the while.
PruneOne(now) == IF attempts # <<>> /\ ~Recent(Head(attempts), now)
                 THEN Tail(attempts) ELSE attempts

\* _prune: entries leave at the left end while they are out of the window.
Prune(now) ==
    LET kept == {i \in 1..Len(attempts) : Recent(attempts[i], now)} IN
    IF kept = {} THEN <<>>
    ELSE SubSeq(attempts, CHOOSE i \in kept : \A j \in kept : i <= j, Len(attempts))
-----------------------------------------------------------------------------
ClockTicks ==
    /\ second < LastSecond /\ second' = second + 1
    /\ UNCHANGED <<attempts, login, seen>>

\* A request starts: is_limited reads the clock.
StartLogin(t) ==
    /\ login[t] = "idle"
    /\ login' = [login EXCEPT ![t] = "checking"]
    /\ seen' = [seen EXCEPT ![t] = second]
    /\ UNCHANGED <<second, attempts>>

\* Mutant: one attempt too many passes.
CheckLimitLate(t) ==
    /\ login[t] = "checking"
    /\ attempts' = Prune(seen[t])
    /\ login' = [login EXCEPT ![t] =
                    IF Len(attempts') > MaxAttempts THEN "limited" ELSE "passed"]
    /\ UNCHANGED <<second, seen>>

\* is_limited, under the lock: the request goes on or is answered 429.
CheckLimit(t) ==
    /\ login[t] = "checking"
    /\ attempts' = Prune(seen[t])
    /\ login' = [login EXCEPT ![t] =
                    IF Len(attempts') >= MaxAttempts THEN "limited" ELSE "passed"]
    /\ UNCHANGED <<second, seen>>

\* The password is wrong; record_failure reads the clock.
WrongPassword(t) ==
    /\ login[t] = "passed"
    /\ login' = [login EXCEPT ![t] = "recording"]
    /\ seen' = [seen EXCEPT ![t] = second]
    /\ UNCHANGED <<second, attempts>>

\* record_failure, under the lock.
RecordFailure(t) ==
    /\ login[t] = "recording"
    /\ attempts' = Append(Prune(seen[t]), [read |-> seen[t], real |-> second])
    /\ login' = [login EXCEPT ![t] = "idle"]
    /\ UNCHANGED <<second, seen>>

\* The password is right: clear forgets the failures of all requests.
RightPassword(t) ==
    /\ login[t] = "passed"
    /\ attempts' = <<>>
    /\ login' = [login EXCEPT ![t] = "idle"]
    /\ UNCHANGED <<second, seen>>

\* The 429: retry_after reads the clock once more, and prunes.
Refused(t) ==
    /\ login[t] = "limited"
    /\ \E now \in seen[t]..second : attempts' = Prune(now)
    /\ login' = [login EXCEPT ![t] = "idle"]
    /\ UNCHANGED <<second, seen>>

LoginNext ==
    \/ ClockTicks
    \/ \E t \in LoginThreads :
          \/ StartLogin(t) \/ CheckLimit(t) \/ WrongPassword(t)
          \/ RecordFailure(t) \/ RightPassword(t) \/ Refused(t)

LoginSpec == LoginInit /\ [][LoginNext]_loginVars
-----------------------------------------------------------------------------
(* Properties *)

LoginTypeOK ==
    /\ second \in 0..LastSecond
    /\ attempts \in Seq(Failures)
    /\ login \in [LoginThreads -> {"idle", "checking", "passed", "recording", "limited"}]
    /\ seen \in [LoginThreads -> 0..LastSecond]

\* The limit may be exceeded by requests that looked at it before the last
\* failures were recorded, and by no more than these: the failures counted and
\* those still to be recorded are at most MaxAttempts - 1 and one per request
\* handled in parallel.
Pending == {t \in LoginThreads : login[t] \in {"passed", "recording"}}

OvershootBounded ==
    Len(attempts) + Cardinality(Pending) <= MaxAttempts - 1 + Cardinality(LoginThreads)

\* Nobody is locked out without cause: who is refused had MaxAttempts failures
\* recorded in the window before its request, although a thread that is slow
\* between the clock and the lock leaves the deque out of order and keeps an
\* entry in it whose time is over.
RefusedForCause ==
    [][\A t \in LoginThreads : login[t] = "checking" /\ login'[t] = "limited" =>
          Cardinality({i \in DOMAIN attempts : attempts[i].real + LoginWindow > seen[t]})
              >= MaxAttempts]_loginVars
=============================================================================
