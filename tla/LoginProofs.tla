------------------------------ MODULE LoginProofs ------------------------------
(***************************************************************************)
(* Proofs about the limit on failed logins, for any limit, any window and  *)
(* any finite number of requests in parallel: the type invariant, the      *)
(* bound on the overshoot, and that a refusal has its cause.               *)
(*                                                                         *)
(* The bound is inductive with the types. For the cause one has to know    *)
(* the order in the deque: entries are appended in the order of time, and  *)
(* none carries a later clock than the moment it was appended, so that an  *)
(* entry behind one that is in the window was itself appended in it.       *)
(***************************************************************************)
EXTENDS LoginLimiter, FiniteSetTheorems, SequenceTheorems, TLAPS

\* The clock a request has read is not ahead of the time.
SeenIsPast == \A t \in LoginThreads : seen[t] <= second

\* A deque in the order in which it was filled.
Ordered(q) ==
    /\ \A i \in 1..Len(q) : q[i].read <= q[i].real /\ q[i].real <= second
    /\ \A i, j \in 1..Len(q) : i <= j => q[i].real <= q[j].real

LoginInv == LoginTypeOK /\ OvershootBounded /\ SeenIsPast /\ Ordered(attempts)

-----------------------------------------------------------------------------
\* _prune drops a prefix of the deque: what it leaves is empty or starts with an
\* entry in the window, and keeps its order.
LEMMA PruneSuffix ==
    ASSUME LoginTypeOK, NEW now \in 0..LastSecond
    PROVE  \/ Prune(now) = <<>>
           \/ \E i \in 1..Len(attempts) :
                 /\ Recent(attempts[i], now)
                 /\ Prune(now) = SubSeq(attempts, i, Len(attempts))
<1> DEFINE kept == {i \in 1..Len(attempts) : Recent(attempts[i], now)}
<1>1. CASE kept = {}
  BY <1>1 DEF Prune
<1>2. CASE kept # {}
  <2>1. PICK k \in kept : \A j \in kept : k <= j
    <3>1. kept \in SUBSET Nat
      BY DEF LoginTypeOK
    <3>2. PICK k \in kept : \A j \in kept : <<j, k>> \notin OpToRel(<, Nat)
      BY <1>2, <3>1, NatLessThanWellFounded, WFMin
    <3>3. ASSUME NEW j \in kept PROVE k <= j
      <4>1. j \in Nat /\ k \in Nat
        BY <3>1
      <4>2. ~(j < k)
        BY <3>2, <4>1, Zenon DEF OpToRel
      <4>. QED
        BY <4>1, <4>2
    <3>. QED
      BY <3>3
  <2>. QED
    BY <1>2, <2>1 DEF Prune
<1>. QED
  BY <1>1, <1>2

\* What is left is a deque of failures, no longer than before and in order.
LEMMA PruneKeeps ==
    ASSUME LoginTypeOK, Ordered(attempts), NEW now \in 0..LastSecond
    PROVE  /\ Prune(now) \in Seq(Failures)
           /\ Len(Prune(now)) <= Len(attempts)
           /\ Ordered(Prune(now))
<1>1. CASE Prune(now) = <<>>
  BY <1>1 DEF Ordered, LoginTypeOK
<1>2. ASSUME NEW k \in 1..Len(attempts), Prune(now) = SubSeq(attempts, k, Len(attempts))
      PROVE  /\ Prune(now) \in Seq(Failures)
             /\ Len(Prune(now)) <= Len(attempts)
             /\ Ordered(Prune(now))
  <2>1. /\ Prune(now) \in Seq(Failures)
        /\ Len(Prune(now)) = Len(attempts) - k + 1
        /\ \A i \in 1..Len(Prune(now)) :
              /\ k + i - 1 \in 1..Len(attempts)
              /\ Prune(now)[i] = attempts[k + i - 1]
    BY <1>2, SubSeqProperties DEF LoginTypeOK
  <2>2. Ordered(Prune(now))
    <3> DEFINE q == Prune(now)
    <3> HIDE DEF q
    <3>1. \A i \in 1..Len(q) : q[i].read <= q[i].real /\ q[i].real <= second
      BY <2>1 DEF q, Ordered
    <3>2. ASSUME NEW i \in 1..Len(q), NEW j \in 1..Len(q), i <= j
          PROVE  q[i].real <= q[j].real
      <4>1. k + i - 1 \in 1..Len(attempts) /\ k + j - 1 \in 1..Len(attempts)
        BY <2>1, <3>2 DEF q
      <4>2. k + i - 1 <= k + j - 1
        BY <2>1, <3>2 DEF q, LoginTypeOK
      <4>. QED
        BY <2>1, <4>1, <4>2 DEF q, Ordered
    <3>. QED
      BY <3>1, <3>2 DEF q, Ordered
  <2>. QED
    BY <2>1, <2>2 DEF LoginTypeOK
<1>. QED
  BY <1>1, <1>2, PruneSuffix

\* The requests that still may record a failure are finitely many, and at most
\* all of them.
LEMMA PendingCount ==
    /\ IsFiniteSet(Pending) /\ Cardinality(Pending) \in Nat
    /\ Cardinality(LoginThreads) \in Nat
    /\ Cardinality(Pending) <= Cardinality(LoginThreads)
<1>1. Pending \in SUBSET LoginThreads
  BY DEF Pending
<1>. QED
  BY <1>1, LoginAssumption, FS_Subset, FS_CardinalityType

-----------------------------------------------------------------------------
\* The strengthened invariant holds at the start: no request is pending.
LEMMA LoginInitInv == LoginInit => LoginInv
<1> SUFFICES ASSUME LoginInit PROVE LoginInv
  OBVIOUS
<1>1. LoginTypeOK /\ SeenIsPast /\ Ordered(attempts)
  BY LoginAssumption DEF LoginInit, LoginTypeOK, SeenIsPast, Ordered
<1>2. OvershootBounded
  <2>1. Pending = {} /\ Len(attempts) = 0
    BY DEF LoginInit, Pending
  <2>. QED
    BY <2>1, FS_EmptySet, PendingCount, LoginAssumption DEF OvershootBounded
<1>. QED
  BY <1>1, <1>2 DEF LoginInv

\* Steps that leave the deque and the set of pending requests alone keep the
\* bound.
LEMMA SameBound ==
    ASSUME OvershootBounded, Pending' = Pending, UNCHANGED attempts
    PROVE  OvershootBounded'
  BY DEF OvershootBounded

\* The strengthened invariant is preserved.
LEMMA LoginStepInv == LoginInv /\ [LoginNext]_loginVars => LoginInv'
<1> SUFFICES ASSUME LoginInv, [LoginNext]_loginVars PROVE LoginInv'
  OBVIOUS
<1> USE LoginAssumption DEF LoginInv
<1>1. CASE ClockTicks
  <2>1. LoginTypeOK'
    BY <1>1 DEF ClockTicks, LoginTypeOK
  <2>2. SeenIsPast'
    BY <1>1 DEF ClockTicks, LoginTypeOK, SeenIsPast
  <2>3. Ordered(attempts)'
    <3>1. \A i \in 1..Len(attempts) : attempts[i] \in Failures
      BY DEF LoginTypeOK
    <3>2. \A i \in 1..Len(attempts) : attempts[i].real \in Nat
      BY <3>1 DEF Failures
    <3>3. second \in Nat /\ second' = second + 1 /\ UNCHANGED attempts
      BY <1>1 DEF ClockTicks, LoginTypeOK
    <3>. QED
      BY <3>2, <3>3 DEF Ordered
  <2>4. OvershootBounded'
    BY <1>1, SameBound DEF ClockTicks, Pending
  <2>. QED
    BY <2>1, <2>2, <2>3, <2>4
<1>2. ASSUME NEW t \in LoginThreads, StartLogin(t) PROVE LoginInv'
  <2>1. LoginTypeOK' /\ SeenIsPast'
    BY <1>2 DEF StartLogin, LoginTypeOK, SeenIsPast
  <2>2. Ordered(attempts)'
    BY <1>2 DEF StartLogin, Ordered
  <2>3. OvershootBounded'
    BY <1>2, SameBound DEF StartLogin, Pending, LoginTypeOK
  <2>. QED
    BY <2>1, <2>2, <2>3
<1>3. ASSUME NEW t \in LoginThreads, CheckLimit(t) PROVE LoginInv'
  <2>1. seen[t] \in 0..LastSecond
    BY DEF LoginTypeOK
  <2>2. /\ attempts' \in Seq(Failures) /\ Len(attempts') <= Len(attempts)
        /\ Ordered(attempts')
    BY <1>3, <2>1, PruneKeeps DEF CheckLimit
  <2>3. LoginTypeOK' /\ SeenIsPast' /\ Ordered(attempts)'
    <3>1. LoginTypeOK' /\ SeenIsPast'
      BY <1>3, <2>2 DEF CheckLimit, LoginTypeOK, SeenIsPast
    <3>2. second' = second
      BY <1>3 DEF CheckLimit
    <3>. QED
      BY <2>2, <3>1, <3>2 DEF Ordered
  <2>4. OvershootBounded'
    <3>1. CASE Len(attempts') >= MaxAttempts
      <4>1. Pending' = Pending
        BY <1>3, <3>1 DEF CheckLimit, Pending, LoginTypeOK
      <4>. QED
        BY <2>2, <4>1, PendingCount DEF OvershootBounded, LoginTypeOK
    <3>2. CASE Len(attempts') < MaxAttempts
      <4>1. Pending' \in SUBSET LoginThreads
        BY DEF Pending
      <4>2. Cardinality(Pending') \in Nat /\ Cardinality(Pending') <= Cardinality(LoginThreads)
        BY <4>1, FS_Subset, FS_CardinalityType
      <4>. QED
        BY <2>2, <3>2, <4>2, PendingCount DEF OvershootBounded
    <3>. QED
      BY <2>2, <3>1, <3>2
  <2>. QED
    BY <2>3, <2>4
<1>4. ASSUME NEW t \in LoginThreads, WrongPassword(t) PROVE LoginInv'
  <2>1. LoginTypeOK' /\ SeenIsPast' /\ Ordered(attempts)'
    BY <1>4 DEF WrongPassword, LoginTypeOK, SeenIsPast, Ordered
  <2>2. OvershootBounded'
    BY <1>4, SameBound DEF WrongPassword, Pending, LoginTypeOK
  <2>. QED
    BY <2>1, <2>2
<1>5. ASSUME NEW t \in LoginThreads, RecordFailure(t) PROVE LoginInv'
  <2> DEFINE q == Prune(seen[t])
             f == [read |-> seen[t], real |-> second]
  <2>1. seen[t] \in 0..LastSecond /\ f \in Failures
    BY DEF LoginTypeOK, Failures
  <2>2. q \in Seq(Failures) /\ Len(q) <= Len(attempts) /\ Ordered(q)
    BY <2>1, PruneKeeps
  <2>3. attempts' = Append(q, f) /\ UNCHANGED <<second, seen>>
    BY <1>5 DEF RecordFailure
  <2>4. /\ attempts' \in Seq(Failures) /\ Len(attempts') = Len(q) + 1
        /\ \A i \in 1..Len(q) : attempts'[i] = q[i]
        /\ attempts'[Len(q) + 1] = f
    BY <2>1, <2>2, <2>3, AppendProperties
  <2>5. LoginTypeOK' /\ SeenIsPast'
    BY <1>5, <2>4 DEF RecordFailure, LoginTypeOK, SeenIsPast
  <2>6. Ordered(attempts)'
    <3> HIDE DEF q, f
    <3>1. f.read <= f.real /\ f.real = second
      BY DEF f, SeenIsPast
    <3>2. Len(q) \in Nat /\ second \in Nat
      BY <2>2 DEF LoginTypeOK
    <3>3. \A i \in 1..Len(attempts') :
             attempts'[i].read <= attempts'[i].real /\ attempts'[i].real <= second
      BY <2>2, <2>4, <3>1, <3>2 DEF Ordered
    <3>4. ASSUME NEW i \in 1..Len(attempts'), NEW j \in 1..Len(attempts'), i <= j
          PROVE  attempts'[i].real <= attempts'[j].real
      <4>1. CASE j = Len(q) + 1
        BY <2>4, <3>1, <3>3, <4>1
      <4>2. CASE j # Len(q) + 1
        BY <2>2, <2>4, <3>2, <3>4, <4>2 DEF Ordered
      <4>. QED
        BY <4>1, <4>2
    <3>. QED
      BY <2>3, <3>3, <3>4 DEF Ordered
  <2>7. OvershootBounded'
    <3>1. t \in Pending /\ Pending' = Pending \ {t}
      BY <1>5 DEF RecordFailure, Pending, LoginTypeOK
    <3>2. Cardinality(Pending') = Cardinality(Pending) - 1
      BY <3>1, PendingCount, FS_RemoveElement
    <3>. QED
      BY <2>2, <2>4, <3>2, PendingCount DEF OvershootBounded, LoginTypeOK
  <2>. QED
    BY <2>5, <2>6, <2>7
<1>6. ASSUME NEW t \in LoginThreads, RightPassword(t) PROVE LoginInv'
  <2>1. LoginTypeOK' /\ SeenIsPast' /\ Ordered(attempts)'
    BY <1>6 DEF RightPassword, LoginTypeOK, SeenIsPast, Ordered
  <2>2. OvershootBounded'
    <3>1. Pending' \in SUBSET LoginThreads /\ Len(attempts') = 0
      BY <1>6 DEF RightPassword, Pending
    <3>2. Cardinality(Pending') \in Nat /\ Cardinality(Pending') <= Cardinality(LoginThreads)
      BY <3>1, FS_Subset, FS_CardinalityType
    <3>. QED
      BY <3>1, <3>2, PendingCount DEF OvershootBounded
  <2>. QED
    BY <2>1, <2>2
<1>7. ASSUME NEW t \in LoginThreads, Refused(t) PROVE LoginInv'
  <2>1. PICK now \in seen[t]..second : attempts' = Prune(now)
    BY <1>7 DEF Refused
  <2>2. now \in 0..LastSecond
    <3>1. seen[t] \in 0..LastSecond /\ second \in 0..LastSecond
      BY DEF LoginTypeOK
    <3>. QED
      BY <3>1
  <2>3. /\ attempts' \in Seq(Failures) /\ Len(attempts') <= Len(attempts)
        /\ Ordered(attempts')
    BY <2>1, <2>2, PruneKeeps
  <2>4. LoginTypeOK' /\ SeenIsPast'
    BY <1>7, <2>3 DEF Refused, LoginTypeOK, SeenIsPast
  <2>5. Ordered(attempts)'
    BY <1>7, <2>3 DEF Refused, Ordered
  <2>6. OvershootBounded'
    <3>1. Pending' = Pending
      BY <1>7 DEF Refused, Pending, LoginTypeOK
    <3>. QED
      BY <2>3, <3>1, PendingCount DEF OvershootBounded, LoginTypeOK
  <2>. QED
    BY <2>4, <2>5, <2>6
<1>8. CASE UNCHANGED loginVars
  BY <1>8 DEF loginVars, LoginTypeOK, OvershootBounded, Pending, SeenIsPast, Ordered
<1>. QED
  BY <1>1, <1>2, <1>3, <1>4, <1>5, <1>6, <1>7, <1>8 DEF LoginNext

\* The strengthened invariant.
THEOREM LoginInvariant == LoginSpec => []LoginInv
  BY LoginInitInv, LoginStepInv, PTL DEF LoginSpec

\* The failures counted and those still to be recorded exceed the limit by less
\* than the number of requests in parallel.
THEOREM LimitHolds == LoginSpec => []OvershootBounded
<1>1. LoginInv => OvershootBounded
  BY DEF LoginInv
<1>. QED
  BY <1>1, LoginInvariant, PTL

-----------------------------------------------------------------------------
\* A request is refused only after MaxAttempts failures were recorded in the
\* window before it.
LEMMA RefusalStep ==
    ASSUME LoginInv, [LoginNext]_loginVars, NEW t \in LoginThreads,
           login[t] = "checking", login'[t] = "limited"
    PROVE  Cardinality({i \in DOMAIN attempts : attempts[i].real + LoginWindow > seen[t]})
               >= MaxAttempts
<1> USE LoginAssumption DEF LoginInv
<1> DEFINE caused == {i \in DOMAIN attempts : attempts[i].real + LoginWindow > seen[t]}
<1>1. CheckLimit(t)
  BY DEF LoginNext, ClockTicks, StartLogin, CheckLimit, WrongPassword, RecordFailure,
         RightPassword, Refused, LoginTypeOK, loginVars
<1>2. Len(attempts') >= MaxAttempts /\ attempts' = Prune(seen[t])
  BY <1>1 DEF CheckLimit, LoginTypeOK
<1>3. seen[t] \in 0..LastSecond
  BY DEF LoginTypeOK
<1>4. PICK k \in 1..Len(attempts) :
         /\ Recent(attempts[k], seen[t])
         /\ Prune(seen[t]) = SubSeq(attempts, k, Len(attempts))
  <2>1. Prune(seen[t]) # <<>>
    BY <1>2
  <2>. QED
    BY <1>3, <2>1, PruneSuffix
<1>5. Len(attempts') = Len(attempts) - k + 1
  BY <1>2, <1>4, SubSeqProperties DEF LoginTypeOK
<1>6. \A i \in k..Len(attempts) : i \in caused
  <2> SUFFICES ASSUME NEW i \in k..Len(attempts) PROVE i \in caused
    OBVIOUS
  <2>1. i \in 1..Len(attempts) /\ DOMAIN attempts = 1..Len(attempts)
    BY <1>4 DEF LoginTypeOK
  <2>2. attempts[k] \in Failures /\ attempts[i] \in Failures
    BY <1>4, <2>1 DEF LoginTypeOK
  <2>3. attempts[k].read <= attempts[k].real /\ attempts[k].real <= attempts[i].real
    BY <1>4, <2>1 DEF Ordered
  <2>4. /\ attempts[k].read \in Nat /\ attempts[k].real \in Nat
        /\ attempts[i].real \in Nat /\ seen[t] \in Nat
    BY <1>3, <2>2 DEF Failures
  <2>5. attempts[k].read + LoginWindow > seen[t]
    BY <1>4 DEF Recent
  <2>6. attempts[i].real + LoginWindow > seen[t]
    BY <2>3, <2>4, <2>5
  <2>. QED
    BY <2>1, <2>6
<1>7. IsFiniteSet(caused)
  <2>1. caused \in SUBSET (1..Len(attempts)) /\ Len(attempts) \in Nat
    BY DEF LoginTypeOK
  <2>. QED
    BY <2>1, FS_Interval, FS_Subset
<1>8. Cardinality(k..Len(attempts)) <= Cardinality(caused)
  <2>1. k..Len(attempts) \in SUBSET caused
    BY <1>6
  <2>. QED
    BY <1>7, <2>1, FS_Subset
<1>9. Cardinality(k..Len(attempts)) = Len(attempts) - k + 1
  BY <1>4, FS_Interval DEF LoginTypeOK
<1>10. Cardinality(caused) \in Nat /\ Len(attempts) \in Nat
  BY <1>7, FS_CardinalityType DEF LoginTypeOK
<1>. QED
  BY <1>2, <1>5, <1>8, <1>9, <1>10

\* Nobody is locked out without cause.
THEOREM RefusalsHaveCause == LoginSpec => RefusedForCause
<1>1. LoginInv /\ [LoginNext]_loginVars =>
         [\A t \in LoginThreads : login[t] = "checking" /\ login'[t] = "limited" =>
             Cardinality({i \in DOMAIN attempts : attempts[i].real + LoginWindow > seen[t]})
                 >= MaxAttempts]_loginVars
  BY RefusalStep
<1>. QED
  BY <1>1, LoginInvariant, PTL DEF LoginSpec, RefusedForCause
=============================================================================
