------------------------ MODULE CircuitBreakerProofs ------------------------
(***************************************************************************)
(* Proofs about CircuitBreaker, for every value of the thresholds and any  *)
(* number of concurrent checks.                                            *)
(***************************************************************************)
EXTENDS CircuitBreaker, TLAPS

\* Consecutive failures are requests, and TotalRequests forgets none of them.
CountInv == failures <= total \/ total = MaxRequests

IInv == TypeOK /\ ClosedBelowThreshold /\ BudgetSpent /\ CountInv

\* A counter that is bumped stays within its cap and never decreases.
LEMMA BumpWithin ==
    ASSUME NEW cap \in Nat, NEW n \in 0..cap
    PROVE  /\ Bump(n, cap) \in 0..cap
           /\ Bump(n, cap) >= n
           /\ Bump(n, cap) = n + 1 \/ (Bump(n, cap) = cap /\ n = cap)
  BY DEF Bump

\* Checks report known statuses only.
LEMMA ReportType ==
    ASSUME TypeOK, NEW p \in Callers, NEW isRejected \in BOOLEAN, NEW err,
           Report(p, isRejected, err)
    PROVE  check' \in [Callers -> [rejected : BOOLEAN,
                                   status : {"healthy", "degraded", "unhealthy"}]]
  <1>1. PICK s \in Statuses(err) :
           check' = [check EXCEPT ![p] = [rejected |-> isRejected, status |-> s]]
    BY DEF Report
  <1>2. s \in {"healthy", "degraded", "unhealthy"}
    BY <1>1 DEF Statuses
  <1> QED
    BY <1>1, <1>2 DEF TypeOK

\* Each variable keeps its type.
LEMMA TypeStep == ASSUME TypeOK, Next PROVE TypeOK'
  <1> USE ThresholdsAssumption
  <1>1. ASSUME NEW p \in Callers, AllowClosed(p) \/ AllowTest(p) \/ AllowHalfOpen(p)
        PROVE  TypeOK'
    <2>1. call' \in [Callers -> {"idle", "running"}] /\ check' = check
      BY <1>1 DEF TypeOK, AllowClosed, AllowTest, AllowHalfOpen, Admit
    <2>2. state' \in {"closed", "open", "half_open"} /\ (expired' = expired \/ expired' = FALSE)
      BY <1>1 DEF TypeOK, AllowClosed, AllowTest, AllowHalfOpen
    <2>3. UNCHANGED <<total, failures, successes, upstream>>
      BY <1>1 DEF AllowClosed, AllowTest, AllowHalfOpen
    <2> QED
      BY <2>1, <2>2, <2>3 DEF TypeOK
  <1>2. ASSUME NEW p \in Callers, Reject(p) PROVE TypeOK'
    BY <1>2, ReportType DEF TypeOK, Reject
  <1>3. ASSUME NEW p \in Callers, Return(p) PROVE TypeOK'
    <2>1. PICK err : Record(p, err)
      BY <1>3 DEF Return, RecordSuccess, RecordFailure
    <2>2. call' \in [Callers -> {"idle", "running"}] /\ upstream' = upstream
      BY <2>1 DEF TypeOK, Record
    <2>3. total' \in 0..MaxRequests
      BY <2>1, BumpWithin DEF TypeOK, Record
    <2>4. check' \in [Callers -> [rejected : BOOLEAN,
                                  status : {"healthy", "degraded", "unhealthy"}]]
      BY <2>1, ReportType DEF Record
    <2>5. /\ Bump(successes, SuccessThreshold) \in 0..SuccessThreshold
          /\ Bump(failures, FailureThreshold) \in 0..FailureThreshold
      BY BumpWithin DEF TypeOK
    <2>6. failures' \in 0..FailureThreshold /\ successes' \in 0..SuccessThreshold
      BY <1>3, <2>5 DEF Return, RecordSuccess, RecordFailure
    <2>7. state' \in {"closed", "open", "half_open"} /\ (expired' = expired \/ expired' = FALSE)
      BY <1>3 DEF TypeOK, Return, RecordSuccess, RecordFailure
    <2> QED
      BY <2>2, <2>3, <2>4, <2>6, <2>7 DEF TypeOK
  <1>4. CASE Reset
    <2>1. /\ state' = "closed" /\ total' \in 0..MaxRequests
          /\ failures' \in 0..FailureThreshold /\ successes' \in 0..SuccessThreshold
      BY <1>4 DEF Reset
    <2> QED
      BY <1>4, <2>1 DEF TypeOK, Reset
  <1>5. CASE Expire \/ Upstream
    <2>1. (expired' = expired \/ expired' = TRUE) /\ upstream' \in {"up", "down"}
      BY <1>5 DEF TypeOK, Expire, Upstream
    <2> QED
      BY <1>5, <2>1 DEF TypeOK, Expire, Upstream
  <1> QED
    BY <1>1, <1>2, <1>3, <1>4, <1>5 DEF Next, Check

\* Each step keeps the counters in the relation to the state that IInv states.
LEMMA CountStep ==
    ASSUME IInv, Next, TypeOK'
    PROVE  ClosedBelowThreshold' /\ BudgetSpent' /\ CountInv'
  <1> USE ThresholdsAssumption DEF IInv, TypeOK
  <1>1. ASSUME NEW p \in Callers, Check(p)
        PROVE  ClosedBelowThreshold' /\ BudgetSpent' /\ CountInv'
    BY <1>1 DEF Check, AllowClosed, AllowTest, AllowHalfOpen, Reject, ClosedBelowThreshold,
                BudgetSpent, CountInv
  <1>2. ASSUME NEW p \in Callers, RecordSuccess(p)
        PROVE  ClosedBelowThreshold' /\ BudgetSpent' /\ CountInv'
    <2>1. total' >= total /\ (total = MaxRequests => total' = MaxRequests)
      BY <1>2, BumpWithin DEF RecordSuccess, Record, Bump
    <2> QED
      BY <1>2, <2>1 DEF RecordSuccess, ClosedBelowThreshold, BudgetSpent, CountInv
  <1>3. ASSUME NEW p \in Callers, RecordFailure(p)
        PROVE  ClosedBelowThreshold' /\ BudgetSpent' /\ CountInv'
    <2>1. total' = total + 1 \/ total' = MaxRequests
      BY <1>3 DEF RecordFailure, Record, Bump
    <2>2. failures' <= failures + 1
      BY <1>3 DEF RecordFailure, Bump
    <2>3. CountInv'
      BY <2>1, <2>2 DEF CountInv
    <2>4. total' >= total /\ (total = MaxRequests => total' = MaxRequests)
      BY <1>3, BumpWithin DEF RecordFailure, Record, Bump
    <2>5. BudgetSpent'
      BY <1>3, <2>3, <2>4 DEF RecordFailure, BudgetSpent, CountInv
    <2>6. ClosedBelowThreshold'
      BY <1>3 DEF RecordFailure, ClosedBelowThreshold
    <2> QED
      BY <2>3, <2>5, <2>6
  <1>4. CASE Reset
    BY <1>4 DEF Reset, ClosedBelowThreshold, BudgetSpent, CountInv
  <1>5. CASE Expire \/ Upstream
    <2>1. UNCHANGED <<state, total, failures>>
      BY <1>5 DEF Expire, Upstream
    <2> QED
      BY <2>1 DEF ClosedBelowThreshold, BudgetSpent, CountInv
  <1> QED
    BY <1>1, <1>2, <1>3, <1>4, <1>5 DEF Next, Return

\* IInv is inductive: whatever order results and resets come in.
THEOREM Invariance == Spec => []IInv
  <1>1. Init => IInv
    <2> SUFFICES ASSUME Init PROVE IInv
      OBVIOUS
    <2>1. /\ check \in [Callers -> [rejected : BOOLEAN,
                                    status : {"healthy", "degraded", "unhealthy"}]]
          /\ call \in [Callers -> {"idle", "running"}] /\ expired \in BOOLEAN
          /\ state \in {"closed", "open", "half_open"} /\ upstream \in {"up", "down"}
      BY DEF Init
    <2>2. /\ total \in 0..MaxRequests /\ failures \in 0..FailureThreshold
          /\ successes \in 0..SuccessThreshold
      BY ThresholdsAssumption DEF Init
    <2>3. ClosedBelowThreshold /\ BudgetSpent /\ CountInv
      BY ThresholdsAssumption DEF Init, ClosedBelowThreshold, BudgetSpent, CountInv
    <2> QED
      BY <2>1, <2>2, <2>3 DEF IInv, TypeOK
  <1>2. IInv /\ [Next]_vars => IInv'
    <2>1. IInv /\ Next => IInv'
      BY TypeStep, CountStep DEF IInv
    <2>2. IInv /\ UNCHANGED vars => IInv'
      BY DEF vars, IInv, TypeOK, ClosedBelowThreshold, BudgetSpent, CountInv
    <2> QED
      BY <2>1, <2>2
  <1> QED
    BY <1>1, <1>2, PTL DEF Spec

\* Every variable keeps its type and every counter its bound.
THEOREM TypeCorrect == Spec => []TypeOK
  <1>1. IInv => TypeOK
    BY DEF IInv
  <1> QED
    BY <1>1, Invariance, PTL

\* A closed breaker has seen fewer than FailureThreshold failures in a row.
THEOREM ClosedIsHealthy == Spec => []ClosedBelowThreshold
  <1>1. IInv => ClosedBelowThreshold
    BY DEF IInv
  <1> QED
    BY <1>1, Invariance, PTL

\* A breaker that opened has spent FailureThreshold of its half-open budget.
THEOREM HalfOpenBudget == Spec => []BudgetSpent
  <1>1. IInv => BudgetSpent
    BY DEF IInv
  <1> QED
    BY <1>1, Invariance, PTL

\* With FailureThreshold >= MaxRequests, as in every configuration the code
\* builds, a half-open breaker admits no call beyond the one that made it so.
THEOREM OneTestOnly ==
    ASSUME FailureThreshold >= MaxRequests
    PROVE  Spec => [](state = "half_open" => total >= MaxRequests)
  <1>1. IInv => (state = "half_open" => total >= MaxRequests)
    BY ThresholdsAssumption DEF IInv, TypeOK, BudgetSpent
  <1> QED
    BY <1>1, Invariance, PTL

=============================================================================
