--------------------------- MODULE CircuitBreaker ---------------------------
(***************************************************************************)
(* internal/health/circuit_breaker.go (CircuitBreaker) under the upstream  *)
(* checks that run through it (ProxyHealthChecker.checkHTTPUpstream and    *)
(* ExternalServiceChecker.Check).                                          *)
(*                                                                         *)
(* cb.mutex makes allow, recordSuccess, recordFailure and Reset one step   *)
(* each; the request itself runs between allow and record without a lock,  *)
(* so a result may be recorded in another state than the one its call was  *)
(* admitted in.  The counters are compared with >= and < only, so each one *)
(* stops at the value beyond which the comparison cannot change.  The      *)
(* metrics that are only reported (SuccessfulRequests, FailedRequests,     *)
(* RejectedRequests, StateChanges) are left out.                           *)
(***************************************************************************)
EXTENDS Naturals

CONSTANTS Callers,           \* goroutines that run checks
          FailureThreshold,  \* consecutive failures that open the breaker
          SuccessThreshold,  \* consecutive successes that close it again
          MaxRequests        \* CircuitBreakerConfig.MaxRequests

ASSUME ThresholdsAssumption ==
    /\ FailureThreshold \in Nat \ {0}
    /\ SuccessThreshold \in Nat \ {0}
    /\ MaxRequests \in Nat \ {0}

VARIABLES
    state,      \* cb.state
    expired,    \* stateExpiry lies in the past; meaningful while open
    total,      \* TotalRequests, up to MaxRequests
    failures,   \* ConsecutiveFailures, up to FailureThreshold
    successes,  \* ConsecutiveSuccesses, up to SuccessThreshold
    call,       \* call[p]: whether p is inside the guarded request
    check,      \* check[p]: p's last check, was it rejected and its status
    upstream    \* whether the upstream answers as expected

vars == <<state, expired, total, failures, successes, call, check, upstream>>

Bump(n, cap) == IF n < cap THEN n + 1 ELSE n

Init ==
    /\ state = "closed"
    /\ expired = FALSE
    /\ total = 0 /\ failures = 0 /\ successes = 0
    /\ call = [p \in Callers |-> "idle"]
    /\ check = [p \in Callers |-> [rejected |-> FALSE, status |-> "healthy"]]
    /\ upstream \in {"up", "down"}

----------------------------------------------------------------------------
(* Execute: allow, the request, and the record of its outcome *)

Admit(p) == call' = [call EXCEPT ![p] = "running"] /\ UNCHANGED check

AllowClosed(p) ==
    /\ call[p] = "idle" /\ state = "closed"
    /\ Admit(p)
    /\ UNCHANGED <<state, expired, total, failures, successes, upstream>>

\* Mutant: the state spelled as in the connection pool's breaker.
AllowTestMisnamed(p) ==
    /\ call[p] = "idle" /\ state = "open" /\ expired
    /\ state' = "half-open" /\ expired' = FALSE
    /\ Admit(p)
    /\ UNCHANGED <<total, failures, successes, upstream>>

\* Mutant: the request limit applied to the first test as well.
AllowTestLimited(p) ==
    /\ call[p] = "idle" /\ state = "open" /\ expired /\ total < MaxRequests
    /\ state' = "half_open" /\ expired' = FALSE
    /\ Admit(p)
    /\ UNCHANGED <<total, failures, successes, upstream>>

\* The first call after the timeout turns the breaker half-open.
AllowTest(p) ==
    /\ call[p] = "idle" /\ state = "open" /\ expired
    /\ state' = "half_open" /\ expired' = FALSE
    /\ Admit(p)
    /\ UNCHANGED <<total, failures, successes, upstream>>

\* TotalRequests counts every request since the last Reset.
AllowHalfOpen(p) ==
    /\ call[p] = "idle" /\ state = "half_open" /\ total < MaxRequests
    /\ Admit(p)
    /\ UNCHANGED <<state, expired, total, failures, successes, upstream>>

\* Execute reports a rejection by a new fmt.Errorf that wraps nothing.
RejectionError == "errorf"

IsCircuitBreakerError(err) == err = "ErrCircuitBreakerOpen"

\* The statuses a check may derive from the error of Execute; an upstream that
\* answers slowly is degraded.
Statuses(err) ==
    IF err = "nil" THEN {"healthy", "degraded"}
    ELSE IF IsCircuitBreakerError(err) THEN {"degraded"} ELSE {"unhealthy"}

Report(p, isRejected, err) ==
    \E s \in Statuses(err) :
        check' = [check EXCEPT ![p] = [rejected |-> isRejected, status |-> s]]

Reject(p) ==
    /\ call[p] = "idle"
    /\ \/ state = "open" /\ ~expired
       \/ state = "half_open" /\ total >= MaxRequests
    /\ Report(p, TRUE, RejectionError)
    /\ UNCHANGED <<state, expired, total, failures, successes, call, upstream>>

\* Mutant: only successful requests are counted.
RecordUncounted(p, err) ==
    /\ call[p] = "running"
    /\ call' = [call EXCEPT ![p] = "idle"]
    /\ Report(p, FALSE, err)
    /\ total' = IF err = "nil" THEN Bump(total, MaxRequests) ELSE total
    /\ UNCHANGED upstream

Record(p, err) ==
    /\ call[p] = "running"
    /\ call' = [call EXCEPT ![p] = "idle"]
    /\ Report(p, FALSE, err)
    /\ total' = Bump(total, MaxRequests)
    /\ UNCHANGED upstream

RecordSuccess(p) ==
    /\ upstream = "up" /\ Record(p, "nil")
    /\ LET n == Bump(successes, SuccessThreshold) IN
       \/ /\ state = "half_open" /\ n >= SuccessThreshold
          /\ state' = "closed"
          /\ successes' = 0
       \/ /\ state # "half_open" \/ n < SuccessThreshold
          /\ successes' = n
          /\ UNCHANGED state
    /\ failures' = 0
    /\ UNCHANGED expired

RecordFailure(p) ==
    /\ upstream = "down" /\ Record(p, "failed")
    /\ failures' = Bump(failures, FailureThreshold)
    /\ successes' = 0
    /\ \/ /\ state # "open" /\ failures' >= FailureThreshold
          /\ state' = "open" /\ expired' = FALSE
       \/ /\ state = "open" \/ failures' < FailureThreshold
          /\ UNCHANGED <<state, expired>>

----------------------------------------------------------------------------

\* Mutant: a reset that forgets the consecutive failures.
ResetStateOnly ==
    /\ state' = "closed" /\ expired' = FALSE
    /\ total' = 0 /\ successes' = 0
    /\ UNCHANGED <<failures, call, check, upstream>>

Reset ==
    /\ state' = "closed" /\ expired' = FALSE
    /\ total' = 0 /\ failures' = 0 /\ successes' = 0
    /\ UNCHANGED <<call, check, upstream>>

\* The open timeout passes.
Expire ==
    /\ state = "open" /\ ~expired
    /\ expired' = TRUE
    /\ UNCHANGED <<state, total, failures, successes, call, check, upstream>>

Upstream ==
    /\ upstream' = IF upstream = "up" THEN "down" ELSE "up"
    /\ UNCHANGED <<state, expired, total, failures, successes, call, check>>

Check(p) == AllowClosed(p) \/ AllowTest(p) \/ AllowHalfOpen(p) \/ Reject(p)

Return(p) == RecordSuccess(p) \/ RecordFailure(p)

Next ==
    \/ \E p \in Callers : Check(p) \/ Return(p)
    \/ Reset
    \/ Expire
    \/ Upstream

Spec == Init /\ [][Next]_vars

\* Requests end (their client has a timeout), time passes, and the periodic
\* health checks keep coming.
Fairness ==
    /\ \A p \in Callers : WF_vars(Check(p)) /\ WF_vars(Return(p))
    /\ WF_vars(Expire)

FairSpec == Spec /\ Fairness

----------------------------------------------------------------------------
(* Properties *)

\* Every variable has its type and no counter passes the value it is compared
\* with (the fields of CircuitBreaker and CircuitBreakerMetrics).
TypeOK ==
    /\ state \in {"closed", "open", "half_open"}
    /\ expired \in BOOLEAN
    /\ total \in 0..MaxRequests
    /\ failures \in 0..FailureThreshold
    /\ successes \in 0..SuccessThreshold
    /\ call \in [Callers -> {"idle", "running"}]
    /\ check \in [Callers -> [rejected : BOOLEAN,
                              status : {"healthy", "degraded", "unhealthy"}]]
    /\ upstream \in {"up", "down"}

\* A closed breaker has seen fewer than FailureThreshold failures in a row,
\* late results of calls admitted before it opened, and resets, included.
ClosedBelowThreshold == state = "closed" => failures < FailureThreshold

\* A breaker that has opened has spent at least FailureThreshold of the
\* MaxRequests that allow grants to half-open: TotalRequests is not restarted, so
\* where FailureThreshold >= MaxRequests (every configuration in the code) no
\* call but the first test is ever admitted.
BudgetSpent == state # "closed" => total >= FailureThreshold \/ total = MaxRequests

\* An open breaker does not stay open: the first check after the timeout turns
\* it half-open (allow), whatever results still come in.
OpenEnds == state = "open" ~> state # "open"

\* Once the upstream answers again for good, the breaker closes again
\* (docs/70-operations/health/README.md:473, "Automatic recovery with timeout").
BreakerRecovers == <>[](upstream = "up") => []<>(state = "closed")

\* A check the breaker rejects is reported as degraded
\* (docs/70-operations/health/README.md:474, graceful degradation to "degraded").
RejectionDegrades == \A p \in Callers : check[p].rejected => check[p].status = "degraded"

=============================================================================
