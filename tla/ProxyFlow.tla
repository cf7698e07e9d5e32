----------------------------- MODULE ProxyFlow -----------------------------
(***************************************************************************)
(* internal/usecase/proxy_service.go: HandleProxyRequest for one artifact  *)
(* over the cache manager behind CacheStrategyService, and the goroutine   *)
(* that stores the answer after it was returned.                           *)
(*                                                                         *)
(* A version of the artifact is a number; the upstream publishes them in   *)
(* order.  The use case is written against the port ports.CacheManager,    *)
(* and the container wires only a stub that stores nothing to it.  Here    *)
(* the port keeps the contract of a cache: a look-up sees the last store,  *)
(* a removal or a miss.                                                    *)
(***************************************************************************)
EXTENDS Naturals

CONSTANTS Requests, MaxVersion

ASSUME FlowAssumption == MaxVersion \in Nat \ {0}

VARIABLES
    upstream,   \* the version the upstream serves
    cached,     \* the version in the cache, 0 is none
    request,    \* request[r]: where r is
    body,       \* body[r]: the version r was sent or answered with, 0 is none
    purgedAt,   \* what the upstream served at the last Invalidate
    inFlight    \* versions that requests were reading or about to store when it happened

flowVars == <<upstream, cached, request, body, purgedAt, inFlight>>

FlowTypeOK ==
    /\ upstream \in 1..MaxVersion /\ cached \in 0..MaxVersion
    /\ request \in [Requests -> {"idle", "lookup", "fetch", "reading", "store"}]
    /\ body \in [Requests -> 0..MaxVersion]
    /\ purgedAt \in 0..MaxVersion /\ inFlight \subseteq 0..MaxVersion

FlowInit ==
    /\ upstream = 1 /\ cached = 0
    /\ request = [r \in Requests |-> "idle"] /\ body = [r \in Requests |-> 0]
    /\ purgedAt = 0 /\ inFlight = {}

GoTo(r, pc) == request' = [request EXCEPT ![r] = pc]

\* authenticateAndAuthorize and checkRateLimit pass; when one does not, 401 or 429 is the answer.
Arrive(r) ==
    /\ request[r] = "idle"
    /\ \/ GoTo(r, "lookup")
       \/ UNCHANGED request
    /\ body' = [body EXCEPT ![r] = 0]
    /\ UNCHANGED <<upstream, cached, purgedAt, inFlight>>

Hit(r) ==
    /\ request[r] = "lookup" /\ cached # 0
    /\ GoTo(r, "idle") /\ body' = [body EXCEPT ![r] = cached]
    /\ UNCHANGED <<upstream, cached, purgedAt, inFlight>>

\* Nothing is cached, or the look-up fails, which is only logged.
Miss(r) ==
    /\ request[r] = "lookup"
    /\ GoTo(r, "fetch")
    /\ UNCHANGED <<upstream, cached, body, purgedAt, inFlight>>

\* packageManager.GetPackage returns: the upstream sends the version it has, still to be read.
GetPackage(r) ==
    /\ request[r] = "fetch"
    /\ GoTo(r, "reading") /\ body' = [body EXCEPT ![r] = upstream]
    /\ UNCHANGED <<upstream, cached, purgedAt, inFlight>>

\* All of it is read, the answer goes out, and a goroutine is left to store it.
FetchUpstream(r) ==
    /\ request[r] = "reading"
    /\ GoTo(r, "store")
    /\ UNCHANGED <<upstream, cached, body, purgedAt, inFlight>>

\* The request or the reading fails: 502 is the answer.
FetchFails(r) ==
    /\ request[r] \in {"fetch", "reading"}
    /\ GoTo(r, "idle") /\ body' = [body EXCEPT ![r] = 0]
    /\ UNCHANGED <<upstream, cached, purgedAt, inFlight>>

cacheUpstreamResponse(r) ==
    /\ request[r] = "store"
    /\ GoTo(r, "idle") /\ cached' = body[r]
    /\ UNCHANGED <<upstream, body, purgedAt, inFlight>>

\* The strategy decides not to cache, or the store fails, which is only logged.
NotStored(r) ==
    /\ request[r] = "store"
    /\ GoTo(r, "idle")
    /\ UNCHANGED <<upstream, cached, body, purgedAt, inFlight>>

Publish ==
    /\ upstream < MaxVersion /\ upstream' = upstream + 1
    /\ UNCHANGED <<cached, request, body, purgedAt, inFlight>>

\* The versions of requests that were answered by the upstream and have not stored yet.
UnderWay == {body[r] : r \in {q \in Requests : request[q] \in {"reading", "store"}}}

\* Mutant: the error of the cache manager is dropped.
InvalidateUnchecked ==
    /\ cached' \in {0, cached} /\ purgedAt' = upstream
    /\ inFlight' = UnderWay
    /\ UNCHANGED <<upstream, request, body>>

\* CacheStrategyService.Invalidate, when it reports no error.
Invalidate ==
    /\ cached' = 0 /\ purgedAt' = upstream
    /\ inFlight' = UnderWay
    /\ UNCHANGED <<upstream, request, body>>

\* The entry expires or is evicted.
Drop ==
    /\ cached # 0 /\ cached' = 0
    /\ UNCHANGED <<upstream, request, body, purgedAt, inFlight>>

FlowNext ==
    \/ \E r \in Requests :
          \/ Arrive(r) \/ Hit(r) \/ Miss(r) \/ GetPackage(r) \/ FetchUpstream(r)
          \/ FetchFails(r) \/ cacheUpstreamResponse(r) \/ NotStored(r)
    \/ Publish \/ Invalidate \/ Drop

FlowSpec == FlowInit /\ [][FlowNext]_flowVars

----------------------------------------------------------------------------
(* Properties *)

\* After Invalidate the cache holds a version older than the upstream had then only if a
\* request had been sent that version and had not stored it yet: all the other requests in
\* progress, those that still wait for the upstream and hits included, cannot bring it back.
StaleOnlyFromFlight == (cached # 0 /\ cached < purgedAt) => cached \in inFlight

=============================================================================
