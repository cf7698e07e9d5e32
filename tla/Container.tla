----------------------------- MODULE Container -----------------------------
(***************************************************************************)
(* internal/app/container.go: the getters that create each shared instance *)
(* on first use, under the one lock c.mu.                                  *)
(*                                                                         *)
(* c.mu is a sync.RWMutex, which the goroutine that holds it cannot take   *)
(* again.  A read lock is only ever held for one look-up, so it is a step  *)
(* that needs the lock to be free; a write lock is held until the getter   *)
(* returns, across the getters it calls itself.                            *)
(***************************************************************************)
EXTENDS Naturals, Sequences

CONSTANTS Callers,    \* goroutines that ask the container for instances
          Asked,      \* the getters they call
          Nobody      \* c.mu is free

\* The getters that each getter calls before it can create its instance, in order.
Needs == [GetCacheRepository      |-> <<>>,
          GetConfigRepository     |-> <<>>,
          GetUpstreamClient       |-> <<>>,
          GetHandlerAdapterFactory |-> <<>>,
          GetAptProxyConfig       |-> <<>>,
          ProvideConfigLoader     |-> <<>>,
          GetRootConfig           |-> <<"ProvideConfigLoader">>,
          GetCacheService         |-> <<"GetCacheRepository">>,
          GetConfigService        |-> <<"GetConfigRepository">>,
          GetServiceFactory       |-> <<"GetCacheService", "GetConfigService", "GetUpstreamClient">>,
          GetHandlerFactory       |-> <<"GetServiceFactory">>,
          ProvideConfigWatcher    |-> <<"ProvideConfigLoader">>,
          ProvideHotReloadManager |-> <<"ProvideConfigLoader">>]
Getters == DOMAIN Needs
\* These look under the read lock first, and again under the write lock.
DoubleChecked == {"GetAptProxyConfig", "ProvideConfigLoader", "ProvideConfigWatcher", "ProvideHotReloadManager"}
\* This one keeps no instance and takes no lock.
Unguarded == {"GetRootConfig"}
\* These have nothing that can fail; GetAptProxyConfig stands for its six siblings as well.
Unfailing == {"GetUpstreamClient", "GetHandlerAdapterFactory", "GetAptProxyConfig"}

ASSUME ContainerAssumption == Asked \subseteq Getters /\ Nobody \notin Callers

VARIABLES
    cmu,       \* the caller that holds c.mu for writing, or Nobody
    present,   \* getters whose instance exists
    created,   \* created[p]: instances of p made since the container was last empty, at most 2
    stack      \* stack[t]: the getters t is in, innermost first, and where in each it is

containerVars == <<cmu, present, created, stack>>

Entry(p) == [getter |-> p, done |-> 0,
             pc |-> CASE p \in DoubleChecked -> "look" [] p \in Unguarded -> "held" [] OTHER -> "lock"]

ContainerInit ==
    /\ cmu = Nobody /\ present = {} /\ created = [p \in Getters |-> 0]
    /\ stack = [t \in Callers |-> <<>>]

In(t, pc) == stack[t] # <<>> /\ Head(stack[t]).pc = pc
Top(t) == Head(stack[t]).getter
Move(t, pc) == stack' = [stack EXCEPT ![t] = <<[Head(@) EXCEPT !.pc = pc]>> \o Tail(@)]

Ask(t, p) ==
    /\ stack[t] = <<>>
    /\ stack' = [stack EXCEPT ![t] = <<Entry(p)>>]
    /\ UNCHANGED <<cmu, present, created>>

\* A getter that one more of the getters it needs has come back to.
Served(f) == [f EXCEPT !.done = @ + 1]

\* The innermost getter returns; its deferred Unlock frees the lock if it had taken it.
Back(t) ==
    /\ stack' = [stack EXCEPT ![t] =
           IF Len(@) = 1 THEN <<>> ELSE <<Served(@[2])>> \o Tail(Tail(@))]
    /\ cmu' = IF In(t, "held") /\ Top(t) \notin Unguarded THEN Nobody ELSE cmu

Look(t) ==
    /\ In(t, "look") /\ cmu = Nobody
    /\ IF Top(t) \in present THEN Back(t) ELSE Move(t, "lock") /\ UNCHANGED cmu
    /\ UNCHANGED <<present, created>>

LockContainer(t) ==
    /\ In(t, "lock") /\ cmu = Nobody
    /\ cmu' = t /\ Move(t, "held")
    /\ UNCHANGED <<present, created>>

Found(t) ==
    /\ In(t, "held") /\ Top(t) \in present
    /\ Back(t)
    /\ UNCHANGED <<present, created>>

\* The next getter that this one needs is called, with c.mu still held.
Descend(t) ==
    LET f == Head(stack[t]) IN
    /\ In(t, "held") /\ Top(t) \notin present /\ f.done < Len(Needs[f.getter])
    /\ stack' = [stack EXCEPT ![t] = <<Entry(Needs[f.getter][f.done + 1])>> \o @]
    /\ UNCHANGED <<cmu, present, created>>

Ready(t) == In(t, "held") /\ Head(stack[t]).done = Len(Needs[Top(t)])

Made(n) == IF n < 2 THEN n + 1 ELSE n

\* Mutant: no second look under the write lock.
CreateUnchecked(t) ==
    /\ Ready(t)
    /\ present' = present \cup {Top(t)}
    /\ created' = [created EXCEPT ![Top(t)] = Made(@)]
    /\ Back(t)

Create(t) ==
    /\ Ready(t) /\ Top(t) \notin present
    /\ IF Top(t) \in Unguarded THEN UNCHANGED <<present, created>>
       ELSE /\ present' = present \cup {Top(t)}
            /\ created' = [created EXCEPT ![Top(t)] = Made(@)]
    /\ Back(t)

\* Mutant: the error path returns without Unlock.
CreateFailsLocked(t) ==
    /\ Ready(t) /\ Top(t) \notin present \cup Unfailing
    /\ stack' = [stack EXCEPT ![t] = <<>>]
    /\ UNCHANGED <<cmu, present, created>>

\* The constructor fails: every getter on the stack returns the error.
CreateFails(t) ==
    /\ Ready(t) /\ Top(t) \notin present \cup Unfailing
    /\ stack' = [stack EXCEPT ![t] = <<>>]
    /\ cmu' = IF cmu = t THEN Nobody ELSE cmu
    /\ UNCHANGED <<present, created>>

CloseContainer ==
    /\ cmu = Nobody
    /\ present' = {} /\ created' = [p \in Getters |-> 0]
    /\ UNCHANGED <<cmu, stack>>

GetterStep(t) ==
    Look(t) \/ LockContainer(t) \/ Found(t) \/ Descend(t) \/ Create(t) \/ CreateFails(t)

ContainerNext ==
    \/ \E t \in Callers : GetterStep(t) \/ \E p \in Asked : Ask(t, p)
    \/ CloseContainer

\* Goroutines run on, and a goroutine that waits for the lock gets it in the end.
ContainerFairness == \A t \in Callers : SF_containerVars(GetterStep(t))

ContainerSpec == ContainerInit /\ [][ContainerNext]_containerVars /\ ContainerFairness

----------------------------------------------------------------------------
(* Properties *)

\* Callers that race for an instance share one: none is created twice before Close.
InstanceShared == \A p \in Getters : created[p] <= 1

\* Every getter in Asked returns: its caller never waits for ever for c.mu.  It holds of the
\* getters that call no other one while they have c.mu; WatchingStarts shows what the rest do.
GetterReturns == \A t \in Callers : stack[t] # <<>> ~> stack[t] = <<>>

\* "File watching is started lazily via ProvideConfigWatcher() when first accessed"
\* (container.go:70): the first call that is not refused leaves a watcher behind.
WatchingStarts ==
    \A t \in Callers :
       (stack[t] # <<>> /\ stack[t][Len(stack[t])].getter = "ProvideConfigWatcher")
          ~> (stack[t] = <<>> \/ "ProvideConfigWatcher" \in present)

=============================================================================
