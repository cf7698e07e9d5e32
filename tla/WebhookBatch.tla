---------------------------- MODULE WebhookBatch ----------------------------
(***************************************************************************)
(* internal/webhook/batch_manager.go: events gathered in groups, the       *)
(* bounded channel of flush requests, the flush worker, the periodic       *)
(* flush, and Stop, which flushes what is left.                            *)
(*                                                                         *)
(* flushGroup takes a group out of the map under bm.mu and sends it after  *)
(* that; the send ends at the latest after its 60 s timeout.               *)
(***************************************************************************)
EXTENDS Naturals, Sequences, FiniteSets

CONSTANTS Events,
          Groups,       \* group keys
          GroupOf,      \* generateGroupKey
          MaxSize,      \* WebhookBatchingConfig.MaxSize
          FlushCap      \* capacity of flushCh (100 in the code)

ASSUME BatchAssumption ==
    /\ GroupOf \in [Events -> Groups] /\ MaxSize \in Nat \ {0} /\ FlushCap \in Nat \ {0}

VARIABLES
    batch,     \* batch[g]: the events of bm.groups[g], {} when there is none
    old,       \* groups that have waited MaxWaitTime
    flushCh,   \* requested flushes, oldest first
    sending,   \* sending[x]: the batch that the flush worker or Stop sends
    due,       \* expired groups for which the periodic flush has still to ask
    alive,     \* the goroutines that run
    left,      \* groups that Stop's flushAll has still to flush
    manager,   \* "running", "cancelled" (the context of Start), "stopping" or "stopped"
    fate,      \* fate[e]: "new", "batched" or "over"
    times,     \* times[e]: batches sent with e, at most 2
    after      \* events added after Stop was called

batchVars == <<batch, old, flushCh, sending, due, alive, left, manager, fate, times, after>>

Flushers == {"worker", "stop"}

BatchInit ==
    /\ batch = [g \in Groups |-> {}] /\ old = {} /\ flushCh = <<>>
    /\ sending = [x \in Flushers |-> {}] /\ manager = "running"
    /\ due = {} /\ alive = {"worker", "ticker"} /\ left = {}
    /\ fate = [e \in Events |-> "new"] /\ times = [e \in Events |-> 0] /\ after = {}

\* The non-blocking send on flushCh: a request that does not fit is dropped.
Request(g) == flushCh' = IF Len(flushCh) < FlushCap THEN Append(flushCh, g) ELSE flushCh

AddEvent(e) ==
    LET g == GroupOf[e] IN
    /\ fate[e] = "new" /\ fate' = [fate EXCEPT ![e] = "batched"]
    /\ batch' = [batch EXCEPT ![g] = @ \cup {e}]
    /\ IF Cardinality(batch'[g]) >= MaxSize \/ g \in old THEN Request(g) ELSE UNCHANGED flushCh
    /\ after' = IF manager \in {"running", "cancelled"} THEN after ELSE after \cup {e}
    /\ UNCHANGED <<old, sending, due, alive, left, manager, times>>

Wait(g) ==
    /\ batch[g] # {} /\ g \notin old /\ old' = old \cup {g}
    /\ UNCHANGED <<batch, flushCh, sending, due, alive, left, manager, fate, times, after>>

\* The groups are listed under the read lock; the requests go out without it.
flushExpiredGroups ==
    /\ "ticker" \in alive /\ due = {} /\ due' = old
    /\ UNCHANGED <<batch, old, flushCh, sending, alive, left, manager, fate, times, after>>

RequestDue(g) ==
    /\ g \in due /\ due' = due \ {g}
    /\ Request(g)
    /\ UNCHANGED <<batch, old, sending, alive, left, manager, fate, times, after>>

----------------------------------------------------------------------------
(* flushGroup *)

Sends(x, g) ==
    /\ sending' = [sending EXCEPT ![x] = batch[g]]
    /\ times' = [e \in Events |-> IF e \in batch[g] /\ times[e] < 2 THEN times[e] + 1 ELSE times[e]]

\* Mutant: the group stays in the map while it is sent.
TakeKept(x, g) ==
    /\ Sends(x, g)
    /\ UNCHANGED <<batch, old>>

\* The group leaves the map, or there is none and nothing happens.
TakeGroup(x, g) ==
    /\ Sends(x, g)
    /\ batch' = [batch EXCEPT ![g] = {}] /\ old' = old \ {g}

\* Mutant: a worker that finds no group to flush ends.
FlushOrEnd ==
    /\ "worker" \in alive /\ sending["worker"] = {} /\ flushCh # <<>>
    /\ batch[Head(flushCh)] # {}
    /\ flushCh' = Tail(flushCh)
    /\ TakeGroup("worker", Head(flushCh))
    /\ UNCHANGED <<due, alive, left, manager, fate, after>>

\* flushWorker; after Stop or a cancel its select takes a waiting request or ends.
FlushNext ==
    /\ "worker" \in alive /\ sending["worker"] = {} /\ flushCh # <<>>
    /\ flushCh' = Tail(flushCh)
    /\ TakeGroup("worker", Head(flushCh))
    /\ UNCHANGED <<due, alive, left, manager, fate, after>>

\* The batch was delivered, or it failed and was logged or handed event by event to SendEvent:
\* either way the manager keeps none of it.
BatchEnds(x) ==
    /\ sending[x] # {}
    /\ fate' = [e \in Events |-> IF e \in sending[x] THEN "over" ELSE fate[e]]
    /\ sending' = [sending EXCEPT ![x] = {}]
    /\ UNCHANGED <<batch, old, flushCh, due, alive, left, manager, times, after>>

----------------------------------------------------------------------------
(* Stop *)

\* Mutant: only the groups that have waited long enough are flushed.
StopExpired ==
    /\ manager \in {"running", "cancelled"} /\ manager' = "stopping"
    /\ left' = old
    /\ UNCHANGED <<batch, old, flushCh, sending, due, alive, fate, times, after>>

StopBatches ==
    /\ manager \in {"running", "cancelled"} /\ manager' = "stopping"
    /\ left' = {g \in Groups : batch[g] # {}}
    /\ UNCHANGED <<batch, old, flushCh, sending, due, alive, fate, times, after>>

FlushLeft(g) ==
    /\ manager = "stopping" /\ g \in left /\ sending["stop"] = {}
    /\ left' = left \ {g}
    /\ TakeGroup("stop", g)
    /\ UNCHANGED <<flushCh, due, alive, manager, fate, after>>

\* The context that Start was given is cancelled; after Stop that makes no difference.
CancelBatches ==
    /\ manager = "running" /\ manager' = "cancelled"
    /\ UNCHANGED <<batch, old, flushCh, sending, due, alive, left, fate, times, after>>

Ends(x) ==
    /\ manager # "running" /\ alive' = alive \ {x}
    /\ x = "worker" => sending[x] = {}
    /\ x = "ticker" => due = {}
    /\ UNCHANGED <<batch, old, flushCh, sending, due, left, manager, fate, times, after>>

BatchesStopped ==
    /\ manager = "stopping" /\ left = {} /\ sending["stop"] = {}
    /\ manager' = "stopped"
    /\ UNCHANGED <<batch, old, flushCh, sending, due, alive, left, fate, times, after>>

BatchNext ==
    \/ \E e \in Events : AddEvent(e)
    \/ \E g \in Groups : Wait(g) \/ RequestDue(g) \/ FlushLeft(g)
    \/ flushExpiredGroups \/ FlushNext \/ \E x \in {"worker", "ticker"} : Ends(x)
    \/ \E x \in Flushers : BatchEnds(x)
    \/ CancelBatches \/ StopBatches \/ BatchesStopped

\* The ticker and the worker keep running until they are stopped, time passes, and every send ends.
BatchFairness ==
    /\ WF_batchVars(flushExpiredGroups) /\ WF_batchVars(FlushNext) /\ WF_batchVars(BatchesStopped)
    /\ \A x \in Flushers : WF_batchVars(BatchEnds(x))
    /\ \A g \in Groups : WF_batchVars(Wait(g)) /\ WF_batchVars(RequestDue(g)) /\ WF_batchVars(FlushLeft(g))

BatchSpec == BatchInit /\ [][BatchNext]_batchVars /\ BatchFairness

----------------------------------------------------------------------------
(* Properties *)

\* No event is sent in two batches, whoever flushes its group and however often that was asked.
BatchedOnce == \A e \in Events : times[e] <= 1

\* An event in a group gets sent, also when its flush request found the channel full, unless
\* the manager is stopped or its context is cancelled.
BatchedEventLeaves ==
    \A e \in Events :
       fate[e] = "batched" ~> (fate[e] # "batched" \/ manager \in {"cancelled", "stopped"})

\* Once Stop has returned, only an event added after its call can be left in a group (and then
\* stays there, since nothing flushes any more).
StopFlushes ==
    manager = "stopped" => \A g \in Groups : batch[g] \subseteq after

=============================================================================
