------------------------------ MODULE WorkQueue ------------------------------
(***************************************************************************)
(* The rate-limited workqueue of one controller pipeline, as its worker    *)
(* uses it (internal/simulator/event_controller.go, error_policy.go).      *)
(* Each queue holds a single key: a pass is wanted, or it is not.          *)
(***************************************************************************)
EXTENDS Integers

CONSTANT MaxControllerQueueRetries   \* maxControllerQueueRetries (8)

VARIABLES
    events,     \* informers: kinds of objects with an event not yet delivered
    queued,     \* the key is waiting, or dirty while it is processed
    backoff,    \* AddRateLimited has scheduled the key
    requeues    \* NumRequeues of the key

queueVars == <<events, queued, backoff, requeues>>

ASSUME WorkQueueAssumption == MaxControllerQueueRetries \in Nat

QueueTypeOK(kinds) ==
    /\ events \subseteq kinds
    /\ queued \in BOOLEAN
    /\ backoff \in BOOLEAN
    /\ requeues \in 0..MaxControllerQueueRetries

\* Run enqueues the key once the informer caches are synced.
QueueInit ==
    /\ events = {}
    /\ queued = TRUE
    /\ backoff = FALSE
    /\ requeues = 0

\* A changed object will reach the informer of its kind.
Notify(kind) ==
    /\ events' = events \union {kind}
    /\ UNCHANGED <<queued, backoff, requeues>>

\* addQueueEventHandler: every add, update and delete enqueues the key.
Enqueue(kind) ==
    /\ kind \in events
    /\ events' = events \ {kind}
    /\ queued' = TRUE
    /\ UNCHANGED <<backoff, requeues>>

\* The delay of AddRateLimited is over and the key is added.
AddDelayed ==
    /\ backoff
    /\ backoff' = FALSE
    /\ queued' = TRUE
    /\ UNCHANGED <<events, requeues>>

\* queue.Get hands the key to the worker.
Take ==
    /\ queued
    /\ queued' = FALSE
    /\ UNCHANGED <<events, backoff, requeues>>

\* The pass returned nil: queue.Forget.
Forget ==
    /\ requeues' = 0
    /\ UNCHANGED <<events, queued, backoff>>

\* The pass returned an error: classifyControllerError retries with a delay or
\* gives up.  The events of the failing step are left to the caller.
HandleError(kind) ==
    /\ IF kind = "terminal" \/ requeues >= MaxControllerQueueRetries
       THEN requeues' = 0 /\ UNCHANGED backoff
       ELSE requeues' = requeues + 1 /\ backoff' = TRUE
    /\ UNCHANGED queued

\* A new process syncs its caches and enqueues the key.
QueueRestart ==
    /\ events' = {}
    /\ queued' = TRUE
    /\ backoff' = FALSE
    /\ requeues' = 0
=============================================================================
