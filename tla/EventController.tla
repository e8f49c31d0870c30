---------------------------- MODULE EventController ----------------------------
(***************************************************************************)
(* eventController (internal/simulator/event_controller.go): Run, the      *)
(* informers' event handlers and the two workers, with the workqueues as   *)
(* client-go implements them and the metrics that are stored beside them.  *)
(*                                                                         *)
(* enqueue, and the bookkeeping around a pass, are several atomic steps:   *)
(* queue.Add, queue.Len and the store of the QueueDepth gauge interleave   *)
(* with the other goroutines.  A pass (syncFn) is one step here; what it   *)
(* does is the subject of ClaimAllocation and PoolSync, whose WorkQueue    *)
(* is shown to be an abstraction of the queues of this module.             *)
(***************************************************************************)
EXTENDS Integers, FiniteSets

CONSTANTS
    Pipelines,                  \* pool and allocation: one queue, one worker
    Handlers,                   \* registered informer event handlers
    Feeds,                      \* the pipeline each handler enqueues for
    MaxControllerQueueRetries,  \* maxControllerQueueRetries (8)
    ErrorKinds,                 \* kinds of errors a pass may return
    MaxEvents,                  \* bound: events the informers deliver
    MaxErrors                   \* bound: passes that fail

VARIABLES
    cancelled,  \* ctx is done
    run,        \* Run: its next step
    toEnqueue,  \* Run: the pipelines still to be enqueued initially
    stored,     \* shutDownQueues: the gauges still to be reset
    shut,       \* queues that are shutting down
    dirty,      \* queue: the key is marked for processing
    processing, \* queue: the key is being processed
    delayed,    \* queue: AddRateLimited waits to add the key
    requeues,   \* rate limiter: NumRequeues
    pending,    \* informers: the handler has an event to deliver
    hpc,        \* handlers: the next step of enqueue
    hlen,       \* handlers: the queue length just read
    wpc,        \* workers: the next step of processQueueItem
    wlen,       \* workers: the queue length just read
    inFlight,   \* PipelineMetrics.InFlight
    depth,      \* PipelineMetrics.QueueDepth
    stale,      \* an event no successful pass has started after
    errors,     \* ReconcileErrorsCount
    retries,    \* ReconcileRetriesCount
    terminals,  \* TerminalErrorsCount
    happened    \* events so far

queueVars == <<shut, dirty, processing, delayed, requeues>>
handlerVars == <<pending, hpc, hlen, happened>>
workerVars == <<wpc, wlen, inFlight>>
runVars == <<cancelled, run, toEnqueue, stored>>
countVars == <<errors, retries, terminals>>
vars == <<queueVars, handlerVars, workerVars, runVars, countVars, depth, stale>>

ASSUME EventControllerAssumption ==
    /\ IsFiniteSet(Pipelines) /\ Pipelines # {}
    /\ Feeds \in [Handlers -> Pipelines]
    /\ MaxControllerQueueRetries \in Nat
    /\ ErrorKinds \subseteq {"transient", "terminal"}
    /\ MaxEvents \in Nat
    /\ MaxErrors \in Nat

TypeOK ==
    /\ cancelled \in BOOLEAN
    /\ run \in {"sync", "enqueue", "wait", "shutdown", "join", "returned"}
    /\ toEnqueue \subseteq Pipelines
    /\ stored \subseteq Pipelines
    /\ shut \subseteq Pipelines
    /\ dirty \subseteq Pipelines
    /\ processing \subseteq Pipelines
    /\ delayed \subseteq Pipelines
    /\ requeues \in [Pipelines -> 0..MaxControllerQueueRetries]
    /\ pending \subseteq Handlers
    /\ hpc \in [Handlers -> {"idle", "len", "store"}]
    /\ hlen \in [Handlers -> 0..1]
    /\ wpc \in [Pipelines -> {"none", "get", "startLen", "startStore", "sync",
                              "done", "endLen", "endStore", "exit"}]
    /\ wlen \in [Pipelines -> 0..1]
    /\ inFlight \in [Pipelines -> 0..1]
    /\ depth \in [Pipelines -> 0..1]
    /\ stale \subseteq Pipelines
    /\ errors \in 0..MaxErrors
    /\ retries \in 0..MaxErrors
    /\ terminals \in 0..MaxErrors
    /\ happened \in 0..MaxEvents

Zero == [p \in Pipelines |-> 0]

\* newEventController has registered the handlers; Run begins.
Init ==
    /\ cancelled = FALSE
    /\ run = "sync"
    /\ toEnqueue = Pipelines
    /\ stored = {}
    /\ shut = {}
    /\ dirty = {}
    /\ processing = {}
    /\ delayed = {}
    /\ requeues = Zero
    /\ pending = {}
    /\ hpc = [h \in Handlers |-> "idle"]
    /\ hlen = [h \in Handlers |-> 0]
    /\ wpc = [p \in Pipelines |-> "none"]
    /\ wlen = Zero
    /\ inFlight = Zero
    /\ depth = Zero
    /\ stale = Pipelines
    /\ errors = 0
    /\ retries = 0
    /\ terminals = 0
    /\ happened = 0
-----------------------------------------------------------------------------
(* client-go's workqueue for a single key.                                 *)

\* queue.Len: the key waits.  A key that is added while it is processed is
\* only marked dirty.
Len(p) == IF p \in dirty /\ p \notin processing THEN 1 ELSE 0

Add(p) == dirty' = IF p \in shut THEN dirty ELSE dirty \union {p}

\* queue.Done; a dirty key waits again.
Done(p) == processing' = processing \ {p}

\* queue.AddRateLimited counts the requeue and starts a timer, unless the queue
\* is shutting down.
AddRateLimited(p) ==
    /\ requeues' = [requeues EXCEPT ![p] = @ + 1]
    /\ delayed' = IF p \in shut THEN delayed ELSE delayed \union {p}

ForgetKey(p) ==
    /\ requeues' = [requeues EXCEPT ![p] = 0]
    /\ UNCHANGED delayed

\* The timer fires.
DelayEnds(p) ==
    /\ p \in delayed
    /\ delayed' = delayed \ {p}
    /\ Add(p)
    /\ UNCHANGED <<shut, processing, requeues, handlerVars, workerVars,
                   runVars, countVars, depth, stale>>
-----------------------------------------------------------------------------
(* The informers' event handlers: enqueue, step by step.                   *)

\* The cluster changed; the handler's goroutine will be called.
Event(h) ==
    /\ happened < MaxEvents
    /\ happened' = happened + 1
    /\ pending' = pending \union {h}
    /\ stale' = stale \union {Feeds[h]}
    /\ UNCHANGED <<queueVars, hpc, hlen, workerVars, runVars, countVars, depth>>

\* Mutant of HandlerAdd: events during a pass are thought to be seen by it.
HandlerAddWhenIdle(h) ==
    /\ hpc[h] = "idle"
    /\ h \in pending
    /\ pending' = pending \ {h}
    /\ IF inFlight[Feeds[h]] = 0 THEN Add(Feeds[h]) ELSE UNCHANGED dirty
    /\ hpc' = [hpc EXCEPT ![h] = "len"]
    /\ UNCHANGED <<shut, processing, delayed, requeues, hlen, happened,
                   workerVars, runVars, countVars, depth, stale>>

HandlerAdd(h) ==
    /\ hpc[h] = "idle"
    /\ h \in pending
    /\ pending' = pending \ {h}
    /\ Add(Feeds[h])
    /\ hpc' = [hpc EXCEPT ![h] = "len"]
    /\ UNCHANGED <<shut, processing, delayed, requeues, hlen, happened,
                   workerVars, runVars, countVars, depth, stale>>

HandlerLen(h) ==
    /\ hpc[h] = "len"
    /\ hlen' = [hlen EXCEPT ![h] = Len(Feeds[h])]
    /\ hpc' = [hpc EXCEPT ![h] = "store"]
    /\ UNCHANGED <<queueVars, pending, happened, workerVars, runVars,
                   countVars, depth, stale>>

HandlerStore(h) ==
    /\ hpc[h] = "store"
    /\ depth' = [depth EXCEPT ![Feeds[h]] = hlen[h]]
    /\ hpc' = [hpc EXCEPT ![h] = "idle"]
    /\ hlen' = [hlen EXCEPT ![h] = 0]
    /\ UNCHANGED <<queueVars, pending, happened, workerVars, runVars,
                   countVars, stale>>
-----------------------------------------------------------------------------
(* runWorker and processQueueItem.                                         *)

\* queue.Get blocks until the key waits or the queue shuts down.
WorkerGet(p) ==
    /\ wpc[p] = "get"
    /\ Len(p) = 1
    /\ processing' = processing \union {p}
    /\ dirty' = dirty \ {p}
    /\ inFlight' = [inFlight EXCEPT ![p] = @ + 1]
    /\ wpc' = [wpc EXCEPT ![p] = "startLen"]
    /\ UNCHANGED <<shut, delayed, requeues, handlerVars, wlen, runVars,
                   countVars, depth, stale>>

WorkerExit(p) ==
    /\ wpc[p] = "get"
    /\ Len(p) = 0
    /\ p \in shut
    /\ wpc' = [wpc EXCEPT ![p] = "exit"]
    /\ UNCHANGED <<queueVars, handlerVars, wlen, inFlight, runVars, countVars,
                   depth, stale>>

WorkerLen(p, from, to) ==
    /\ wpc[p] = from
    /\ wlen' = [wlen EXCEPT ![p] = Len(p)]
    /\ wpc' = [wpc EXCEPT ![p] = to]
    /\ UNCHANGED <<queueVars, handlerVars, inFlight, runVars, countVars, depth,
                   stale>>

WorkerStore(p, from, to) ==
    /\ wpc[p] = from
    /\ depth' = [depth EXCEPT ![p] = wlen[p]]
    /\ wlen' = [wlen EXCEPT ![p] = 0]
    /\ wpc' = [wpc EXCEPT ![p] = to]
    /\ stale' = IF to = "sync" THEN stale \ {p} ELSE stale
    /\ UNCHANGED <<queueVars, handlerVars, inFlight, runVars, countVars>>

\* syncFn returned nil, or an error because ctx is done.
PassDone(p) ==
    /\ wpc[p] = "sync"
    /\ ForgetKey(p)
    /\ wpc' = [wpc EXCEPT ![p] = "done"]
    /\ UNCHANGED <<shut, dirty, processing, handlerVars, wlen, inFlight,
                   runVars, countVars, depth, stale>>

\* Mutant of Retries: the retry limit is never reached.
RetriesForever(p, kind) == kind # "terminal"

\* classifyControllerError.
Retries(p, kind) ==
    kind # "terminal" /\ requeues[p] < MaxControllerQueueRetries

\* syncFn returned an error while ctx was not done.
PassFails(p) ==
    /\ wpc[p] = "sync"
    /\ ~cancelled
    /\ errors < MaxErrors
    /\ errors' = errors + 1
    /\ \E kind \in ErrorKinds :
        IF Retries(p, kind)
        THEN /\ AddRateLimited(p)
             /\ retries' = retries + 1
             /\ stale' = stale \union {p}
             /\ UNCHANGED terminals
        ELSE /\ ForgetKey(p)
             /\ terminals' = terminals + 1
             /\ UNCHANGED <<retries, stale>>
    /\ wpc' = [wpc EXCEPT ![p] = "done"]
    /\ UNCHANGED <<shut, dirty, processing, handlerVars, wlen, inFlight,
                   runVars, depth>>

\* The deferred function, up to the second store of the gauge.
WorkerDone(p) ==
    /\ wpc[p] = "done"
    /\ inFlight' = [inFlight EXCEPT ![p] = @ - 1]
    /\ Done(p)
    /\ wpc' = [wpc EXCEPT ![p] = "endLen"]
    /\ UNCHANGED <<shut, dirty, delayed, requeues, handlerVars, wlen, runVars,
                   countVars, depth, stale>>
-----------------------------------------------------------------------------
(* Run.                                                                    *)

\* SIGTERM, or leadership is lost.
Cancel ==
    /\ ~cancelled
    /\ cancelled' = TRUE
    /\ UNCHANGED <<run, toEnqueue, stored, queueVars, handlerVars, workerVars,
                   countVars, depth, stale>>

\* WaitForCacheSync returns: with true, or because ctx is done.
CachesSynced ==
    /\ run = "sync"
    /\ run' = "enqueue"
    /\ UNCHANGED <<cancelled, toEnqueue, stored, queueVars, handlerVars,
                   workerVars, countVars, depth, stale>>

SyncAborted ==
    /\ run = "sync"
    /\ cancelled
    /\ run' = "shutdown"
    /\ UNCHANGED <<cancelled, toEnqueue, stored, queueVars, handlerVars,
                   workerVars, countVars, depth, stale>>

\* The initial enqueue.  No worker runs yet, so its length is stored at once;
\* a handler may still store an older one later.
InitialEnqueue(p) ==
    /\ run = "enqueue"
    /\ p \in toEnqueue
    /\ toEnqueue' = toEnqueue \ {p}
    /\ Add(p)
    /\ depth' = [depth EXCEPT ![p] = 1]
    /\ UNCHANGED <<cancelled, run, stored, shut, processing, delayed, requeues,
                   handlerVars, workerVars, countVars, stale>>

StartWorkers ==
    /\ run = "enqueue"
    /\ toEnqueue = {}
    /\ run' = "wait"
    /\ wpc' = [p \in Pipelines |-> "get"]
    /\ UNCHANGED <<cancelled, toEnqueue, stored, queueVars, handlerVars, wlen,
                   inFlight, countVars, depth, stale>>

\* Mutant of CtxDone: the queues are not shut down.
CtxDoneQueuesOpen ==
    /\ run = "wait"
    /\ cancelled
    /\ run' = "join"
    /\ UNCHANGED <<cancelled, toEnqueue, stored, queueVars, handlerVars,
                   workerVars, countVars, depth, stale>>

CtxDone ==
    /\ run = "wait"
    /\ cancelled
    /\ run' = "shutdown"
    /\ UNCHANGED <<cancelled, toEnqueue, stored, queueVars, handlerVars,
                   workerVars, countVars, depth, stale>>

\* shutDownQueues: the queues first, then the gauges.  A timer of a queue that
\* is shutting down adds nothing.
ShutDown(p) ==
    /\ run = "shutdown"
    /\ p \notin shut
    /\ shut' = shut \union {p}
    /\ delayed' = delayed \ {p}
    /\ UNCHANGED <<dirty, processing, requeues, runVars, handlerVars,
                   workerVars, countVars, depth, stale>>

ResetDepth(p) ==
    /\ run = "shutdown"
    /\ shut = Pipelines
    /\ p \notin stored
    /\ depth' = [depth EXCEPT ![p] = 0]
    /\ stored' = stored \union {p}
    /\ UNCHANGED <<cancelled, run, toEnqueue, queueVars, handlerVars,
                   workerVars, countVars, stale>>

ShutDownDone ==
    /\ run = "shutdown"
    /\ stored = Pipelines
    /\ run' = "join"
    /\ UNCHANGED <<cancelled, toEnqueue, stored, queueVars, handlerVars,
                   workerVars, countVars, depth, stale>>

\* Mutant of Return: Run does not wait for its workers.
ReturnAtOnce ==
    /\ run = "join"
    /\ run' = "returned"
    /\ UNCHANGED <<cancelled, toEnqueue, stored, queueVars, handlerVars,
                   workerVars, countVars, depth, stale>>

\* workers.Wait; without a cache sync there are no workers.
Return ==
    /\ run = "join"
    /\ \A p \in Pipelines : wpc[p] \in {"none", "exit"}
    /\ run' = "returned"
    /\ UNCHANGED <<cancelled, toEnqueue, stored, queueVars, handlerVars,
                   workerVars, countVars, depth, stale>>
-----------------------------------------------------------------------------
Handler(h) == HandlerAdd(h) \/ HandlerLen(h) \/ HandlerStore(h)

Worker(p) ==
    \/ WorkerGet(p) \/ WorkerExit(p)
    \/ WorkerLen(p, "startLen", "startStore")
    \/ WorkerStore(p, "startStore", "sync")
    \/ PassDone(p) \/ PassFails(p) \/ WorkerDone(p)
    \/ WorkerLen(p, "endLen", "endStore")
    \/ WorkerStore(p, "endStore", "get")

Run ==
    \/ CachesSynced \/ SyncAborted \/ StartWorkers \/ CtxDone
    \/ ShutDownDone \/ Return
    \/ \E p \in Pipelines : InitialEnqueue(p) \/ ShutDown(p) \/ ResetDepth(p)

Next ==
    \/ Cancel \/ Run
    \/ \E h \in Handlers : Event(h) \/ Handler(h)
    \/ \E p \in Pipelines : DelayEnds(p) \/ Worker(p)

\* Goroutines are scheduled, timers fire, watches deliver and a pass returns.
Fairness ==
    /\ WF_vars(Run)
    /\ \A h \in Handlers : WF_vars(Handler(h))
    /\ \A p \in Pipelines : WF_vars(Worker(p)) /\ WF_vars(DelayEnds(p))

Spec == Init /\ [][Next]_vars /\ Fairness
-----------------------------------------------------------------------------
(* Properties.                                                             *)

\* The queue of one pipeline as the other modules see it: the key is queued
\* from the initial enqueue on, or whenever it is dirty.
Abstract(p) == INSTANCE WorkQueue WITH
    events <- {h \in pending : Feeds[h] = p},
    queued <- p \in dirty \union toEnqueue,
    backoff <- p \in delayed,
    requeues <- requeues[p]

\* Until ctx is done, whatever the goroutines do is, for each pipeline, one of
\* the queue operations ClaimAllocation and PoolSync are built from: no event
\* is swallowed while a pass runs and no retry is scheduled twice.
WorkQueueIsAbstraction ==
    [][\A p \in Pipelines :
          \/ cancelled'
          \/ Abstract(p)!Take \/ Abstract(p)!AddDelayed \/ Abstract(p)!Forget
          \/ \E h \in Handlers : Abstract(p)!Notify(h) \/ Abstract(p)!Enqueue(h)
          \/ \E kind \in ErrorKinds :
                Abstract(p)!HandleError(kind)
                /\ UNCHANGED {h \in pending : Feeds[h] = p}
          \/ UNCHANGED Abstract(p)!queueVars]_vars

\* When Run has returned (and another replica may take over), no pass is in
\* flight, none will start, and the counters of both workers are balanced.
NothingRunsAfterReturn ==
    run = "returned" =>
        \A p \in Pipelines : /\ wpc[p] \in {"none", "exit"}
                             /\ inFlight[p] = 0
                             /\ p \notin processing

\* Every event is followed by a pass that starts after it and does not fail,
\* unless the controller is stopped or the failure was given up as terminal;
\* there are finitely many events and failures.
EventsAreHandled == \A p \in Pipelines : <>[](p \notin stale \/ cancelled)

\* A cancelled controller stops: its workers drain the queues and Run returns.
CancelStopsRun == cancelled ~> run = "returned"
=============================================================================
