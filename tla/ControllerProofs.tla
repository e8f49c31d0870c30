--------------------------- MODULE ControllerProofs ---------------------------
(***************************************************************************)
(* Proofs about the controller process: EventController, for any set of    *)
(* pipelines and handlers; ControllerLifecycle, the process around it,     *)
(* with and without leader election; and LeaderHandover, its replicas, of  *)
(* any number, with all durations that satisfy HandoverAssumption.         *)
(***************************************************************************)
EXTENDS EventController, ControllerLifecycle, LeaderHandover, TLAPS

-----------------------------------------------------------------------------
(* EventController.                                                        *)

\* Where a worker is while it has the key.
Busy == {"startLen", "startStore", "sync", "done"}

\* The gauge of passes in flight and the queue's processing set say where the
\* worker is.
WorkersBalance ==
    \A p \in Pipelines :
        /\ inFlight[p] = IF wpc[p] \in Busy THEN 1 ELSE 0
        /\ p \in processing <=> wpc[p] \in Busy

\* Workers start after the initial enqueue, and Run returns after they ended.
RunIsOrdered ==
    /\ run \in {"sync", "enqueue"} => \A p \in Pipelines : wpc[p] = "none"
    /\ run \notin {"sync", "enqueue"} /\ (\E p \in Pipelines : wpc[p] # "none")
           => toEnqueue = {}
    /\ run = "returned" => \A p \in Pipelines : wpc[p] \in {"none", "exit"}
    /\ run \in {"shutdown", "join", "returned"} => cancelled
    /\ shut # {} => run \in {"shutdown", "join", "returned"}

\* Every counted error is a retry or a terminal one.
CountersAdd == retries <= errors /\ terminals <= errors

\* The inductive invariant.
IInv == TypeOK /\ WorkersBalance /\ RunIsOrdered /\ CountersAdd

\* The first states satisfy the invariant.
LEMMA InitIInv == Init => IInv
<1> SUFFICES ASSUME Init PROVE IInv
  OBVIOUS
<1>1. Zero \in [Pipelines -> 0..1] /\ Zero \in [Pipelines -> 0..MaxControllerQueueRetries]
  BY EventControllerAssumption DEF Zero
<1>2. cancelled \in BOOLEAN
  BY Zenon DEF Init
<1>3. TypeOK
  BY EventControllerAssumption, <1>1, <1>2 DEF Init, TypeOK
<1>4. WorkersBalance
  BY DEF Init, WorkersBalance, Zero, Busy
<1>5. RunIsOrdered /\ CountersAdd
  BY DEF Init, RunIsOrdered, CountersAdd
<1> QED
  BY <1>3, <1>4, <1>5 DEF IInv

\* Every step preserves it.
LEMMA StepIInv == IInv /\ [Next]_vars => IInv'
<1> SUFFICES ASSUME IInv, [Next]_vars PROVE IInv'
  OBVIOUS
<1> USE EventControllerAssumption
    DEF IInv, TypeOK, WorkersBalance, RunIsOrdered, CountersAdd, Busy,
        queueVars, handlerVars, workerVars, runVars, countVars
<1>1. CASE Cancel
  BY <1>1 DEF Cancel
<1>2. CASE CachesSynced \/ SyncAborted \/ CtxDone \/ ShutDownDone \/ Return
  BY <1>2 DEF CachesSynced, SyncAborted, CtxDone, ShutDownDone, Return
<1>3. CASE StartWorkers
  BY <1>3 DEF StartWorkers
<1>4. ASSUME NEW p \in Pipelines, InitialEnqueue(p) PROVE IInv'
  BY <1>4 DEF InitialEnqueue, Add
<1>5. ASSUME NEW p \in Pipelines, ShutDown(p) PROVE IInv'
  BY <1>5 DEF ShutDown
<1>6. ASSUME NEW p \in Pipelines, ResetDepth(p) PROVE IInv'
  BY <1>6 DEF ResetDepth
<1>7. ASSUME NEW h \in Handlers, Event(h) PROVE IInv'
  BY <1>7 DEF Event
<1>8. ASSUME NEW h \in Handlers, HandlerAdd(h) PROVE IInv'
  BY <1>8 DEF HandlerAdd, Add
<1>9. ASSUME NEW h \in Handlers, HandlerLen(h) PROVE IInv'
  BY <1>9 DEF HandlerLen, Len
<1>10. ASSUME NEW h \in Handlers, HandlerStore(h) PROVE IInv'
  BY <1>10 DEF HandlerStore
<1>11. ASSUME NEW p \in Pipelines, DelayEnds(p) PROVE IInv'
  BY <1>11 DEF DelayEnds, Add
<1>12. ASSUME NEW p \in Pipelines, WorkerGet(p) PROVE IInv'
  BY <1>12 DEF WorkerGet, Len
<1>13. ASSUME NEW p \in Pipelines, WorkerExit(p) PROVE IInv'
  BY <1>13 DEF WorkerExit
<1>14. ASSUME NEW p \in Pipelines, WorkerLen(p, "startLen", "startStore") PROVE IInv'
  BY <1>14 DEF WorkerLen, Len
<1>15. ASSUME NEW p \in Pipelines, WorkerLen(p, "endLen", "endStore") PROVE IInv'
  BY <1>15 DEF WorkerLen, Len
<1>16. ASSUME NEW p \in Pipelines, WorkerStore(p, "startStore", "sync") PROVE IInv'
  BY <1>16 DEF WorkerStore
<1>17. ASSUME NEW p \in Pipelines, WorkerStore(p, "endStore", "get") PROVE IInv'
  BY <1>17 DEF WorkerStore
<1>18. ASSUME NEW p \in Pipelines, PassDone(p) PROVE IInv'
  BY <1>18 DEF PassDone, ForgetKey
<1>19. ASSUME NEW p \in Pipelines, PassFails(p) PROVE IInv'
  BY <1>19 DEF PassFails, ForgetKey, AddRateLimited, Retries
<1>20. ASSUME NEW p \in Pipelines, WorkerDone(p) PROVE IInv'
  BY <1>20 DEF WorkerDone, Done
<1>21. CASE UNCHANGED vars
  BY <1>21 DEF vars
<1> QED
  BY <1>1, <1>2, <1>3, <1>4, <1>5, <1>6, <1>7, <1>8, <1>9, <1>10, <1>11, <1>12,
     <1>13, <1>14, <1>15, <1>16, <1>17, <1>18, <1>19, <1>20, <1>21
  DEF Next, Run, Handler, Worker

\* So it holds in every reachable state.
LEMMA InductiveInvariant == Spec => []IInv
  BY InitIInv, StepIInv, PTL DEF Spec

\* Every reachable state of the controller is well typed: requeues stay within
\* the limit of classifyControllerError, and no worker has two passes in flight.
THEOREM ControllerTypes == Spec => []TypeOK
<1>1. IInv => TypeOK
  BY DEF IInv
<1> QED
  BY <1>1, InductiveInvariant, PTL

\* When eventController.Run has returned, its workers have ended, no pass is in
\* flight and the queues hand out no key, for any number of pipelines.
THEOREM NothingRunsAfterReturnHolds == Spec => []NothingRunsAfterReturn
<1>1. IInv => NothingRunsAfterReturn
  BY DEF IInv, WorkersBalance, RunIsOrdered, NothingRunsAfterReturn, Busy
<1> QED
  BY <1>1, InductiveInvariant, PTL
-----------------------------------------------------------------------------
(* The queue of one pipeline is a WorkQueue.  First, what it takes for a     *)
(* step of the controller to be an operation of that queue.                  *)

Queued(p) == p \in dirty \union toEnqueue
Events(p) == {h \in pending : Feeds[h] = p}

\* A step that leaves what the abstract queue of p is made of.
LEMMA IsStutter ==
    ASSUME NEW p \in Pipelines, Events(p)' = Events(p),
           Queued(p)' <=> Queued(p), p \in delayed' <=> p \in delayed,
           requeues'[p] = requeues[p]
    PROVE  UNCHANGED Abstract(p)!queueVars
<1>1. UNCHANGED Queued(p) /\ UNCHANGED (p \in delayed)
  BY DEF Queued
<1> QED
  BY <1>1, Zenon DEF Abstract!queueVars, Events, Queued

\* Get of the workqueue is the abstract queue's Take.
LEMMA IsTake ==
    ASSUME NEW p \in Pipelines, Events(p)' = Events(p), Queued(p), ~Queued(p)',
           p \in delayed' <=> p \in delayed, requeues'[p] = requeues[p]
    PROVE  Abstract(p)!Take
<1>1. Queued(p)' = FALSE /\ UNCHANGED (p \in delayed)
  BY DEF Queued
<1> QED
  BY <1>1, Zenon DEF Abstract!Take, Events, Queued

\* A key whose delay is over is added.
LEMMA IsAddDelayed ==
    ASSUME NEW p \in Pipelines, Events(p)' = Events(p), Queued(p)',
           p \in delayed, p \notin delayed', requeues'[p] = requeues[p]
    PROVE  Abstract(p)!AddDelayed
<1>1. Queued(p)' = TRUE /\ (p \in delayed)' = FALSE
  BY DEF Queued
<1> QED
  BY <1>1, Zenon DEF Abstract!AddDelayed, Events, Queued

\* Forget resets the number of requeues.
LEMMA IsForget ==
    ASSUME NEW p \in Pipelines, Events(p)' = Events(p),
           Queued(p)' <=> Queued(p), p \in delayed' <=> p \in delayed,
           requeues'[p] = 0
    PROVE  Abstract(p)!Forget
<1>1. UNCHANGED Queued(p) /\ UNCHANGED (p \in delayed)
  BY DEF Queued
<1> QED
  BY <1>1, Zenon DEF Abstract!Forget, Events, Queued

\* An event that a handler has yet to enqueue.
LEMMA IsNotify ==
    ASSUME NEW p \in Pipelines, NEW h \in Handlers,
           Events(p)' = Events(p) \union {h},
           Queued(p)' <=> Queued(p), p \in delayed' <=> p \in delayed,
           requeues'[p] = requeues[p]
    PROVE  Abstract(p)!Notify(h)
<1>1. UNCHANGED Queued(p) /\ UNCHANGED (p \in delayed)
  BY DEF Queued
<1> QED
  BY <1>1, Zenon DEF Abstract!Notify, Events, Queued

\* A handler's enqueue, once it is made.
LEMMA IsEnqueue ==
    ASSUME NEW p \in Pipelines, NEW h \in Handlers, h \in Events(p),
           Events(p)' = Events(p) \ {h}, Queued(p)',
           p \in delayed' <=> p \in delayed, requeues'[p] = requeues[p]
    PROVE  Abstract(p)!Enqueue(h)
<1>1. Queued(p)' = TRUE /\ UNCHANGED (p \in delayed)
  BY DEF Queued
<1> QED
  BY <1>1, Zenon DEF Abstract!Enqueue, Events, Queued

\* The error policy of both modules is the same.
LEMMA IsHandleError ==
    ASSUME NEW p \in Pipelines, NEW kind \in ErrorKinds,
           requeues[p] \in 0..MaxControllerQueueRetries,
           Queued(p)' <=> Queued(p),
           IF Retries(p, kind)
           THEN requeues'[p] = requeues[p] + 1 /\ p \in delayed'
           ELSE requeues'[p] = 0 /\ (p \in delayed' <=> p \in delayed)
    PROVE  Abstract(p)!HandleError(kind)
<1>1. UNCHANGED Queued(p)
  BY DEF Queued
<1>2. CASE Retries(p, kind)
  <2>1. ~(kind = "terminal" \/ requeues[p] >= MaxControllerQueueRetries)
    BY <1>2, EventControllerAssumption DEF Retries
  <2>2. requeues'[p] = requeues[p] + 1 /\ (p \in delayed)' = TRUE
    BY <1>2
  <2> QED
    BY <1>1, <2>1, <2>2, Zenon DEF Abstract!HandleError, Queued
<1>3. CASE ~Retries(p, kind)
  <2>1. kind = "terminal" \/ requeues[p] >= MaxControllerQueueRetries
    BY <1>3, EventControllerAssumption DEF Retries
  <2>2. requeues'[p] = 0 /\ UNCHANGED (p \in delayed)
    BY <1>3
  <2> QED
    BY <1>1, <2>1, <2>2, Zenon DEF Abstract!HandleError, Queued
<1> QED
  BY <1>2, <1>3

\* What WorkQueueIsAbstraction allows a step to do to the queue of p.
QueueStep(p) ==
    \/ cancelled'
    \/ Abstract(p)!Take \/ Abstract(p)!AddDelayed \/ Abstract(p)!Forget
    \/ \E h \in Handlers : Abstract(p)!Notify(h) \/ Abstract(p)!Enqueue(h)
    \/ \E kind \in ErrorKinds :
          Abstract(p)!HandleError(kind)
          /\ UNCHANGED {h \in pending : Feeds[h] = p}
    \/ UNCHANGED Abstract(p)!queueVars

\* Before ctx is done every step of the controller is a step of p's queue.
LEMMA StepIsQueueStep ==
    ASSUME IInv, [Next]_vars, NEW p \in Pipelines
    PROVE  QueueStep(p)
<1> SUFFICES ASSUME ~cancelled'
             PROVE  QueueStep(p)
  BY DEF QueueStep
<1> USE EventControllerAssumption
    DEF IInv, TypeOK, queueVars, handlerVars, workerVars, runVars, countVars
<1>0. ASSUME ~cancelled PROVE shut = {}
  BY <1>0 DEF RunIsOrdered
<1>1. ASSUME Events(p)' = Events(p), Queued(p)' <=> Queued(p),
             p \in delayed' <=> p \in delayed, requeues'[p] = requeues[p]
      PROVE  QueueStep(p)
  BY <1>1, IsStutter, Zenon DEF QueueStep
<1>2. CASE Cancel
  BY <1>2 DEF Cancel
<1>3. CASE \/ CachesSynced \/ SyncAborted \/ StartWorkers \/ CtxDone
           \/ ShutDownDone \/ Return \/ UNCHANGED vars
  BY <1>1, <1>3 DEF CachesSynced, SyncAborted, StartWorkers, CtxDone,
     ShutDownDone, Return, vars, Events, Queued
<1>4. ASSUME NEW q \in Pipelines, InitialEnqueue(q) PROVE QueueStep(p)
  BY <1>1, <1>4, <1>0 DEF InitialEnqueue, Add, Events, Queued
<1>5. ASSUME NEW q \in Pipelines, ShutDown(q) PROVE QueueStep(p)
  BY <1>5 DEF ShutDown, RunIsOrdered
<1>6. ASSUME NEW q \in Pipelines, ResetDepth(q) PROVE QueueStep(p)
  BY <1>6 DEF ResetDepth, RunIsOrdered
<1>7. ASSUME NEW h \in Handlers, Event(h) PROVE QueueStep(p)
  <2>1. /\ Queued(p)' <=> Queued(p)
        /\ p \in delayed' <=> p \in delayed
        /\ requeues'[p] = requeues[p]
    BY <1>7 DEF Event, Queued
  <2>2. CASE Feeds[h] = p
    <3>1. Events(p)' = Events(p) \union {h}
      BY <1>7, <2>2 DEF Event, Events
    <3>2. Abstract(p)!Notify(h)
      BY <2>1, <3>1, IsNotify, Zenon
    <3> QED
      BY <3>2, Zenon DEF QueueStep
  <2>3. CASE Feeds[h] # p
    <3>1. Events(p)' = Events(p)
      BY <1>7, <2>3 DEF Event, Events
    <3> QED
      BY <1>1, <2>1, <3>1
  <2> QED
    BY <2>2, <2>3
<1>8. ASSUME NEW h \in Handlers, HandlerAdd(h) PROVE QueueStep(p)
  <2>1. /\ p \in delayed' <=> p \in delayed
        /\ requeues'[p] = requeues[p]
    BY <1>8 DEF HandlerAdd
  <2>2. shut = {} /\ Feeds[h] \in dirty' /\ pending' = pending \ {h}
    BY <1>8, <1>0 DEF HandlerAdd, Add
  <2>3. CASE Feeds[h] = p
    <3>1. Events(p)' = Events(p) \ {h} /\ h \in Events(p) /\ Queued(p)'
      BY <1>8, <2>2, <2>3 DEF HandlerAdd, Events, Queued
    <3>2. Abstract(p)!Enqueue(h)
      BY <2>1, <3>1, IsEnqueue, Zenon
    <3> QED
      BY <3>2, Zenon DEF QueueStep
  <2>4. CASE Feeds[h] # p
    <3>1. Events(p)' = Events(p) /\ (Queued(p)' <=> Queued(p))
      BY <1>8, <2>4 DEF HandlerAdd, Add, Events, Queued
    <3> QED
      BY <1>1, <2>1, <3>1
  <2> QED
    BY <2>3, <2>4
<1>9. ASSUME NEW h \in Handlers, HandlerLen(h) \/ HandlerStore(h)
      PROVE  QueueStep(p)
  BY <1>1, <1>9 DEF HandlerLen, HandlerStore, Events, Queued
<1>10. ASSUME NEW q \in Pipelines, DelayEnds(q) PROVE QueueStep(p)
  <2>1. Events(p)' = Events(p) /\ requeues'[p] = requeues[p]
    BY <1>10 DEF DelayEnds, Events
  <2>2. CASE q = p
    <3>1. p \in delayed /\ p \notin delayed' /\ Queued(p)'
      BY <1>10, <1>0, <2>2 DEF DelayEnds, Add, Queued
    <3>2. Abstract(p)!AddDelayed
      BY <2>1, <3>1, IsAddDelayed, Zenon
    <3> QED
      BY <3>2, Zenon DEF QueueStep
  <2>3. CASE q # p
    BY <1>1, <1>10, <2>1, <2>3 DEF DelayEnds, Add, Queued
  <2> QED
    BY <2>2, <2>3
<1>11. ASSUME NEW q \in Pipelines, WorkerGet(q) PROVE QueueStep(p)
  <2>1. /\ Events(p)' = Events(p)
        /\ p \in delayed' <=> p \in delayed
        /\ requeues'[p] = requeues[p]
    BY <1>11 DEF WorkerGet, Events
  <2>2. CASE q = p
    <3>1. p \in dirty /\ p \notin dirty' /\ toEnqueue' = toEnqueue
      BY <1>11, <2>2 DEF WorkerGet, Len
    <3>2. toEnqueue = {}
      BY <1>11 DEF WorkerGet, RunIsOrdered
    <3>3. Queued(p) /\ ~Queued(p)'
      BY <3>1, <3>2 DEF Queued
    <3>4. Abstract(p)!Take
      BY <2>1, <3>3, IsTake, Zenon
    <3> QED
      BY <3>4, Zenon DEF QueueStep
  <2>3. CASE q # p
    BY <1>1, <1>11, <2>1, <2>3 DEF WorkerGet, Queued
  <2> QED
    BY <2>2, <2>3
<1>12. ASSUME NEW q \in Pipelines,
              \/ WorkerExit(q) \/ WorkerDone(q)
              \/ WorkerLen(q, "startLen", "startStore")
              \/ WorkerLen(q, "endLen", "endStore")
              \/ WorkerStore(q, "startStore", "sync")
              \/ WorkerStore(q, "endStore", "get")
       PROVE  QueueStep(p)
  BY <1>1, <1>12 DEF WorkerExit, WorkerDone, WorkerLen, WorkerStore, Events, Queued
<1>13. ASSUME NEW q \in Pipelines, PassDone(q) PROVE QueueStep(p)
  <2>1. /\ Events(p)' = Events(p)
        /\ p \in delayed' <=> p \in delayed
        /\ Queued(p)' <=> Queued(p)
    BY <1>13 DEF PassDone, ForgetKey, Events, Queued
  <2>2. CASE q = p
    <3>1. requeues'[p] = 0
      BY <1>13, <2>2 DEF PassDone, ForgetKey
    <3>2. Abstract(p)!Forget
      BY <2>1, <3>1, IsForget, Zenon
    <3> QED
      BY <3>2, Zenon DEF QueueStep
  <2>3. CASE q # p
    BY <1>1, <1>13, <2>1, <2>3 DEF PassDone, ForgetKey
  <2> QED
    BY <2>2, <2>3
<1>14. ASSUME NEW q \in Pipelines, PassFails(q) PROVE QueueStep(p)
  <2>1. Events(p)' = Events(p) /\ (Queued(p)' <=> Queued(p))
    BY <1>14 DEF PassFails, Events, Queued
  <2>2. PICK kind \in ErrorKinds :
            IF Retries(q, kind) THEN AddRateLimited(q) ELSE ForgetKey(q)
    BY <1>14 DEF PassFails
  <2>3. shut = {}
    BY <1>14, <1>0 DEF PassFails
  <2>4. CASE q = p
    <3>1. IF Retries(p, kind)
          THEN requeues'[p] = requeues[p] + 1 /\ p \in delayed'
          ELSE requeues'[p] = 0 /\ (p \in delayed' <=> p \in delayed)
      BY <2>2, <2>3, <2>4 DEF AddRateLimited, ForgetKey
    <3>2. Abstract(p)!HandleError(kind)
      BY <2>1, <3>1, IsHandleError
    <3> QED
      BY <2>1, <3>2, Zenon DEF QueueStep, Events
  <2>5. CASE q # p
    BY <1>1, <2>1, <2>2, <2>3, <2>5 DEF AddRateLimited, ForgetKey
  <2> QED
    BY <2>4, <2>5
<1> QED
  BY <1>2, <1>3, <1>4, <1>5, <1>6, <1>7, <1>8, <1>9, <1>10, <1>11, <1>12, <1>13,
     <1>14 DEF Next, Run, Handler, Worker

\* Until ctx is done, every step the controller's goroutines take is, for the
\* queue of each pipeline, one operation of WorkQueue or none: the queue that
\* ClaimAllocation and PoolSync are built on is the one event_controller.go has.
THEOREM WorkQueueIsAbstractionHolds == Spec => WorkQueueIsAbstraction
<1>1. IInv /\ [Next]_vars => \A p \in Pipelines : QueueStep(p)
  BY StepIsQueueStep
<1> QED
  BY <1>1, InductiveInvariant, PTL DEF Spec, WorkQueueIsAbstraction, QueueStep

-----------------------------------------------------------------------------
(* ControllerLifecycle.                                                    *)

Leading == {"setLeader", "active", "unsetLeader"}

\* Without leader election there is neither elector nor callback.
SingleMode ==
    /\ ~elect => callback = "none" /\ elector = "off"
    /\ ~elect => lifecycle \in {"single", "send", "exit"}
    /\ elect => lifecycle # "single"
    /\ elector = "acquire" => callback = "none"

\* state is 1 exactly while the callback holds it, and the callback reports
\* its end on activeDone only when it has stored 2.
CallbackOwnsState ==
    /\ callback \in Leading \union {"storeState"} <=> state = 1
    /\ callback \in {"send", "cancelRun"} => state = 2
    /\ activeDone # "empty" => callback \in {"cancelRun", "exit"} /\ state = 2

\* The lifecycle gets past its compare-and-swap only when no callback can
\* start any more, and main past its receive only when the lifecycle is over.
EndsAreOrdered ==
    /\ elect /\ lifecycle \in {"send", "exit"} => state = 2
    /\ lifecycleDone # "empty" => lifecycle = "exit"
    /\ main \in {"shutdown", "exited"} => lifecycle = "exit"

\* The gauge is up between SetLeader(true) and SetLeader(false).
GaugeFollows ==
    leader => callback \in {"active", "unsetLeader"} \/ lifecycle = "single"

\* The inductive invariant.
LifecycleIInv ==
    /\ LifecycleTypeOK
    /\ SingleMode
    /\ CallbackOwnsState
    /\ EndsAreOrdered
    /\ GaugeFollows

\* The first states satisfy the invariant.
LEMMA LifecycleInitIInv == LifecycleInit => LifecycleIInv
<1> SUFFICES ASSUME LifecycleInit PROVE LifecycleIInv
  OBVIOUS
<1>1. elect \in BOOLEAN
  BY LifecycleAssumption DEF LifecycleInit
<1>2. {stopped, runDone, leadDone, leader, server} \subseteq BOOLEAN
  BY <1>1, Zenon DEF LifecycleInit
<1>3. CASE elect
  <2>1. elector = "acquire" /\ lifecycle = "electing" /\ ~leader
    BY <1>3 DEF LifecycleInit
  <2>2. LifecycleTypeOK
    BY <1>1, <1>2, <2>1 DEF LifecycleInit, LifecycleTypeOK, Errors, Channel
  <2>3. SingleMode /\ CallbackOwnsState /\ EndsAreOrdered /\ GaugeFollows
    BY <1>3, <2>1 DEF LifecycleInit, SingleMode, CallbackOwnsState, EndsAreOrdered,
       GaugeFollows, Leading
  <2> QED
    BY <2>2, <2>3 DEF LifecycleIInv
<1>4. CASE ~elect
  <2>1. elector = "off" /\ lifecycle = "single"
    BY <1>4 DEF LifecycleInit
  <2>2. LifecycleTypeOK
    BY <1>1, <1>2, <2>1 DEF LifecycleInit, LifecycleTypeOK, Errors, Channel
  <2>3. SingleMode /\ CallbackOwnsState /\ EndsAreOrdered /\ GaugeFollows
    BY <1>4, <2>1 DEF LifecycleInit, SingleMode, CallbackOwnsState, EndsAreOrdered,
       GaugeFollows, Leading
  <2> QED
    BY <2>2, <2>3 DEF LifecycleIInv
<1> QED
  BY <1>3, <1>4

\* Every step of every goroutine keeps the invariant.
LEMMA LifecycleStepIInv == LifecycleIInv /\ [LifecycleNext]_lifecycleVars => LifecycleIInv'
<1> SUFFICES ASSUME LifecycleIInv, [LifecycleNext]_lifecycleVars PROVE LifecycleIInv'
  OBVIOUS
<1> USE DEF LifecycleIInv, LifecycleTypeOK, SingleMode, CallbackOwnsState, EndsAreOrdered,
            GaugeFollows, Errors, Channel, Leading, ctxVars, activeVars, mainVars
<1>1. CASE Stop
  BY <1>1 DEF Stop
<1>2. CASE RuntimeServerFails
  <2>0. server' \in BOOLEAN
    BY <1>2, Zenon DEF RuntimeServerFails
  <2>1. LifecycleTypeOK'
    BY <1>2, <2>0 DEF RuntimeServerFails
  <2>2. (SingleMode /\ CallbackOwnsState /\ EndsAreOrdered /\ GaugeFollows)'
    BY <1>2 DEF RuntimeServerFails
  <2> QED
    BY <2>1, <2>2
<1>3. CASE Acquire
  BY <1>3 DEF Acquire
<1>4. CASE AcquireStopped
  BY <1>4 DEF AcquireStopped
<1>5. CASE RenewEnds
  BY <1>5 DEF RenewEnds
<1>6. CASE CallbackStarts
  BY <1>6 DEF CallbackStarts
<1>7. CASE CallbackSetsLeader
  BY <1>7 DEF CallbackSetsLeader
<1>8. CASE CallbackUnsetsLeader
  <2>0. leader' \in BOOLEAN
    BY <1>8, Zenon DEF CallbackUnsetsLeader
  <2>1. LifecycleTypeOK'
    BY <1>8, <2>0 DEF CallbackUnsetsLeader
  <2>2. (SingleMode /\ CallbackOwnsState /\ EndsAreOrdered /\ GaugeFollows)'
    BY <1>8 DEF CallbackUnsetsLeader
  <2> QED
    BY <2>1, <2>2
<1>9. CASE CallbackStoresState
  BY <1>9 DEF CallbackStoresState
<1>10. CASE CallbackSends
  <2>1. LifecycleTypeOK'
    BY <1>10 DEF CallbackSends
  <2>2. (SingleMode /\ CallbackOwnsState /\ EndsAreOrdered /\ GaugeFollows)'
    BY <1>10 DEF CallbackSends
  <2> QED
    BY <2>1, <2>2
<1>11. CASE CallbackCancelsRun
  BY <1>11 DEF CallbackCancelsRun
<1>12. CASE ActiveReturns
  BY <1>12 DEF ActiveReturns
<1>13. CASE ElectorReturned
  BY <1>13 DEF ElectorReturned
<1>14. CASE LifecycleCAS
  <2>0. runDone' \in BOOLEAN
    BY <1>14, Zenon DEF LifecycleCAS
  <2>1. LifecycleTypeOK'
    <3>1. CASE state = 0
      BY <1>14, <2>0, <3>1 DEF LifecycleCAS
    <3>2. CASE state # 0
      BY <1>14, <2>0, <3>2 DEF LifecycleCAS
    <3> QED
      BY <3>1, <3>2
  <2>2. (SingleMode /\ CallbackOwnsState /\ EndsAreOrdered /\ GaugeFollows)'
    BY <1>14 DEF LifecycleCAS
  <2> QED
    BY <2>1, <2>2
<1>15. CASE LifecycleReceives
  BY <1>15 DEF LifecycleReceives
<1>16. CASE LifecycleSends
  BY <1>16 DEF LifecycleSends
<1>17. CASE SingleReturns
  BY <1>17 DEF SingleReturns
<1>18. CASE Main
  <2>1. CASE MainReceives
    <3>1. LifecycleTypeOK'
      BY <2>1 DEF MainReceives
    <3>2. (SingleMode /\ CallbackOwnsState /\ EndsAreOrdered /\ GaugeFollows)'
      BY <2>1 DEF MainReceives
    <3> QED
      BY <3>1, <3>2
  <2>2. CASE MainStopped
    <3>1. LifecycleTypeOK'
      BY <2>2 DEF MainStopped
    <3>2. (SingleMode /\ CallbackOwnsState /\ EndsAreOrdered /\ GaugeFollows)'
      BY <2>2 DEF MainStopped
    <3> QED
      BY <3>1, <3>2
  <2>3. CASE MainWaits
    <3>1. LifecycleTypeOK'
      BY <2>3 DEF MainWaits
    <3>2. (SingleMode /\ CallbackOwnsState /\ EndsAreOrdered /\ GaugeFollows)'
      BY <2>3 DEF MainWaits
    <3> QED
      BY <3>1, <3>2
  <2>4. CASE MainExits
    <3>0. server' \in BOOLEAN
      BY <2>4, Zenon DEF MainExits
    <3>1. LifecycleTypeOK'
      BY <2>4, <3>0 DEF MainExits
    <3>2. (SingleMode /\ CallbackOwnsState /\ EndsAreOrdered /\ GaugeFollows)'
      BY <2>4 DEF MainExits
    <3> QED
      BY <3>1, <3>2
  <2> QED
    BY <1>18, <2>1, <2>2, <2>3, <2>4 DEF Main
<1>19. CASE UNCHANGED lifecycleVars
  BY <1>19 DEF lifecycleVars
<1> QED
  BY <1>1, <1>2, <1>3, <1>4, <1>5, <1>6, <1>7, <1>8, <1>9, <1>10, <1>11,
     <1>12, <1>13, <1>14, <1>15, <1>16, <1>17, <1>18, <1>19
  DEF LifecycleNext, Callback, Lifecycle

\* The invariant holds in every reachable state.
LEMMA LifecycleInductiveInvariant == LifecycleSpec => []LifecycleIInv
  BY LifecycleInitIInv, LifecycleStepIInv, PTL DEF LifecycleSpec

\* Every reachable state of the process is well typed: a receive never takes
\* what no goroutine has sent.
THEOREM LifecycleTypes == LifecycleSpec => []LifecycleTypeOK
<1>1. LifecycleIInv => LifecycleTypeOK
  BY DEF LifecycleIInv
<1> QED
  BY <1>1, LifecycleInductiveInvariant, PTL

\* However the elector, its callback, the lifecycle and main interleave, the
\* active controller is over when runControllerLifecycle has returned, no late
\* callback starts it, and the leader gauge is up only while it may run.
THEOREM NothingActiveAfterLifecycleHolds == LifecycleSpec => []NothingActiveAfterLifecycle
<1>1. LifecycleIInv => NothingActiveAfterLifecycle
  BY DEF LifecycleIInv, LifecycleTypeOK, SingleMode, CallbackOwnsState, EndsAreOrdered,
         GaugeFollows, NothingActiveAfterLifecycle, Working, Leading
<1> QED
  BY <1>1, LifecycleInductiveInvariant, PTL

-----------------------------------------------------------------------------
(* LeaderHandover.                                                         *)

\* Nobody has seen, or noted, a time that is still to come.
TimesArePast ==
    /\ lease.renewed <= clock
    /\ \A r \in Replicas : /\ since[r] <= clock
                           /\ observed[r].renewed <= observedAt[r]

\* The key fact: a replica that can still change allocations is the one the
\* Lease names, and will have stopped before the Lease can be taken.
HoldsLease(r) ==
    /\ phase[r] = "leading" => /\ lease.holder = r
                               /\ lease.renewed = since[r]
                               /\ clock <= GiveUpAt(r)
    /\ phase[r] = "draining" => /\ lease.holder = r
                                /\ since[r] <= lease.renewed + RetryPeriod + RenewDeadline
                                /\ clock <= since[r] + MaxDrain
    /\ ~Active(r) => flight[r] = {}

ActiveHoldLease == \A r \in Replicas : HoldsLease(r)

\* The same of a write whose process is dead: the Lease still names the process,
\* and the write is settled before the Lease can be taken or the process be
\* replaced.
OutlivesItsSender(w) ==
    /\ lease.holder = w.by
    /\ phase[w.by] = "down"
    /\ clock <= w.until
    /\ w.until <= lease.renewed + RetryPeriod + RenewDeadline + MaxDrain
    /\ w.until <= since[w.by] + MaxDrain

LateHoldLease == \A w \in late : OutlivesItsSender(w)

\* What was sent is free in the store.
Free(w) ==
    /\ alloc[w.claim] = {}
    /\ \A b \in Claims : \A e \in alloc[b] : e.device # w.entry.device

\* A pass that runs covers the store with its copies, and has sent one thing.
CurrentFor(r) ==
    /\ listed[r] => /\ phase[r] = "leading"
                    /\ \A c \in Claims : alloc[c] \subseteq view[r][c]
                    /\ \A w \in flight[r] : view[r][w.claim] = {w.entry}
    /\ \A w \in flight[r] : Free(w)
    /\ \A v, w \in flight[r] : v = w

PassIsCurrent == \A r \in Replicas : CurrentFor(r)

LateIsFree == (\A w \in late : Free(w)) /\ (\A v, w \in late : v = w)

\* The inductive invariant.
HandoverIInv ==
    /\ HandoverTypeOK /\ TimesArePast
    /\ ActiveHoldLease /\ LateHoldLease
    /\ PassIsCurrent /\ LateIsFree
-----------------------------------------------------------------------------
\* The Lease names whoever is active.
LEMMA ActiveIsHolder ==
    ASSUME HandoverTypeOK, ActiveHoldLease, NEW r \in Replicas, Active(r)
    PROVE  lease.holder = r
BY DEF ActiveHoldLease, HoldsLease, Active

\* While a dead process's write is under way, nobody is active.
LEMMA LateIsAlone ==
    ASSUME HandoverTypeOK, ActiveHoldLease, LateHoldLease, late # {},
           NEW r \in Replicas
    PROVE  ~Active(r)
<1>1. PICK w \in late : TRUE
  OBVIOUS
<1>2. lease.holder = w.by /\ phase[w.by] = "down"
  BY DEF LateHoldLease, OutlivesItsSender
<1>3. QED
  BY <1>2, ActiveIsHolder DEF Active

\* The facts about constants the arithmetic leaves need.
LEMMA Durations ==
    /\ LeaseDuration \in Nat /\ RenewDeadline \in Nat /\ RetryPeriod \in Nat
    /\ MaxDrain \in Nat /\ RestartDelay \in Nat /\ NoReplica \notin Replicas
BY HandoverAssumption DEF ValidOptions

\* Who takes the Lease from another replica finds it inactive, and nothing it
\* has sent under way.
LEMMA TakenLeaseIsIdle ==
    ASSUME DrainMargin, HandoverIInv, NEW r \in Replicas, AcquireLease(r)
    PROVE  (\A s \in Replicas : ~Active(s)) /\ late = {}
<1>1. LeaseDuration > RetryPeriod + RenewDeadline + MaxDrain
  BY DEF DrainMargin
<1>2. clock \in Nat /\ observedAt[r] \in Nat /\ lease.renewed \in Nat
  BY DEF HandoverIInv, HandoverTypeOK, LeaseRecord
<1>3. ASSUME NEW s \in Replicas, lease.holder = s, s # r
      PROVE  clock > lease.renewed + RetryPeriod + RenewDeadline + MaxDrain
  <2>1. clock >= observedAt[r] + LeaseDuration /\ lease.renewed <= observedAt[r]
    BY <1>3, Durations DEF AcquireLease, HandoverIInv, TimesArePast
  <2>2. QED
    BY <1>1, <1>2, <2>1, Durations
<1>4. ASSUME NEW s \in Replicas, Active(s) PROVE FALSE
  <2>1. lease.holder = s /\ s # r
    BY <1>4, ActiveIsHolder DEF HandoverIInv, AcquireLease, Active
  <2>2. since[s] \in Nat
    BY DEF HandoverIInv, HandoverTypeOK
  <2>3. clock <= lease.renewed + RetryPeriod + RenewDeadline + MaxDrain
    <3>1. CASE phase[s] = "leading"
      BY <3>1, <1>2, <2>2, Durations DEF HandoverIInv, ActiveHoldLease, HoldsLease, GiveUpAt
    <3>2. CASE phase[s] = "draining"
      BY <3>2, <1>2, <2>2, Durations DEF HandoverIInv, ActiveHoldLease, HoldsLease
    <3>3. QED
      BY <1>4, <3>1, <3>2 DEF Active
  <2>4. QED
    BY <1>2, <1>3, <2>1, <2>3, Durations
<1>5. ASSUME NEW w \in late PROVE FALSE
  <2>1. /\ lease.holder = w.by /\ phase[w.by] = "down" /\ clock <= w.until
        /\ w.until <= lease.renewed + RetryPeriod + RenewDeadline + MaxDrain
    BY DEF HandoverIInv, LateHoldLease, OutlivesItsSender
  <2>2. w.by \in Replicas /\ w.until \in Nat
    BY DEF HandoverIInv, HandoverTypeOK, LateWrite
  <2>3. w.by # r
    BY <2>1 DEF AcquireLease
  <2>4. QED
    BY <1>2, <1>3, <2>1, <2>2, <2>3, Durations
<1>6. QED
  BY <1>4, <1>5
-----------------------------------------------------------------------------
\* Every action keeps the types.
LEMMA TypeStep ==
    ASSUME HandoverTypeOK, [HandoverNext]_handoverVars
    PROVE  HandoverTypeOK'
<1> USE DEF HandoverTypeOK
<1>1. ASSUME NEW r \in Replicas, Observe(r) PROVE HandoverTypeOK'
  BY <1>1 DEF Observe, passVars
<1>2. ASSUME NEW r \in Replicas, AcquireLease(r) PROVE HandoverTypeOK'
  BY <1>2 DEF AcquireLease, passVars, LeaseRecord
<1>3. ASSUME NEW r \in Replicas, Renew(r) PROVE HandoverTypeOK'
  BY <1>3 DEF Renew, passVars, LeaseRecord
<1>4. ASSUME NEW r \in Replicas, StopLeading(r) PROVE HandoverTypeOK'
  BY <1>4 DEF StopLeading
<1>5. ASSUME NEW r \in Replicas, Exit(r) PROVE HandoverTypeOK'
  BY <1>5 DEF Exit, passVars
<1>6. ASSUME NEW r \in Replicas, Crash(r) PROVE HandoverTypeOK'
  <2>1. Orphaned(r) \subseteq LateWrite
    BY Durations DEF Orphaned, LateWrite, Write
  <2>2. late' \subseteq LateWrite
    BY <1>6, <2>1 DEF Crash
  <2>3. QED
    BY <1>6, <2>2 DEF Crash
<1>7. ASSUME NEW r \in Replicas, Restart(r) PROVE HandoverTypeOK'
  BY <1>7 DEF Restart, passVars, NoLease, LeaseRecord
<1>8. ASSUME NEW r \in Replicas, List(r) PROVE HandoverTypeOK'
  BY <1>8 DEF List, leaseVars
<1>9. ASSUME NEW r \in Replicas, NEW c \in Claims, NEW d \in Devices,
             Send(r, c, d)
      PROVE  HandoverTypeOK'
  <2> DEFINE entry == [device |-> d, shared |-> FALSE]
  <2>1. entry \in Entry /\ [claim |-> c, entry |-> entry] \in Write
    BY DEF Entry, Write
  <2>2. flight' \in [Replicas -> SUBSET Write]
    BY <1>9, <2>1 DEF Send
  <2>3. view' \in [Replicas -> [Claims -> SUBSET Entry]]
    BY <1>9, <2>1 DEF Send
  <2>4. QED
    BY <1>9, <2>2, <2>3 DEF Send, leaseVars
<1>10. ASSUME NEW r \in Replicas, NEW w \in flight[r], Store(r, w) PROVE HandoverTypeOK'
  <2>1. w \in Write /\ w.claim \in Claims /\ w.entry \in Entry
    BY DEF Write
  <2>2. alloc' \in [Claims -> SUBSET Entry]
    BY <1>10, <2>1 DEF Store
  <2>3. fresh' \in [Replicas -> SUBSET Claims] /\ late' \subseteq LateWrite
    BY <1>10 DEF Store, Outdate
  <2>4. listed' \in [Replicas -> BOOLEAN]
    BY <1>10 DEF Store
  <2>5. flight' \in [Replicas -> SUBSET Write]
    BY <1>10 DEF Store
  <2>6. QED
    BY <1>10, <2>2, <2>3, <2>4, <2>5 DEF Store, leaseVars
<1>11. ASSUME NEW r \in Replicas, NEW w \in flight[r], Drop(r, w) PROVE HandoverTypeOK'
  BY <1>11 DEF Drop, leaseVars
<1>12. ASSUME NEW c \in Claims, Release(c) PROVE HandoverTypeOK'
  BY <1>12 DEF Release, Outdate, leaseVars
<1>13. ASSUME NEW w \in late, StoreLate(w) PROVE HandoverTypeOK'
  <2>1. w.claim \in Claims /\ w.entry \in Entry
    BY DEF LateWrite
  <2>2. alloc' \in [Claims -> SUBSET Entry]
    BY <1>13, <2>1 DEF StoreLate
  <2>3. fresh' \in [Replicas -> SUBSET Claims] /\ late' \subseteq LateWrite
    BY <1>13 DEF StoreLate, Outdate
  <2>4. QED
    BY <1>13, <2>2, <2>3 DEF StoreLate, leaseVars
<1>14. ASSUME NEW w \in late, DropLate(w) PROVE HandoverTypeOK'
  BY <1>14 DEF DropLate, leaseVars
<1>15. CASE Tick
  BY <1>15 DEF Tick, leaseVars, passVars
<1>16. CASE UNCHANGED handoverVars
  BY <1>16 DEF handoverVars, leaseVars, passVars
<1>17. QED
  BY <1>1, <1>2, <1>3, <1>4, <1>5, <1>6, <1>7, <1>8, <1>9, <1>10, <1>11,
     <1>12, <1>13, <1>14, <1>15, <1>16 DEF HandoverNext, Elect, Pass
-----------------------------------------------------------------------------
\* Every action keeps the bounds in time.
LEMMA TimesStep ==
    ASSUME HandoverIInv, [HandoverNext]_handoverVars
    PROVE  TimesArePast'
<1> USE DEF TimesArePast
<1>0. HandoverTypeOK /\ TimesArePast /\ clock \in Nat
  BY DEF HandoverIInv, HandoverTypeOK
<1> USE DEF HandoverTypeOK
<1>1. ASSUME NEW r \in Replicas, Observe(r) PROVE TimesArePast'
  BY <1>0, <1>1 DEF Observe
<1>2. ASSUME NEW r \in Replicas, AcquireLease(r) PROVE TimesArePast'
  BY <1>0, <1>2 DEF AcquireLease
<1>3. ASSUME NEW r \in Replicas, Renew(r) PROVE TimesArePast'
  BY <1>0, <1>3 DEF Renew
<1>4. ASSUME NEW r \in Replicas, StopLeading(r) PROVE TimesArePast'
  BY <1>0, <1>4 DEF StopLeading
<1>5. ASSUME NEW r \in Replicas, Exit(r) PROVE TimesArePast'
  BY <1>0, <1>5 DEF Exit
<1>6. ASSUME NEW r \in Replicas, Crash(r) PROVE TimesArePast'
  BY <1>0, <1>6 DEF Crash
<1>7. ASSUME NEW r \in Replicas, Restart(r) PROVE TimesArePast'
  BY <1>0, <1>7 DEF Restart, NoLease
<1>8. ASSUME UNCHANGED leaseVars, UNCHANGED clock PROVE TimesArePast'
  BY <1>0, <1>8 DEF leaseVars
<1>9. CASE Tick
  BY <1>0, <1>9 DEF Tick, leaseVars, LeaseRecord
<1>10. ASSUME NEW r \in Replicas, Pass(r) PROVE TimesArePast'
  BY <1>8, <1>10 DEF Pass, List, Send, Store, Drop
<1>11. ASSUME NEW c \in Claims, Release(c) PROVE TimesArePast'
  BY <1>8, <1>11 DEF Release
<1>12. ASSUME NEW w \in late, StoreLate(w) \/ DropLate(w) PROVE TimesArePast'
  BY <1>8, <1>12 DEF StoreLate, DropLate
<1>13. CASE UNCHANGED handoverVars
  BY <1>8, <1>13 DEF handoverVars
<1>14. QED
  BY <1>1, <1>2, <1>3, <1>4, <1>5, <1>6, <1>7, <1>9, <1>10, <1>11, <1>12, <1>13
     DEF HandoverNext, Elect
-----------------------------------------------------------------------------
\* A replica whose times, phase and requests a step leaves alone keeps the key
\* fact, as long as the Lease does not change under an active one.
LEMMA HolderFrame ==
    ASSUME HandoverTypeOK, NEW r \in Replicas, HoldsLease(r),
           clock' = clock, lease' = lease \/ ~Active(r),
           phase'[r] = phase[r], since'[r] = since[r],
           flight[r] = {} => flight'[r] = {}
    PROVE  HoldsLease(r)'
BY DEF HandoverTypeOK, HoldsLease, GiveUpAt, Active

\* A replica that becomes or stays inactive has nothing to show.
LEMMA IdleHolds ==
    ASSUME NEW r \in Replicas, phase'[r] \in {"down", "standby"}, flight'[r] = {}
    PROVE  HoldsLease(r)'
BY DEF HoldsLease, Active

\* The key fact is preserved.  AcquireLease is the step that could break it: it
\* changes the holder, and TakenLeaseIsIdle says nobody is active then.
LEMMA HolderStep ==
    ASSUME DrainMargin, HandoverIInv, [HandoverNext]_handoverVars
    PROVE  ActiveHoldLease'
<1>0. /\ HandoverTypeOK /\ TimesArePast /\ \A r \in Replicas : HoldsLease(r)
      /\ LeaseDuration \in Nat /\ RenewDeadline \in Nat /\ RetryPeriod \in Nat
      /\ MaxDrain \in Nat /\ clock \in Nat
  BY Durations DEF HandoverIInv, ActiveHoldLease, HandoverTypeOK
<1> SUFFICES ASSUME NEW s \in Replicas PROVE HoldsLease(s)'
  BY DEF ActiveHoldLease
<1>a. HoldsLease(s)
  BY <1>0
<1>1. ASSUME NEW r \in Replicas, Observe(r) PROVE HoldsLease(s)'
  BY <1>0, <1>a, <1>1, HolderFrame DEF Observe, passVars
<1>2. ASSUME NEW r \in Replicas, AcquireLease(r) PROVE HoldsLease(s)'
  <2>1. ~Active(s)
    BY <1>2, TakenLeaseIsIdle
  <2>2. CASE s = r
    <3>1. /\ lease'.holder = s /\ lease'.renewed = clock /\ clock' = clock
          /\ phase'[s] = "leading" /\ since'[s] = clock
      BY <1>0, <1>2, <2>2 DEF AcquireLease, HandoverTypeOK
    <3>2. QED
      BY <1>0, <3>1 DEF HoldsLease, GiveUpAt, Active
  <2>3. CASE s # r
    <3>1. phase'[s] = phase[s] /\ since'[s] = since[s] /\ flight' = flight
          /\ clock' = clock
      BY <1>0, <1>2, <2>3 DEF AcquireLease, HandoverTypeOK, passVars
    <3>2. QED
      BY <1>0, <1>a, <2>1, <3>1, HolderFrame
  <2>4. QED
    BY <2>2, <2>3
<1>3. ASSUME NEW r \in Replicas, Renew(r) PROVE HoldsLease(s)'
  <2>1. CASE s = r
    <3>1. /\ lease'.holder = s /\ lease'.renewed = clock /\ clock' = clock
          /\ phase'[s] = "leading" /\ since'[s] = clock
      BY <1>0, <1>3, <2>1 DEF Renew, HandoverTypeOK
    <3>2. QED
      BY <1>0, <3>1 DEF HoldsLease, GiveUpAt, Active
  <2>2. CASE s # r
    <3>1. ~Active(s)
      BY <1>0, <1>3, <2>2, ActiveIsHolder DEF Renew, ActiveHoldLease
    <3>2. phase'[s] = phase[s] /\ since'[s] = since[s] /\ flight' = flight
          /\ clock' = clock
      BY <1>0, <1>3, <2>2 DEF Renew, HandoverTypeOK, passVars
    <3>3. QED
      BY <1>0, <1>a, <3>1, <3>2, HolderFrame
  <2>3. QED
    BY <2>1, <2>2
<1>4. ASSUME NEW r \in Replicas, StopLeading(r) PROVE HoldsLease(s)'
  <2>1. CASE s = r
    <3>1. /\ lease' = lease /\ clock' = clock /\ since'[s] = clock
          /\ phase'[s] = "draining" /\ phase[s] = "leading"
      BY <1>0, <1>4, <2>1 DEF StopLeading, HandoverTypeOK
    <3>2. lease.renewed = since[s] /\ since[s] \in Nat
      BY <1>0, <1>a, <3>1 DEF HoldsLease, HandoverTypeOK
    <3>3. QED
      BY <1>0, <1>a, <3>1, <3>2 DEF HoldsLease, GiveUpAt, Active
  <2>2. CASE s # r
    BY <1>0, <1>a, <1>4, <2>2, HolderFrame DEF StopLeading, HandoverTypeOK
  <2>3. QED
    BY <2>1, <2>2
<1>5. ASSUME NEW r \in Replicas, Exit(r) PROVE HoldsLease(s)'
  <2>1. CASE s = r
    BY <1>0, <1>5, <2>1, IdleHolds DEF Exit, passVars, HandoverTypeOK
  <2>2. CASE s # r
    BY <1>0, <1>a, <1>5, <2>2, HolderFrame DEF Exit, passVars, HandoverTypeOK
  <2>3. QED
    BY <2>1, <2>2
<1>6. ASSUME NEW r \in Replicas, Crash(r) PROVE HoldsLease(s)'
  <2>1. CASE s = r
    BY <1>0, <1>6, <2>1, IdleHolds DEF Crash, HandoverTypeOK
  <2>2. CASE s # r
    BY <1>0, <1>a, <1>6, <2>2, HolderFrame DEF Crash, HandoverTypeOK
  <2>3. QED
    BY <2>1, <2>2
<1>7. ASSUME NEW r \in Replicas, Restart(r) PROVE HoldsLease(s)'
  <2>1. CASE s = r
    <3>1. flight[s] = {}
      BY <1>a, <1>7, <2>1 DEF Restart, HoldsLease, Active
    <3>2. QED
      BY <1>0, <1>7, <2>1, <3>1, IdleHolds DEF Restart, passVars, HandoverTypeOK
  <2>2. CASE s # r
    BY <1>0, <1>a, <1>7, <2>2, HolderFrame DEF Restart, passVars, HandoverTypeOK
  <2>3. QED
    BY <2>1, <2>2
<1>8. ASSUME NEW r \in Replicas, List(r) PROVE HoldsLease(s)'
  BY <1>0, <1>a, <1>8, HolderFrame DEF List, leaseVars
<1>9. ASSUME NEW r \in Replicas, NEW c \in Claims, NEW d \in Devices,
             Send(r, c, d)
      PROVE  HoldsLease(s)'
  <2>1. /\ phase[r] = "leading" /\ (s # r => flight'[s] = flight[s])
        /\ UNCHANGED <<clock, lease, phase, since>>
    BY <1>0, <1>9 DEF Send, leaseVars, HandoverTypeOK
  <2>2. QED
    BY <1>a, <2>1 DEF HoldsLease, GiveUpAt, Active
<1>10. ASSUME NEW r \in Replicas, NEW w \in flight[r],
              Store(r, w) \/ Drop(r, w)
       PROVE  HoldsLease(s)'
  <2>1. flight[s] = {} => flight'[s] = {}
    BY <1>0, <1>10 DEF Store, Drop, HandoverTypeOK
  <2>2. UNCHANGED <<clock, lease, phase, since>>
    BY <1>10 DEF Store, Drop, leaseVars
  <2>3. QED
    BY <1>0, <1>a, <2>1, <2>2, HolderFrame
<1>11. ASSUME NEW c \in Claims, Release(c) PROVE HoldsLease(s)'
  BY <1>0, <1>a, <1>11, HolderFrame DEF Release, leaseVars
<1>b. ASSUME NEW w \in late, StoreLate(w) \/ DropLate(w) PROVE HoldsLease(s)'
  BY <1>0, <1>a, <1>b, HolderFrame DEF StoreLate, DropLate, leaseVars
<1>12. CASE Tick
  <2>1. UNCHANGED <<lease, phase, since, flight>> /\ clock' = clock + 1
    BY <1>12 DEF Tick, leaseVars, passVars
  <2>2. /\ phase[s] = "leading" => clock < GiveUpAt(s)
        /\ phase[s] = "draining" => clock < since[s] + MaxDrain
    BY <1>12 DEF Tick
  <2>3. since[s] \in Nat
    BY <1>0 DEF HandoverTypeOK
  <2>4. QED
    BY <1>0, <1>a, <2>1, <2>2, <2>3 DEF HoldsLease, GiveUpAt, Active
<1>13. CASE UNCHANGED handoverVars
  BY <1>0, <1>a, <1>13, HolderFrame DEF handoverVars, leaseVars, passVars
<1>14. QED
  BY <1>1, <1>2, <1>3, <1>4, <1>5, <1>6, <1>7, <1>8, <1>9, <1>10, <1>11,
     <1>b, <1>12, <1>13 DEF HandoverNext, Elect, Pass
-----------------------------------------------------------------------------
\* A late write whose sender, Lease and clock a step leaves alone stays bound.
LEMMA LateFrame ==
    ASSUME NEW w \in late, OutlivesItsSender(w), clock' = clock, lease' = lease,
           phase'[w.by] = phase[w.by], since'[w.by] = since[w.by]
    PROVE  OutlivesItsSender(w)'
BY DEF OutlivesItsSender

\* Writes of dead processes stay bound by the Lease.  Crash makes them, and
\* Restart is the step that could break it: it comes too late, by RestartMargin.
LEMMA LateStep ==
    ASSUME DrainMargin, RestartMargin, HandoverIInv, [HandoverNext]_handoverVars
    PROVE  LateHoldLease'
<1>0. /\ HandoverTypeOK /\ ActiveHoldLease /\ LateHoldLease
      /\ clock \in Nat /\ lease.renewed \in Nat
  BY DEF HandoverIInv, HandoverTypeOK, LeaseRecord
<1>a. ASSUME NEW w \in late
      PROVE  /\ OutlivesItsSender(w) /\ w.by \in Replicas /\ w.until \in Nat
             /\ phase[w.by] = "down" /\ since[w.by] \in Nat
  BY <1>0 DEF LateHoldLease, OutlivesItsSender, HandoverTypeOK, LateWrite
<1>1. ASSUME NEW r \in Replicas, Observe(r) PROVE LateHoldLease'
  BY <1>1, <1>a, LateFrame DEF Observe, passVars, LateHoldLease
<1>2. ASSUME NEW r \in Replicas, AcquireLease(r) PROVE LateHoldLease'
  BY <1>2, TakenLeaseIsIdle DEF AcquireLease, passVars, LateHoldLease
<1>3. ASSUME NEW r \in Replicas, Renew(r) PROVE LateHoldLease'
  <2>1. late = {}
    BY <1>0, <1>3, LateIsAlone DEF Renew, Active
  <2>2. QED
    BY <1>3, <2>1 DEF Renew, passVars, LateHoldLease
<1>4. ASSUME NEW r \in Replicas, StopLeading(r) \/ Exit(r) PROVE LateHoldLease'
  <2>1. late = {} /\ late' = late
    BY <1>0, <1>4, LateIsAlone DEF StopLeading, Exit, passVars, Active
  <2>2. QED
    BY <2>1 DEF LateHoldLease
<1>5. ASSUME NEW r \in Replicas, Crash(r) PROVE LateHoldLease'
  <2>1. /\ lease' = lease /\ clock' = clock /\ phase'[r] = "down"
        /\ since'[r] = clock /\ phase[r] # "down"
        /\ \A s \in Replicas : s # r => phase'[s] = phase[s] /\ since'[s] = since[s]
        /\ late' = late \union Orphaned(r)
    BY <1>0, <1>5 DEF Crash, HandoverTypeOK
  <2>2. ASSUME NEW w \in late PROVE OutlivesItsSender(w)'
    BY <1>a, <2>1, LateFrame
  <2>3. ASSUME NEW w \in Orphaned(r) PROVE OutlivesItsSender(w)'
    <3>1. PICK v \in flight[r] :
              w = [by |-> r, claim |-> v.claim, entry |-> v.entry,
                   until |-> (IF phase[r] = "draining" THEN since[r] ELSE clock) + MaxDrain]
      BY DEF Orphaned
    <3>2. /\ HoldsLease(r) /\ Active(r) /\ since[r] \in Nat /\ since[r] <= clock
          /\ w.by = r
          /\ w.until = (IF phase[r] = "draining" THEN since[r] ELSE clock) + MaxDrain
      BY <1>0, <3>1 DEF ActiveHoldLease, HoldsLease, HandoverTypeOK, HandoverIInv,
                        TimesArePast
    <3>3. CASE phase[r] = "leading"
      BY <1>0, <2>1, <3>2, <3>3, Durations DEF HoldsLease, OutlivesItsSender, GiveUpAt
    <3>4. CASE phase[r] = "draining"
      BY <1>0, <2>1, <3>2, <3>4, Durations DEF HoldsLease, OutlivesItsSender
    <3>5. QED
      BY <3>2, <3>3, <3>4 DEF Active
  <2>4. QED
    BY <2>1, <2>2, <2>3 DEF LateHoldLease
<1>6. ASSUME NEW r \in Replicas, Restart(r) PROVE LateHoldLease'
  <2>1. ASSUME NEW w \in late PROVE w.by # r
    BY <1>0, <1>6, <1>a, <2>1, Durations DEF Restart, OutlivesItsSender, RestartMargin
  <2>2. /\ lease' = lease /\ clock' = clock /\ late' = late
        /\ \A s \in Replicas : s # r => phase'[s] = phase[s] /\ since'[s] = since[s]
    BY <1>0, <1>6 DEF Restart, passVars, HandoverTypeOK
  <2>3. ASSUME NEW w \in late PROVE OutlivesItsSender(w)'
    BY <1>a, <2>1, <2>2, LateFrame
  <2>4. QED
    BY <2>2, <2>3 DEF LateHoldLease
<1>7. ASSUME UNCHANGED <<clock, leaseVars>>, late' \subseteq late PROVE LateHoldLease'
  BY <1>7, <1>a, LateFrame DEF leaseVars, LateHoldLease
<1>8. ASSUME NEW r \in Replicas, Pass(r) PROVE LateHoldLease'
  BY <1>7, <1>8 DEF Pass, List, Send, Store, Drop, Outdate
<1>9. ASSUME NEW c \in Claims, Release(c) PROVE LateHoldLease'
  BY <1>7, <1>9 DEF Release, Outdate
<1>10. ASSUME NEW w \in late, StoreLate(w) \/ DropLate(w) PROVE LateHoldLease'
  BY <1>7, <1>10 DEF StoreLate, DropLate, Outdate
<1>11. CASE Tick
  <2>1. UNCHANGED <<lease, phase, since, late>> /\ clock' = clock + 1
    BY <1>11 DEF Tick, leaseVars, passVars
  <2>2. \A w \in late : clock < w.until
    BY <1>11 DEF Tick
  <2>3. ASSUME NEW w \in late PROVE OutlivesItsSender(w)'
    BY <1>0, <1>a, <2>1, <2>2 DEF OutlivesItsSender
  <2>4. QED
    BY <2>1, <2>3 DEF LateHoldLease
<1>12. CASE UNCHANGED handoverVars
  BY <1>7, <1>12 DEF handoverVars, passVars
<1>13. QED
  BY <1>1, <1>2, <1>3, <1>4, <1>5, <1>6, <1>8, <1>9, <1>10, <1>11, <1>12
     DEF HandoverNext, Elect
-----------------------------------------------------------------------------
\* Steps that write no claim and start nothing keep a pass current.
LEMMA PassFrame ==
    ASSUME NEW r \in Replicas, CurrentFor(r), alloc' = alloc,
           view'[r] = view[r], flight'[r] \subseteq flight[r],
           listed'[r] => listed[r] /\ phase'[r] = "leading"
    PROVE  CurrentFor(r)'
BY DEF CurrentFor, Free

\* Passes stay current: only the one active replica writes, and it notes what
\* it writes.
LEMMA PassStep ==
    ASSUME HandoverIInv, [HandoverNext]_handoverVars
    PROVE  PassIsCurrent'
<1>0. /\ HandoverTypeOK /\ ActiveHoldLease /\ LateHoldLease
      /\ \A r \in Replicas : CurrentFor(r)
  BY DEF HandoverIInv, PassIsCurrent
<1> SUFFICES ASSUME NEW s \in Replicas PROVE CurrentFor(s)'
  BY DEF PassIsCurrent
<1>a. CurrentFor(s) /\ (listed[s] => phase[s] = "leading")
  BY <1>0 DEF CurrentFor
<1>1. ASSUME NEW r \in Replicas, Elect(r) PROVE CurrentFor(s)'
  <2>1. UNCHANGED <<alloc, view>> /\ flight'[s] \subseteq flight[s]
    BY <1>0, <1>1 DEF Elect, Observe, AcquireLease, Renew, StopLeading, Exit, Crash,
                      Restart, passVars, HandoverTypeOK
  <2>2. listed'[s] => listed[s]
    BY <1>0, <1>1 DEF Elect, Observe, AcquireLease, Renew, StopLeading, Exit, Crash,
                      Restart, passVars, HandoverTypeOK
  <2>3. listed'[s] => phase'[s] = "leading"
    <3>1. CASE StopLeading(r) \/ Crash(r)
      BY <1>0, <1>a, <3>1, <2>2 DEF StopLeading, Crash, HandoverTypeOK
    <3>2. CASE Observe(r) \/ Renew(r) \/ AcquireLease(r)
      BY <1>0, <1>a, <3>2, <2>2 DEF Observe, Renew, AcquireLease, HandoverTypeOK
    <3>3. CASE Exit(r) \/ Restart(r)
      BY <1>0, <1>a, <3>3, <2>2 DEF Exit, Restart, HandoverTypeOK
    <3>4. QED
      BY <1>1, <3>1, <3>2, <3>3 DEF Elect
  <2>4. QED
    BY <1>a, <2>1, <2>2, <2>3, PassFrame
<1>8. ASSUME NEW r \in Replicas, List(r) PROVE CurrentFor(s)'
  <2>1. CASE s = r
    BY <1>0, <1>8, <2>1 DEF List, leaseVars, CurrentFor, HandoverTypeOK
  <2>2. CASE s # r
    BY <1>0, <1>a, <1>8, <2>2, PassFrame DEF List, leaseVars, HandoverTypeOK
  <2>3. QED
    BY <2>1, <2>2
<1>9. ASSUME NEW r \in Replicas, NEW c \in Claims, NEW d \in Devices,
             Send(r, c, d)
      PROVE  CurrentFor(s)'
  <2> DEFINE entry == [device |-> d, shared |-> FALSE]
             sent == [claim |-> c, entry |-> entry]
  <2>1. /\ flight'[r] = {sent}
        /\ view'[r] = [view[r] EXCEPT ![c] = {entry}]
        /\ s # r => flight'[s] = flight[s] /\ view'[s] = view[s]
    BY <1>0, <1>9 DEF Send, HandoverTypeOK
  <2>2. /\ UNCHANGED <<phase, listed, alloc>> /\ listed[r]
        /\ view[r][c] = {}
        /\ \A b \in Claims : \A e \in view[r][b] : e.device # d
    BY <1>9 DEF Send, leaseVars
  <2>3. /\ phase[r] = "leading"
        /\ \A b \in Claims : alloc[b] \subseteq view[r][b]
    BY <1>0, <2>2 DEF CurrentFor
  <2>4. \A b \in Claims : alloc[b] \subseteq view'[r][b]
    BY <1>0, <2>1, <2>2, <2>3 DEF HandoverTypeOK
  <2>5. alloc[c] = {} /\ \A b \in Claims : \A e \in alloc[b] : e.device # d
    BY <2>2, <2>3
  <2>6. view'[r][c] = {entry} /\ sent.claim = c /\ sent.entry = entry
        /\ entry.device = d
    BY <1>0, <2>1 DEF HandoverTypeOK
  <2> HIDE DEF entry, sent
  <2>7. CASE s # r
    BY <1>a, <2>1, <2>2, <2>7, PassFrame
  <2>8. CASE s = r
    BY <2>1, <2>2, <2>3, <2>4, <2>5, <2>6, <2>8 DEF CurrentFor, Free
  <2>9. QED
    BY <2>7, <2>8
<1>10. ASSUME NEW r \in Replicas, NEW w \in flight[r], Store(r, w)
       PROVE  CurrentFor(s)'
  <2>1. s # r => flight[s] = {} /\ ~listed[s]
    <3>1. Active(r)
      BY <1>0, <1>10 DEF ActiveHoldLease, HoldsLease
    <3>2. s # r => ~Active(s)
      BY <1>0, <3>1, ActiveIsHolder
    <3>3. QED
      BY <1>0, <1>a, <3>2 DEF Active, ActiveHoldLease, HoldsLease
  <2>2. flight'[s] = {}
    BY <1>0, <1>10, <2>1 DEF Store, HandoverTypeOK
  <2>3. /\ w.claim \in Claims
        /\ alloc' = [alloc EXCEPT ![w.claim] = {w.entry}]
        /\ listed'[s] => listed[s]
        /\ UNCHANGED <<phase, view>>
    BY <1>0, <1>10 DEF Store, leaseVars, HandoverTypeOK, Write
  <2>4. ASSUME listed'[s], NEW c \in Claims PROVE alloc'[c] \subseteq view[s][c]
    <3>1. s = r /\ listed[s]
      BY <2>1, <2>3, <2>4
    <3>2. alloc[c] \subseteq view[s][c] /\ view[s][w.claim] = {w.entry}
      BY <1>a, <3>1 DEF CurrentFor
    <3>3. QED
      BY <1>0, <2>3, <3>2 DEF HandoverTypeOK
  <2>5. QED
    BY <1>a, <2>2, <2>3, <2>4 DEF CurrentFor
<1>11. ASSUME NEW r \in Replicas, NEW w \in flight[r], Drop(r, w)
       PROVE  CurrentFor(s)'
  <2>1. CASE s = r
    BY <1>0, <1>11, <2>1 DEF Drop, leaseVars, CurrentFor, HandoverTypeOK
  <2>2. CASE s # r
    BY <1>0, <1>a, <1>11, <2>2, PassFrame DEF Drop, leaseVars, HandoverTypeOK
  <2>3. QED
    BY <2>1, <2>2
<1>12. ASSUME NEW c \in Claims, Release(c) PROVE CurrentFor(s)'
  <2>1. /\ UNCHANGED <<phase, view, listed, flight>>
        /\ \A b \in Claims : alloc'[b] \subseteq alloc[b]
    BY <1>0, <1>12 DEF Release, leaseVars, HandoverTypeOK
  <2>2. \A w \in flight[s] : w.claim \in Claims
    BY <1>0 DEF HandoverTypeOK, Write
  <2>3. QED
    BY <1>a, <2>1, <2>2 DEF CurrentFor, Free
<1>b. ASSUME NEW w \in late, StoreLate(w) \/ DropLate(w) PROVE CurrentFor(s)'
  <2>1. flight[s] = {} /\ ~listed[s]
    BY <1>0, <1>a, LateIsAlone DEF Active, ActiveHoldLease, HoldsLease
  <2>2. flight'[s] = {} /\ ~listed'[s]
    BY <1>b, <2>1 DEF StoreLate, DropLate
  <2>3. QED
    BY <2>2 DEF CurrentFor
<1>13. CASE Tick
  BY <1>a, <1>13, PassFrame DEF Tick, leaseVars, passVars
<1>14. CASE UNCHANGED handoverVars
  BY <1>a, <1>14, PassFrame DEF handoverVars, leaseVars, passVars
<1>15. QED
  BY <1>1, <1>8, <1>9, <1>10, <1>11, <1>12, <1>b, <1>13, <1>14 DEF HandoverNext, Pass
-----------------------------------------------------------------------------
\* Late writes stay free in the store: nobody else writes while there is one.
LEMMA LateFreeStep ==
    ASSUME HandoverIInv, [HandoverNext]_handoverVars
    PROVE  LateIsFree'
<1>0. HandoverTypeOK /\ ActiveHoldLease /\ LateHoldLease /\ PassIsCurrent /\ LateIsFree
  BY DEF HandoverIInv
<1>1. ASSUME late' \subseteq late,
             \A b \in Claims : alloc'[b] \subseteq alloc[b]
      PROVE  LateIsFree'
  <2>1. \A w \in late : w.claim \in Claims
    BY <1>0 DEF HandoverTypeOK, LateWrite
  <2>2. QED
    BY <1>0, <1>1, <2>1 DEF LateIsFree, Free
<1>2. ASSUME NEW r \in Replicas, Crash(r) PROVE LateIsFree'
  <2>1. alloc' = alloc /\ late' = late \union Orphaned(r)
    BY <1>2 DEF Crash
  <2>2. CASE flight[r] = {}
    BY <1>1, <2>1, <2>2 DEF Orphaned
  <2>3. CASE flight[r] # {}
    <3>1. late = {}
      BY <1>0, <2>3, LateIsAlone DEF ActiveHoldLease, HoldsLease
    <3>2. \A w \in flight[r] : Free(w)
      BY <1>0 DEF PassIsCurrent, CurrentFor
    <3>3. \A v, w \in flight[r] : v = w
      BY <1>0 DEF PassIsCurrent, CurrentFor
    <3>4. ASSUME NEW w \in Orphaned(r) PROVE Free(w)'
      <4>1. PICK v \in flight[r] : w.claim = v.claim /\ w.entry = v.entry
        BY DEF Orphaned
      <4>2. QED
        BY <2>1, <3>2, <4>1 DEF Free
    <3>5. \A v, w \in Orphaned(r) : v = w
      BY <3>3 DEF Orphaned
    <3>6. QED
      BY <2>1, <3>1, <3>4, <3>5 DEF LateIsFree
  <2>4. QED
    BY <2>2, <2>3
<1>3. ASSUME NEW r \in Replicas, Elect(r), ~Crash(r) PROVE LateIsFree'
  BY <1>1, <1>3 DEF Elect, Observe, AcquireLease, Renew, StopLeading, Exit, Restart,
                    passVars
<1>4. ASSUME NEW r \in Replicas, NEW w \in flight[r], Store(r, w) PROVE LateIsFree'
  <2>1. late = {}
    BY <1>0, LateIsAlone DEF ActiveHoldLease, HoldsLease
  <2>2. late' = {}
    BY <1>4, <2>1 DEF Store, Outdate
  <2>3. QED
    BY <2>2 DEF LateIsFree
<1>5. ASSUME NEW r \in Replicas, Pass(r), \A w \in flight[r] : ~Store(r, w)
      PROVE  LateIsFree'
  BY <1>1, <1>5 DEF Pass, List, Send, Drop
<1>6. ASSUME NEW c \in Claims, Release(c) PROVE LateIsFree'
  BY <1>0, <1>1, <1>6 DEF Release, Outdate, HandoverTypeOK
<1>7. ASSUME NEW w \in late, StoreLate(w) PROVE LateIsFree'
  <2>1. late' = {}
    BY <1>0, <1>7 DEF StoreLate, Outdate, LateIsFree
  <2>2. QED
    BY <2>1 DEF LateIsFree
<1>8. ASSUME NEW w \in late, DropLate(w) PROVE LateIsFree'
  BY <1>1, <1>8 DEF DropLate
<1>9. CASE Tick \/ UNCHANGED handoverVars
  BY <1>1, <1>9 DEF Tick, handoverVars, passVars
<1>10. QED
  BY <1>2, <1>3, <1>4, <1>5, <1>6, <1>7, <1>8, <1>9 DEF HandoverNext
-----------------------------------------------------------------------------
\* The inductive invariant holds of every behaviour, if handovers have their
\* margins.
LEMMA Inductive ==
    ASSUME DrainMargin, RestartMargin
    PROVE  HandoverSpec => []HandoverIInv
<1>1. HandoverInit => HandoverIInv
  BY HandoverAssumption
     DEF HandoverInit, HandoverIInv, HandoverTypeOK, TimesArePast, ActiveHoldLease,
         PassIsCurrent, LateHoldLease, LateIsFree, HoldsLease, Active, CurrentFor,
         NoLease, Nothing, LeaseRecord
<1>2. HandoverIInv /\ [HandoverNext]_handoverVars => HandoverIInv'
  <2> SUFFICES ASSUME HandoverIInv, [HandoverNext]_handoverVars
               PROVE  HandoverIInv'
    OBVIOUS
  <2>1. HandoverTypeOK'
    BY TypeStep DEF HandoverIInv
  <2>2. TimesArePast' /\ ActiveHoldLease' /\ LateHoldLease'
    BY TimesStep, HolderStep, LateStep
  <2>3. PassIsCurrent' /\ LateIsFree'
    BY PassStep, LateFreeStep
  <2>4. QED
    BY <2>1, <2>2, <2>3 DEF HandoverIInv
<1>3. QED
  BY <1>1, <1>2, PTL DEF HandoverSpec

\* The state of replicas, Lease and passes is well typed, for any number of
\* replicas and any durations that validate accepts (HandoverTypeOK of
\* LeaderHandover).
THEOREM HandoverTypes == HandoverSpec => []HandoverTypeOK
<1>1. HandoverInit => HandoverTypeOK
  BY HandoverAssumption DEF HandoverInit, HandoverTypeOK, NoLease, Nothing, LeaseRecord
<1>2. HandoverTypeOK /\ [HandoverNext]_handoverVars => HandoverTypeOK'
  BY TypeStep
<1>3. QED
  BY <1>1, <1>2, PTL DEF HandoverSpec

\* leader_election.go keeps the Lease on shutdown and on loss.  If the lease
\* outlasts the last renewal by the retry, the deadline and the drain, and a dead
\* process is not replaced within the drain, no replacement is ever active
\* together with an old leader or a request it has sent.
THEOREM NoOverlapHolds ==
    ASSUME DrainMargin, RestartMargin
    PROVE  HandoverSpec => []NoOverlap
<1>1. HandoverIInv => NoOverlap
  BY ActiveIsHolder, LateIsAlone DEF HandoverIInv, NoOverlap
<1>2. QED
  BY <1>1, Inductive, PTL

\* With the same margins, the allocations behave across any number of handovers
\* as the atomic ledger that one replica's pipeline implements, whatever becomes
\* of the requests of dead processes.
THEOREM HandoverKeepsLedgerHolds ==
    ASSUME DrainMargin, RestartMargin
    PROVE  HandoverSpec => HandoverKeepsLedger
<1>1. HandoverInit => Ledger!LedgerInit
  BY DEF HandoverInit, Nothing, Ledger!LedgerInit
<1>2. HandoverIInv /\ [HandoverNext]_handoverVars => [Ledger!LedgerNext]_alloc
  <2> SUFFICES ASSUME HandoverIInv, [HandoverNext]_handoverVars, alloc' # alloc
               PROVE  Ledger!LedgerNext
    OBVIOUS
  <2>1. CASE \E c \in Claims : Release(c)
    BY <2>1 DEF Release, Ledger!LedgerNext, Ledger!Release
  <2>2. ASSUME NEW c \in Claims, NEW e \in Entry, alloc[c] = {},
               \A b \in Claims : \A f \in alloc[b] : f.device # e.device,
               alloc' = [alloc EXCEPT ![c] = {e}]
        PROVE  Ledger!LedgerNext
    <3>1. alloc \in [Claims -> SUBSET Entry] /\ alloc'[c] = {e}
      BY <2>2 DEF HandoverIInv, HandoverTypeOK
    <3>2. \A b \in Claims : \A g \in alloc'[c], f \in alloc[b] : Ledger!Compatible(g, f)
      BY <2>2, <3>1 DEF Ledger!Compatible
    <3>3. \A g, f \in alloc'[c] : g # f => Ledger!Compatible(g, f)
      BY <3>1
    <3>4. Ledger!Grant(c)
      BY <2>2, <3>1, <3>2, <3>3 DEF Ledger!Grant
    <3>5. QED
      BY <3>4 DEF Ledger!LedgerNext
  <2>3. ASSUME NEW r \in Replicas, NEW w \in flight[r], Store(r, w)
        PROVE  Ledger!LedgerNext
    <3>1. w.claim \in Claims /\ w.entry \in Entry
      BY DEF HandoverIInv, HandoverTypeOK, Write
    <3>2. alloc' = [alloc EXCEPT ![w.claim] = {w.entry}] /\ Free(w)
      BY <2>3 DEF Store, HandoverIInv, PassIsCurrent, CurrentFor
    <3>3. QED
      BY <2>2, <3>1, <3>2 DEF Free
  <2>4. ASSUME NEW w \in late, StoreLate(w) PROVE Ledger!LedgerNext
    <3>1. w.claim \in Claims /\ w.entry \in Entry
      BY DEF HandoverIInv, HandoverTypeOK, LateWrite
    <3>2. alloc' = [alloc EXCEPT ![w.claim] = {w.entry}] /\ Free(w)
      BY <2>4 DEF StoreLate, HandoverIInv, LateIsFree
    <3>3. QED
      BY <2>2, <3>1, <3>2 DEF Free
  <2>5. QED
    BY <2>1, <2>3, <2>4
       DEF HandoverNext, Elect, Pass, handoverVars, Observe, AcquireLease, Renew,
           StopLeading, Exit, Crash, Restart, List, Send, Drop, DropLate, Tick
<1>3. QED
  BY <1>1, <1>2, Inductive, PTL DEF HandoverSpec, HandoverKeepsLedger, Ledger!LedgerSpec
=============================================================================
