# DRAForge in TLA+

DRAForge simulates Kubernetes Dynamic Resource Allocation (DRA) hardware: a
controller turns `SimulatedDevicePool` objects into `ResourceSlice`s and
allocates the slices' devices to `ResourceClaim`s, a node plugin publishes what
was allocated as a CDI document, and read-only tools (API server, dashboard,
CLI, TUI) show and explain the result.

This directory models the parts that change state and what the read-only ones
say about a cluster that changes while they look, checks them with TLC on small
clusters, and proves the most important invariants with TLAPS for clusters of
any size. File names below are relative to the repository root.

## 1. Inventory

### Parts that keep state

| Component | State | Operations | Hard behaviour |
|---|---|---|---|
| Allocation pipeline (`internal/simulator/allocation.go`) | nothing between passes; in a pass, copies of all claims, slices and classes | `SimulateAllocation`: three lists, then plan and `UpdateStatus` claim by claim | decisions on stale copies; claims deleted and recreated under a plan; conflicts; stored writes whose answer is lost; a pass that ends in the middle; devices that change between shareable and exclusive |
| Planner (`allocation_plan.go`, `allocation_constraints.go`, `allocation_usage.go`, `capacity_policy.go`) | for one claim: the selections so far, the devices and shares they use, the branch budget | `planClaimAllocation`: greedy, or a depth-first search | backtracking over requests, alternatives, nodes and combinations; limits shared by all levels; rounding of amounts; two planners for the same claims |
| Pool pipeline (`reconcile.go`, `controller.go`, `ownership.go`) | the active-fault gauge; in a pass, the listed pools, the set `activeSliceNames` | `Reconcile`: finalizer, get/create/update of each slice, status, finalization, orphan cleanup | any request fails or crashes in between; pools change between the requests; the pipeline watches what it writes; slice names collide |
| Event controller (`event_controller.go`, `error_policy.go`) | two rate-limited workqueues with one key each, metrics | event handlers, `runWorker`, `processQueueItem`, `Run`, `shutDownQueues` | events during a pass; retry limits; shutdown while passes, timers and handlers are active; gauges stored outside the queue's lock |
| Controller process (`cmd/draforge-controller`) | contexts, channels, the atomic `state`, leader gauge | `runControllerLifecycle`, `runLeaseControllerLifecycle`, `runActiveLeader`, shutdown | the elector runs its callback on its own goroutine, which may start late; every goroutine waits for another one |
| Node plugin (`cmd/draforge-sim-driver`) | the CDI document, a temporary file, `driverStatus` | `Refresh`, `atomicCDIWriter.Write`, `Run` | each of eleven system calls fails; process death and power loss between two; retries by ticker |
| Replicas and their Lease (`leader_election.go`, with client-go) | the Lease; per replica, when it last renewed or saw the Lease change | acquire, renew, give up, drain, restart | a leader that stalls; requests on their way when it stops or dies; a restart with the identity that still holds the Lease |
| Readiness probe (`internal/health/readiness.go`) | `lastSuccess` | `Check` | concurrent checks that finish out of order, timeouts, the grace period |
| API server (`internal/server/server.go`) | the map of stream clients, a channel with a buffer of one for each | connect, initial graph, broadcast, leave, shutdown | slow, stuck, leaving and returning clients; send against close; writes without deadline at shutdown |
| Dashboard hooks (`web/src/hooks`, `App.tsx`) | fetched data, connection state, the selected claim and its explanation | fetch, select, event, reconnect | answers out of order, selections that the list of claims replaces |

### How they interact

They share the API server's objects and never call each other. The pool pipeline
writes slices; its writes are events for both pipelines. The allocation pipeline
reads slices, classes and claims and writes claim statuses; its writes are events
for itself. The node plugin polls the claims. `EventController` runs one pass of
each pipeline at a time; the controller process runs one event controller, and
the Lease makes it the only one. The API server builds a graph for every new
stream and one for each broadcast tick, and discovery, explanation and doctor
reports on request; the dashboard holds one stream and asks for the rest.

### Parts that keep no state

Discovery, the topology graph, the explanation engine and doctor keep nothing,
yet they are not functions of one state of the cluster: each takes two to five
lists one after another, any of which may fail, and combines them. They are
modelled together in `ClusterViews`. Redaction and the CEL evaluator compute a
result from their input; the CLI, TUI, e2e checker, Helm chart and CRD configure
or print. These are listed in `PROJECT.json` as not modelled.

### What makes each part correct

- Allocation: no device is held twice unless every holder has a share of it; the
  shares fit the capacity; an allocation answers the claim as it is now; it never
  moves; a servable claim is served.
- Planner: what it answers is a plan; it finds one when there is one; it keeps the
  order of `firstAvailable`.
- Pools: no slice without a living owner; no deletion of a wanted slice; the
  cluster converges and the controller then rests.
- Event controller: an event is followed by a pass; cancellation ends everything.
- Process: nothing is active after the lifecycle returned; every way to stop
  stops.
- Replicas: at most one can change the cluster, what it has sent included.
- Stream: the broadcaster survives every departure; whoever reads sees the latest
  graph in the end; shutdown ends every handler.
- Probe: ready rests on a recent success. Pane: it shows the selected claim.
- Views: a report was true at some moment or is about something that changed;
  what stays wrong is found; the graph is closed and names no wrong device.
- Node plugin: a reader, even after a power loss, finds a whole document; ready
  means published and durable.

## 2. Modules

| Module | Models | Notes |
|---|---|---|
| `ClaimPlan` | `planClaimAllocation` and the usage accounting, for a claim with one `ExactCount` request | constant operators only. `Plans(spec, held, slices, classes)` is the set of plans the code may choose; `{}` when it refuses |
| `WorkQueue` | one rate-limited queue with one key, as a pipeline sees it | extended by both pipelines |
| `AllocationLedger` | abstract specification: devices are granted to a claim that holds none and released, atomically, without conflict | |
| `ClaimAllocation` | the allocation pipeline, one action per API request | implements `AllocationLedger` |
| `CapacityPolicy` | validation and rounding of capacity request policies | constant operators only |
| `ClaimSearch` | `planClaimAllocation` for every supported claim, with both planners | one step per request entered, alternative, selection and return |
| `ClaimSearchProperties` | plans defined by what they are, and what the planner promises about them | compares `ClaimSearch` with `ClaimPlan` |
| `PoolSync` | the pool pipeline, one action per API request | |
| `EventController` | handlers, workers, `Run`, client-go's queue (dirty, processing, delayed) and gauges | each pipeline's queue is shown to be a `WorkQueue` |
| `ControllerLifecycle` | main, lifecycle goroutine, elector, callback goroutine | |
| `CDIDriver` | the node plugin, one action per system call | separates what a reader sees from what survives a power loss |
| `LeaderHandover` | several replicas, the Lease, its durations, allocation passes as a list and writes | implements `AllocationLedger` |
| `EventStream` | the handlers of `/api/stream`, the broadcaster, start and shutdown, `useSSE` | one step per critical section, write, receive and build |
| `ReadinessProbe` | concurrent `Check`s | |
| `ExplanationPane` | `App`'s selection, the list of claims, `useClaimExplanation` | |
| `APIServer` | the three above in one process and its users | the stream and the probe share the context |
| `ClusterViews` | discovery, graph, explanation, DRA-003 to DRA-005 | one step per list; what is reported is a function of what was seen |
| `MC*` | finite instances for TLC | |
| `*Proofs` | TLAPS proofs about the module they extend | `ControllerProofs` is about `EventController`, `ControllerLifecycle` and `LeaderHandover`, `ClaimSearchProofs` about `CapacityPolicy`, `ClaimSearch` and its properties, `ClaimPlanProofs` about `ClaimPlan` as their abstraction |

### State and actions against the code

**ClaimAllocation.** `present`, `spec`, `alloc`, `slices`, `classes` are the API
server; `view`, `listed*`, `index`, `plan` are `allocationSyncState` and the loop
of `SimulateAllocation`. `unchanged` is the set of listed claims whose
resourceVersion is still the listed one: `UpdateStatus` succeeds for those and is
refused with Conflict (retried) or NotFound (terminal) otherwise. A pass is
`GetKey`, `ListClaims`, `ListSlices`, `ListClasses`, then `SkipClaim` or
`PlanClaim` and a write for every claim in the listed order, then `PassSucceeds`.
Each request may fail, before or after it is stored (`WriteAnswerLost`), and the
process may die (`Restart`). Between any two requests, users create, delete,
recreate and deallocate claims, slices are republished and classes come and go.

A device has the identity (pool, device name): `deviceIdentityKey` ignores the
node, so results carry the node only to state properties about it.

**ClaimSearch.** `input` is what a pass hands to the planner: the claim, slices,
classes and committed results. `frames` is the stack of
`searchConstrainedRequests`: for each request entered, the alternatives and the
selections of the current alternative that are still to be tried; `chosen` is the
state passed down (`constrainedSearchState`), `remaining` the branch budget. The
greedy planner uses the same frames and takes the first selection. The selections
of an alternative do not depend on what is tried below it, so a frame holds them
all, in the order in which the code yields them. A device's selectors are its
verdict on a class (match, other, error); admin access, tolerations and other
unsupported fields are one flag.

**CapacityPolicy.** Quantities are integers of fractions, `Unit` to a whole, because
`Quantity.Value` rounds up to a whole and ranges are computed on values.

**PoolSync.** `pool`, `nodes`, `slice` are the API server (a slice is its owner,
UID label, node, health and slice count; uid 0 is a slice of an older controller
without the UID label); `pc`, `snap`, `todo`, `cur`, `targets`, ... follow
`Reconcile` and its callees. `fresh` and `gotFresh` stand for resourceVersions.
Every request has the outcomes success, refusal by the server, failure, and
success with a lost answer.

**EventController.** Program counters of the handlers and workers separate
`queue.Add`, `queue.Len` and the store of the gauge. A pass is one step.

**ControllerLifecycle.** One program counter per goroutine, one Boolean per
context and channel. client-go's elector is modelled by its promises: it starts
`OnStartedLeading` on a goroutine of its own, cancels that goroutine's context
when it stops renewing, and calls `OnStoppedLeading` before it returns.

**LeaderHandover.** `clock` counts time and `Tick` stops at deadlines: a leader
has given up `RetryPeriod + RenewDeadline` after its last renewal, and what a
stopped or dead replica has sent is settled `MaxDrain` later. A process that dies
leaves its request in `late`, from where it is stored or lost (`StoreLate`,
`DropLate`) whatever the process that follows it does; that one may start
`RestartDelay` later, with the same identity. A candidate notes when it
saw the Lease change (`observed`, `observedAt`) and takes it after
`LeaseDuration`, or at once if it bears its own identity. `ReleaseOnCancel` is
false, so `StopLeading` leaves the Lease. `List`, `Send`, `Store` and `Drop` are
the pass of `ClaimAllocation` with exclusive devices; `fresh` stands for
resourceVersions.

**EventStream.** A connection's `pc` follows `handleStream`: building the initial
graph, writing, waiting in the select, leaving, closing. `clients` is the map,
`chan` the buffer, `wire` the socket, `peer` who holds the connection. A graph is
the version of the cluster it was built from. `Connect` accepts and registers in
one step, `Signal` cancels the context and begins `Shutdown`; `TimedOut` is the
`Close` after `ShutdownTimeout`. `AcceptFails` is the other way to return: requests
are cancelled and nothing is closed. Tabs in `Stuck` never read.

**ReadinessProbe.** A check begins, has a result (`checkedAt` is read then) and is
answered under the lock, in any order; `successes` is history.

**ExplanationPane.** `asked` numbers the requests, `active` is the one whose effect
has not been cleaned up. The list of claims arrives once, and the effect of `App`
keeps or replaces the selection.

**ClusterViews.** `Lists` gives the requests of each operation in the order of the
code; `Read` takes a snapshot of one resource, `ReadFails` is an error, `Change`
anything that users do to what the operation lists. `seen` is what it has;
`GraphNodes`, `GraphEdges`, `Stats` and the reports are functions of it. `ever` and
`always` are the faults, defined without the code, that held at some and at every
moment, `touched` the objects that did not stay as they were. A slice has one
device; a requirement of a NodeSelector term names nodes or may admit any.

**CDIDriver.** `doc` is the file a reader opens at `cdiPath`, `stable` the set of
files a power loss may leave there; `temp` and `flushed` are the temporary file
as written and as stored by `fsync`.

## 3. Runs

All passing runs together take every action of the specifications. `search`,
`controller`, `api_server` and `cluster_views` check `TypeOK` too; the types of all
modules are proved (section 4).

| Run | Instance | Shows |
|---|---|---|
| `allocation` | 2 claims (a share, or two whole devices), 2 slices on 2 nodes, 2 devices (capacity 2 and 1), 3 environment changes, 1 transient fault, retry limit 8 | `NoDoubleAllocation`, `CapacityRespected`, `AllocationAnswersSpec`, `ImplementsLedger`, `ServableClaimsAreServed` |
| `search` | 10 488 inputs, result limit 3, branch budget 8 | `PlanIsValid`, `NoMatchIsExhaustive`, `PreferenceRespected`, `AgreesWithClaimPlan` |
| `pools` | 2 pools, 2 nodes, all nodes or one, healthy/disappear/no spec, with and without legacy slices, 2 changes, 1 fault of any kind, retry limit 8 | `OwnedSlicesHaveOwner`, `DeletionsHaveCause`, `Converges`, `Quiesces` |
| `controller` | both pipelines, 1 event, 2 failing passes, retry limit 1; or the process with and without leader election | `WorkQueueIsAbstraction`, `EventsAreHandled`, `NothingRunsAfterReturn`, `CancelStopsRun`; `NothingActiveAfterLifecycle`, `EveryEndIsReached` |
| `cdi` | 2 claims, 3 results, both modes, 3 changes, 2 faults, 2 crashes | `DocumentsAreComplete`, `ReadyMeansPublished`, `FailureKeepsADocument`, `Converges` |
| `leader_handover` | 2 replicas, 2 claims, 2 devices, durations 5, 2, 1, drain 1, restart after 2, 6 units of time | `NoOverlap`, `HandoverKeepsLedger` |
| `api_server` | 2 dashboards, one stuck, 2 connections, 1 change; or 2 probers, timeout 1, grace 2, 4 units of time; or a pane with 2 claims and 4 requests | `NoSendOnClosedChannel`, `ShownGoesBackOnlyOnce`, `ReadersCatchUp`, `ShutdownEndsStreams`; `ReadyIsRecent`; `PaneShowsSelection` |
| `cluster_views` | 2 namespaces with a claim of one name each, 2 pods, 3 slices (one device name on two nodes, and one without node), 2 classes, 6 starting clusters, 8 operations, 2 changes, any failures | `GraphIsClosed`, `GraphIsCertain`, `FaultsAreTrueOrMoot`, `LastingFaultsAreReported`, `CandidatesAreCounted` |

These runs ask for what a document or a test of the repository says and end in a
**violation**, which section 6 explains:

| Run | Instance | Violates |
|---|---|---|
| `healthy_available` | one device name on two nodes | `HealthyDevicesAvailable` |
| `last_known_good` | as `cdi` | `FailurePreservesDocument` |
| `missing_devices` | as `cluster_views` | `MissingDevicesAreMissing` |
| `lease_margin` | as `leader_handover`, durations 4, 3, 2, 8 units of time | `NoOverlap` |

### Why these bounds

- Two claims and two devices are what a double allocation needs; a capacity of 2
  next to one of 1 lets a device be full, partly used and too small. Three changes
  allow delete, recreate and one change of a slice within one pass, which is the
  longest chain of outside changes one stale plan can meet; the faults add the
  lost answer.
- The inputs of `search` are five families: two requests with alternatives and a
  `MatchAttribute` constraint over two nodes, where attributes are qualified, plain,
  missing, equal, different, malformed or lists; shareable devices with each of
  fifteen valid and invalid policies, shares of other claims and of an earlier
  request; `All` mode over slices whose generations and counts agree or not;
  the claims `ClaimPlan` is about; and what the planner refuses. Two requests are
  what backtracking needs; the limits are so small that inputs exceed them.
- In `pools` two changes are create and delete, or create and edit, of one pool
  between the requests of a pass; a second pool shows that finalizing one does
  not touch the other. More changes, such as a pool that is created again, are
  left to the proofs of the two safety properties.
- One event is enough for the queue because an initial enqueue precedes it: the
  event can meet the key waiting, being processed, in backoff, or done. Two
  failures with a retry limit of 1 pass the limit.
- Six units of time let a leader stall, a lease of five run out and the other
  replica take over and write while the first one restarts, or restart itself with a
  request of its former process on its way.
- Two connections let a dashboard come back while its first handler is still on
  its way out, or a reader and a stuck dashboard share the broadcaster; one change
  makes an older and a newer graph. Streams, probes and the pane share no state
  but the context, so a behaviour has one of them.
- Two changes between lists let an object and what it refers to come or go
  together, and an object go and come back. Changes are to resources the operation
  lists; others cannot be seen.
- Two crashes allow a crash during the recovery from a crash.
- The retry limit is 1 in `controller`, where the limit itself matters, and the
  code's 8 for the pipelines, where fewer faults than retries occur: with more, the
  code gives up on purpose until the next event. `Converges` of the pools allows for
  that where an error is not retried at all (`givenUp`, a history variable of
  `MCPoolSync`).
- The process knows its controller by what it promises, and the controller the
  process by a context, so a behaviour of `controller` has one of them move.
- Deadlock checking is off where the system may really stop: all changes are
  spent and the controller rests, or it has been shut down.

### Fairness

Weak fairness of the worker, of the timers and of each watch: goroutines are
scheduled, `AddRateLimited` fires and informers deliver what they watch. Nothing
is assumed of users, failures or crashes; they are finite because they are
bounded. `CDIDriver` assumes weak fairness of each system call and of the ticker,
and strong fairness of the `ctx.Done()` case of the select, because Go chooses
among ready cases at random. `EventStream` assumes the same of its selects, weak
fairness of handlers, broadcaster and server, and that a dashboard which is not
stuck handles the events it gets; nothing of users, connections or signals.
`ControllerLifecycle` assumes that the elector reacts to its context, and that the
active controller returns when its context is done, which is `CancelStopsRun` of
`EventController`.

## 4. Proofs

`tlapm` checks every obligation. The constants are arbitrary sets and numbers
that satisfy the named `ASSUME`s (TLC evaluates these on every run).

| Theorem | Says |
|---|---|
| `AllocationTypes`, `NoDoubleAllocationHolds`, `AllocationsNeverMoveHolds`, `ImplementsLedgerHolds` | the allocation pipeline, for any number of claims, devices, nodes, slices, faults and changes, never allocates a device twice, never moves an allocation and implements the ledger |
| `AllocationAnswersSpecHolds`, `CapacityRespectedHolds` | in the same pipeline what is allocated answers the claim's own specification, and the shares of a device never add up to more than its capacity |
| `ConsumedIsCharge` | what `consumedCapacityForRequest` computes for a valid policy with whole steps is the least amount that the policy permits, or more than the device has when none does |
| `SearchTypes`, `SearchInductiveInvariant`, `PlanIsValidHolds` | whatever the planner answers is a plan, for every claim, cluster, policy, result limit and branch budget |
| `ExhaustiveInductiveInvariant`, `NoMatchIsExhaustiveHolds`, `PreferenceRespectedHolds` | "NoMatch" means that there is no plan, and no alternative before the planned one leads to a plan, for every claim and every cluster in which no identity is published twice, which leaves out the controller's own pools on several nodes (section 6.5), within the other conditions of section 5 |
| `AgreesWithClaimPlanHolds` | the planner the allocation pipeline is specified with, `ClaimPlan`, is an abstraction of the full one: for every claim it is about (`IsPlain`) the answers are its plans, and there is a failure only where it has no plan |
| `PoolTypes`, `OwnedSlicesHaveOwnerHolds` | the ownership contract for any pools, nodes and slice names, colliding names included |
| `DeletionsHaveCauseHolds` | neither finalization, nor the disappear fault, nor the orphan cleanup deletes a slice that a listed pool wants, if `NamesAreDistinct`; with colliding names this is false |
| `ControllerTypes`, `NothingRunsAfterReturnHolds`, `WorkQueueIsAbstractionHolds` | the event controller, for any pipelines, handlers, retry limits and failures: no worker outlives `Run`, and each queue implements `WorkQueue` |
| `LifecycleTypes`, `NothingActiveAfterLifecycleHolds` | the controller process, in every interleaving of its goroutines, with and without leader election |
| `HandoverTypes`, `NoOverlapHolds`, `HandoverKeepsLedgerHolds` | any number of replicas: types for all durations that `validate` accepts, the other two under the hypotheses `DrainMargin` and `RestartMargin` |
| `DriverTypes`, `DocumentsAreCompleteHolds`, `ReadyMeansPublishedHolds`, `FailureKeepsADocumentHolds` | the node plugin, for any claims, faults and crashes |
| `ServerTypes`, `NoSendOnClosedChannelHolds`, `ShownGoesBackOnlyOnceHolds`, `ReadyIsRecentHolds`, `PaneShowsSelectionHolds` | the API server, for any dashboards, connections, timeouts and grace periods, and the dashboard's pane for any claims and requests |
| `ViewsTypes`, `GraphIsClosedHolds`, `GraphIsCertainHolds`, `FaultsAreTrueOrMootHolds`, `LastingFaultsAreReportedHolds`, `CandidatesAreCountedHolds` | graph, doctor and explanation, for any cluster that satisfies `ViewsAssumption` and `DevicesAssumption` and changes between the lists in any way |

**Allocation.** `NoDoubleAllocation` is not inductive: it says nothing about a
plan that is waiting to be written. `IInv` adds `CopiesCoverStore` (whatever is
allocated at the API server is also allocated in the copies the pass decides on)
and `PlanIsSafe` (the plan agrees with those copies). The first one is the heart
of the design: users and the resource claim controller only take allocations
away, and the only writer that adds one adds it to its copies in the same step.
It fails if `WriteAccepted` forgets the copy, or with a second allocator.
`PlansAreSafe` is the lemma about the planner. The refinement needs the same
invariant: a write is a `Grant` of the ledger because the claim held nothing in
the copy, hence nothing in the store.

`AllocationAnswersSpec` needs that the plan answers the specification the pass has
listed (`PlanAnswers`), and that a claim with its listed resourceVersion still
exists and has that specification (`ListedSpecsAreCurrent`). `CapacityRespected`
speaks of a sum over a set. `Tokens` gives every held unit an element of its own,
so that the sum is the cardinality of a set: the lemma is shown for the smallest
finite subset that could violate it, because the library's induction over finite
sets cannot be used here. The rest is about sets: the copies respect the
capacities and cover the store, and each share of the plan fits beside them
(`CapacityInv`).

**Planner.** `input` is arbitrary but for `WellFormed`, what the API and its decoding
guarantee: finite lists, one value for each key, quantities that are numbers.
Recursion and induction over data are avoided by writing every loop of the code
as a sequence given by a set of indexes (`AtIndexes`): the loop passes over some
elements and keeps the others in their order, and the combinations of devices are
the k-element sets of indexes in lexicographic order. `EveryPlaceIsTaken` is the lemma
that makes such definitions usable: in a finite set with a strict total order
every place from 1 to the cardinality is taken by exactly one element. Sums over
sets are compared through minimal counterexamples and the well-foundedness of the
natural numbers.

`PlanIsValid` is about the answer; `SearchIInv` says for the whole stack that the
choices so far are a plan of the first requests (`IsGoodPlan`) and that each
selection left in a frame would extend the choices before it (`AreGoodFrames`), so
that `Yield` may take any of them and `Exhausted` may go back. That a selection
extends a plan is shown from the bottom up: what the verdict on an offer means for
the device (`Fits`, with `ConsumedIsCharge` for shares), what `Collect` keeps, what
the selections of an alternative are, and when the constraints hold.

`NoMatchIsExhaustive` needs the converse of all these, and an invariant about what
has been discarded. A set of devices is `Live` for request k if it serves the
request after the choices before it and, where the search may return, some plan
of the claim begins with them. `NothingIsLost`: for every frame, whatever is live is
of an alternative still to come, or of the current one and `Kept`, that is, among
the selections left, on trial, or excused by a recorded failure. The hard steps are
`NextAlternative`, which must find every wanted set among the selections
(`OutcomeFinds`), and `Exhausted`, where the last choice is given up: it was not
live, because otherwise the request after it had a live set, which its frame, now
empty, would have kept (`LeftIsDead`). `PreferenceRespected` follows from the same
invariant: the live sets of request k are of alternatives not before the one its
frame has come to (`LiveRank`), which is the one of the selection on trial
(`ChosenRank`).

The proof changed the properties: in `All` mode the failure of a node that cannot be
decided on is forgotten when another node exceeds the result limit, and the
search may then answer as if there were nothing. No input of the run had shown
it; `NoFailureIsMasked` leaves this case out.

`AgreesWithClaimPlan` compares two planners that are written differently: the full one
walks over a list of offers and remembers what it has seen, `ClaimPlan` asks of
each slice and device whether an earlier slice would do. `PlainPlans` stands
between them: the sets of results made of as many first accepted offers of a node as
the claim asks for. On the side of `ClaimPlan`, the offers come in the order of the
slices (`PlainOffersInOrder`), so the first accepted offer of a device is in the
first slice that accepts it (`AbstractFirstAre`), and its sum over held results is
the consumed amount (`AbstractHolds`); hence `AbstractPlansAre`, that `PlainPlans` are
`ClaimPlan`'s plans. On the side of the search, `PlainOutcome` says that the
selections of the one alternative are such plans, in either planner, and that there
are none only when there is no plan; `PlainIInv` carries this through frame, choice
and answer. This proof, too, changed the property: `IsPlain` now excludes negative
capacities, a demand of 0, a device published twice in one slice with different
contents and selectors that fail, each of which the full planner treats in a way
`ClaimPlan` has no state for.

**Pools.** `OwnedSlicesHaveOwner` needs to know that a pool cannot disappear
between the moment its finalizer is known and the last write of its slices.
`CurrentIsPinned` says so for the pool being handled, `ListedArePinned` for the
listed ones whose turn comes later, `FreshIsListed` ties resourceVersions to
incarnations, and `AllDoomed` says that a pool being finalized has all its
slices on the list to delete, so that the finalizer is removed after the last.
`DeletionsHaveCause` needs more: that a slice's name tells its owner
(`NamesTellOwners`), that the slices deleted under a pool being finalized have its
name (`FinalizedByName`), that a listed pool which wants slices has made their names
active when its turn is over (`TargetsAreActive`, `HandledAreActive`), and that the
cleanup spares those names (`CleanupSpares`).

**Event controller.** The gauge of passes in flight and the queue's processing set
say where the worker is (`WorkersBalance`); workers start after the initial
enqueue, and `Run` returns after the queues were shut down and the workers ended
(`RunIsOrdered`). For the refinement each action is shown to be, for each queue, a
step of the abstract queue or none (`QueueStep`).

**Controller process.** `NothingActiveAfterLifecycle` rests on who may change the
atomic `state`: it is 1 exactly while the callback runs the controller
(`CallbackOwnsState`), and the lifecycle gets past its compare-and-swap, or its
receive, only when it is 2 (`EndsAreOrdered`), from where no callback starts.

**Handover.** `NoOverlap` alone does not say when a process will have stopped.
`HoldsLease` does: whoever can still change allocations is the holder in the Lease,
and its deadline, counted from the renewal the Lease records, is before the Lease
runs out. `OutlivesItsSender` says the same of a request whose sender is dead: the
Lease still bears the sender's name, and the request is settled before the Lease
runs out and before the sender can be replaced. A candidate that takes the Lease has
seen it unchanged for `LeaseDuration`, not earlier than that renewal
(`TimesArePast`), so with `DrainMargin` the old holder is idle and its requests are
settled; a candidate that finds its own name has waited for `RestartDelay`, and
`RestartMargin` says the same. `CurrentFor` then carries the argument of the
allocation pipeline across leaders: a running pass covers the store, and what is
on its way, of a live process or a dead one (`LateIsFree`), is free in the store.
The two margins are hypotheses of the theorems and not assumptions of the module:
nothing in the code enforces them.

**Node plugin.** `TempProgress` and `DocumentProgress` say what is known of the
temporary file and of the document before each call of `Write`.

**API server.** A send is safe because the broadcaster sends only to registered
connections, under the lock that unregistering takes before the channel is closed
(`Registered`). That a dashboard goes back to an older graph at most once per
connection, from its initial graph to the first broadcast, rests on the order of
what is on its way: `InitialIsFirst`, `BroadcastsInOrder` and `NewsIsNewest` order
the event on the wire, the one being written, the buffer and the graph being
broadcast, and `ShownInOrder` puts what is shown before them. `ProbeIInv` says
that the recorded last success was one, `PaneIInv` that the active request is the
one for the selected claim.

**Views.** An operation reads resources one after the other while they change.
`MomentInv` says what that leaves: each successful list shows the cluster as it
was at one moment, and whatever was seen earlier and has not been touched since
was there at that moment too. `HistoryInv` ties `always` and `ever`, the faults of
all and of some moment, to the cluster as it is. A reported fault is then compared
with the moment of the last list it was derived from. `MatchesIsSame` is the lemma
that a result matches a listed device exactly when it is that device, which
`DevicesAssumption` is needed for; `ThreeParts` is the one that makes the
explanation's subtraction exact. The proofs changed the model:
`LastingFaultsAreReported` is false in general when "unready" and "unhealthy" are
one fault, since a device can be lost for the one reason and then for the other;
and it needs the two exceptions of section 5. No instance of the run had shown
either.

Only model-checked: every liveness property (`ServableClaimsAreServed`, `Converges`,
`Quiesces`, `EventsAreHandled`, `CancelStopsRun`, `EveryEndIsReached`,
`ReadersCatchUp`, `ShutdownEndsStreams`), because the prover has no ENABLED.
The properties of the violation runs do not hold (section 6). Every other property
of the runs is proved.

## 5. Assumptions and limits

- `ClaimAllocation` has one allocator, and a request that was answered with an
  error has been applied already or never will be. `LeaderHandover` shows when
  this is so with several replicas: if the lease outlasts retry period, renew
  deadline and drain together (`DrainMargin`; the defaults 15 s, 10 s and 2 s leave
  three seconds), and no dead process is replaced before its request is settled
  (`RestartMargin`). Nothing in the code enforces either: the run `lease_margin` shows
  what happens without the first one, section 6.7 without the second. Clocks of different replicas may differ, but run at the same rate.
- In `EventStream` critical sections of `s.mu` are atomic, and a graph can always be
  built. The graph built under a cancelled context is empty (`server.go:518`), which
  is not modelled: a dashboard may show an empty cluster until it reconnects. After
  a failed accept the handlers' contexts are cancelled and `Start` returns, so the
  process ends; `ShutdownEndsStreams` is about shutdown by signal.
- `FaultsAreTrueOrMoot` has three exceptions, each a behaviour of the code that
  section 6 describes: `HiddenFailure` and `NodelessResult` (run `missing_devices`)
  and `TemplateClaim`.
  `LastingFaultsAreReported` has two: when no node is listed no slice is stale to the
  doctor (`NoNodeListed`), and a claim that has the name guessed for the template
  of a pod counts as that pod's (`GuessedClaim`). `DevicesAssumption` says that devices
  of one driver, pool and name are on different nodes, and that the node selector
  of an allocation names the node of its local devices, as the allocator writes
  it. The owner of a claim is any one of the pods that refer to it. A cluster without nodes
  is not told from a failed node list, as in the code. Reasons from events,
  advanced features and node selectors, and the checks DRA-001, DRA-002 and
  DRA-006 are left out.
- In `ClaimAllocation` a claim has one `ExactCount` request, and devices have one
  capacity, which is constant and always published, without a request policy;
  `AgreesWithClaimPlan` ties this planner to the full one, for claims and clusters
  that satisfy `IsPlain`. `ClaimSearch` plans every supported claim, with at most
  one capacity per device.
- `PlanIsValid` and what follows are about policies whose ranges have a whole minimum
  and step (`StepsAreWhole`); other ones the code rounds up, and may charge more than
  the least permitted amount. `NoMatchIsExhaustive` and `PreferenceRespected` are about
  inputs in which no identity is published twice (`IdentitiesAreDistinct`): where it
  is, as in every pool of the controller on several nodes, sections 6.1 and 6.5
  apply, and a plan that exists may not be found. They also leave out `All` as one of several alternatives
  with devices that cannot be decided on (`NoFailureIsMasked`): there a failure may be
  forgotten (`allocation_constraints.go:516`), and "NoMatch" reported instead.
- The greedy planner, which serves claims without constraints when nothing is
  shareable, does not return to an earlier request. Nothing says it should; the
  properties ask it for no more than one request at a time.
- ShareIDs are unique; `nodeName` of a slice is immutable; sha256 prefixes of CDI
  device names do not collide.
- Pools carry no finalizers but the controller's. Slices of an older controller
  are recognised by the owner labels alone.
- A temporary file left by a crash is inert (its name does not match the CDI
  pattern); a driver that fails to start leaves nothing behind.
- Metrics are modelled where a property speaks of them; logs, events and texts
  are not. The depth gauge of a queue (`event_controller.go:189`) is stored after
  `Len` is read, so it can stay at 1 on an empty queue until the next event;
  nothing in the controller reads it.

## 6. Disagreements between code and documentation

The models follow the code. Each of the first four has a run, in which the property
that states the document or test is violated.

1. `healthy_available`: all nodes of a pool publish `dev-0`, `dev-1`, ... and a
   device identity leaves the node out, so allocating `dev-0` on one node makes
   `dev-0` of the others unavailable. `docs/simulator-scenarios.md:23` says all
   devices of a healthy pool are available; line 64 has the identity rule, which
   contradicts it for a pool on several nodes.
2. `last_known_good`: a failure after the rename of the CDI document
   (`driver.go:126`) is reported although the document has been replaced;
   `docs/architecture.md:115` says write failures preserve the last-known-good
   document. `FailureKeepsADocument` says what does hold.
3. `missing_devices`: a device is reported as missing that is published. A list of
   slices that fails is taken for an empty one, because `DiscoverDRA` drops the status
   (`discovery.go:25`); `docs/compatibility/kubernetes-dra.md:31` and `:83` ask for a
   partial state. And every result of an allocation is given the node of the
   selector (`discovery.go:227`), also one whose device has no node, which is then
   not found and counted as free; `internal/graph/graph_test.go:551` says a device that
   exists is not missing, `docs/api.md:35` that cluster-scoped allocations omit
   `nodeName` instead of inventing one. In the same way a failed list makes orphans of
   claims and lets classes be unknown.
4. `lease_margin`: `validate` accepts durations, and `docs/operations/guide.md:93` permits
   them, for which a leader gives up after its lease has run out (11 s, 10 s and 2 s:
   after 12 s); line 89 says an old leader and a replacement do not overlap.

Others were met while modelling and have no run:

5. Both planners remember the identities they have seen for all nodes together
   (`allocation_constraints.go:393`, `allocation_plan.go:627`), so the device of
   the first node hides its namesake on the second. With a pool on both and one on
   the second only, a claim for two devices is left pending although the second node
   could serve it and nothing is allocated: the identity rule of
   `docs/simulator-scenarios.md:64` does not excuse it.
6. Pools `gpu.a` and `gpu-a` ask for the same slice names (`reconcile.go:224`) and
   overwrite each other for ever; `docs/operations/guide.md:108` calls the
   synchronization idempotent.
7. A container restarted in its Pod finds its own identity in the Lease
   (`leader_election.go:93`) and leads at once, possibly before a request of the dead
   process is stored; that request then gives a device away that the new process
   has given to another claim. `RestartMargin` excludes it.
8. `All` mode asks of each node that it has as many slices as the whole pool
   (`allocation_plan.go:471`). `ensureResourceSlice` publishes one slice per node
   and counts all of them, so on a pool of two nodes `All` is refused for ever
   although the pool is complete; `docs/simulator-scenarios.md:76` asks for
   complete coverage only.
9. The claim of a template is looked for without the suffix Kubernetes adds
   (`discovery.go:367`), so DRA-003 reports it as an orphan (`TemplateClaim`).

## 7. Plan

Done: allocation, pools, event controller, process, node plugin, planner, then the
Lease with several replicas, the event stream, the probe, the explanation pane and
the read-only views; and the proofs of their safety properties. Open:
the reasons of the explanation engine that come from events and node selectors.

### Not modelled

Option and flag parsing, HTTP headers, CORS, request logging, metrics text, the
output formats of graph, explanation and doctor, redaction and the end-to-end
checker transform text. The CEL evaluator delegates to Kubernetes' library and is
a verdict here. The terminal UI orders nothing: of two overlapping refreshes the
last answer wins, whichever is newer, so there is no property to state.
