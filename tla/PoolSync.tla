------------------------------- MODULE PoolSync -------------------------------
(***************************************************************************)
(* The pool pipeline of draforge-controller: Reconcile                     *)
(* (internal/simulator/reconcile.go, controller.go, ownership.go) run by   *)
(* the single worker of the pool workqueue.  One action per API request:   *)
(* users edit and delete pools and slices, and nodes come and go, between  *)
(* any two requests of a pass.                                             *)
(*                                                                         *)
(* A pass handles the listed pools one by one: a pool that is being        *)
(* deleted is finalized (its slices are deleted, then its finalizer is     *)
(* removed); any other pool gets the finalizer, one ResourceSlice per      *)
(* target node, and a status.  Managed slices no pool asked for are        *)
(* deleted at the end.  The first error ends the pass.                     *)
(***************************************************************************)
EXTENDS WorkQueue, FiniteSets

CONSTANTS
    Pools,        \* namespaced names of SimulatedDevicePools
    Nodes,        \* node names
    Names,        \* ResourceSlice names
    NameOf,       \* simulatedResourceSliceName: [Pools -> [Nodes -> Names]]
    Targets,      \* the targetNodes users configure; {} means every node
    Healths,      \* the health modes users set
    LegacySlices, \* slices an older controller may have left, without a UID
    FaultKinds,   \* kinds of request failures that may occur
    MaxFaults,    \* bound: failed requests and controller crashes
    MaxChanges    \* bound: changes made by users and the cluster

VARIABLES
    pool,         \* API server: the SimulatedDevicePools
    nodes,        \* API server: the Nodes
    slice,        \* API server: the ResourceSlices
    gauge,        \* Reconciler.ActiveFaultsCount
    pc,           \* worker: the next step of the pass
    snap,         \* worker: the listed pools
    fresh,        \* pools whose version is still the one the worker knows
    todo,         \* worker: pools still to be handled
    cur,          \* worker: the pool being handled
    targets,      \* worker: its target nodes
    todoNodes,    \* worker: target nodes still to be handled
    node,         \* worker: the node being handled
    got,          \* worker: the slice Get returned
    gotFresh,     \* that slice has not been written since
    doomed,       \* worker: slices still to be deleted
    active,       \* worker: activeSliceNames
    published,    \* worker: publishedSlices of the current pool
    faulty,       \* worker: localFaultCount
    faults,       \* failures so far
    changes       \* environment changes so far

storeVars == <<pool, nodes, slice>>
passVars == <<pc, snap, todo, cur, targets, todoNodes, node, got, doomed,
              active, published, faulty>>
vars == <<storeVars, queueVars, passVars, fresh, gotFresh, gauge, faults,
          changes>>

Kinds == {"pool", "node", "slice"}
HealthModes == {"healthy", "unhealthy", "capacity-exhausted", "disappear"}

\* The CRD does not require a spec; a pool without one has this health.
NoSpec == "noSpec"

Status == [published : SUBSET Names, fault : SUBSET HealthModes]

\* uid counts the incarnations of a name; status is {} until it is written.
PoolObject ==
    [exists : BOOLEAN, uid : Nat, deleting : BOOLEAN, finalizer : BOOLEAN,
     target : SUBSET Nodes, health : HealthModes \union {NoSpec},
     status : SUBSET Status]

\* A managed slice with its ownership labels and what its spec is derived from;
\* uid 0 stands for a missing UID label.  count is ResourceSliceCount.
SliceObject ==
    [exists : BOOLEAN, owner : Pools, uid : Nat, node : Nodes,
     health : HealthModes, count : Nat]

NoPool == [exists |-> FALSE, uid |-> 0, deleting |-> FALSE,
           finalizer |-> FALSE, target |-> {}, health |-> "healthy",
           status |-> {}]
NoSlice == [exists |-> FALSE, owner |-> CHOOSE p \in Pools : TRUE, uid |-> 0,
            node |-> CHOOSE n \in Nodes : TRUE, health |-> "healthy",
            count |-> 0]
NoPools == [p \in Pools |-> NoPool]
SomePool == CHOOSE p \in Pools : TRUE
SomeNode == CHOOSE n \in Nodes : TRUE

ASSUME PoolSyncAssumption ==
    /\ Pools # {} /\ Nodes # {} /\ IsFiniteSet(Nodes)
    /\ NameOf \in [Pools -> [Nodes -> Names]]
    /\ Targets \subseteq SUBSET Nodes
    /\ Healths \subseteq HealthModes \union {NoSpec}
    /\ LegacySlices \subseteq [Names -> SliceObject]
    /\ \A f \in LegacySlices : \A nm \in Names : f[nm].uid = 0
    /\ FaultKinds \subseteq {"transient", "terminal", "noCRD"}
    /\ MaxFaults \in Nat
    /\ MaxChanges \in Nat

PCs == {"idle", "listPools", "pool", "addFinalizer", "resolve", "node", "put",
        "finalizeList", "finalizeDelete", "cleanupDelete"}

TypeOK ==
    /\ pool \in [Pools -> PoolObject]
    /\ nodes \subseteq Nodes
    /\ slice \in [Names -> SliceObject]
    /\ QueueTypeOK(Kinds)
    /\ gauge \in Nat
    /\ pc \in PCs
    /\ snap \in [Pools -> PoolObject]
    /\ fresh \subseteq Pools
    /\ todo \subseteq Pools
    /\ cur \in Pools
    /\ targets \subseteq Nodes
    /\ todoNodes \subseteq Nodes
    /\ node \in Nodes
    /\ got \in SliceObject
    /\ gotFresh \in BOOLEAN
    /\ doomed \subseteq Names
    /\ active \subseteq Names
    /\ published \subseteq Names
    /\ faulty \in Nat
    /\ faults \in 0..MaxFaults
    /\ changes \in 0..MaxChanges

Init ==
    /\ pool = NoPools
    /\ nodes = Nodes
    /\ slice \in LegacySlices
    /\ QueueInit
    /\ gauge = 0
    /\ pc = "idle"
    /\ snap = NoPools
    /\ fresh = {}
    /\ todo = {}
    /\ cur = SomePool
    /\ targets = {}
    /\ todoNodes = {}
    /\ node = SomeNode
    /\ got = NoSlice
    /\ gotFresh = FALSE
    /\ doomed = {}
    /\ active = {}
    /\ published = {}
    /\ faulty = 0
    /\ faults = 0
    /\ changes = 0
-----------------------------------------------------------------------------
(* Users and the cluster.                                                  *)

Change(kind) ==
    /\ changes < MaxChanges
    /\ changes' = changes + 1
    /\ Notify(kind)
    /\ UNCHANGED <<passVars, gauge, faults>>

CreatePool(p) ==
    /\ ~pool[p].exists
    /\ \E t \in Targets, h \in Healths :
        pool' = [pool EXCEPT ![p] =
                    [NoPool EXCEPT !.exists = TRUE, !.uid = pool[p].uid + 1,
                                   !.target = t, !.health = h]]
    /\ fresh' = fresh \ {p}
    /\ Change("pool")
    /\ UNCHANGED <<nodes, slice, gotFresh>>

\* inject-fault, clear-faults, scenario apply, or kubectl edit.
EditPool(p) ==
    /\ pool[p].exists
    /\ \E t \in Targets, h \in Healths :
        /\ <<t, h>> # <<pool[p].target, pool[p].health>>
        /\ pool' = [pool EXCEPT ![p].target = t, ![p].health = h]
    /\ fresh' = fresh \ {p}
    /\ Change("pool")
    /\ UNCHANGED <<nodes, slice, gotFresh>>

\* The API server keeps a deleted object while it has a finalizer.
DeletePool(p) ==
    /\ pool[p].exists
    /\ ~pool[p].deleting
    /\ pool' = [pool EXCEPT ![p] =
                    IF pool[p].finalizer
                    THEN [pool[p] EXCEPT !.deleting = TRUE]
                    ELSE [NoPool EXCEPT !.uid = pool[p].uid]]
    /\ fresh' = fresh \ {p}
    /\ Change("pool")
    /\ UNCHANGED <<nodes, slice, gotFresh>>

ChangeNode(n) ==
    /\ nodes' = IF n \in nodes THEN nodes \ {n} ELSE nodes \union {n}
    /\ Change("node")
    /\ UNCHANGED <<pool, slice, fresh, gotFresh>>

\* Somebody deletes a slice, or changes its spec.
TamperSlice(nm) ==
    /\ slice[nm].exists
    /\ \/ slice' = [slice EXCEPT ![nm] = NoSlice]
       \/ /\ slice[nm].count # 0
          /\ slice' = [slice EXCEPT ![nm].count = 0]
    /\ gotFresh' = (gotFresh /\ nm # NameOf[cur][node])
    /\ Change("slice")
    /\ UNCHANGED <<pool, nodes, fresh>>
-----------------------------------------------------------------------------
(* The worker and its workqueue.                                           *)

DeliverEvent(kind) ==
    /\ Enqueue(kind)
    /\ UNCHANGED <<storeVars, passVars, fresh, gotFresh, gauge, faults, changes>>

BackoffExpires ==
    /\ AddDelayed
    /\ UNCHANGED <<storeVars, passVars, fresh, gotFresh, gauge, faults, changes>>

GetKey ==
    /\ pc = "idle"
    /\ Take
    /\ pc' = "listPools"
    /\ UNCHANGED <<storeVars, snap, todo, cur, targets, todoNodes, node, got,
                   doomed, active, published, faulty, fresh, gotFresh, gauge,
                   faults, changes>>

\* Reconcile returns: the pass's variables go out of scope.
EndPass ==
    /\ pc' = "idle"
    /\ snap' = NoPools
    /\ fresh' = {}
    /\ todo' = {}
    /\ cur' = SomePool
    /\ targets' = {}
    /\ todoNodes' = {}
    /\ node' = SomeNode
    /\ got' = NoSlice
    /\ gotFresh' = FALSE
    /\ doomed' = {}
    /\ active' = {}
    /\ published' = {}
    /\ faulty' = 0

Fault == faults < MaxFaults /\ faults' = faults + 1 /\ UNCHANGED changes
NoFault == UNCHANGED <<faults, changes>>

\* The current request is answered with an error; nothing was stored.
FailPass(kind) ==
    /\ EndPass
    /\ HandleError(kind)
    /\ UNCHANGED <<storeVars, events, gauge>>

ActiveFaults(o) == {o.health} \ {"healthy", NoSpec}

\* The status updateSDPStatus wants the current pool to have.
Report == [published |-> published, fault |-> ActiveFaults(snap[cur])]

RequestPending ==
    \/ pc \in {"listPools", "addFinalizer", "put", "finalizeList",
               "finalizeDelete"}
    \/ pc = "resolve" /\ snap[cur].health # NoSpec /\ snap[cur].target = {}
    \/ pc = "node" /\ (todoNodes # {} \/ snap[cur].status # {Report})
    \/ pc = "pool" /\ todo = {}
    \/ pc = "cleanupDelete" /\ doomed # {}

RequestFails ==
    /\ RequestPending
    /\ \E kind \in FaultKinds \ {"noCRD"} : FailPass(kind)
    /\ Fault

Restart ==
    /\ EndPass
    /\ QueueRestart
    /\ gauge' = 0
    /\ Fault
    /\ UNCHANGED storeVars

\* How a write that reached the store continues: the answer arrives and the
\* worker moves on, or the answer is lost and the pass ends in an error.
\* kinds are the informers that will see it.
AnswerLost(kinds) ==
    /\ "transient" \in FaultKinds
    /\ Fault
    /\ EndPass
    /\ HandleError("transient")
    /\ events' = events \union kinds
    /\ UNCHANGED gauge

Answered(kinds) ==
    /\ NoFault
    /\ events' = events \union kinds
    /\ UNCHANGED <<queued, backoff, requeues, gauge>>

\* A step that only reads, or talks to nobody.
Local == NoFault /\ UNCHANGED <<storeVars, queueVars, gauge>>
-----------------------------------------------------------------------------
(* One pass of Reconcile.                                                  *)

ListPools ==
    /\ pc = "listPools"
    /\ pc' = "pool"
    /\ snap' = pool
    /\ fresh' = {p \in Pools : pool[p].exists}
    /\ todo' = {p \in Pools : pool[p].exists}
    /\ Local
    /\ UNCHANGED <<cur, targets, todoNodes, node, got, gotFresh, doomed,
                   active, published, faulty>>

\* The list is answered with "not found" while the CRD is being installed: the
\* pass returns nil without having done anything.
ListPoolsNoCRD ==
    /\ pc = "listPools"
    /\ "noCRD" \in FaultKinds
    /\ Fault
    /\ EndPass
    /\ Forget
    /\ UNCHANGED <<storeVars, gauge>>

\* Mutant of NextPool: slices are published before the finalizer is added.
NextPoolUnfinalized(p) ==
    /\ pc = "pool"
    /\ p \in todo
    /\ todo' = todo \ {p}
    /\ cur' = p
    /\ published' = {}
    /\ pc' = IF snap[p].deleting /\ ~snap[p].finalizer
             THEN "pool" ELSE "resolve"
    /\ Local
    /\ UNCHANGED <<snap, fresh, targets, todoNodes, node, got, gotFresh,
                   doomed, active, faulty>>

\* reconcileSimulatedDevicePool starts on the next pool.
NextPool(p) ==
    /\ pc = "pool"
    /\ p \in todo
    /\ todo' = todo \ {p}
    /\ cur' = p
    /\ published' = {}
    /\ pc' = IF snap[p].deleting
             THEN IF snap[p].finalizer THEN "resolve" ELSE "pool"
             ELSE IF snap[p].finalizer THEN "resolve" ELSE "addFinalizer"
    /\ Local
    /\ UNCHANGED <<snap, fresh, targets, todoNodes, node, got, gotFresh,
                   doomed, active, faulty>>

\* The API server accepts an update of the pool that carries the version the
\* worker knows.
CanUpdatePool == pool[cur].exists /\ cur \in fresh

\* It answers NotFound, which is terminal, or Conflict, which is retried.
PoolRefused ==
    /\ ~CanUpdatePool
    /\ FailPass(IF pool[cur].exists THEN "transient" ELSE "terminal")
    /\ NoFault

\* ensureResourceSliceCleanupFinalizer.
AddFinalizer ==
    /\ pc = "addFinalizer"
    /\ \/ PoolRefused
       \/ /\ CanUpdatePool
          /\ pool' = [pool EXCEPT ![cur].finalizer = TRUE]
          /\ UNCHANGED <<nodes, slice>>
          /\ \/ AnswerLost({"pool"})
             \/ /\ Answered({"pool"})
                /\ snap' = [snap EXCEPT ![cur].finalizer = TRUE]
                /\ pc' = "resolve"
                /\ UNCHANGED <<fresh, todo, cur, targets, todoNodes, node,
                               got, gotFresh, doomed, active, published, faulty>>

\* decodeSimulatedDevicePoolSpec and resolveTargetNodes; for a deleted pool
\* expectedResourceSliceNames.  Without a spec there is nothing to publish.
TargetNodes(o) ==
    CASE o.health = NoSpec -> {}
      [] o.health # NoSpec /\ o.target = {} -> nodes
      [] OTHER -> o.target

ResolveNodes ==
    /\ pc = "resolve"
    /\ targets' = TargetNodes(snap[cur])
    /\ todoNodes' = IF snap[cur].deleting THEN {} ELSE targets'
    /\ pc' = CASE snap[cur].deleting -> "finalizeList"
               [] ~snap[cur].deleting /\ snap[cur].health = NoSpec -> "pool"
               [] OTHER -> "node"
    /\ Local
    /\ UNCHANGED <<snap, fresh, todo, cur, node, got, gotFresh, doomed,
                   active, published, faulty>>

\* ensureResourceSlice: the slice a pool wants on a node.
Desired(o, p, n, ts) ==
    [exists |-> TRUE, owner |-> p, uid |-> o.uid, node |-> n,
     health |-> o.health, count |-> Cardinality(ts)]

\* deleteResourceSlice deletes by name, whoever owns the slice; a missing one
\* is fine, and no informer hears of it.
RemoveSlice(nm) ==
    /\ slice' = [slice EXCEPT ![nm] = NoSlice]
    /\ UNCHANGED <<pool, nodes>>

RemovalSeen(nm) == IF slice[nm].exists THEN {"slice"} ELSE {}

\* reconcilePoolResourceSlice under the disappear fault.
DisappearSlice(n) ==
    /\ pc = "node"
    /\ n \in todoNodes
    /\ snap[cur].health = "disappear"
    /\ RemoveSlice(NameOf[cur][n])
    /\ \/ AnswerLost(RemovalSeen(NameOf[cur][n]))
       \/ /\ Answered(RemovalSeen(NameOf[cur][n]))
          /\ todoNodes' = todoNodes \ {n}
          /\ UNCHANGED <<pc, snap, fresh, todo, cur, targets, node, got,
                         gotFresh, doomed, active, published, faulty>>

\* Mutant of GetSlice: only written slices are recorded as active.
GetSliceInactive(n) ==
    /\ pc = "node"
    /\ n \in todoNodes
    /\ snap[cur].health # "disappear"
    /\ LET nm == NameOf[cur][n]
           same == slice[nm] = Desired(snap[cur], cur, n, targets)
       IN  /\ active' = IF same THEN active ELSE active \union {nm}
           /\ got' = slice[nm]
           /\ pc' = IF same THEN "node" ELSE "put"
           /\ published' = IF same THEN published \union {nm} ELSE published
    /\ node' = n
    /\ gotFresh' = TRUE
    /\ todoNodes' = todoNodes \ {n}
    /\ Local
    /\ UNCHANGED <<snap, fresh, todo, cur, targets, doomed, faulty>>

\* Mutant of GetSlice: the ownership labels are not compared.
GetSliceSpecOnly(n) ==
    /\ pc = "node"
    /\ n \in todoNodes
    /\ snap[cur].health # "disappear"
    /\ LET nm == NameOf[cur][n]
           same == [slice[nm] EXCEPT !.owner = cur, !.uid = snap[cur].uid] =
                       Desired(snap[cur], cur, n, targets)
       IN  /\ active' = active \union {nm}
           /\ got' = slice[nm]
           /\ pc' = IF same THEN "node" ELSE "put"
           /\ published' = IF same THEN published \union {nm} ELSE published
    /\ node' = n
    /\ gotFresh' = TRUE
    /\ todoNodes' = todoNodes \ {n}
    /\ Local
    /\ UNCHANGED <<snap, fresh, todo, cur, targets, doomed, faulty>>

\* ensureResourceSlice reads the slice; an equal one needs no write.
GetSlice(n) ==
    /\ pc = "node"
    /\ n \in todoNodes
    /\ snap[cur].health # "disappear"
    /\ LET nm == NameOf[cur][n]
           same == slice[nm] = Desired(snap[cur], cur, n, targets)
       IN  /\ active' = active \union {nm}
           /\ got' = slice[nm]
           /\ pc' = IF same THEN "node" ELSE "put"
           /\ published' = IF same THEN published \union {nm} ELSE published
    /\ node' = n
    /\ gotFresh' = TRUE
    /\ todoNodes' = todoNodes \ {n}
    /\ Local
    /\ UNCHANGED <<snap, fresh, todo, cur, targets, doomed, faulty>>

\* It then updates the slice it read, or creates the one it did not find.
\* The API server refuses an update of an outdated slice, and one that moves
\* the slice to another node (nodeName is immutable).
CanPutSlice(nm) ==
    IF got.exists
    THEN slice[nm].exists /\ gotFresh /\ slice[nm].node = node
    ELSE ~slice[nm].exists

\* AlreadyExists and Conflict are retried; NotFound and Invalid are terminal.
PutRefusal(nm) ==
    IF ~got.exists \/ (slice[nm].exists /\ ~gotFresh)
    THEN "transient" ELSE "terminal"

PutSlice ==
    LET nm == NameOf[cur][node]
    IN  /\ pc = "put"
        /\ \/ /\ ~CanPutSlice(nm)
              /\ FailPass(PutRefusal(nm))
              /\ NoFault
           \/ /\ CanPutSlice(nm)
              /\ slice' = [slice EXCEPT ![nm] =
                              Desired(snap[cur], cur, node, targets)]
              /\ UNCHANGED <<pool, nodes>>
              /\ \/ AnswerLost({"slice"})
                 \/ /\ Answered({"slice"})
                    /\ published' = published \union {nm}
                    /\ pc' = "node"
                    /\ UNCHANGED <<snap, fresh, todo, cur, targets, todoNodes,
                                   node, got, gotFresh, doomed, active, faulty>>

StatusCurrent ==
    /\ pc = "node"
    /\ todoNodes = {}
    /\ snap[cur].status = {Report}
    /\ pc' = "pool"
    /\ faulty' = faulty + Cardinality(ActiveFaults(snap[cur]))
    /\ Local
    /\ UNCHANGED <<snap, fresh, todo, cur, targets, todoNodes, node, got,
                   gotFresh, doomed, active, published>>

\* Mutant of UpdateStatus: the status is written in every pass.
UpdateStatusAlways ==
    /\ pc = "node"
    /\ todoNodes = {}
    /\ \/ PoolRefused
       \/ /\ CanUpdatePool
          /\ pool' = [pool EXCEPT ![cur].status = {Report}]
          /\ UNCHANGED <<nodes, slice>>
          /\ \/ AnswerLost({"pool"})
             \/ /\ Answered({"pool"})
                /\ pc' = "pool"
                /\ faulty' = faulty + Cardinality(ActiveFaults(snap[cur]))
                /\ UNCHANGED <<snap, fresh, todo, cur, targets, todoNodes,
                               node, got, gotFresh, doomed, active, published>>

\* The status subresource: only the status is stored.
UpdateStatus ==
    /\ pc = "node"
    /\ todoNodes = {}
    /\ snap[cur].status # {Report}
    /\ \/ PoolRefused
       \/ /\ CanUpdatePool
          /\ pool' = [pool EXCEPT ![cur].status = {Report}]
          /\ UNCHANGED <<nodes, slice>>
          /\ \/ AnswerLost({"pool"})
             \/ /\ Answered({"pool"})
                /\ pc' = "pool"
                /\ faulty' = faulty + Cardinality(ActiveFaults(snap[cur]))
                /\ UNCHANGED <<snap, fresh, todo, cur, targets, todoNodes,
                               node, got, gotFresh, doomed, active, published>>

\* resourceSliceBelongsToSDP: by UID label, or by the expected name of a slice
\* that has none (the owner of such a slice is known by name only).
BelongsTo(s, nm, p, uid, expected) ==
    /\ s.exists
    /\ s.owner = p
    /\ IF s.uid # 0 THEN s.uid = uid ELSE nm \in expected

\* finalizeDeletingSimulatedDevicePool lists the slices to delete.
FinalizeList ==
    /\ pc = "finalizeList"
    /\ doomed' = {nm \in Names :
                     BelongsTo(slice[nm], nm, cur, snap[cur].uid,
                               {NameOf[cur][n] : n \in targets})}
    /\ pc' = "finalizeDelete"
    /\ Local
    /\ UNCHANGED <<snap, fresh, todo, cur, targets, todoNodes, node, got,
                   gotFresh, active, published, faulty>>

\* deleteResourceSlice, in the finalization loop or in the orphan cleanup.
DeleteDoomed(nm) ==
    /\ pc \in {"finalizeDelete", "cleanupDelete"}
    /\ nm \in doomed
    /\ RemoveSlice(nm)
    /\ \/ AnswerLost(RemovalSeen(nm))
       \/ /\ Answered(RemovalSeen(nm))
          /\ doomed' = doomed \ {nm}
          /\ UNCHANGED <<pc, snap, fresh, todo, cur, targets, todoNodes, node,
                         got, gotFresh, active, published, faulty>>

\* The API server drops a deleted pool together with its last finalizer.
RemoveFinalizer ==
    /\ pc = "finalizeDelete"
    /\ doomed = {}
    /\ \/ PoolRefused
       \/ /\ CanUpdatePool
          /\ pool' = [pool EXCEPT ![cur] = [NoPool EXCEPT !.uid = pool[cur].uid]]
          /\ UNCHANGED <<nodes, slice>>
          /\ \/ AnswerLost({"pool"})
             \/ /\ Answered({"pool"})
                /\ pc' = "pool"
                /\ fresh' = fresh \ {cur}
                /\ UNCHANGED <<snap, todo, cur, targets, todoNodes, node, got,
                               gotFresh, doomed, active, published, faulty>>

\* cleanupOrphanedResourceSlices.
CleanupList ==
    /\ pc = "pool"
    /\ todo = {}
    /\ doomed' = {nm \in Names : slice[nm].exists} \ active
    /\ pc' = "cleanupDelete"
    /\ Local
    /\ UNCHANGED <<snap, fresh, todo, cur, targets, todoNodes, node, got,
                   gotFresh, active, published, faulty>>

PassSucceeds ==
    /\ pc = "cleanupDelete"
    /\ doomed = {}
    /\ gauge' = faulty
    /\ EndPass
    /\ Forget
    /\ NoFault
    /\ UNCHANGED storeVars
-----------------------------------------------------------------------------
Environment ==
    \/ \E p \in Pools : CreatePool(p) \/ EditPool(p) \/ DeletePool(p)
    \/ \E n \in Nodes : ChangeNode(n)
    \/ \E nm \in Names : TamperSlice(nm)

Queue == BackoffExpires \/ \E kind \in Kinds : DeliverEvent(kind)

Worker ==
    \/ GetKey \/ ListPools \/ AddFinalizer \/ ResolveNodes \/ PutSlice
    \/ StatusCurrent \/ UpdateStatus \/ FinalizeList \/ RemoveFinalizer
    \/ CleanupList \/ PassSucceeds
    \/ \E p \in Pools : NextPool(p)
    \/ \E n \in Nodes : DisappearSlice(n) \/ GetSlice(n)
    \/ \E nm \in Names : DeleteDoomed(nm)

Failure == ListPoolsNoCRD \/ RequestFails \/ Restart

Next == Environment \/ Queue \/ Worker \/ Failure

Fairness ==
    /\ WF_vars(Worker)
    /\ WF_vars(BackoffExpires)
    /\ \A kind \in Kinds : WF_vars(DeliverEvent(kind))

Spec == Init /\ [][Next]_vars /\ Fairness
-----------------------------------------------------------------------------
(* Properties.                                                             *)

\* The ownership contract: a slice with a UID label belongs to an incarnation
\* of a pool that still exists and still holds the cleanup finalizer, however
\* deletions, crashes and failed requests interleave with the passes.  (The
\* finalizer is added before the first slice and removed after the last.)
OwnedSlicesHaveOwner ==
    \A nm \in Names :
        slice[nm].exists /\ slice[nm].uid # 0 =>
            /\ pool[slice[nm].owner].exists
            /\ pool[slice[nm].owner].uid = slice[nm].uid
            /\ pool[slice[nm].owner].finalizer

\* The listed pools give no reason to delete the slice: its owner is among
\* them, is not being deleted, and wants a slice on that node.
WantedByListed(s) ==
    LET o == snap[s.owner]
    IN  /\ o.exists /\ ~o.deleting
        /\ s.uid = o.uid
        /\ o.health \notin {"disappear", NoSpec}
        /\ s.node \in o.target

\* Neither finalization of one pool, nor the disappear fault, nor the orphan
\* cleanup deletes a slice that the listed pools want.
DeletionsHaveCause ==
    [][\A nm \in Names :
          slice[nm].exists /\ ~slice'[nm].exists /\ changes' = changes
              => ~WantedByListed(slice[nm])]_vars

Published(o) ==
    ~o.deleting /\ o.exists /\ o.health \notin {"disappear", NoSpec}

\* The cluster is what the pools ask for: exactly the wanted slices exist, as
\* wanted; no deleted pool is left; statuses and the fault gauge are right.
InSync ==
    /\ \A nm \in Names :
        slice[nm].exists =>
            \E p \in Pools : /\ Published(pool[p])
                             /\ \E n \in TargetNodes(pool[p]) : nm = NameOf[p][n]
    /\ \A p \in Pools :
        Published(pool[p]) =>
            \A n \in TargetNodes(pool[p]) :
                slice[NameOf[p][n]] =
                    Desired(pool[p], p, n, TargetNodes(pool[p]))
    /\ \A p \in Pools :
        pool[p].exists =>
            /\ ~pool[p].deleting
            /\ pool[p].finalizer
            /\ pool[p].health # NoSpec =>
                pool[p].status =
                    {[published |-> IF Published(pool[p])
                                    THEN {NameOf[p][n] :
                                             n \in TargetNodes(pool[p])}
                                    ELSE {},
                      fault |-> ActiveFaults(pool[p])]}
    /\ gauge = Cardinality({p \in Pools :
                    /\ pool[p].exists
                    /\ pool[p].health \notin {"healthy", NoSpec}})

\* Passes are idempotent (docs/operations/guide.md:108): the controller's own
\* writes do not keep it busy for ever, and eventually there is no event, no key
\* and no pass left.
Quiesces == <>[](pc = "idle" /\ ~queued /\ ~backoff /\ events = {})
=============================================================================
