--------------------------- MODULE ClaimAllocation ---------------------------
(***************************************************************************)
(* The allocation pipeline of draforge-controller: SimulateAllocation      *)
(* (internal/simulator/allocation.go) run by the single worker of the      *)
(* allocation workqueue (internal/simulator/event_controller.go), against  *)
(* an API server whose claims, slices and classes change at any time.      *)
(*                                                                         *)
(* A pass lists claims, slices and classes in three requests and then      *)
(* works on these copies alone: it plans one claim after the other and     *)
(* writes each plan with UpdateStatus.  The API server accepts the write   *)
(* only if the claim still has the listed resourceVersion.  Versions are   *)
(* only compared for equality, so `unchanged` (the claims not written      *)
(* since the pass read them) stands for them.                              *)
(***************************************************************************)
EXTENDS ClaimPlan, WorkQueue

CONSTANTS
    SliceObjects,              \* the contents slices are published with
    FaultKinds,                \* kinds of request failures that may occur
    MaxFaults,                 \* bound: failed requests and controller crashes
    MaxChanges                 \* bound: changes made by users and kubelets

VARIABLES
    present,       \* API server: the claims that exist
    spec,          \* API server: their specs (immutable while they exist)
    alloc,         \* API server: Status.Allocation results, {} for none
    slices,        \* API server: the ResourceSlices
    classes,       \* API server: the DeviceClasses
    pc,            \* worker: the next step of the pass
    index,         \* worker: position in state.claims
    listed,        \* worker: the claims of state.claims
    listedSpec,    \* worker: their specs as listed
    view,          \* worker: their allocations in state.claims
    listedSlices,  \* worker: state.slices
    listedClasses, \* worker: state.classes
    unchanged,     \* claims whose version is still the one in state.claims
    plan,          \* worker: the results about to be written
    faults,        \* failures so far
    changes        \* environment changes so far

storeVars == <<present, spec, alloc, slices, classes>>
passVars  == <<pc, index, listed, listedSpec, view, listedSlices,
               listedClasses, plan>>
vars == <<storeVars, queueVars, passVars, unchanged, faults, changes>>

ASSUME ClaimAllocationAssumption ==
    /\ Specs # {}
    /\ SliceObjects \subseteq SliceObject
    /\ FaultKinds \subseteq {"transient", "terminal"}
    /\ MaxFaults \in Nat
    /\ MaxChanges \in Nat

Kinds == {"claim", "slice", "class"}
PCs == {"idle", "listClaims", "listSlices", "listClasses", "claim", "write"}
NoSlices == [s \in Slices |-> [healthy |-> FALSE,
                               mode |-> [d \in Devices |-> "absent"]]]
NoResults == [c \in Claims |-> {}]
NoSpecs == [c \in Claims |-> CHOOSE s \in Specs : TRUE]

TypeOK ==
    /\ present \subseteq Claims
    /\ spec \in [Claims -> Specs]
    /\ alloc \in [Claims -> SUBSET Result]
    /\ slices \in [Slices -> SliceObject]
    /\ classes \subseteq Classes
    /\ QueueTypeOK(Kinds)
    /\ pc \in PCs
    /\ index \in 1..(NClaims + 1)
    /\ listed \subseteq Claims
    /\ listedSpec \in [Claims -> Specs]
    /\ view \in [Claims -> SUBSET Result]
    /\ listedSlices \in [Slices -> SliceObject]
    /\ listedClasses \subseteq Classes
    /\ unchanged \subseteq Claims
    /\ plan \subseteq Result
    /\ faults \in 0..MaxFaults
    /\ changes \in 0..MaxChanges

\* The cluster starts without claims.
Init ==
    /\ present = {}
    /\ spec = NoSpecs
    /\ alloc = NoResults
    /\ slices \in [Slices -> SliceObjects]
    /\ classes \in SUBSET Classes
    /\ QueueInit
    /\ pc = "idle"
    /\ index = 1
    /\ listed = {}
    /\ listedSpec = NoSpecs
    /\ view = NoResults
    /\ listedSlices = NoSlices
    /\ listedClasses = {}
    /\ unchanged = {}
    /\ plan = {}
    /\ faults = 0
    /\ changes = 0
-----------------------------------------------------------------------------
(* The environment.  Every change reaches the informer of its kind.        *)

Change(kind) ==
    /\ changes < MaxChanges
    /\ changes' = changes + 1
    /\ Notify(kind)
    /\ UNCHANGED <<passVars, faults>>

CreateClaim(c) ==
    /\ c \notin present
    /\ \E s \in Specs : spec' = [spec EXCEPT ![c] = s]
    /\ present' = present \union {c}
    /\ unchanged' = unchanged \ {c}
    /\ Change("claim")
    /\ UNCHANGED <<alloc, slices, classes>>

DeleteClaim(c) ==
    /\ c \in present
    /\ present' = present \ {c}
    /\ alloc' = [alloc EXCEPT ![c] = {}]
    /\ unchanged' = unchanged \ {c}
    /\ Change("claim")
    /\ UNCHANGED <<spec, slices, classes>>

\* Any other write of the claim, which gives it a new version: its metadata or
\* reservedFor changed, or Kubernetes deallocated it.
WriteClaim(c) ==
    /\ c \in present
    /\ \/ UNCHANGED alloc
       \/ alloc' = [alloc EXCEPT ![c] = {}]
    /\ unchanged' = unchanged \ {c}
    /\ Change("claim")
    /\ UNCHANGED <<present, spec, slices, classes>>

\* The pool pipeline, or a user, publishes, edits or withdraws a slice.
PublishSlice(s) ==
    /\ \E o \in SliceObjects \ {slices[s]} : slices' = [slices EXCEPT ![s] = o]
    /\ Change("slice")
    /\ UNCHANGED <<present, spec, alloc, classes, unchanged>>

ChangeClass(k) ==
    /\ classes' = IF k \in classes THEN classes \ {k} ELSE classes \union {k}
    /\ Change("class")
    /\ UNCHANGED <<present, spec, alloc, slices, unchanged>>
-----------------------------------------------------------------------------
(* The worker and its workqueue.                                           *)

\* Mutant of DeliverEvent: an event during a pass does not mark the key dirty.
DeliverEventWhenIdle(kind) ==
    /\ kind \in events
    /\ events' = events \ {kind}
    /\ queued' = (queued \/ pc = "idle")
    /\ UNCHANGED <<backoff, requeues, storeVars, passVars, unchanged, faults,
                   changes>>

DeliverEvent(kind) ==
    /\ Enqueue(kind)
    /\ UNCHANGED <<storeVars, passVars, unchanged, faults, changes>>

BackoffExpires ==
    /\ AddDelayed
    /\ UNCHANGED <<storeVars, passVars, unchanged, faults, changes>>

\* runWorker: SimulateAllocation starts.
GetKey ==
    /\ pc = "idle"
    /\ Take
    /\ pc' = "listClaims"
    /\ UNCHANGED <<storeVars, index, listed, listedSpec, view, listedSlices,
                   listedClasses, plan, unchanged, faults, changes>>

\* The pass returns: its copies are dropped and the worker waits again.
EndPass ==
    /\ pc' = "idle"
    /\ index' = 1
    /\ listed' = {}
    /\ listedSpec' = NoSpecs
    /\ view' = NoResults
    /\ listedSlices' = NoSlices
    /\ listedClasses' = {}
    /\ plan' = {}
    /\ unchanged' = {}

\* The pass returns an error.
FailPass(kind) ==
    /\ EndPass
    /\ HandleError(kind)
    /\ UNCHANGED events
-----------------------------------------------------------------------------
(* One pass of SimulateAllocation.                                         *)

Fault ==
    /\ faults < MaxFaults
    /\ faults' = faults + 1
    /\ UNCHANGED changes

NoFault == UNCHANGED <<faults, changes>>

ListClaims ==
    /\ pc = "listClaims"
    /\ pc' = "listSlices"
    /\ listed' = present
    /\ listedSpec' = spec
    /\ view' = alloc
    /\ unchanged' = present
    /\ NoFault
    /\ UNCHANGED <<storeVars, queueVars, index, listedSlices, listedClasses,
                   plan>>

ListSlices ==
    /\ pc = "listSlices"
    /\ pc' = "listClasses"
    /\ listedSlices' = slices
    /\ NoFault
    /\ UNCHANGED <<storeVars, queueVars, index, listed, listedSpec, view,
                   listedClasses, plan, unchanged>>

ListClasses ==
    /\ pc = "listClasses"
    /\ pc' = "claim"
    /\ listedClasses' = classes
    /\ NoFault
    /\ UNCHANGED <<storeVars, queueVars, index, listed, listedSpec, view,
                   listedSlices, plan, unchanged>>

\* Any of the three List requests fails: loadAllocationSyncState returns.
ListFails ==
    /\ pc \in {"listClaims", "listSlices", "listClasses"}
    /\ \E kind \in FaultKinds : FailPass(kind)
    /\ Fault
    /\ UNCHANGED storeVars

ClaimPlans(c) == Plans(listedSpec[c], view, listedSlices, listedClasses)

\* simulatePendingClaim returns without a write: the claim is allocated, or
\* the planner reports a failure (recordAllocationFailure).
SkipClaim ==
    /\ pc = "claim"
    /\ index <= NClaims
    /\ \/ index \notin listed
       \/ view[index] # {}
       \/ ClaimPlans(index) = {}
    /\ index' = index + 1
    /\ NoFault
    /\ UNCHANGED <<storeVars, queueVars, pc, listed, listedSpec, view,
                   listedSlices, listedClasses, plan, unchanged>>

PlanClaim ==
    /\ pc = "claim"
    /\ index <= NClaims
    /\ index \in listed
    /\ view[index] = {}
    /\ \E p \in ClaimPlans(index) : plan' = p
    /\ pc' = "write"
    /\ NoFault
    /\ UNCHANGED <<storeVars, queueVars, index, listed, listedSpec, view,
                   listedSlices, listedClasses, unchanged>>

\* Mutant of CanWrite: the update carries no resourceVersion.
CanWriteBlindly(c) == c \in present

\* The API server's answer to UpdateStatus when nothing fails: it compares
\* versions.
CanWrite(c) == c \in present /\ c \in unchanged

\* What the API server does with an accepted write.
StoreAllocation(c, results) ==
    /\ alloc' = [alloc EXCEPT ![c] = results]
    /\ UNCHANGED <<present, spec, slices, classes>>

\* Mutant of WriteAccepted: state.claims keeps the claim as it was listed.
WriteAcceptedUnrecorded ==
    /\ pc = "write"
    /\ CanWrite(index)
    /\ StoreAllocation(index, plan)
    /\ Notify("claim")
    /\ pc' = "claim"
    /\ index' = index + 1
    /\ plan' = {}
    /\ NoFault
    /\ UNCHANGED <<view, listed, listedSpec, listedSlices, listedClasses,
                   unchanged>>

\* UpdateStatus succeeds; the stored claim replaces the listed one, so its
\* version is again the one the pass knows.
WriteAccepted ==
    /\ pc = "write"
    /\ CanWrite(index)
    /\ StoreAllocation(index, plan)
    /\ Notify("claim")
    /\ view' = [view EXCEPT ![index] = plan]
    /\ pc' = "claim"
    /\ index' = index + 1
    /\ plan' = {}
    /\ NoFault
    /\ UNCHANGED <<listed, listedSpec, listedSlices, listedClasses, unchanged>>

\* The claim is gone (NotFound, which is terminal) or has another version
\* (Conflict, which is retried): the whole pass ends.
WriteRefused ==
    /\ pc = "write"
    /\ ~CanWrite(index)
    /\ FailPass(IF index \in present THEN "transient" ELSE "terminal")
    /\ NoFault
    /\ UNCHANGED storeVars

\* The request fails without reaching the store.
WriteFails ==
    /\ pc = "write"
    /\ \E kind \in FaultKinds : FailPass(kind)
    /\ Fault
    /\ UNCHANGED storeVars

\* The write is stored but the answer is lost: the pass sees a failure it
\* retries.
WriteAnswerLost ==
    /\ pc = "write"
    /\ CanWrite(index)
    /\ "transient" \in FaultKinds
    /\ Fault
    /\ StoreAllocation(index, plan)
    /\ EndPass
    /\ HandleError("transient")
    /\ events' = events \union {"claim"}

\* All claims are done: the pass returns nil and the key is forgotten.
PassSucceeds ==
    /\ pc = "claim"
    /\ index = NClaims + 1
    /\ EndPass
    /\ Forget
    /\ NoFault
    /\ UNCHANGED storeVars

\* The process dies, or loses its lease and exits; another one takes over.
Restart ==
    /\ EndPass
    /\ Fault
    /\ QueueRestart
    /\ UNCHANGED storeVars
-----------------------------------------------------------------------------
Environment ==
    \/ \E c \in Claims : CreateClaim(c) \/ DeleteClaim(c) \/ WriteClaim(c)
    \/ \E s \in Slices : PublishSlice(s)
    \/ \E k \in Classes : ChangeClass(k)

Queue == BackoffExpires \/ \E kind \in Kinds : DeliverEvent(kind)

Worker ==
    \/ GetKey \/ ListClaims \/ ListSlices \/ ListClasses
    \/ SkipClaim \/ PlanClaim \/ WriteAccepted \/ WriteRefused \/ PassSucceeds

Failure == ListFails \/ WriteFails \/ WriteAnswerLost \/ Restart

Next == Environment \/ Queue \/ Worker \/ Failure

\* The worker goroutine runs, timers fire and watches deliver.
Fairness ==
    /\ WF_vars(Worker)
    /\ WF_vars(BackoffExpires)
    /\ \A kind \in Kinds : WF_vars(DeliverEvent(kind))

Spec == Init /\ [][Next]_vars /\ Fairness
-----------------------------------------------------------------------------
(* Properties.                                                             *)

\* A device given exclusively to one claim is given to nobody else, although
\* a pass decides on copies that are stale by the time it writes, and may be
\* repeated after a write whose answer was lost.
NoDoubleAllocation == ~UsageConflict(alloc)

\* The shares of a shareable device never add up to more than its capacity:
\* what simulatePendingClaim grants earlier in a pass, or in a pass that ended
\* in an error, is counted (collectCommittedAllocationUsage).
CapacityRespected == \A d \in Devices : Consumed(alloc, d) <= Capacity[d]

\* What a claim holds answers the spec it has now, from one node: a plan made
\* for a claim that was deleted and created again under the same name must
\* never reach the new claim.
AllocationAnswersSpec ==
    \A c \in Claims : alloc[c] # {} =>
        /\ c \in present
        /\ Cardinality(alloc[c]) = NormalizedCount(spec[c].count)
        /\ {r.device : r \in alloc[c]} \subseteq Selected[spec[c].class]
        /\ Cardinality({r.node : r \in alloc[c]}) = 1

\* An allocation is never replaced by another one: a device moves only after
\* the claim has been deallocated or deleted.
AllocationsNeverMove ==
    [][\A c \in Claims : alloc[c] # {} => alloc'[c] \in {alloc[c], {}}]_vars

Ledger == INSTANCE AllocationLedger
            WITH Claimants <- Claims, Entries <- Result, held <- alloc

\* Stale copies, retries, lost answers and restarts are invisible from outside:
\* the claims behave as if devices were granted and released atomically.
ImplementsLedger == Ledger!LedgerSpec

\* A pending claim the planner could serve from the present cluster state.
Servable(c) ==
    /\ c \in present
    /\ alloc[c] = {}
    /\ Plans(spec[c], alloc, slices, classes) # {}

\* A claim that can be served is served (or stops being servable), in spite of
\* conflicts, passes cut short by other claims, lost answers and restarts.
ServableClaimsAreServed ==
    \A c \in Claims : []<>~Servable(c)

\* Nothing is left to do: the queue is empty and every event was delivered.
Quiescent == pc = "idle" /\ ~queued /\ ~backoff /\ events = {}

\* docs/simulator-scenarios.md: all devices of a healthy pool are published and
\* available for allocation.  Once the controller has nothing left to do, no
\* pending one-device claim is left beside a healthy device that no claim
\* holds on that node.
HealthyDevicesAvailable ==
    (Quiescent /\ faults = 0) =>
        \A c \in present, s \in Slices, d \in Devices :
            ~ /\ alloc[c] = {}
              /\ NormalizedCount(spec[c].count) = 1
              /\ spec[c].class \in classes
              /\ spec[c].demand <= Capacity[d]
              /\ Offers(slices, s, d, spec[c])
              /\ \A b \in Claims : \A r \in alloc[b] :
                    r.device = d => r.node # SliceNode[s]
=============================================================================
