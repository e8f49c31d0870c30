------------------------------ MODULE ClaimPlan ------------------------------
(***************************************************************************)
(* What the planner of internal/simulator/allocation_plan.go,              *)
(* allocation_usage.go and allocation_constraints.go may answer for one    *)
(* claim with a single ExactCount request and no constraints.              *)
(*                                                                         *)
(* A device is its identity driver/pool/device (deviceIdentityKey): the    *)
(* node is not part of it, so several slices may offer the same device.    *)
(* Slices are numbered in the order the API server lists them.  Which of   *)
(* several possible nodes and device sets is taken depends on the order of *)
(* the devices inside a slice, which is abstracted: Plans is the set of    *)
(* answers.  Whether the planner answers at all is exact.                  *)
(***************************************************************************)
EXTENDS Integers, FiniteSets, FiniteSetsExt

CONSTANTS
    NClaims,                   \* claims 1..NClaims, numbered in list order
    NSlices,                   \* slices 1..NSlices, numbered in list order
    Devices,                   \* device identities driver/pool/device
    Nodes,                     \* node names
    Classes,                   \* DeviceClass names
    SliceNode,                 \* the node each slice is published for
    Selected,                  \* the devices the selectors of a class match
    Capacity,                  \* the one capacity of each device
    Specs,                     \* the claim specs users may submit
    AllocationResultsMaxSize   \* Kubernetes' limit on results per claim (32)

Claims == 1..NClaims
Slices == 1..NSlices

\* How a slice publishes a device: not at all, for one claim, or for several
\* (Device.AllowMultipleAllocations).
Modes == {"absent", "exclusive", "shareable"}

\* A ResourceSlice: its health label and its device list.  A slice that does
\* not exist offers nothing.
SliceObject == [healthy : BOOLEAN, mode : [Devices -> Modes]]

\* One entry of Status.Allocation.Devices.Results.  shared stands for the pair
\* ShareID and ConsumedCapacity, which are set together; amount is what is
\* consumed.  The claim's NodeSelector names one node for all its results.
Result == [device : Devices, node : Nodes, shared : BOOLEAN, amount : Nat]

\* A claim spec: one ExactCount request.  demand 0 is a request without
\* CapacityRequirements.
ASSUME ClaimPlanAssumption ==
    /\ NClaims \in Nat
    /\ NSlices \in Nat
    /\ IsFiniteSet(Devices)
    /\ SliceNode \in [Slices -> Nodes]
    /\ Selected \in [Classes -> SUBSET Devices]
    /\ Capacity \in [Devices -> Nat]
    /\ Specs \subseteq [class : Classes, count : Nat, demand : Nat]
    /\ AllocationResultsMaxSize \in Nat
-----------------------------------------------------------------------------
\* The results a set of claims holds, each with the claim that holds it.
HeldResults(held) == UNION {{c} \X held[c] : c \in DOMAIN held}

\* isDeviceAllocated, committedDeviceUsage.exclusive and .shared.
HeldExclusively(held, d) ==
    \E c \in DOMAIN held : \E r \in held[c] : r.device = d /\ ~r.shared

\* Mutant of HeldShared: shares do not keep a device from exclusive use.
SharesIgnored(held, d) == FALSE

HeldShared(held, d) ==
    \E c \in DOMAIN held : \E r \in held[c] : r.device = d /\ r.shared

\* committedDeviceUsage.consumed.
Consumed(held, d) ==
    MapThenSumSet(LAMBDA h : h[2].amount,
                  {h \in HeldResults(held) : h[2].device = d /\ h[2].shared})

\* collectCommittedAllocationUsage refuses existing allocations in which an
\* exclusively held device is held a second time; no claim is planned then.
UsageConflict(held) ==
    \E g, h \in HeldResults(held) :
        g # h /\ g[2].device = h[2].device /\ ~g[2].shared

\* normalizedCount: an omitted count asks for one device.
NormalizedCount(n) == IF n = 0 THEN 1 ELSE n

\* consumedCapacityForRequest without a request policy: a claim that names no
\* amount consumes the whole device.
ShareAmount(spec, d) == IF spec.demand = 0 THEN Capacity[d] ELSE spec.demand

\* Mutant of CapacityExceeded: committed shares are not added.
CapacityExceededAlone(held, d, amount) == amount > Capacity[d]

\* capacityWouldBeExceeded: the shares given so far leave too little.
CapacityExceeded(held, d, amount) == Consumed(held, d) + amount > Capacity[d]

\* exclusiveCapacityMatches: the whole device must have what is asked for.
ExclusiveCapacityMatches(spec, d) == spec.demand <= Capacity[d]

\* eligibleSimulatorSlice.
Eligible(slice) == slice.healthy

\* A healthy managed slice publishes d, and the selectors match it.
Offers(slices, s, d, spec) ==
    /\ Eligible(slices[s])
    /\ slices[s].mode[d] # "absent"
    /\ d \in Selected[spec.class]

\* buildShareableCandidate, buildExclusiveCandidate: d can be taken from s.
Accepts(slices, s, d, spec, held) ==
    /\ Offers(slices, s, d, spec)
    /\ IF slices[s].mode[d] = "shareable"
       THEN /\ ~HeldExclusively(held, d)
            /\ ~CapacityExceeded(held, d, ShareAmount(spec, d))
       ELSE /\ ~HeldShared(held, d)
            /\ ~HeldExclusively(held, d)
            /\ ExclusiveCapacityMatches(spec, d)

\* Candidate evaluation fails the claim: the way s publishes d contradicts the
\* allocations d already has.
Rejects(slices, s, d, spec, held) ==
    /\ Offers(slices, s, d, spec)
    /\ IF slices[s].mode[d] = "shareable"
       THEN \/ HeldExclusively(held, d)
            \/ Consumed(held, d) > Capacity[d]
       ELSE HeldShared(held, d)

\* The first slice that accepts an identity keeps it (the seen map); later
\* slices that offer the same identity are passed over.
FirstAccepted(slices, s, d, spec, held) ==
    /\ Accepts(slices, s, d, spec, held)
    /\ \A t \in 1..(s - 1) : ~Accepts(slices, t, d, spec, held)

\* Candidates are collected from every slice before one is chosen, so one
\* contradiction that is not shadowed by an earlier acceptance fails the claim.
CandidateFailure(slices, spec, held) ==
    \E s \in Slices, d \in Devices :
        /\ Rejects(slices, s, d, spec, held)
        /\ \A t \in 1..(s - 1) : ~Accepts(slices, t, d, spec, held)

\* The devices one node can contribute.
Candidates(slices, n, spec, held) ==
    {d \in Devices : \E s \in Slices :
        SliceNode[s] = n /\ FirstAccepted(slices, s, d, spec, held)}

\* The result written for d.
ResultFor(slices, n, d, spec, held) ==
    LET s == CHOOSE s \in Slices : FirstAccepted(slices, s, d, spec, held)
        share == slices[s].mode[d] = "shareable"
    IN  [device |-> d, node |-> n, shared |-> share,
         amount |-> IF share THEN ShareAmount(spec, d) ELSE 0]

\* selectRequest gives up before it looks at devices.
Unselectable(spec, classes) ==
    \/ spec.class \notin classes
    \/ NormalizedCount(spec.count) > AllocationResultsMaxSize

\* All devices of a claim come from one node: any combination of its
\* candidates of the right size.
NodePlans(slices, n, spec, held) ==
    {{ResultFor(slices, n, d, spec, held) : d \in D} :
        D \in kSubset(NormalizedCount(spec.count),
                      Candidates(slices, n, spec, held))}

\* planClaimAllocation: the sets of results the planner may choose for a claim;
\* none when it reports an allocationFailure.
Plans(spec, held, slices, classes) ==
    IF \/ UsageConflict(held)
       \/ Unselectable(spec, classes)
       \/ CandidateFailure(slices, spec, held)
    THEN {}
    ELSE UNION {NodePlans(slices, n, spec, held) : n \in Nodes}
=============================================================================
