----------------------------- MODULE ClaimSearch -----------------------------
(***************************************************************************)
(* planClaimAllocation for any claim: several requests, firstAvailable     *)
(* alternatives, ExactCount and All, MatchAttribute constraints and        *)
(* shareable devices (internal/simulator/allocation_plan.go,               *)
(* allocation_constraints.go, allocation_usage.go).                        *)
(*                                                                         *)
(* The planner runs on the copies of one pass: input, chosen in Init,      *)
(* never changes.  Without constraints and shares it takes, for each       *)
(* request in turn, the first devices that fit (greedy).  Otherwise it     *)
(* searches depth first; frames is the stack of searchConstrainedRequests, *)
(* chosen the selections made on the way down.  The selections of one      *)
(* alternative do not depend on what happens below it, so the frame holds  *)
(* all of them, in the order the code yields them.                         *)
(*                                                                         *)
(* Selectors are abstracted to each device's verdict on each class; the    *)
(* request's own selectors are part of it.  A device has at most one       *)
(* capacity.                                                               *)
(***************************************************************************)
EXTENDS CapacityPolicy, SequencesExt

CONSTANTS
    Inputs,                        \* families of claims and clusters to plan for
    NoNode,                        \* the empty node name
    AllocationResultsMaxSize,      \* Kubernetes' limit on results (32)
    maxConstraintSearchBranches    \* the branch budget (100000)

VARIABLES
    input,      \* requests, constraints, slices, classes, committed results
    pc,         \* "start", "search", "greedy" or "done"
    frames,     \* per request entered: alternatives and selections left
    chosen,     \* the selections made, one sequence of devices per request
    remaining,  \* constraintSearchBudget.remaining
    outcome     \* "none", "planned", or the reason of the failure

vars == <<input, pc, frames, chosen, remaining, outcome>>

\* The reasons of an allocationFailure.  The code reports a spent budget and a
\* done context as "Unsupported", with messages of their own; they are told
\* apart here.
Reasons == {"DeviceClassNotFound", "NoMatch", "SelectorError", "Unsupported",
            "BudgetSpent", "Canceled"}

\* The k-th of a set of indexes, and a sequence's elements at such a set: the
\* form of every loop that passes over some elements.
Nth(I, k) == CHOOSE i \in I : Cardinality({j \in I : j <= i}) = k

AtIndexes(seq, I) == [k \in 1..Cardinality(I) |-> seq[Nth(I, k)]]
-----------------------------------------------------------------------------
(* What the API and its decoding give: lists, maps with one entry a key,   *)
(* optional fields, subrequests of different names, and quantities, of     *)
(* which those of results and of demands the planner accepts are not       *)
(* negative.                                                               *)

IsList(seq) == seq \in Seq(Range(seq))

Optional(field) == \A x, y \in field : x = y

IsQuantity(field) == Optional(field) /\ field \subseteq Int

IsPolicy(p) ==
    /\ IsQuantity(p.default)
    /\ p.validValues \in Seq(Int)
    /\ Optional(p.validRange)
    /\ \A range \in p.validRange :
        IsQuantity(range.min) /\ IsQuantity(range.max) /\ IsQuantity(range.step)

IsCapacity(c) ==
    c.value \in Int /\ Optional(c.policy) /\ \A p \in c.policy : IsPolicy(p)

IsDevice(d, classes) ==
    /\ {d.shareable, d.supported} \subseteq BOOLEAN
    /\ \A class \in classes : d.verdict[class] \in {"match", "other", "error"}
    /\ Optional(d.capacity) /\ \A c \in d.capacity : IsCapacity(c)
    /\ \A name \in DOMAIN d.attributes : IsFiniteSet(d.attributes[name])

\* A slice without a node of its own is one the planner does not support.
IsSlice(s, classes) ==
    /\ {s.managed, s.healthy, s.supported} \subseteq BOOLEAN
    /\ s.generation \in Int /\ s.count \in Nat \ {0}
    /\ s.node = NoNode => ~s.supported
    /\ IsList(s.devices) /\ \A d \in Range(s.devices) : IsDevice(d, classes)

IsAlternative(alt) ==
    /\ alt.extras \in BOOLEAN
    /\ ~alt.extras => \A demand \in alt.demand : demand.amount \in Nat
    /\ \A d, e \in alt.demand : d.name = e.name => d = e

WellFormed(in) ==
    /\ IsList(in.requests)
    /\ \A r \in Range(in.requests) :
        /\ IsList(r.exactly) /\ Len(r.exactly) <= 1
        /\ IsList(r.firstAvailable)
        /\ \A i, j \in DOMAIN r.firstAvailable :
            r.firstAvailable[i].name = r.firstAvailable[j].name => i = j
        /\ \A alt \in Range(r.exactly) \cup Range(r.firstAvailable) :
                IsAlternative(alt)
    /\ IsList(in.constraints)
    /\ IsList(in.slices) /\ \A s \in Range(in.slices) : IsSlice(s, in.classes)
    /\ IsList(in.committed)
    /\ \A r \in Range(in.committed) : r.shared \in BOOLEAN /\ r.amount \in Nat

ASSUME ClaimSearchAssumption ==
    /\ AllocationResultsMaxSize \in Nat
    /\ maxConstraintSearchBranches \in Nat
    /\ \A family \in DOMAIN Inputs : \A in \in Inputs[family] : WellFormed(in)
-----------------------------------------------------------------------------
(* The claim.  A request is [exactly, firstAvailable], two sequences of    *)
(* alternatives [name, class, mode, count, demand, extras]; the name of a  *)
(* subrequest is <<parent, name>>.  extras stands for admin access,        *)
(* tolerations, negative amounts or a missing class name.                  *)

Alternatives(request) == request.exactly \o request.firstAvailable

\* supportedAlternative, supportedAllocationMode.
SupportedAlternative(alt) ==
    /\ ~alt.extras
    /\ \/ alt.mode = "ExactCount" /\ alt.count \in 0..AllocationResultsMaxSize
       \/ alt.mode = "All" /\ alt.count = 0

\* supportedAlternatives, supportedSubrequests.
SupportedRequest(request) ==
    /\ (request.exactly = <<>>) # (request.firstAvailable = <<>>)
    /\ \A alt \in Range(Alternatives(request)) : SupportedAlternative(alt)

normalizedCount(alt) == IF alt.count = 0 THEN 1 ELSE alt.count

\* constraintRequestReferences.
References ==
    UNION {{<<alt.name[1]>>, alt.name} :
              alt \in UNION {Range(Alternatives(r)) : r \in Range(input.requests)}}

\* supportedMatchAttributeConstraints.  A constraint is [kind, attribute,
\* requests]; kind is "match", or whatever makes it unsupported.
ConstraintsSupported ==
    \A c \in Range(input.constraints) :
        c.kind = "match" /\ c.requests \subseteq References

\* matchAttributeConstraint.appliesTo.
AppliesTo(constraint, name) ==
    \/ constraint.requests = {}
    \/ name \in constraint.requests
    \/ Len(name) = 2 /\ <<name[1]>> \in constraint.requests
-----------------------------------------------------------------------------
(* Usage.  committed is a sequence of [id, shared, amount]; a device taken *)
(* in this plan is [request, id, node, shared, amount, attributes].        *)

Taken == FlattenSeq(chosen)

UsesOf(id, results) == {i \in DOMAIN results : results[i].id = id}

ExclusiveIn(id, results) == \E r \in Range(results) : r.id = id /\ ~r.shared

SharedIn(id, results) == \E r \in Range(results) : r.id = id /\ r.shared

\* committedDeviceUsage.consumed, allocationAttemptUsage.consumed.
ConsumedIn(id, results) ==
    SumFunctionOnSet([i \in DOMAIN results |-> results[i].amount],
                     UsesOf(id, results))

\* addResult: an exclusively held device is held once.
CommittedConflict ==
    \E r \in Range(input.committed) :
        ~r.shared /\ Cardinality(UsesOf(r.id, input.committed)) > 1

\* The planner backtracks when there is anything to backtrack for.
UseBacktrackingPlanner ==
    \/ input.constraints # <<>>
    \/ \E s \in Range(input.slices) :
            s.managed /\ \E d \in Range(s.devices) : d.shareable
    \/ \E r \in Range(input.committed) : r.shared
-----------------------------------------------------------------------------
(* Candidates.  A slice is [managed, healthy, supported, node, driver,     *)
(* pool, generation, count, devices], a device [name, shareable, supported,*)
(* verdict, capacity, attributes].  An offer is a device of a slice for    *)
(* the node the slice would serve.                                         *)

Identity(offer) == <<offer.slice.driver, offer.slice.pool, offer.device.name>>

\* The amount asked of a capacity; a demand names one capacity.
Requested(alt, capacity) ==
    {demand.amount : demand \in {d \in alt.demand : d.name = capacity.name}}

\* validateCapacityRequirements, exclusiveCapacityMatches: every capacity
\* asked for exists.
CapacityExists(alt, device) ==
    \A demand \in alt.demand : \E c \in device.capacity : c.name = demand.name

ExclusiveVerdict(alt, device) ==
    CASE \E c \in device.capacity : c.policy # {} \/ c.value < 0 -> "Unsupported"
      [] OTHER ->
            IF /\ CapacityExists(alt, device)
               /\ \A c \in device.capacity :
                    \A amount \in Requested(alt, c) : amount <= c.value
            THEN "accept" ELSE "skip"

\* evaluateShareableCapacity, for the capacity c.
ShareAmounts(alt, c, used) ==
    {q \in consumedCapacityForRequest(c, Requested(alt, c)) : used + q <= c.value}

\* Mutant of ConsumedSoFar: the shares of this plan's earlier requests are not
\* counted.
ConsumedByOthers(id) == ConsumedIn(id, input.committed)

\* The consumed capacity a share is added to: committed, then pending.
ConsumedSoFar(id) == ConsumedIn(id, input.committed) + ConsumedIn(id, Taken)

buildShareableCandidate(alt, offer) ==
    LET id == Identity(offer)
        c == The(offer.device.capacity)
        committed == ConsumedIn(id, input.committed)
    IN  CASE \/ offer.device.capacity = {}
             \/ ExclusiveIn(id, input.committed)
             \/ SharedIn(id, input.committed) /\ committed > c.value
             \/ ExclusiveIn(id, Taken) -> "Unsupported"
          [] OTHER ->
                IF ~CapacityExists(alt, offer.device) THEN "skip"
                ELSE IF ~PolicyIsValid(c) THEN "Unsupported"
                ELSE IF ShareAmounts(alt, c, ConsumedSoFar(id)) = {}
                THEN "skip" ELSE "accept"

buildExclusiveCandidate(alt, offer) ==
    LET id == Identity(offer) IN
    CASE SharedIn(id, input.committed) -> "Unsupported"
      [] OTHER -> IF UsesOf(id, input.committed \o Taken) # {}
                  THEN "skip" ELSE ExclusiveVerdict(alt, offer.device)

\* evaluateConstrainedCandidate: "accept", "skip", or the reason to give up.
evaluateConstrainedCandidate(alt, offer, seen) ==
    LET verdict == offer.device.verdict[alt.class] IN
    CASE verdict = "error" -> "SelectorError"
      [] verdict = "other" -> "skip"
      [] verdict = "match" ->
            IF ~offer.slice.supported \/ ~offer.device.supported
            THEN "Unsupported"
            ELSE IF Identity(offer) \in seen THEN "skip"
            ELSE IF offer.device.shareable
            THEN buildShareableCandidate(alt, offer)
            ELSE buildExclusiveCandidate(alt, offer)

\* Mutant of evaluateCandidate: isDeviceAllocated is not asked.
EvaluateUnallocated(alt, offer, seen) ==
    CASE offer.device.verdict[alt.class] = "error" -> "SelectorError"
      [] offer.device.verdict[alt.class] = "other" -> "skip"
      [] offer.device.verdict[alt.class] = "match" ->
            IF Identity(offer) \in seen \/ UsesOf(Identity(offer), Taken) # {}
            THEN "skip" ELSE ExclusiveVerdict(alt, offer.device)

\* evaluateCandidate, candidateUnavailable: the greedy planner.
evaluateCandidate(alt, offer, seen) ==
    LET verdict == offer.device.verdict[alt.class]
        id == Identity(offer)
    IN  CASE verdict = "error" -> "SelectorError"
          [] verdict = "other" -> "skip"
          [] verdict = "match" ->
                IF ~offer.slice.supported \/ ~offer.device.supported
                THEN "Unsupported"
                ELSE IF id \in seen \/ UsesOf(id, input.committed \o Taken) # {}
                THEN IF ExclusiveVerdict(alt, offer.device) = "Unsupported"
                     THEN "Unsupported" ELSE "skip"
                ELSE ExclusiveVerdict(alt, offer.device)

Evaluate(alt, offer, seen) ==
    IF pc = "greedy"
    THEN evaluateCandidate(alt, offer, seen)
    ELSE evaluateConstrainedCandidate(alt, offer, seen)

\* The device as it enters the plan.
Take(alt, offer) ==
    LET id == Identity(offer)
        c == The(offer.device.capacity)
    IN  [request |-> alt.name, id |-> id, node |-> offer.node,
         shared |-> offer.device.shareable,
         amount |-> IF offer.device.shareable
                    THEN The(ShareAmounts(alt, c, ConsumedSoFar(id))) ELSE 0,
         attributes |-> offer.device.attributes]
-----------------------------------------------------------------------------
(* Collecting candidates.                                                  *)

\* compatibleNodeName: the node a slice would serve, if the plan's node allows
\* it.
CompatibleNodes(slice, allocated) ==
    CASE slice.node = NoNode -> {allocated}
      [] OTHER -> {slice.node} \cap
                  (IF allocated = NoNode THEN {slice.node} ELSE {allocated})

\* The offers of a sequence of slices, in order.
Offers(slices, allocated) ==
    LET OffersOf(slice) ==
            IF CompatibleNodes(slice, allocated) = {} THEN <<>>
            ELSE [i \in DOMAIN slice.devices |->
                    [slice |-> slice, device |-> slice.devices[i],
                     node |-> The(CompatibleNodes(slice, allocated))]]
    IN  FlattenSeq([i \in DOMAIN slices |-> OffersOf(slices[i])])

OnNode(devices, node) ==
    AtIndexes(devices, {i \in DOMAIN devices : devices[i].node = node})

\* What has been collected: devices, a reason to stop, the node with enough.
NoCandidates == [devices |-> <<>>, failure |-> "none", full |-> {}]

\* Evaluates offers in order until one gives a reason to stop, or until a node
\* has count devices (candidateAccumulator.add; count 0 takes them all).  The
\* first accepted offer of an identity keeps it: that is the first one that
\* would be accepted if it were alone.
Collect(alt, offers, count) ==
    LET alone == {j \in DOMAIN offers : Evaluate(alt, offers[j], {}) = "accept"}
        verdicts == [j \in DOMAIN offers |-> Evaluate(alt, offers[j],
                        {Identity(offers[i]) : i \in {k \in alone : k < j}})]
        accepted == {j \in DOMAIN offers : verdicts[j] = "accept"}
        failing == {j \in DOMAIN offers : verdicts[j] \notin {"accept", "skip"}}
        filling == {j \in accepted : count = Cardinality(
                        {i \in accepted : i <= j /\ offers[i].node = offers[j].node})}
        ends == failing \cup filling
        last == IF ends = {} THEN Len(offers) ELSE Min(ends)
        taken == AtIndexes(offers, {j \in accepted : j <= last})
    IN  [devices |-> [k \in DOMAIN taken |-> Take(alt, taken[k])],
         failure |-> IF last \in failing THEN verdicts[last] ELSE "none",
         full |-> {offers[j].node : j \in filling \cap {last}}]

\* A sequence without its repetitions.
Distinct(seq) ==
    AtIndexes(seq, {i \in DOMAIN seq : \A j \in 1..(i - 1) : seq[j] # seq[i]})

\* forEachDeviceCombination: the combinations of count elements of a sequence,
\* in the lexicographic order of their indexes.
Before(I, J) == I # J /\ Min((I \ J) \cup (J \ I)) \in I

Combinations(seq, count) ==
    LET sets == kSubset(count, DOMAIN seq)
        Place(I) == Cardinality({J \in sets : J = I \/ Before(J, I)})
    IN  [n \in 1..Cardinality(sets) |->
            AtIndexes(seq, CHOOSE I \in sets : Place(I) = n)]

PoolOf(slice) == <<slice.driver, slice.pool>>

\* The slices of a pool that belong to its latest generation, by index.
Current(slices, pool) ==
    {i \in DOMAIN slices :
        /\ PoolOf(slices[i]) = pool
        /\ \A t \in Range(slices) :
                PoolOf(t) = pool => t.generation <= slices[i].generation}

\* completeCurrentPoolSlices: as the slices are read, those of the latest
\* generation so far agree on the count, and in the end all of them are there.
Complete(slices) ==
    /\ \A i, j \in DOMAIN slices :
        LET Older(k) == PoolOf(slices[k]) # PoolOf(slices[j])
                        \/ slices[k].generation <= slices[j].generation
        IN  /\ i < j
            /\ PoolOf(slices[i]) = PoolOf(slices[j])
            /\ slices[i].generation = slices[j].generation
            /\ \A k \in 1..(j - 1) : Older(k)
            => slices[i].count = slices[j].count
    /\ \A s \in Range(slices) :
        LET current == Current(slices, PoolOf(s))
        IN  Cardinality(current) = slices[Min(current)].count

\* The current slices, pool by pool in the order the pools are first seen.
CurrentSlices(slices) ==
    LET pools == Distinct([i \in DOMAIN slices |-> PoolOf(slices[i])])
    IN  FlattenSeq([i \in DOMAIN pools |->
                        AtIndexes(slices, Current(slices, pools[i]))])

\* managedSlicesByNode: slices that say no node serve the plan's node.
ManagedOn(node, allocated) ==
    AtIndexes(input.slices, {i \in DOMAIN input.slices :
        /\ input.slices[i].managed
        /\ node \in CompatibleNodes(input.slices[i], allocated)})

ManagedNodes(allocated) ==
    LET managed == {i \in DOMAIN input.slices :
            /\ input.slices[i].managed
            /\ CompatibleNodes(input.slices[i], allocated) # {}}
        slices == AtIndexes(input.slices, managed)
    IN  Distinct([i \in DOMAIN slices |->
                    The(CompatibleNodes(slices[i], allocated))])

Healthy(slices) ==
    AtIndexes(slices, {i \in DOMAIN slices : slices[i].healthy})

\* collectConstrainedAllDevicesForNode, selectAllFromNode, for the managed slices
\* of one node.
AllDevicesOf(alt, slices, allocated) ==
    IF ~Complete(slices)
    THEN [NoCandidates EXCEPT !.failure = "Unsupported"]
    ELSE Collect(alt, Offers(Healthy(CurrentSlices(slices)), allocated), 0)

\* The same for every node, in order.
AllDevicesByNode(alt, nodes, allocated) ==
    [i \in DOMAIN nodes |-> AllDevicesOf(alt, ManagedOn(nodes[i], allocated), allocated)]

-----------------------------------------------------------------------------
(* Selections of one request, given what is chosen already.                *)

AllocatedNode == IF Taken = <<>> THEN NoNode ELSE Taken[1].node

\* Mutant of RemainingResults: the last result is never given out.
RemainingResultsShort == AllocationResultsMaxSize - Len(Taken) - 1

RemainingResults == AllocationResultsMaxSize - Len(Taken)

\* What an alternative leads to: selections to try, or why there are none.
Nothing == [selections |-> <<>>, missing |-> FALSE, limit |-> FALSE,
            failure |-> "none"]

EligibleOffers ==
    Offers(AtIndexes(input.slices, {i \in DOMAIN input.slices :
                input.slices[i].managed /\ input.slices[i].healthy}),
           AllocatedNode)

NodesOf(devices) == Distinct([i \in DOMAIN devices |-> devices[i].node])

\* forEachConstrainedExactSelection: node by node, every combination.
ExactSelections(candidates, count) ==
    LET nodes == NodesOf(candidates.devices) IN
    [Nothing EXCEPT
        !.failure = candidates.failure,
        !.selections = IF candidates.failure # "none" THEN <<>>
            ELSE FlattenSeq([i \in DOMAIN nodes |->
                    Combinations(OnNode(candidates.devices, nodes[i]), count)])]

\* selectExactCountAlternative, selectFromSlice: the first node with enough.
FirstExactSelection(candidates) ==
    [Nothing EXCEPT
        !.failure = candidates.failure,
        !.selections =
            IF candidates.full = {} THEN <<>>
            ELSE <<OnNode(candidates.devices, The(candidates.full))>>]

\* forEachConstrainedAllSelection: a node whose devices cannot be taken is
\* passed over; its failure counts at the end, unless a node had too many.
AllSelections(byNode) ==
    LET failing == {i \in DOMAIN byNode : byNode[i].failure # "none"}
        usable == DOMAIN byNode \ failing
        limit == \E i \in usable : Len(byNode[i].devices) > RemainingResults
    IN  [Nothing EXCEPT
            !.selections = FlattenSeq([i \in DOMAIN byNode |->
                IF i \in usable /\ Len(byNode[i].devices) \in 1..RemainingResults
                THEN <<byNode[i].devices>> ELSE <<>>]),
            !.limit = limit,
            !.failure = IF limit \/ failing = {} THEN "none"
                        ELSE byNode[Max(failing)].failure]

\* selectAllAlternative: only incomplete pools are passed over, any other
\* failure counts at once.
FirstAllSelection(byNode, complete) ==
    LET large == {i \in complete : Len(byNode[i].devices) > RemainingResults}
        decisive == {i \in complete :
            \/ byNode[i].failure # "none"
            \/ Len(byNode[i].devices) \in 1..RemainingResults}
        First(candidates) ==
            [Nothing EXCEPT
                !.failure = candidates.failure,
                !.selections = IF candidates.failure # "none"
                               THEN <<>> ELSE <<candidates.devices>>]
    IN  IF decisive # {} THEN First(byNode[Min(decisive)])
        ELSE [Nothing EXCEPT
                !.limit = large # {},
                !.failure = IF large = {} /\ complete # DOMAIN byNode
                            THEN "Unsupported" ELSE "none"]

AllOutcome(alt, nodes, allocated) ==
    IF pc = "greedy"
    THEN FirstAllSelection(AllDevicesByNode(alt, nodes, allocated),
            {i \in DOMAIN nodes : Complete(ManagedOn(nodes[i], allocated))})
    ELSE AllSelections(AllDevicesByNode(alt, nodes, allocated))

ExactOutcome(alt, count) ==
    IF pc = "greedy"
    THEN FirstExactSelection(Collect(alt, EligibleOffers, count))
    ELSE ExactSelections(Collect(alt, EligibleOffers, 0), count)

\* forEachConstrainedAlternative, selectAlternative.
AlternativeOutcome(alt) ==
    CASE alt.class \notin input.classes -> [Nothing EXCEPT !.missing = TRUE]
      [] alt.class \in input.classes /\ alt.mode = "All" ->
            AllOutcome(alt, ManagedNodes(AllocatedNode), AllocatedNode)
      [] alt.class \in input.classes /\ alt.mode # "All" ->
            IF normalizedCount(alt) > RemainingResults
            THEN [Nothing EXCEPT !.limit = TRUE]
            ELSE ExactOutcome(alt, normalizedCount(alt))

\* A request's frame: the alternatives and selections left, and what came of the
\* alternatives so far.
Frame(alternatives, selections, missing, limit, failure) ==
    [alternatives |-> alternatives, selections |-> selections,
     missing |-> missing, limit |-> limit, failure |-> failure]

\* The frame after its next alternative, which led to out.
AfterAlternative(frame, out) ==
    Frame(Tail(frame.alternatives), out.selections, frame.missing /\ out.missing,
          frame.limit \/ out.limit, out.failure)

\* constrainedRequestIterationFailure, unmatchedRequestFailure: the reason that
\* ends the whole search when no selection of the request leads to a plan.
IterationFailure(frame, request) ==
    CASE frame.failure # "none" -> frame.failure
      [] frame.failure = "none" /\ frame.missing -> "DeviceClassNotFound"
      [] OTHER -> IF frame.limit /\ Len(Alternatives(request)) = 1
                  THEN "Unsupported" ELSE "none"
-----------------------------------------------------------------------------
(* MatchAttribute.  An attribute's value is the set of its fields that are *)
(* set, <<kind, value>> each; kind "list" is a list-valued field.          *)

\* lookupConstraintAttribute: by qualified name, else by the identifier alone
\* when the domain is the driver's.
Attribute(device, name) ==
    CASE name \in DOMAIN device.attributes -> device.attributes[name]
      [] name \notin DOMAIN device.attributes
         /\ name[1] = device.id[1]
         /\ <<name[2]>> \in DOMAIN device.attributes ->
            device.attributes[<<name[2]>>]
      [] OTHER -> {}

\* scalarConstraintAttribute.
Malformed(fields) ==
    Cardinality(fields) > 1 \/ \E f \in fields : f[1] = "list"

\* "yes", "no", or "fail" when the first device that does not fit has an
\* attribute that cannot be compared.
matchConstraintSatisfied(constraint, devices) ==
    LET bound == AtIndexes(devices,
                    {i \in DOMAIN devices : AppliesTo(constraint, devices[i].request)})
        fields == [i \in DOMAIN bound |-> Attribute(bound[i], constraint.attribute)]
        bad == {i \in DOMAIN fields :
                    fields[i] = {} \/ Malformed(fields[i]) \/ fields[i] # fields[1]}
    IN  CASE bad = {} -> "yes"
          [] OTHER -> IF Malformed(fields[Min(bad)]) THEN "fail" ELSE "no"

\* The first constraint that is not satisfied decides.
matchConstraintsSatisfied(devices) ==
    LET answers == [i \in DOMAIN input.constraints |->
                        matchConstraintSatisfied(input.constraints[i], devices)]
        bad == {i \in DOMAIN answers : answers[i] # "yes"}
    IN  IF bad = {} THEN "yes" ELSE answers[Min(bad)]
-----------------------------------------------------------------------------
Init ==
    /\ \E family \in DOMAIN Inputs : input \in Inputs[family]
    /\ pc = "start"
    /\ frames = <<>>
    /\ chosen = <<>>
    /\ remaining = maxConstraintSearchBranches
    /\ outcome = "none"

Finish(result) == pc' = "done" /\ outcome' = result

\* Between two requests, and inside the iteration of one.
Entering == pc \in {"search", "greedy"} /\ Len(frames) = Len(chosen)
Iterating == pc \in {"search", "greedy"} /\ Len(frames) > Len(chosen)

planClaimAllocation ==
    /\ pc = "start"
    /\ IF ~ConstraintsSupported \/ CommittedConflict
       THEN Finish("Unsupported")
       ELSE /\ pc' = IF UseBacktrackingPlanner THEN "search" ELSE "greedy"
            /\ UNCHANGED outcome
    /\ UNCHANGED <<input, frames, chosen, remaining>>

\* searchConstrainedRequests and selectRequest: enter the next request.
EnterRequest ==
    /\ Entering
    /\ Len(chosen) < Len(input.requests)
    /\ LET request == input.requests[Len(chosen) + 1] IN
       IF SupportedRequest(request)
       THEN /\ frames' = Append(frames,
                    Frame(Alternatives(request), <<>>, TRUE, FALSE, "none"))
            /\ UNCHANGED <<pc, outcome>>
       ELSE Finish("Unsupported") /\ UNCHANGED frames
    /\ UNCHANGED <<input, chosen, remaining>>

\* Every request has its selection.
AllRequestsSelected ==
    /\ Entering
    /\ Len(chosen) = Len(input.requests)
    /\ Finish("planned")
    /\ UNCHANGED <<input, frames, chosen, remaining>>

\* The loop over a request's alternatives; the next one is looked at when the
\* selections of the one before it have been tried.
NextAlternative ==
    /\ Iterating
    /\ Last(frames).selections = <<>>
    /\ Last(frames).failure = "none"
    /\ Last(frames).alternatives # <<>>
    /\ frames' = [frames EXCEPT ![Len(frames)] =
                    AfterAlternative(@, AlternativeOutcome(Head(@.alternatives)))]
    /\ UNCHANGED <<input, pc, chosen, remaining, outcome>>

\* planUnconstrainedClaimAllocation: the first selection is taken.  It never
\* exceeds the remaining results, so validateClaimResultLimit holds.
SelectRequest ==
    /\ Iterating
    /\ pc = "greedy"
    /\ Last(frames).selections # <<>>
    /\ chosen' = Append(chosen, Head(Last(frames).selections))
    /\ UNCHANGED <<input, pc, frames, remaining, outcome>>

\* Mutant of BudgetSpent: one branch too many.
BudgetSpentLate == remaining < 0

\* constraintSearchBudget.consume.
BudgetSpent == remaining <= 0

\* The function searchConstrainedRequests passes as yield.
Yield ==
    /\ Iterating
    /\ pc = "search"
    /\ Last(frames).selections # <<>>
    /\ LET selection == Head(Last(frames).selections)
           answer == matchConstraintsSatisfied(Taken \o selection)
       IN  IF BudgetSpent
           THEN Finish("BudgetSpent") /\ UNCHANGED <<frames, chosen, remaining>>
           ELSE /\ remaining' = remaining - 1
                /\ frames' = [frames EXCEPT ![Len(frames)].selections = Tail(@)]
                /\ chosen' = IF answer = "yes"
                             THEN Append(chosen, selection) ELSE chosen
                /\ IF answer = "fail"
                   THEN Finish("Unsupported") ELSE UNCHANGED <<pc, outcome>>
    /\ UNCHANGED input

\* No selection and no alternative of the current request is left.
NothingLeft ==
    /\ Iterating
    /\ Last(frames).selections = <<>>
    /\ Last(frames).alternatives = <<>> \/ Last(frames).failure # "none"

\* Mutant of Backtracks: gives up instead of returning to the earlier request.
NeverBacktracks(failure) == FALSE

\* The search returns to the request before, unless the iteration itself failed;
\* the greedy planner never does.
Backtracks(failure) == failure = "none" /\ pc = "search" /\ Len(frames) > 1

Exhausted ==
    /\ NothingLeft
    /\ LET failure == IterationFailure(Last(frames), input.requests[Len(frames)]) IN
       IF Backtracks(failure)
       THEN /\ frames' = Front(frames)
            /\ chosen' = Front(chosen)
            /\ UNCHANGED <<pc, outcome>>
       ELSE /\ Finish(IF failure = "none" THEN "NoMatch" ELSE failure)
            /\ UNCHANGED <<frames, chosen>>
    /\ UNCHANGED <<input, remaining>>

\* The next selection is a combination of devices, not all devices of a node.
NextIsCombination ==
    /\ Iterating
    /\ Last(frames).selections # <<>>
    /\ \E alt \in Range(Alternatives(input.requests[Len(frames)])) :
        /\ alt.mode = "ExactCount"
        /\ alt.name = Head(Last(frames).selections)[1].request

\* The context is found done when a request is entered or a combination is made.
Canceled ==
    /\ pc = "search"
    /\ Entering \/ NextIsCombination
    /\ Finish("Canceled")
    /\ UNCHANGED <<input, frames, chosen, remaining>>

\* The planner has answered.
Answered == pc = "done" /\ UNCHANGED vars

Next ==
    \/ planClaimAllocation
    \/ EnterRequest
    \/ AllRequestsSelected
    \/ NextAlternative
    \/ SelectRequest
    \/ Yield
    \/ Exhausted
    \/ Canceled
    \/ Answered

Spec == Init /\ [][Next]_vars
-----------------------------------------------------------------------------
\* One frame for each request entered, one selection for each request left, and
\* a branch budget that never goes below zero.
TypeOK ==
    /\ pc \in {"start", "search", "greedy", "done"}
    /\ Len(chosen) <= Len(input.requests)
    /\ Len(frames) - Len(chosen) \in {0, 1}
    /\ \A f \in Range(frames) : f.failure \in {"none"} \cup Reasons
    /\ remaining \in 0..maxConstraintSearchBranches
    /\ outcome \in {"none", "planned"} \cup Reasons
    /\ pc = "done" <=> outcome # "none"
=============================================================================
