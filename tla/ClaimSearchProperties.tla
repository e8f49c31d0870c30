------------------------ MODULE ClaimSearchProperties ------------------------
(***************************************************************************)
(* What planClaimAllocation promises: plans defined by what they are, not  *)
(* by the order in which the search finds them, and the planner of         *)
(* ClaimSearch compared with them and with ClaimPlan, the abstraction the  *)
(* allocation pipeline is specified with.                                  *)
(***************************************************************************)
EXTENDS ClaimSearch

(* What a plan should be, said without the order in which it is found: a   *)
(* sequence of sets of devices, one set for each request.                  *)

\* The amounts a policy allows, and what a request is then charged.
PermittedAmounts(c) ==
    {q \in 0..c.value : \A p \in c.policy :
        /\ p.validValues # <<>> => q \in Range(p.validValues)
        /\ \A range \in p.validRange :
            /\ q >= The(range.min)
            /\ \A max \in range.max : q <= max
            /\ \A step \in range.step : (q - The(range.min)) % step = 0}

Charge(c, requested) ==
    IF requested = {}
    THEN IF \E p \in c.policy : p.default # {}
         THEN The(The(c.policy).default) ELSE c.value
    ELSE LET enough == {q \in PermittedAmounts(c) : q >= The(requested)}
         IN  IF enough = {} THEN c.value + 1 ELSE Min(enough)

\* The results of a plan, and what is held of a device: committed results, and
\* those of the plan so far.
Results(plan) == UNION {{<<k, d>> : d \in plan[k]} : k \in DOMAIN plan}

HeldBefore(id, plan) ==
    {<<0, i>> : i \in {j \in DOMAIN input.committed : input.committed[j].id = id}}
    \cup {result \in Results(plan) : result[2].id = id}

IsShare(held) ==
    IF held[1] = 0 THEN input.committed[held[2]].shared ELSE held[2].shared

AmountOf(held) ==
    IF held[1] = 0 THEN input.committed[held[2]].amount ELSE held[2].amount

HeldAmount(id, plan) ==
    SumFunction([held \in HeldBefore(id, plan) |-> AmountOf(held)])

\* The managed slices that serve node beside those of the plan so far.
SlicesOn(node, plan) ==
    ManagedOn(node, IF Results(plan) = {} THEN NoNode ELSE The(Results(plan))[2].node)

\* The device of a slice as it enters the plan.
AsTaken(alt, slice, device) ==
    [request |-> alt.name, id |-> <<slice.driver, slice.pool, device.name>>,
     node |-> slice.node, shared |-> device.shareable,
     amount |-> IF device.shareable
                THEN LET c == The(device.capacity) IN Charge(c, Requested(alt, c))
                ELSE 0,
     attributes |-> device.attributes]

\* A device, as it would be taken, fits beside what is held of it.
Fits(alt, device, taken, plan) ==
    /\ \A demand \in alt.demand : \E c \in device.capacity :
            c.name = demand.name /\ demand.amount <= c.value
    /\ IF device.shareable
       THEN /\ device.capacity # {}
            /\ \A held \in HeldBefore(taken.id, plan) : IsShare(held)
            /\ HeldAmount(taken.id, plan) + taken.amount <= The(device.capacity).value
       ELSE HeldBefore(taken.id, plan) = {}

\* The slices of node whose devices may be taken; All mode sees the latest
\* generation of each pool only.
SlicesFor(alt, node, plan) ==
    {s \in Range(input.slices) :
        /\ s.managed /\ s.healthy /\ s.node = node
        /\ alt.mode = "All" =>
            LET on == SlicesOn(node, plan)
            IN  \E i \in Current(on, PoolOf(s)) : on[i] = s}

\* The devices of node that satisfy the alternative after plan, as they enter
\* the plan.
Suitable(alt, node, plan) ==
    UNION {{AsTaken(alt, s, d) : d \in {e \in Range(s.devices) :
                /\ e.verdict[alt.class] = "match"
                /\ Fits(alt, e, AsTaken(alt, s, e), plan)}} :
           s \in SlicesFor(alt, node, plan)}

\* All devices bound by a constraint have one value of the attribute in common.
ConstraintsHold(plan) ==
    \A c \in Range(input.constraints) :
        LET bound == {d \in UNION Range(plan) : AppliesTo(c, d.request)}
            values == {Attribute(d, c.attribute) : d \in bound}
        IN  bound # {} => \E f \in UNION values : values = {{f}} /\ f[1] # "list"

\* Every pool that node has slices of is there in its latest generation.
Covered(node, plan) ==
    LET on == SlicesOn(node, plan) IN
    \A s \in Range(on) : \A i \in Current(on, PoolOf(s)) :
        on[i].count = Cardinality(Current(on, PoolOf(s)))

\* A set of devices serves an alternative on a node: devices of different
\* identities, all that are suitable or as many as asked for.
Serves(set, alt, node, plan) ==
    LET suitable == Suitable(alt, node, plan)
        Ids(devices) == {d.id : d \in devices}
    IN  /\ set # {}
        /\ set \subseteq suitable
        /\ \A d, e \in set : d.id = e.id => d = e
        /\ IF alt.mode = "All"
           THEN Covered(node, plan) /\ Ids(set) = Ids(suitable)
           ELSE Cardinality(set) = normalizedCount(alt)

\* The plans that serve one more request.
Extensions(plan, request) ==
    LET nodes == {s.node : s \in Range(input.slices)}
        alts == {a \in Range(Alternatives(request)) : a.class \in input.classes}
        Sets(a, n) == {set \in SUBSET Suitable(a, n, plan) : Serves(set, a, n, plan)}
        sets == UNION {UNION {Sets(a, n) : a \in alts} : n \in nodes}
    IN  {p \in {Append(plan, set) : set \in sets} :
            /\ Cardinality({result[2].node : result \in Results(p)}) = 1
            /\ Cardinality(Results(p)) <= AllocationResultsMaxSize
            /\ ConstraintsHold(p)}

\* plan serves the claim, request by request.
IsPlan(plan) ==
    /\ Len(plan) = Len(input.requests)
    /\ \A k \in DOMAIN plan :
        SubSeq(plan, 1, k)
            \in Extensions(SubSeq(plan, 1, k - 1), input.requests[k])

\* The plans that serve the claim and begin as plan does.
PlansFrom(plan) ==
    LET reach[k \in Len(plan)..Len(input.requests)] ==
            IF k = Len(plan) THEN {plan}
            ELSE UNION {Extensions(p, input.requests[k]) : p \in reach[k - 1]}
    IN  reach[Len(input.requests)]

ChosenSets == [k \in DOMAIN chosen |-> Range(chosen[k])]

\* Amounts are aligned with a range's step by Quantity.Value, which rounds up:
\* the least amount the range permits is charged when its minimum and step are
\* whole numbers.
HasWholeSteps(c) ==
    \A p \in c.policy : \A range \in p.validRange :
        range.step # {} => \A q \in range.step \cup range.min : q % Unit = 0

StepsAreWhole ==
    \A s \in Range(input.slices) : \A d \in Range(s.devices) :
        \A c \in d.capacity : HasWholeSteps(c)
-----------------------------------------------------------------------------
\* Whatever the planner answers is a plan: one node for all results, healthy
\* matching devices in the right number, at most AllocationResultsMaxSize of
\* them, no device used exclusively and again, shares that fit with the shares
\* of other claims and of earlier requests, each charged the least amount its
\* policy allows, constraints that hold, and All mode only over pools that are
\* completely published.
PlanIsValid == outcome = "planned" /\ StepsAreWhole => IsPlan(ChosenSets)

\* No identity is published twice.
IdentitiesAreDistinct ==
    LET offers == Offers(input.slices, NoNode) IN
    \A i, j \in DOMAIN offers :
        Identity(offers[i]) = Identity(offers[j]) => i = j

\* Every managed device can be decided on: nothing published is unsupported, no
\* selector fails, devices are used exclusively and no result shares one, and
\* the slices of one generation of a pool agree on their number.
Decided ==
    \A s \in Range(input.slices) : s.managed =>
        /\ s.supported
        /\ \A t \in Range(input.slices) :
            /\ t.managed /\ t.node = s.node
            /\ PoolOf(t) = PoolOf(s) /\ t.generation = s.generation
            => t.count = s.count
        /\ \A d \in Range(s.devices) :
            /\ d.supported /\ ~d.shareable
            /\ \A c \in d.capacity : c.policy = {} /\ c.value >= 0
            /\ \A class \in input.classes : d.verdict[class] # "error"
            /\ ~SharedIn(<<s.driver, s.pool, d.name>>, input.committed)

\* In All mode a node that cannot be decided on is passed over, and its failure
\* is forgotten when another node has more devices than there are results left
\* (constrainedAllIterationResult, selectAllAlternative).  A single alternative
\* is then refused as "Unsupported"; where there are others, the claim may end
\* as if the node had nothing to offer.  That is left out: All is the only
\* alternative, or all nodes can be decided on.
NoFailureIsMasked ==
    \/ Decided
    \/ \A r \in Range(input.requests) :
        \/ Len(Alternatives(r)) = 1
        \/ \A alt \in Range(Alternatives(r)) : alt.mode # "All"

\* "SimulationNoMatch" from the search means that there is no plan: neither the
\* order of requests, alternatives, nodes and combinations nor a return to an
\* earlier request loses one.  For a single request the greedy planner is as
\* good.
NoMatchIsExhaustive ==
    /\ outcome = "NoMatch"
    /\ IdentitiesAreDistinct /\ StepsAreWhole /\ NoFailureIsMasked
    /\ UseBacktrackingPlanner \/ Len(input.requests) = 1
    => PlansFrom(<<>>) = {}

\* The alternative a selection was made for.
Rank(selection, request) ==
    Min({i \in DOMAIN Alternatives(request) :
            \E d \in selection : d.request = Alternatives(request)[i].name})

\* firstAvailable is an order of preference: when an alternative is chosen, no
\* earlier one leads to a plan of the claim with the same choices before it.
\* The greedy planner looks no further than the request itself.
PreferenceRespected ==
    /\ outcome = "planned"
    /\ IdentitiesAreDistinct /\ StepsAreWhole /\ NoFailureIsMasked
    => \A k \in DOMAIN chosen :
            LET before == SubSeq(ChosenSets, 1, k - 1)
                others == IF UseBacktrackingPlanner
                          THEN PlansFrom(before)
                          ELSE Extensions(before, input.requests[k])
            IN  \A p \in others :
                    Rank(ChosenSets[k], input.requests[k])
                        <= Rank(p[k], input.requests[k])
-----------------------------------------------------------------------------
(* ClaimPlan, the planner the allocation pipeline is specified with, seen  *)
(* as an abstraction of this one.                                          *)

Identities == {Identity(o) : o \in Range(Offers(input.slices, NoNode))}

OffersOf(id) == {o \in Range(Offers(input.slices, NoNode)) : Identity(o) = id}

\* The one alternative of a claim ClaimPlan is about.
PlainAlternative == input.requests[1].exactly[1]

\* The claims ClaimPlan is about: one ExactCount request without constraints,
\* which names no amount or a positive one, and devices of a capacity without
\* policy that differ between slices only in being shareable.
IsPlain ==
    /\ input.constraints = <<>>
    /\ Len(input.requests) = 1
    /\ SupportedRequest(input.requests[1])
    /\ Len(input.requests[1].exactly) = 1
    /\ PlainAlternative.mode = "ExactCount"
    /\ \A demand \in PlainAlternative.demand : demand.amount # 0
    /\ \A s \in Range(input.slices) :
        /\ s.managed /\ s.supported
        /\ \A d, e \in Range(s.devices) : d.name = e.name => d = e
    /\ \A d \in UNION {Range(s.devices) : s \in Range(input.slices)} :
        /\ d.supported /\ d.capacity # {}
        /\ The(d.capacity).policy = {} /\ The(d.capacity).value >= 0
        /\ CapacityExists(PlainAlternative, d)
        /\ \A c \in input.classes : d.verdict[c] # "error"
    /\ \A id \in Identities : \A o, p \in OffersOf(id) :
        /\ o.device.capacity = p.device.capacity
        /\ o.device.verdict = p.device.verdict

Abstract(in) ==
    INSTANCE ClaimPlan WITH
        NClaims <- Len(in.committed),
        NSlices <- Len(in.slices),
        Devices <- Identities,
        Nodes <- {s.node : s \in Range(in.slices)},
        Classes <- {in.requests[1].exactly[1].class},
        SliceNode <- [s \in DOMAIN in.slices |-> in.slices[s].node],
        Selected <- [c \in {in.requests[1].exactly[1].class} |->
            {id \in Identities : \A o \in OffersOf(id) : o.device.verdict[c] = "match"}],
        Capacity <- [id \in Identities |->
            The(The({o.device : o \in OffersOf(id)}).capacity).value],
        Specs <- {},
        AllocationResultsMaxSize <- AllocationResultsMaxSize

\* The claim, the committed results and the slices as ClaimPlan sees them.
AbstractSpec ==
    [class |-> PlainAlternative.class, count |-> PlainAlternative.count,
     demand |-> IF PlainAlternative.demand = {}
                THEN 0 ELSE The(PlainAlternative.demand).amount]

AbstractHeld ==
    [i \in DOMAIN input.committed |->
        {[device |-> input.committed[i].id, node |-> NoNode,
          shared |-> input.committed[i].shared,
          amount |-> input.committed[i].amount]}]

AbstractMode(slice, id) ==
    LET here == {d \in Range(slice.devices) :
                    <<slice.driver, slice.pool, d.name>> = id}
    IN  IF here = {} THEN "absent"
        ELSE IF The(here).shareable THEN "shareable" ELSE "exclusive"

AbstractSlices ==
    [s \in DOMAIN input.slices |->
        [healthy |-> input.slices[s].healthy,
         mode |-> [id \in Identities |-> AbstractMode(input.slices[s], id)]]]

\* What ClaimPlan answers to this input, and what this planner has chosen.
AbstractPlans ==
    Abstract(input)!Plans(AbstractSpec, AbstractHeld, AbstractSlices, input.classes)

AbstractResults(devices) ==
    {[device |-> d.id, node |-> d.node, shared |-> d.shared, amount |-> d.amount] :
        d \in Range(devices)}

\* For the claims ClaimPlan is about, this planner answers with one of
\* ClaimPlan's plans, and fails only where ClaimPlan has none.
AgreesWithClaimPlan ==
    IsPlain =>
        /\ outcome = "planned" => AbstractResults(Taken) \in AbstractPlans
        /\ outcome \in Reasons \ {"BudgetSpent", "Canceled"} => AbstractPlans = {}
=============================================================================
