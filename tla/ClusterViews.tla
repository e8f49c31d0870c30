----------------------------- MODULE ClusterViews -----------------------------
(***************************************************************************)
(* What DRAForge says about a cluster that changes while it looks: the     *)
(* discovery of internal/discovery, the graph (internal/graph), the        *)
(* explanation of a claim (internal/explain) and the doctor's checks of    *)
(* claims, references and slices (internal/doctor).  Each operation is a   *)
(* sequence of lists, every one a snapshot of its own moment or a failure, *)
(* and a pure function of what it has seen.  A slice has one device.       *)
(***************************************************************************)
EXTENDS Naturals, Sequences, FiniteSets

CONSTANTS
    Claims, Pods, Slices, Nodes, Classes,
    Namespace,      \* of claims and pods
    Name,           \* of claims; unique in a namespace
    Named,          \* of pods: the claims they refer to by name, ...
    Generated,      \* ... the names of those made from their templates, ...
    Guessed,        \* ... and <pod>-<reference>, which the code takes for them
    Requested,      \* of claims: the classes of their alternatives
    Spec,           \* of slices: driver, pool, node and device
    NoNode,         \* the node of a slice that is not local to one
    Fits,           \* of classes and slices: "yes", "no" or "error"
    Allocations,    \* what a claim may hold: slices, and terms of a NodeSelector
    NoAllocation,
    Worlds,         \* the clusters an operation may start in
    AnyValue,       \* no filter
    Operations,     \* the operations, with their arguments
    Failed, NotRead,
    MaxChanges      \* bound on changes during an operation

VARIABLES
    world,    \* the cluster
    op,       \* the operation that runs
    reads,    \* what it has still to read
    seen,     \* what it has read
    changes,  \* how often the cluster changed since it began
    touched,  \* history: the claims, pods and slices that did not stay as they were
    ever,     \* history: the faults that held at some moment ...
    always    \* ... and those that held at every moment

vars == <<world, op, reads, seen, changes, touched, ever, always>>

Claim == [alloc : Allocations \union {NoAllocation}, reserved : SUBSET Pods]
Condition == {"healthy", "degraded"}
Kinds == {"graph", "explain", "orphans", "references", "slices"}

IsPartial(f, S, T) == DOMAIN f \subseteq S /\ f \in [DOMAIN f -> T]

IsCluster(w) ==
    /\ DOMAIN w = {"claims", "slices", "pods", "classes", "nodes"}
    /\ IsPartial(w.claims, Claims, Claim)
    /\ IsPartial(w.slices, Slices, Condition)
    /\ w.pods \subseteq Pods
    /\ w.classes \subseteq Classes
    /\ IsPartial(w.nodes, Nodes, BOOLEAN)

\* What a list may return is none of the marks for a list that failed or was not
\* made.
ASSUME ViewsAssumption ==
    /\ MaxChanges \in Nat
    /\ IsFiniteSet(Slices)
    /\ \A c, d \in Claims :
           Namespace[c] = Namespace[d] /\ Name[c] = Name[d] => c = d
    /\ \A w \in Worlds : IsCluster(w)
    /\ \A o \in Operations : o.kind \in Kinds
    /\ Failed # NotRead
    /\ \A mark \in {Failed, NotRead} :
           /\ mark \notin Claim
           /\ \A D \in SUBSET Pods : mark # D
           /\ \A D \in SUBSET Classes : mark # D
           /\ \A D \in SUBSET Claims : mark \notin [D -> Claim]
           /\ \A D \in SUBSET Slices : mark \notin [D -> Condition]
           /\ \A D \in SUBSET Nodes : mark \notin [D -> BOOLEAN]

Resources == {"claims", "slices", "pods", "classes", "nodes", "get"}

\* Mutant of DiscoveryLists: the claims are listed after the pods.
PodsFirst == <<"pods", "slices", "claims">>

\* DiscoverDRAWithStatus: claims, then slices, then the pods that use the claims.
DiscoveryLists == <<"claims", "slices", "pods">>

\* The lists of each operation, in the order of the code.
Lists(kind) ==
    CASE kind = "graph" -> DiscoveryLists \o <<"classes">>
      [] kind = "explain" -> DiscoveryLists \o <<"get", "classes">>
      [] kind = "orphans" -> DiscoveryLists
      [] kind = "references" -> <<"pods", "claims">>
      [] kind = "slices" -> <<"slices", "nodes">>
-----------------------------------------------------------------------------
(* What is true of a cluster, said without the code.                       *)

\* Pod p uses claim c, by name or through a template.
Uses(p, c) ==
    Namespace[p] = Namespace[c] /\ Name[c] \in Named[p] \union Generated[p]

\* A claim is allocated by the results it has, not by the allocation.
HasResults(a) == a # NoAllocation /\ a.slices # {}

Exists(w, p, n) ==
    \E c \in DOMAIN w.claims : Namespace[c] = Namespace[p] /\ Name[c] = n

\* The faults of a cluster, each with the object that the code lists first.
Faults(w) ==
    {<<"orphan", c>> : c \in {c \in DOMAIN w.claims :
                                \A p \in w.pods : ~Uses(p, c)}}
    \union
    {<<"dangling", p>> : p \in {p \in w.pods : \E n \in Named[p] :
                                                  ~Exists(w, p, n)}}
    \union
    {<<"unreserved", p>> : p \in {p \in w.pods :
        \E c \in DOMAIN w.claims :
            /\ Namespace[c] = Namespace[p] /\ Name[c] \in Named[p]
            /\ p \notin w.claims[c].reserved}}
    \union
    (UNION {{<<"unpublished", c, s>> : s \in w.claims[c].alloc.slices
                                             \ DOMAIN w.slices} :
            c \in {c \in DOMAIN w.claims : HasResults(w.claims[c].alloc)}})
    \union
    (UNION {{<<"classless", c, k>> : k \in Requested[c] \ w.classes} :
            c \in DOMAIN w.claims})
    \union
    {<<"pending", c>> : c \in {c \in DOMAIN w.claims :
                                 ~HasResults(w.claims[c].alloc)}}
    \union
    {<<"unconsumed", c>> : c \in {c \in DOMAIN w.claims :
                                    w.claims[c].reserved = {}}}
    \union
    {<<"deviceless", c>> : c \in {c \in DOMAIN w.claims : DOMAIN w.slices = {}}}
    \union
    {<<"allocated", c>> : c \in {c \in DOMAIN w.claims :
                                   HasResults(w.claims[c].alloc)}}
    \union
    {<<"stale", s>> : s \in {s \in DOMAIN w.slices :
                               Spec[s].node \notin DOMAIN w.nodes \union {NoNode}}}
    \union
    {<<"unready", s>> : s \in {s \in DOMAIN w.slices :
        Spec[s].node \in DOMAIN w.nodes /\ ~w.nodes[Spec[s].node]}}
    \union
    {<<"unhealthy", s>> : s \in {s \in DOMAIN w.slices : w.slices[s] # "healthy"}}

\* The faults an operation is there to tell.
Concern(o, w, fault) ==
    LET kind == fault[1]  about == fault[2]
    IN  CASE o.kind = "graph" ->
               /\ kind \in {"unpublished", "classless"}
               /\ o.namespace \in {AnyValue, Namespace[about]}
               /\ kind = "unpublished"
                      => o.driver \in {AnyValue, Spec[fault[3]].driver}
          [] o.kind = "explain" ->
               /\ kind \in {"pending", "allocated", "classless", "unconsumed",
                            "deviceless"}
               /\ about = o.claim
               /\ kind = "allocated" \/ ~HasResults(w.claims[about].alloc)
          [] o.kind = "orphans" -> kind = "orphan"
          [] o.kind = "references" -> kind \in {"dangling", "unreserved"}
          [] o.kind = "slices" -> kind \in {"stale", "unready", "unhealthy"}

Relevant(o, w) == {fault \in Faults(w) : Concern(o, w, fault)}

\* A node that a NodeSelector term, a set of requirements, admits; a requirement
\* that does not name nodes may admit any.
Admits(term, n) == \A r \in term : r.names => n \in r.values

\* Slices with a device of the same driver, pool and name are of different nodes.
\* Every term of the selector of a claim that holds a device of a node names that
\* node, as the allocator writes it.
ASSUME DevicesAssumption ==
    /\ \A s, t \in Slices :
           /\ s # t
           /\ Spec[s].driver = Spec[t].driver
           /\ Spec[s].pool = Spec[t].pool
           /\ Spec[s].device = Spec[t].device
           => NoNode \notin {Spec[s].node, Spec[t].node} /\ Spec[s].node # Spec[t].node
    /\ \A a \in Allocations :
           /\ a.slices \subseteq Slices
           /\ IsFiniteSet(a.terms)
           /\ \A t \in a.terms :
                  IsFiniteSet(t) /\ \A r \in t : IsFiniteSet(r.values)
           /\ \A s \in a.slices : Spec[s].node # NoNode =>
                  /\ a.terms # {}
                  /\ \A t \in a.terms :
                         /\ Admits(t, Spec[s].node)
                         /\ \E r \in t : r.names /\ r.values = {Spec[s].node}
-----------------------------------------------------------------------------
(* Discovery.                                                              *)

Listed(r) == IF seen[r] = Failed THEN {} ELSE DOMAIN seen[r]
ListedPods == IF seen["pods"] = Failed THEN {} ELSE seen["pods"]
ListedClasses == IF seen["classes"] = Failed THEN {} ELSE seen["classes"]

\* exactNodeForTerm: requirements that name one node must agree on it.
ExactNodeForTerm(term) ==
    LET named == UNION {r.values : r \in {r \in term :
                                            r.names /\ Cardinality(r.values) = 1}}
    IN  IF Cardinality(named) = 1 THEN CHOOSE n \in named : TRUE ELSE NoNode

\* Mutant of AllocationNodeName: one term that names a node is enough.
AllocationNodeNameOfAny(a) ==
    LET nodes == {ExactNodeForTerm(t) : t \in a.terms} \ {NoNode}
    IN  IF nodes # {} THEN CHOOSE n \in nodes : TRUE ELSE NoNode

\* allocationNodeName: every term must name the same node.
AllocationNodeName(a) ==
    LET nodes == {ExactNodeForTerm(t) : t \in a.terms}
    IN  IF Cardinality(nodes) = 1 THEN CHOOSE n \in nodes : TRUE ELSE NoNode

IsAllocated(c) == HasResults(seen["claims"][c].alloc)

\* A result of allocation a, for slice s, matches the device of slice t: by
\* driver, pool and device, and by the node if the selector names one, which is
\* then taken for the node of every result.
Matches(a, s, t) ==
    /\ Spec[t].device = Spec[s].device
    /\ Spec[t].driver = Spec[s].driver
    /\ Spec[t].pool = Spec[s].pool
    /\ AllocationNodeName(a) \in {NoNode, Spec[t].node}

\* Mutant of Owners: the index is keyed by the name alone.
OwnersAnywhere(c) ==
    LET owners == {p \in ListedPods : Name[c] \in Named[p] \union Guessed[p]}
    IN  IF owners = {} THEN {} ELSE {CHOOSE p \in owners : TRUE}

\* attachClaimOwners: one of the listed pods that refer to the claim, the last in
\* the list.  The name of a template's claim is guessed.
Owners(c) ==
    LET owners == {p \in ListedPods :
                     /\ Namespace[p] = Namespace[c]
                     /\ Name[c] \in Named[p] \union Guessed[p]}
    IN  IF owners = {} THEN {} ELSE {CHOOSE p \in owners : TRUE}
-----------------------------------------------------------------------------
(* The graph: identities, nodes and edges.                                 *)

PoolID(s) == <<"pool", Spec[s].driver, Spec[s].node, Spec[s].pool>>
DeviceID(s) == <<"device", Spec[s].driver, Spec[s].node, Spec[s].pool,
                 Spec[s].device>>
MissingID(c, s) == <<"missing", AllocationNodeName(seen["claims"][c].alloc), s>>

ShownClaims == {c \in Listed("claims") : op.namespace \in {AnyValue, Namespace[c]}}

ShownSlices == {s \in Listed("slices") : op.driver \in {AnyValue, Spec[s].driver}}

\* Mutant of ShownResults: the driver filter is not applied to allocations.
EveryResult ==
    UNION {{<<c, s>> : s \in seen["claims"][c].alloc.slices} :
           c \in {c \in ShownClaims : IsAllocated(c)}}

\* The allocation results that are shown, with their claims.
ShownResults ==
    UNION {{<<c, s>> : s \in {s \in seen["claims"][c].alloc.slices :
                                op.driver \in {AnyValue, Spec[s].driver}}} :
           c \in {c \in ShownClaims : IsAllocated(c)}}

\* allocatedDeviceID: the devices a result may be; it resolves to a single one.
\* All devices are looked at, whatever the filter.
Candidates(c, s) ==
    {DeviceID(t) : t \in {t \in Listed("slices") :
                            Matches(seen["claims"][c].alloc, s, t)}}
Resolved(c, s) == Cardinality(Candidates(c, s)) = 1

\* claimAllocationNodes.
AllocationNodes(c) ==
    IF IsAllocated(c)
    THEN {AllocationNodeName(seen["claims"][c].alloc)} \ {NoNode}
    ELSE {}

SliceNodes(s) == {<<"node", n>> : n \in {Spec[s].node} \ {NoNode}}

PoolNodes ==
    {PoolID(s) : s \in ShownSlices}
    \union {<<"driver", Spec[s].driver>> : s \in ShownSlices}
    \union (UNION {SliceNodes(s) : s \in ShownSlices})

PoolEdges ==
    {<<PoolID(s), <<"driver", Spec[s].driver>>>> : s \in ShownSlices}
    \union (UNION {{PoolID(s)} \X SliceNodes(s) : s \in ShownSlices})

DeviceNodes ==
    {DeviceID(s) : s \in ShownSlices} \union (UNION {SliceNodes(s) : s \in ShownSlices})

DeviceEdges ==
    {<<DeviceID(s), PoolID(s)>> : s \in ShownSlices}
    \union (UNION {{DeviceID(s)} \X SliceNodes(s) : s \in ShownSlices})

ClaimNodes ==
    {<<"namespace", Namespace[c]>> : c \in ShownClaims}
    \union {<<"claim", c>> : c \in ShownClaims}
    \union {<<"class", k>> : k \in ListedClasses}
    \union (UNION {{<<"class", k>> : k \in Requested[c]} : c \in ShownClaims})
    \union {<<"allocation", r>> : r \in ShownResults}
    \union {MissingID(r[1], r[2]) : r \in {r \in ShownResults :
                                              ~Resolved(r[1], r[2])}}
    \union (UNION {{<<"pod", p>> : p \in Owners(c)} : c \in ShownClaims})
    \union (UNION {{<<"node", n>> : n \in AllocationNodes(c)} :
                   c \in {c \in ShownClaims : Owners(c) # {}}})

\* The device, published or missing, that a result is drawn to.
Target(c, s) ==
    IF Resolved(c, s) THEN CHOOSE id \in Candidates(c, s) : TRUE
    ELSE MissingID(c, s)

ClaimEdges ==
    {<<<<"claim", c>>, <<"namespace", Namespace[c]>>>> : c \in ShownClaims}
    \union (UNION {{<<<<"claim", c>>, <<"class", k>>>> : k \in Requested[c]} :
                   c \in ShownClaims})
    \union (UNION {{<<<<"claim", r[1]>>, <<"allocation", r>>>>,
                    <<<<"allocation", r>>, Target(r[1], r[2])>>,
                    <<<<"claim", r[1]>>, Target(r[1], r[2])>>} : r \in ShownResults})
    \union (UNION {{<<<<"pod", p>>, <<"claim", c>>>> : p \in Owners(c)} :
                   c \in ShownClaims})
    \union (UNION {{<<<<"pod", p>>, <<"namespace", Namespace[c]>>>> : p \in Owners(c)} :
                   c \in ShownClaims})
    \union (UNION {{<<<<"pod", p>>, <<"node", n>>>> :
                       p \in Owners(c), n \in AllocationNodes(c)} : c \in ShownClaims})

GraphNodes == PoolNodes \union DeviceNodes \union ClaimNodes
GraphEdges == PoolEdges \union DeviceEdges \union ClaimEdges

GraphReport ==
    {<<"unpublished", r[1], r[2]>> : r \in {r \in ShownResults :
                                              ~Resolved(r[1], r[2])}}
    \union (UNION {{<<"classless", c, k>> : k \in Requested[c] \ ListedClasses} :
                   c \in ShownClaims})
-----------------------------------------------------------------------------
(* The explanation of a claim.                                             *)

\* ExplainClaim returns an error: the claim is not there, or is not in the list.
ExplainFails ==
    \/ seen["get"] = Failed
    \/ op.claim \notin Listed("claims")

RequestedClasses == Requested[op.claim] \intersect ListedClasses

\* Mutant of SelectorResult: an error counts although another class matches.
SelectorResultWithError(s) ==
    LET results == {Fits[k][s] : k \in RequestedClasses}
    IN  [passed |-> Requested[op.claim] = {} \/ "yes" \in results,
         error |-> "error" \in results]

\* matchesAnyRequestedClass: an error counts only if no class matches.
SelectorResult(s) ==
    LET results == {Fits[k][s] : k \in RequestedClasses}
        passed == Requested[op.claim] = {} \/ "yes" \in results
    IN  [passed |-> passed, error |-> ~passed /\ "error" \in results]

\* deviceAllocated, over the listed claims.
DeviceAllocated(t) ==
    \E c \in Listed("claims") :
        /\ IsAllocated(c)
        /\ \E s \in seen["claims"][c].alloc.slices :
               Matches(seen["claims"][c].alloc, s, t)

Count(P(_)) == Cardinality({s \in Listed("slices") : P(s)})

\* evaluateCandidates and the numbers that candidateSummary prints of them.
Stats ==
    LET passed(s) == SelectorResult(s).passed
        failing(s) == SelectorResult(s).error
        ill(s) == passed(s) /\ seen["slices"][s] # "healthy"
        free(s) == /\ passed(s) /\ seen["slices"][s] = "healthy"
                   /\ ~DeviceAllocated(s)
    IN  [total |-> Count(LAMBDA s : TRUE),
         mismatched |-> Count(LAMBDA s : TRUE) - Count(passed) - Count(failing),
         unhealthy |-> Count(ill),
         taken |-> Count(passed) - Count(ill) - Count(free),
         failed |-> Count(failing),
         matched |-> Count(free)]

\* The reasons that name a cause: the claim from the list, its consumers from the
\* Get, the missing classes and the want of devices.
ExplainReport ==
    IF ExplainFails THEN {}
    ELSE IF IsAllocated(op.claim) THEN {<<"allocated", op.claim>>}
    ELSE {<<"pending", op.claim>>}
         \union {<<"classless", op.claim, k>> : k \in Requested[op.claim]
                                                     \ ListedClasses}
         \union (IF Listed("slices") = {} THEN {<<"deviceless", op.claim>>} ELSE {})
         \union (IF seen["get"].reserved = {} THEN {<<"unconsumed", op.claim>>}
                  ELSE {})
-----------------------------------------------------------------------------
(* The doctor's checks.                                                    *)

\* DRA-003: listed claims that no listed pod owns.
OrphanReport == {<<"orphan", c>> : c \in {c \in Listed("claims") : Owners(c) = {}}}

\* DRA-004: references by name only, against the claims listed afterwards.
ReferenceReport ==
    IF Failed \in {seen["pods"], seen["claims"]} THEN {}
    ELSE LET claim(p, n) == {c \in Listed("claims") :
                               Namespace[c] = Namespace[p] /\ Name[c] = n}
         IN  {<<"dangling", p>> : p \in {p \in ListedPods :
                 \E n \in Named[p] : claim(p, n) = {}}}
             \union
             {<<"unreserved", p>> : p \in {p \in ListedPods :
                 \E n \in Named[p] : \E c \in claim(p, n) :
                     p \notin seen["claims"][c].reserved}}

\* DRA-005: a failed node list only leaves the nodes out.
SliceReport ==
    LET node(s) == Spec[s].node
        known == Listed("nodes") # {}
    IN  {<<"stale", s>> : s \in {s \in Listed("slices") :
            /\ node(s) # NoNode
            /\ known /\ node(s) \notin Listed("nodes")}}
        \union
        {<<"unready", s>> : s \in {s \in Listed("slices") :
            node(s) \in Listed("nodes") /\ ~seen["nodes"][node(s)]}}
        \union
        {<<"unhealthy", s>> : s \in {s \in Listed("slices") :
            seen["slices"][s] # "healthy"}}

Report ==
    CASE op.kind = "graph" -> GraphReport
      [] op.kind = "explain" -> ExplainReport
      [] op.kind = "orphans" -> OrphanReport
      [] op.kind = "references" -> ReferenceReport
      [] op.kind = "slices" -> SliceReport
-----------------------------------------------------------------------------
(* The operation and the cluster.                                          *)

Init ==
    /\ world \in Worlds
    /\ op \in Operations
    /\ reads = Lists(op.kind)
    /\ seen = [r \in Resources |-> NotRead]
    /\ changes = 0
    /\ touched = {}
    /\ ever = Relevant(op, world)
    /\ always = ever

\* Early returns: of ExplainClaim before it lists the classes, and of the
\* doctor's checks that answer Unknown.
Returned ==
    \/ reads = <<>>
    \/ op.kind = "explain" /\ seen["get"] # NotRead
           /\ (ExplainFails \/ IsAllocated(op.claim))
    \/ op.kind = "references" /\ Failed \in {seen["pods"], seen["claims"]}
    \/ op.kind = "slices" /\ seen["slices"] = Failed

\* The next list, or the Get of the claim, is a snapshot or fails.
Snapshot(r) ==
    IF r # "get" THEN world[r]
    ELSE IF op.claim \in DOMAIN world.claims THEN world.claims[op.claim]
    ELSE Failed

Read ==
    /\ ~Returned
    /\ seen' = [seen EXCEPT ![Head(reads)] = Snapshot(Head(reads))]
    /\ reads' = Tail(reads)
    /\ UNCHANGED <<world, op, changes, touched, ever, always>>

\* Mutant of ReadFails: the first failure ends the operation.
ReadFailsAtOnce ==
    /\ ~Returned
    /\ seen' = [seen EXCEPT ![Head(reads)] = Failed]
    /\ reads' = <<>>
    /\ UNCHANGED <<world, op, changes, touched, ever, always>>

ReadFails ==
    /\ ~Returned
    /\ seen' = [seen EXCEPT ![Head(reads)] = Failed]
    /\ reads' = Tail(reads)
    /\ UNCHANGED <<world, op, changes, touched, ever, always>>

\* The cluster becomes w; an object that is there changes or goes away.
Becomes(w, objects) ==
    /\ ~Returned
    /\ changes < MaxChanges
    /\ w # world
    /\ world' = w
    /\ changes' = changes + 1
    /\ touched' = touched \union
                   (objects \intersect
                       (DOMAIN world.claims \union DOMAIN world.slices
                           \union world.pods))
    /\ ever' = ever \union Relevant(op, w)
    /\ always' = always \intersect Relevant(op, w)
    /\ UNCHANGED <<op, reads, seen>>

Without(f, x) == [y \in DOMAIN f \ {x} |-> f[y]]
With(f, x, v) == [y \in DOMAIN f \union {x} |-> IF y = x THEN v ELSE f[y]]

\* A claim is reserved for pods of its namespace.
ChangeClaim(c) ==
    \/ Becomes([world EXCEPT !.claims = Without(@, c)], {c})
    \/ \E state \in Claim :
           /\ \A p \in state.reserved : Namespace[p] = Namespace[c]
           /\ Becomes([world EXCEPT !.claims = With(@, c, state)], {c})

ChangeSlice(s) ==
    \/ Becomes([world EXCEPT !.slices = Without(@, s)], {s})
    \/ \E state \in Condition :
           Becomes([world EXCEPT !.slices = With(@, s, state)], {s})

ChangePod(p) == \/ Becomes([world EXCEPT !.pods = @ \union {p}], {p})
                \/ Becomes([world EXCEPT !.pods = @ \ {p}], {p})

ChangeClass(k) == \/ Becomes([world EXCEPT !.classes = @ \union {k}], {})
                  \/ Becomes([world EXCEPT !.classes = @ \ {k}], {})

ChangeNode(n) ==
    \/ Becomes([world EXCEPT !.nodes = Without(@, n)], {})
    \/ \E ready \in BOOLEAN : Becomes([world EXCEPT !.nodes = With(@, n, ready)], {})

\* What an operation does not list is left as it is.
Observes(r) == \E i \in DOMAIN Lists(op.kind) : Lists(op.kind)[i] = r

Change ==
    \/ Observes("claims") /\ \E c \in Claims : ChangeClaim(c)
    \/ Observes("slices") /\ \E s \in Slices : ChangeSlice(s)
    \/ Observes("pods") /\ \E p \in Pods : ChangePod(p)
    \/ Observes("classes") /\ \E k \in Classes : ChangeClass(k)
    \/ Observes("nodes") /\ \E n \in Nodes : ChangeNode(n)

Next == Read \/ ReadFails \/ Change

ViewSpec == Init /\ [][Next]_vars
-----------------------------------------------------------------------------
(* Properties.                                                             *)

\* The cluster and what was seen of it are well formed, and every list has been
\* taken, or has failed, or is still to come.
TypeOK ==
    /\ IsCluster(world)
    /\ op \in Operations
    /\ seen["claims"] \in {Failed, NotRead}
           \/ IsPartial(seen["claims"], Claims, Claim)
    /\ seen["slices"] \in {Failed, NotRead}
           \/ IsPartial(seen["slices"], Slices, Condition)
    /\ seen["nodes"] \in {Failed, NotRead}
           \/ IsPartial(seen["nodes"], Nodes, BOOLEAN)
    /\ seen["get"] \in {Failed, NotRead} \/ seen["get"] \in Claim
    /\ \A i \in DOMAIN Lists(op.kind) :
           seen[Lists(op.kind)[i]] = NotRead
               <=> \E j \in DOMAIN reads : reads[j] = Lists(op.kind)[i]
    /\ changes \in 0..MaxChanges

Answered(kind) == Returned /\ op.kind = kind

\* Every edge of the graph joins two nodes of it, whatever the filters, the
\* failed lists and the changes between the lists.
GraphIsClosed ==
    Answered("graph") =>
        LET nodes == GraphNodes
        IN  \A e \in GraphEdges : {e[1], e[2]} \subseteq nodes

DeviceIsHeld(r) ==
    Resolved(r[1], r[2]) => Target(r[1], r[2]) = DeviceID(r[2])

NodeIsTheOnlyOne(c) ==
    \A n \in AllocationNodes(c), m \in Nodes :
        (\E t \in seen["claims"][c].alloc.terms : Admits(t, m)) => m = n

\* What the graph draws for an allocation is certain.  A claim is drawn to a
\* published device only if it holds that very device, also when its own device
\* is gone and another node has one of the same name; and a node shown for a
\* pod is the only one its claim's NodeSelector admits.
GraphIsCertain ==
    Answered("graph") =>
        /\ \A r \in ShownResults : DeviceIsHeld(r)
        /\ \A c \in ShownClaims : NodeIsTheOnlyOne(c)

\* A result whose slice has no node, of a claim whose selector names one: the
\* code compares that node with the slice's and does not find it.
NodelessResult(fault) ==
    /\ fault[1] = "unpublished"
    /\ Spec[fault[3]].node = NoNode
    /\ AllocationNodes(fault[2]) # {}

\* A claim that Kubernetes made from a template of a pod, under a name that the
\* code does not guess.
TemplateClaim(fault) ==
    fault[1] = "orphan" /\ \E p \in Pods : Uses(p, fault[2])
                                         /\ Name[fault[2]] \in Generated[p] \ Guessed[p]

\* The lists whose failure an operation presents as an absence.
HiddenFailure(fault) ==
    Failed \in {seen[r] : r \in CASE fault[1] = "orphan" -> {"pods"}
                                  [] fault[1] \in {"unpublished", "deviceless"} -> {"slices"}
                                  [] fault[1] = "classless" -> {"classes"}
                                  [] OTHER -> {}}

\* What is reported was true at some moment while the operation ran, or the claim,
\* pod or slice it names has changed or gone since it was read: no mixture of the
\* moments of two lists is reported of an object that stayed as it was.
FaultsAreTrueOrMoot ==
    Returned =>
        \A fault \in Report :
            \/ fault \in ever
            \/ fault[2] \in touched
            \/ HiddenFailure(fault)
            \/ NodelessResult(fault)
            \/ TemplateClaim(fault)

\* A device is said to be missing, or all of them to be, only if it was while the
\* operation ran, or its claim has changed: an allocation is not drawn to a missing
\* device when its device exists (internal/graph/graph_test.go:551), and an error
\* of the ResourceSlice API is not presented as an empty cluster
\* (docs/compatibility/kubernetes-dra.md:31 and :83).
MissingDevicesAreMissing ==
    Returned =>
        \A fault \in Report :
            fault[1] \in {"unpublished", "deviceless"}
                => fault \in ever \/ fault[2] \in touched

\* The check takes a list without nodes for one that failed.
NoNodeListed(fault) == fault[1] = "stale" /\ Listed("nodes") = {}

\* A claim that the code takes for one made from a template of a pod, and is not.
GuessedClaim(fault) ==
    /\ fault[1] = "orphan"
    /\ \E p \in Pods :
           /\ Namespace[p] = Namespace[fault[2]]
           /\ Name[fault[2]] \in Guessed[p] \ (Named[p] \union Generated[p])

\* A fault that lasts while the operation runs is reported if its lists succeed.
LastingFaultsAreReported ==
    Returned /\ (\A r \in Resources : seen[r] # Failed) =>
        \A fault \in always :
            fault \in Report \/ NoNodeListed(fault) \/ GuessedClaim(fault)

\* The numbers that the explanation gets by subtraction are those of the devices
\* that no class selects, that a selector fails on, and that a claim holds; what
\* is left could serve the claim.  A result of a claim with a certain node does
\* not hold a device without node.
CandidatesAreCounted ==
    Answered("explain") /\ reads = <<>> =>
        LET answers(s) == {Fits[k][s] : k \in Requested[op.claim]
                                              \intersect ListedClasses}
            wanted(s) == Requested[op.claim] = {} \/ "yes" \in answers(s)
            healthy(s) == seen["slices"][s] = "healthy"
            held(s) == \E c \in Listed("claims") :
                           /\ IsAllocated(c)
                           /\ s \in seen["claims"][c].alloc.slices
                           /\ Spec[s].node = NoNode => AllocationNodes(c) = {}
            stats == Stats
        IN  /\ stats.mismatched = Count(LAMBDA s : ~wanted(s)
                                                     /\ "error" \notin answers(s))
            /\ stats.failed = Count(LAMBDA s : ~wanted(s) /\ "error" \in answers(s))
            /\ stats.unhealthy = Count(LAMBDA s : wanted(s) /\ ~healthy(s))
            /\ stats.taken = Count(LAMBDA s : wanted(s) /\ healthy(s) /\ held(s))
            /\ stats.matched = Count(LAMBDA s : wanted(s) /\ healthy(s) /\ ~held(s))
=============================================================================
