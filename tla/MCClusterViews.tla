---------------------------- MODULE MCClusterViews ----------------------------
(* A small cluster for ClusterViews: two namespaces with claims of one name, a *)
(* pool that publishes its device on two nodes and one without nodes.          *)
EXTENDS ClusterViews, TLC

CONSTANTS c1, c2, p1, p2, s1, s2, s3, n1, n2, k1, k2

MCNamespace == c1 :> "a" @@ p1 :> "a" @@ c2 :> "b" @@ p2 :> "b"
MCName == c1 :> "x" @@ c2 :> "x"
MCNamed == p1 :> {"x"} @@ p2 :> {}

\* Kubernetes adds a suffix to the name that the code guesses.
MCGenerated == p1 :> {} @@ p2 :> {"x"}
MCGuessed == p1 :> {} @@ p2 :> {"w"}

MCRequested == c1 :> {k1, k2} @@ c2 :> {}

Device(driver, pool, node) ==
    [driver |-> driver, pool |-> pool, node |-> node, device |-> "dev-0"]
MCSpec == s1 :> Device("A", "gpu", n1) @@ s2 :> Device("A", "gpu", n2)
              @@ s3 :> Device("B", "nic", NoNode)

\* k1 selects the local devices, k2 the other one; its selector fails on s2.
MCFits ==
    k1 :> [s \in Slices |-> IF s = s3 THEN "no" ELSE "yes"]
        @@ k2 :> (s1 :> "no" @@ s2 :> "error" @@ s3 :> "yes")

Name1(S) == [names |-> TRUE, values |-> S]
Other == [names |-> FALSE, values |-> {}]

\* On one node, on one with a device of the network too, in one by its labels,
\* and an allocation without results.
MCAllocations ==
    {[slices |-> {s1}, terms |-> {{Name1({n1}), Other}}],
     [slices |-> {s1, s3}, terms |-> {{Name1({n1})}}],
     [slices |-> {s3}, terms |-> {{Name1({n1})}, {Other}}],
     [slices |-> {}, terms |-> {}]}

World(claims, slices, pods) ==
    [claims |-> claims, slices |-> slices, pods |-> pods, classes |-> {k1, k2},
     nodes |-> n1 :> TRUE @@ n2 :> TRUE]

Pending == [alloc |-> NoAllocation, reserved |-> {}]
Held(a, p) == [alloc |-> a, reserved |-> {p}]
Published == [s \in Slices |-> "healthy"]

\* A cluster at work, one with a broken and a lost node, and one where devices
\* went away under a claim.
MCWorlds ==
    {World(c1 :> Held(a, p1) @@ c2 :> Pending, Published, {p1}) : a \in Allocations}
    \union {[World([c \in {} |-> Pending], Published, {})
               EXCEPT !.nodes = n1 :> FALSE]}
    \union {World(c1 :> Pending, s2 :> "degraded", {p1, p2})}

Graph(ns, driver) == [kind |-> "graph", namespace |-> ns, driver |-> driver]
MCOperations ==
    {Graph(AnyValue, AnyValue), Graph("a", "A"), Graph(AnyValue, "B")}
    \union {[kind |-> "explain", claim |-> c] : c \in Claims}
    \union {[kind |-> k] : k \in {"orphans", "references", "slices"}}
=============================================================================
