-------------------------- MODULE ClusterViewsProofs --------------------------
(***************************************************************************)
(* What graph, explanation and doctor say of a cluster that changes between *)
(* their lists, for clusters of any size and any number of changes.        *)
(***************************************************************************)
EXTENDS ClusterViews, FiniteSetTheorems, TLAPS

\* What a list, or the Get, returns.
IsValue(r, v) ==
    CASE r = "claims" -> IsPartial(v, Claims, Claim)
      [] r = "slices" -> IsPartial(v, Slices, Condition)
      [] r = "pods" -> v \in SUBSET Pods
      [] r = "classes" -> v \in SUBSET Classes
      [] r = "nodes" -> IsPartial(v, Nodes, BOOLEAN)
      [] r = "get" -> v \in Claim

List == Lists(op.kind)

\* The first m lists have been made, in the order of the code; the others are
\* still to come.
Progress(m) ==
    /\ m \in 0..Len(List)
    /\ Len(reads) = Len(List) - m
    /\ \A i \in 1..Len(reads) : reads[i] = List[m + i]
    /\ \A i \in 1..Len(List) : seen[List[i]] = NotRead <=> i > m

TypeInv ==
    /\ IsCluster(world)
    /\ op \in Operations
    /\ DOMAIN seen = Resources
    /\ \A r \in Resources : seen[r] \in {Failed, NotRead} \/ IsValue(r, seen[r])
    /\ reads \in Seq(Resources)
    /\ \E m \in Nat : Progress(m)
    /\ changes \in 0..MaxChanges
-----------------------------------------------------------------------------
\* Discovery and what comes after it, spelled out.
LEMMA GraphLists ==
    Lists("graph") = <<"claims", "slices", "pods", "classes">>
<1> DEFINE L == <<"claims", "slices", "pods">> \o <<"classes">>
<1>1. Lists("graph") = L
  BY DEF Lists, DiscoveryLists
<1>2. /\ L \in Seq(Resources) /\ Len(L) = 4
      /\ L[1] = "claims" /\ L[2] = "slices" /\ L[3] = "pods" /\ L[4] = "classes"
  BY DEF Resources
<1> HIDE DEF L
<1>3. QED
  BY <1>1, <1>2

\* The same for the explanation, which gets its claim in between.
LEMMA ExplainLists ==
    Lists("explain") = <<"claims", "slices", "pods", "get", "classes">>
<1> DEFINE L == <<"claims", "slices", "pods">> \o <<"get", "classes">>
<1>1. Lists("explain") = L
  BY DEF Lists, DiscoveryLists
<1>2. L \in Seq(Resources) /\ Len(L) = 5
  BY DEF Resources
<1>3. /\ L[1] = "claims" /\ L[2] = "slices" /\ L[3] = "pods"
      /\ L[4] = "get" /\ L[5] = "classes"
  OBVIOUS
<1> HIDE DEF L
<1>4. QED
  BY <1>1, <1>2, <1>3

\* The lists of every operation.
LEMMA ListsSpelledOut ==
    /\ Lists("graph") = <<"claims", "slices", "pods", "classes">>
    /\ Lists("explain") = <<"claims", "slices", "pods", "get", "classes">>
    /\ Lists("orphans") = <<"claims", "slices", "pods">>
    /\ Lists("references") = <<"pods", "claims">>
    /\ Lists("slices") = <<"slices", "nodes">>
<1>1. Lists("orphans") = <<"claims", "slices", "pods">>
  BY DEF Lists, DiscoveryLists
<1>2. Lists("references") = <<"pods", "claims">>
  BY DEF Lists
<1>3. Lists("slices") = <<"slices", "nodes">>
  BY DEF Lists
<1>4. QED
  BY <1>1, <1>2, <1>3, GraphLists, ExplainLists

\* No operation makes a list twice.
LEMMA ListsDistinct ==
    ASSUME NEW k \in Kinds
    PROVE  /\ Lists(k) \in Seq(Resources)
           /\ \A i, j \in 1..Len(Lists(k)) : Lists(k)[i] = Lists(k)[j] => i = j
<1> DEFINE L == Lists(k)
<1>1. ASSUME L = <<"claims", "slices", "pods", "classes">>
      PROVE  L \in Seq(Resources) /\ \A i, j \in 1..Len(L) : L[i] = L[j] => i = j
  <2> HIDE DEF L
  <2>1. L \in Seq(Resources)
    BY <1>1 DEF Resources
  <2>2. /\ Len(L) = 4
        /\ L[1] = "claims" /\ L[2] = "slices" /\ L[3] = "pods" /\ L[4] = "classes"
    BY <1>1
  <2>3. QED
    BY <2>1, <2>2
<1>2. ASSUME L = <<"claims", "slices", "pods", "get", "classes">>
      PROVE  L \in Seq(Resources) /\ \A i, j \in 1..Len(L) : L[i] = L[j] => i = j
  <2> HIDE DEF L
  <2>1. L \in Seq(Resources)
    BY <1>2 DEF Resources
  <2>2. /\ Len(L) = 5
        /\ L[1] = "claims" /\ L[2] = "slices" /\ L[3] = "pods"
        /\ L[4] = "get" /\ L[5] = "classes"
    BY <1>2
  <2>3. QED
    BY <2>1, <2>2
<1>3. ASSUME L = <<"claims", "slices", "pods">>
      PROVE  L \in Seq(Resources) /\ \A i, j \in 1..Len(L) : L[i] = L[j] => i = j
  <2> HIDE DEF L
  <2>1. L \in Seq(Resources)
    BY <1>3 DEF Resources
  <2>2. Len(L) = 3 /\ L[1] = "claims" /\ L[2] = "slices" /\ L[3] = "pods"
    BY <1>3
  <2>3. QED
    BY <2>1, <2>2
<1>4. ASSUME NEW x \in Resources, NEW y \in Resources, x # y, L = <<x, y>>
      PROVE  L \in Seq(Resources) /\ \A i, j \in 1..Len(L) : L[i] = L[j] => i = j
  <2> HIDE DEF L
  <2>1. L \in Seq(Resources) /\ Len(L) = 2 /\ L[1] = x /\ L[2] = y
    BY <1>4
  <2>2. QED
    BY <1>4, <2>1
<1>5. CASE k \in {"graph", "explain", "orphans"}
  BY <1>1, <1>2, <1>3, <1>5, ListsSpelledOut
<1>6. CASE k = "references"
  BY <1>4, <1>6, ListsSpelledOut DEF Resources
<1>7. CASE k = "slices"
  BY <1>4, <1>7, ListsSpelledOut DEF Resources
<1>8. QED
  BY <1>5, <1>6, <1>7 DEF Kinds

\* The answer of a list is never mistaken for a failure.
LEMMA ValuesAreNoMarks ==
    ASSUME NEW r \in Resources, NEW v, IsValue(r, v)
    PROVE  v \notin {Failed, NotRead}
BY ViewsAssumption DEF IsValue, IsPartial, Resources

\* A list of a well-formed cluster is well formed.
LEMMA SnapshotValue ==
    ASSUME IsCluster(world), NEW r \in Resources
    PROVE  Snapshot(r) = Failed \/ IsValue(r, Snapshot(r))
BY DEF IsCluster, Snapshot, IsValue, Resources, IsPartial

\* What a list that is made changes: one answer that was not there.
LEMMA ReadStep ==
    ASSUME TypeInv, Read \/ ReadFails
    PROVE  \E m \in Nat :
             /\ Progress(m) /\ Progress(m + 1)'
             /\ m < Len(List)
             /\ List[m + 1] \in Resources /\ seen[List[m + 1]] = NotRead
             /\ \/ seen'[List[m + 1]] = Failed
                \/ /\ seen'[List[m + 1]] = Snapshot(List[m + 1])
                   /\ IsValue(List[m + 1], Snapshot(List[m + 1]))
             /\ \A q \in Resources : q # List[m + 1] => seen'[q] = seen[q]
             /\ DOMAIN seen' = Resources
             /\ reads' \in Seq(Resources)
             /\ UNCHANGED <<world, op, changes, touched, ever, always>>
<1> DEFINE r == Head(reads)
<1>1. PICK m \in Nat : Progress(m)
  BY DEF TypeInv
<1>2. op.kind \in Kinds
  BY ViewsAssumption DEF TypeInv
<1>3. /\ List \in Seq(Resources) /\ Len(List) \in Nat
      /\ \A i, j \in 1..Len(List) : List[i] = List[j] => i = j
  BY <1>2, ListsDistinct DEF List
<1>4. reads # <<>> /\ reads \in Seq(Resources)
  BY DEF Read, ReadFails, Returned, TypeInv
<1>5. Len(reads) \in Nat /\ Len(reads) > 0
  BY <1>4
<1>6. m < Len(List) /\ r = List[m + 1]
  BY <1>1, <1>3, <1>4, <1>5 DEF Progress
<1>7. r \in Resources /\ seen[r] = NotRead
  BY <1>1, <1>3, <1>6 DEF Progress
<1>8. \E v \in {Failed, Snapshot(r)} : seen' = [seen EXCEPT ![r] = v]
  BY DEF Read, ReadFails
<1>9. reads' = Tail(reads) /\ UNCHANGED <<world, op, changes, touched, ever, always>>
  BY DEF Read, ReadFails
<1>10. /\ reads' \in Seq(Resources)
       /\ Len(reads') = Len(reads) - 1
       /\ \A i \in 1..Len(reads') : reads'[i] = reads[i + 1]
  BY <1>4, <1>9
<1>11. /\ DOMAIN seen' = Resources
       /\ \A q \in Resources : q # r => seen'[q] = seen[q]
       /\ seen'[r] \in {Failed, Snapshot(r)}
  BY <1>7, <1>8 DEF TypeInv
<1>12. Snapshot(r) = Failed \/ IsValue(r, Snapshot(r))
  BY <1>7, SnapshotValue DEF TypeInv
<1>13. seen'[r] # NotRead
  BY <1>7, <1>11, <1>12, ValuesAreNoMarks, ViewsAssumption
<1>14. List' = List
  BY <1>9 DEF List
<1>15. Progress(m + 1)'
  <2>1. \A i \in 1..Len(List) : seen'[List[i]] = NotRead <=> i > m + 1
    <3>1. ASSUME NEW i \in 1..Len(List) PROVE seen'[List[i]] = NotRead <=> i > m + 1
      <4>1. CASE i = m + 1
        BY <1>6, <1>13, <4>1
      <4>2. CASE i # m + 1
        <5>1. List[i] # r /\ List[i] \in Resources
          BY <1>3, <1>6, <4>2
        <5>2. seen'[List[i]] = seen[List[i]]
          BY <1>11, <5>1
        <5>3. QED
          BY <1>1, <4>2, <5>2 DEF Progress
      <4>3. QED
        BY <4>1, <4>2
    <3>2. QED
      BY <3>1
  <2>2. Len(reads') = Len(List) - (m + 1)
    BY <1>1, <1>3, <1>10 DEF Progress
  <2>3. \A i \in 1..Len(reads') : reads'[i] = List[(m + 1) + i]
    BY <1>1, <1>3, <1>5, <1>10 DEF Progress
  <2>4. m + 1 \in 0..Len(List)
    BY <1>3, <1>6
  <2>5. QED
    BY <1>14, <2>1, <2>2, <2>3, <2>4 DEF Progress
<1>16. QED
  BY <1>1, <1>6, <1>7, <1>9, <1>10, <1>11, <1>12, <1>15

\* The objects that were seen and did not change since are in w as they were seen.
SameClaims(w) ==
    seen["claims"] # NotRead =>
        \A c \in Listed("claims") \ touched :
            c \in DOMAIN w.claims /\ w.claims[c] = seen["claims"][c]

SameSlices(w) ==
    seen["slices"] # NotRead =>
        \A s \in Listed("slices") \ touched :
            s \in DOMAIN w.slices /\ w.slices[s] = seen["slices"][s]

SamePods(w) ==
    seen["pods"] # NotRead => \A p \in ListedPods \ touched : p \in w.pods

\* What the histories say of the cluster as it is.
HistoryInv ==
    /\ Relevant(op, world) \subseteq ever
    /\ always \subseteq Relevant(op, world)
    /\ SameClaims(world) /\ SameSlices(world) /\ SamePods(world)

\* List q is made before list r.
Before(q, r) ==
    \E i, j \in 1..Len(List) : i < j /\ List[i] = q /\ List[j] = r

\* w may be the cluster at the moment when list r was made.
Moment(r, w) ==
    /\ IsCluster(w)
    /\ r # "get" => w[r] = seen[r]
    /\ r = "get" => op.claim \in DOMAIN w.claims /\ w.claims[op.claim] = seen["get"]
    /\ Relevant(op, w) \subseteq ever
    /\ always \subseteq Relevant(op, w)
    /\ Before("claims", r) => SameClaims(w)
    /\ Before("slices", r) => SameSlices(w)
    /\ Before("pods", r) => SamePods(w)

\* Every list that succeeded shows the cluster of one moment, at which all that was
\* seen before and has not changed was there too.  This is what makes the reports,
\* which mix the lists, true of one moment.
MomentInv ==
    \A r \in Resources : seen[r] \notin {NotRead, Failed} => \E w : Moment(r, w)

\* The inductive invariant.
IInv == TypeInv /\ HistoryInv /\ MomentInv
-----------------------------------------------------------------------------
\* What was there in w and is not in ids is the same in v.
Keeps(w, v, ids) ==
    /\ \A c \in DOMAIN w.claims \ ids :
           c \in DOMAIN v.claims /\ v.claims[c] = w.claims[c]
    /\ \A s \in DOMAIN w.slices \ ids :
           s \in DOMAIN v.slices /\ v.slices[s] = w.slices[s]
    /\ \A p \in w.pods \ ids : p \in v.pods

\* The effect of a change on the cluster and on the histories.
Changed ==
    /\ IsCluster(world')
    /\ Keeps(world, world', touched')
    /\ changes' \in 0..MaxChanges
    /\ touched \subseteq touched'
    /\ ever' = ever \union Relevant(op, world')
    /\ always' = always \intersect Relevant(op, world')
    /\ UNCHANGED <<op, reads, seen>>

\* A change that touches only the objects it names.
LEMMA BecomesChanged ==
    ASSUME TypeInv, NEW w, NEW ids, Becomes(w, ids), IsCluster(w), Keeps(world, w, ids)
    PROVE  Changed
<1>1. /\ world' = w
      /\ changes' \in 0..MaxChanges
      /\ ever' = ever \union Relevant(op, w)
      /\ always' = always \intersect Relevant(op, w)
      /\ UNCHANGED <<op, reads, seen>>
  BY ViewsAssumption DEF Becomes, TypeInv
<1>2. touched' = touched \union
                   (ids \intersect (DOMAIN world.claims \union DOMAIN world.slices
                                       \union world.pods))
  BY DEF Becomes
<1>3. Keeps(world, w, touched')
  BY <1>2 DEF Keeps
<1>4. QED
  BY <1>1, <1>2, <1>3 DEF Changed

\* A partial function without x, or with another value for it.
LEMMA PartialEdits ==
    ASSUME NEW S, NEW T, NEW f, IsPartial(f, S, T), NEW x \in S, NEW g,
           \/ g = Without(f, x)
           \/ \E v \in T : g = With(f, x, v)
    PROVE  /\ IsPartial(g, S, T)
           /\ \A y \in DOMAIN f \ {x} : y \in DOMAIN g /\ g[y] = f[y]
<1>1. CASE g = Without(f, x)
  BY <1>1 DEF IsPartial, Without
<1>2. ASSUME NEW v \in T, g = With(f, x, v)
      PROVE  /\ IsPartial(g, S, T)
             /\ \A y \in DOMAIN f \ {x} : y \in DOMAIN g /\ g[y] = f[y]
  BY <1>2 DEF IsPartial, With
<1>3. QED
  BY <1>1, <1>2

\* Changing one part of a cluster.
LEMMA PartChanges ==
    ASSUME IsCluster(world), NEW g
    PROVE  /\ \A c : /\ IsPartial(g, Claims, Claim)
                     /\ \A d \in DOMAIN world.claims \ {c} :
                            d \in DOMAIN g /\ g[d] = world.claims[d]
                     => LET w == [world EXCEPT !.claims = g]
                        IN  IsCluster(w) /\ Keeps(world, w, {c})
           /\ \A c : /\ IsPartial(g, Slices, Condition)
                     /\ \A d \in DOMAIN world.slices \ {c} :
                            d \in DOMAIN g /\ g[d] = world.slices[d]
                     => LET w == [world EXCEPT !.slices = g]
                        IN  IsCluster(w) /\ Keeps(world, w, {c})
           /\ \A c : g \subseteq Pods /\ world.pods \ {c} \subseteq g
                     => LET w == [world EXCEPT !.pods = g]
                        IN  IsCluster(w) /\ Keeps(world, w, {c})
           /\ g \subseteq Classes
                     => LET w == [world EXCEPT !.classes = g]
                        IN  IsCluster(w) /\ Keeps(world, w, {})
           /\ IsPartial(g, Nodes, BOOLEAN)
                     => LET w == [world EXCEPT !.nodes = g]
                        IN  IsCluster(w) /\ Keeps(world, w, {})
<1>1. /\ DOMAIN world = {"claims", "slices", "pods", "classes", "nodes"}
      /\ IsPartial(world.claims, Claims, Claim)
      /\ IsPartial(world.slices, Slices, Condition)
      /\ world.pods \subseteq Pods
      /\ world.classes \subseteq Classes
      /\ IsPartial(world.nodes, Nodes, BOOLEAN)
  BY DEF IsCluster
<1>2. ASSUME NEW f \in DOMAIN world, NEW w, w = [world EXCEPT ![f] = g]
      PROVE  /\ DOMAIN w = DOMAIN world
             /\ w[f] = g
             /\ \A h \in DOMAIN world : h # f => w[h] = world[h]
  BY <1>2
<1>3. QED
  BY <1>1, <1>2 DEF IsCluster, Keeps

\* Every change of the cluster leaves a cluster and keeps what it does not name.
LEMMA ChangeStep ==
    ASSUME TypeInv, Change
    PROVE  Changed
<1>0. IsCluster(world)
  BY DEF TypeInv
<1>f. /\ IsPartial(world.claims, Claims, Claim)
      /\ IsPartial(world.slices, Slices, Condition)
      /\ world.pods \subseteq Pods /\ world.classes \subseteq Classes
      /\ IsPartial(world.nodes, Nodes, BOOLEAN)
  BY <1>0 DEF IsCluster
<1>1. ASSUME NEW c \in Claims, ChangeClaim(c) PROVE Changed
  <2>0. PICK f : f = world.claims
    OBVIOUS
  <2>1. PICK g : /\ Becomes([world EXCEPT !.claims = g], {c})
                 /\ \/ g = Without(f, c)
                    \/ \E state \in Claim : g = With(f, c, state)
    BY <1>1, <2>0, Zenon DEF ChangeClaim
  <2>2. /\ IsPartial(g, Claims, Claim)
        /\ \A d \in DOMAIN f \ {c} : d \in DOMAIN g /\ g[d] = f[d]
    <3>1. IsPartial(f, Claims, Claim)
      BY <1>f, <2>0
    <3>2. QED
      BY <2>1, <3>1, PartialEdits
  <2>3. QED
    BY <1>0, <2>0, <2>1, <2>2, PartChanges, BecomesChanged
<1>2. ASSUME NEW s \in Slices, ChangeSlice(s) PROVE Changed
  <2>0. PICK f : f = world.slices
    OBVIOUS
  <2>1. PICK g : /\ Becomes([world EXCEPT !.slices = g], {s})
                 /\ \/ g = Without(f, s)
                    \/ \E state \in Condition : g = With(f, s, state)
    BY <1>2, <2>0, Zenon DEF ChangeSlice
  <2>2. /\ IsPartial(g, Slices, Condition)
        /\ \A d \in DOMAIN f \ {s} : d \in DOMAIN g /\ g[d] = f[d]
    <3>1. IsPartial(f, Slices, Condition)
      BY <1>f, <2>0
    <3>2. QED
      BY <2>1, <3>1, PartialEdits
  <2>3. QED
    BY <1>0, <2>0, <2>1, <2>2, PartChanges, BecomesChanged
<1>3. ASSUME NEW p \in Pods, ChangePod(p) PROVE Changed
  <2>1. PICK g : /\ Becomes([world EXCEPT !.pods = g], {p})
                 /\ g = world.pods \union {p} \/ g = world.pods \ {p}
    BY <1>3, Zenon DEF ChangePod
  <2>2. g \subseteq Pods /\ world.pods \ {p} \subseteq g
    BY <1>f, <2>1
  <2>3. QED
    BY <1>0, <2>1, <2>2, PartChanges, BecomesChanged
<1>4. ASSUME NEW k \in Classes, ChangeClass(k) PROVE Changed
  <2>1. PICK g : /\ Becomes([world EXCEPT !.classes = g], {})
                 /\ g = world.classes \union {k} \/ g = world.classes \ {k}
    BY <1>4, Zenon DEF ChangeClass
  <2>2. g \subseteq Classes
    BY <1>f, <2>1
  <2>3. QED
    BY <1>0, <2>1, <2>2, PartChanges, BecomesChanged
<1>5. ASSUME NEW n \in Nodes, ChangeNode(n) PROVE Changed
  <2>0. PICK f : f = world.nodes
    OBVIOUS
  <2>1. PICK g : /\ Becomes([world EXCEPT !.nodes = g], {})
                 /\ \/ g = Without(f, n)
                    \/ \E ready \in BOOLEAN : g = With(f, n, ready)
    BY <1>5, <2>0, Zenon DEF ChangeNode
  <2>2. /\ IsPartial(g, Nodes, BOOLEAN)
        /\ \A d \in DOMAIN f \ {n} : d \in DOMAIN g /\ g[d] = f[d]
    <3>1. IsPartial(f, Nodes, BOOLEAN)
      BY <1>f, <2>0
    <3>2. QED
      BY <2>1, <3>1, PartialEdits
  <2>3. QED
    BY <1>0, <2>0, <2>1, <2>2, PartChanges, BecomesChanged
<1>6. QED
  BY <1>1, <1>2, <1>3, <1>4, <1>5 DEF Change

\* An operation starts with nothing read.
LEMMA InitInvariant == Init => IInv
<1> SUFFICES ASSUME Init PROVE IInv
  OBVIOUS
<1>1. op \in Operations /\ op.kind \in Kinds /\ IsCluster(world)
  BY ViewsAssumption DEF Init
<1>2. List \in Seq(Resources)
  BY <1>1, ListsDistinct DEF List
<1>3. seen = [r \in Resources |-> NotRead] /\ reads = List
  BY DEF Init, List
<1>4. \A i \in 1..Len(List) : seen[List[i]] = NotRead
  BY <1>2, <1>3
<1>5. Progress(0)
  BY <1>2, <1>3, <1>4 DEF Progress
<1>6. TypeInv
  BY <1>1, <1>2, <1>3, <1>5, ViewsAssumption DEF TypeInv, Init
<1>7. HistoryInv
  BY <1>3 DEF HistoryInv, SameClaims, SameSlices, SamePods, Init, Resources
<1>8. MomentInv
  BY <1>3 DEF MomentInv
<1>9. QED
  BY <1>6, <1>7, <1>8 DEF IInv

\* Every step preserves the types and the order of the lists.
LEMMA TypeStep == TypeInv /\ [Next]_vars => TypeInv'
<1> SUFFICES ASSUME TypeInv, [Next]_vars PROVE TypeInv'
  OBVIOUS
<1>1. CASE Read \/ ReadFails
  <2>1. PICK m \in Nat :
             /\ Progress(m + 1)'
             /\ \/ seen'[List[m + 1]] = Failed
                \/ /\ seen'[List[m + 1]] = Snapshot(List[m + 1])
                   /\ IsValue(List[m + 1], Snapshot(List[m + 1]))
             /\ \A q \in Resources : q # List[m + 1] => seen'[q] = seen[q]
             /\ DOMAIN seen' = Resources
             /\ reads' \in Seq(Resources)
             /\ UNCHANGED <<world, op, changes>>
    BY <1>1, ReadStep
  <2>2. \A r \in Resources : seen'[r] \in {Failed, NotRead} \/ IsValue(r, seen'[r])
    BY <2>1 DEF TypeInv
  <2>3. m + 1 \in Nat
    OBVIOUS
  <2>4. QED
    BY <2>1, <2>2, <2>3 DEF TypeInv, IsCluster, IsValue
<1>2. ASSUME UNCHANGED <<op, reads, seen>>, IsCluster(world'), changes' \in 0..MaxChanges
      PROVE  TypeInv'
  BY <1>2 DEF TypeInv, Progress, List, IsCluster, IsValue
<1>3. CASE Change
  BY <1>2, <1>3, ChangeStep DEF Changed
<1>4. CASE UNCHANGED vars
  BY <1>2, <1>4 DEF vars, TypeInv
<1>5. QED
  BY <1>1, <1>3, <1>4 DEF Next

\* A list that is made shows the cluster as it is; a change moves only what is
\* touched.
LEMMA HistoryStep == TypeInv /\ HistoryInv /\ [Next]_vars => HistoryInv'
<1> SUFFICES ASSUME TypeInv, HistoryInv, [Next]_vars PROVE HistoryInv'
  OBVIOUS
<1>1. CASE Read \/ ReadFails
  <2>1. PICK r \in Resources :
             /\ seen'[r] = Failed \/ seen'[r] = Snapshot(r)
             /\ \A q \in Resources : q # r => seen'[q] = seen[q]
             /\ UNCHANGED <<world, op, changes, touched, ever, always>>
    BY <1>1, ReadStep
  <2>2. Relevant(op', world') \subseteq ever' /\ always' \subseteq Relevant(op', world')
    BY <2>1 DEF HistoryInv
  <2>3. \A q \in Resources \ {"get"} :
            seen'[q] = Failed \/ seen'[q] = world[q] \/ seen'[q] = seen[q]
    BY <2>1 DEF Snapshot
  <2>4. SameClaims(world)'
    BY <2>1, <2>3 DEF HistoryInv, SameClaims, Listed, Resources
  <2>5. SameSlices(world)'
    BY <2>1, <2>3 DEF HistoryInv, SameSlices, Listed, Resources
  <2>6. SamePods(world)'
    BY <2>1, <2>3 DEF HistoryInv, SamePods, ListedPods, Resources
  <2>7. QED
    BY <2>2, <2>4, <2>5, <2>6 DEF HistoryInv
<1>2. CASE Change
  <2>1. Changed
    BY <1>2, ChangeStep
  <2>2. Relevant(op', world') = Relevant(op, world')
    BY <2>1 DEF Changed
  <2>3. SameClaims(world)'
    BY <2>1 DEF HistoryInv, SameClaims, Listed, Changed, Keeps
  <2>4. SameSlices(world)'
    BY <2>1 DEF HistoryInv, SameSlices, Listed, Changed, Keeps
  <2>5. SamePods(world)'
    BY <2>1 DEF HistoryInv, SamePods, ListedPods, Changed, Keeps
  <2>6. QED
    BY <2>1, <2>2, <2>3, <2>4, <2>5 DEF HistoryInv, Changed
<1>3. CASE UNCHANGED vars
  BY <1>3 DEF vars, HistoryInv, SameClaims, SameSlices, SamePods, Listed, ListedPods
<1>4. QED
  BY <1>1, <1>2, <1>3 DEF Next

\* The moment of a list is not lost when the histories go on.
LEMMA MomentStays ==
    ASSUME NEW r \in Resources, NEW w, Moment(r, w),
           op' = op, seen'[r] = seen[r],
           \A q \in Resources : Before(q, r) => seen'[q] = seen[q],
           touched \subseteq touched', ever \subseteq ever', always' \subseteq always
    PROVE  Moment(r, w)'
<1>1. \A q : Before(q, r)' <=> Before(q, r)
  BY DEF Before, List
<1>2. Before("claims", r) => SameClaims(w)'
  BY DEF Moment, SameClaims, Listed, Resources
<1>3. Before("slices", r) => SameSlices(w)'
  BY DEF Moment, SameSlices, Listed, Resources
<1>4. Before("pods", r) => SamePods(w)'
  BY DEF Moment, SamePods, ListedPods, Resources
<1>5. (r = "get") => seen'["get"] = seen["get"]
  OBVIOUS
<1>6. /\ Relevant(op', w) \subseteq ever'
      /\ always' \subseteq Relevant(op', w)
  BY DEF Moment
<1>7. QED
  BY <1>1, <1>2, <1>3, <1>4, <1>5, <1>6 DEF Moment

\* Every step preserves that the lists show moments.
LEMMA MomentStep == IInv /\ [Next]_vars => MomentInv'
<1> SUFFICES ASSUME IInv, [Next]_vars, NEW r \in Resources,
                    seen'[r] \notin {NotRead, Failed}
             PROVE  \E w : Moment(r, w)'
  BY DEF MomentInv
<1>0. HistoryInv' /\ TypeInv'
  BY HistoryStep, TypeStep DEF IInv
<1>1. CASE Read \/ ReadFails
  <2>1. PICK m \in Nat :
             /\ Progress(m)
             /\ m < Len(List)
             /\ List[m + 1] \in Resources /\ seen[List[m + 1]] = NotRead
             /\ \/ seen'[List[m + 1]] = Failed
                \/ seen'[List[m + 1]] = Snapshot(List[m + 1])
             /\ \A q \in Resources : q # List[m + 1] => seen'[q] = seen[q]
             /\ UNCHANGED <<world, op, changes, touched, ever, always>>
    BY <1>1, ReadStep DEF IInv
  <2>2. CASE r = List[m + 1]
    <3>1. seen'[r] = Snapshot(r)
      BY <2>1, <2>2
    <3>2. r # "get" => world'[r] = seen'[r]
      BY <2>1, <3>1 DEF Snapshot
    <3>3. r = "get" => op'.claim \in DOMAIN world'.claims
                       /\ world'.claims[op'.claim] = seen'["get"]
      BY <2>1, <3>1 DEF Snapshot
    <3>4. Moment(r, world)'
      BY <1>0, <3>2, <3>3 DEF Moment, HistoryInv, TypeInv
    <3>5. QED
      BY <3>4
  <2>3. CASE r # List[m + 1]
    <3>1. seen'[r] = seen[r]
      BY <2>1, <2>3
    <3>2. PICK w : Moment(r, w)
      BY <3>1 DEF IInv, MomentInv
    <3>3. ASSUME NEW q \in Resources, Before(q, r) PROVE seen'[q] = seen[q]
      <4>1. PICK i \in 1..Len(List), j \in 1..Len(List) :
                i < j /\ List[i] = q /\ List[j] = r
        BY <3>3 DEF Before
      <4>2. ~(j > m)
        BY <2>1, <3>1, <4>1 DEF Progress
      <4>3. ~(i > m)
        BY <4>1, <4>2
      <4>4. seen[q] # NotRead
        BY <2>1, <4>1, <4>3 DEF Progress
      <4>5. QED
        BY <2>1, <4>4
    <3>4. Moment(r, w)'
      BY <2>1, <3>1, <3>2, <3>3, MomentStays
    <3>5. QED
      BY <3>4
  <2>4. QED
    BY <2>2, <2>3
<1>2. CASE Change \/ UNCHANGED vars
  <2>1. /\ UNCHANGED <<op, seen>>
        /\ touched \subseteq touched' /\ ever \subseteq ever' /\ always' \subseteq always
    BY <1>2, ChangeStep DEF Changed, vars, IInv
  <2>2. PICK w : Moment(r, w)
    BY <2>1 DEF IInv, MomentInv
  <2>3. Moment(r, w)'
    BY <2>1, <2>2, MomentStays
  <2>4. QED
    BY <2>3
<1>3. QED
  BY <1>1, <1>2 DEF Next

\* The inductive invariant holds in every reachable state.
THEOREM InductiveInvariant == ViewSpec => []IInv
<1>1. IInv /\ [Next]_vars => IInv'
  BY TypeStep, HistoryStep, MomentStep DEF IInv
<1>2. QED
  BY <1>1, InitInvariant, PTL DEF ViewSpec

\* TypeOK is an invariant of every operation.
THEOREM ViewsTypes == ViewSpec => []TypeOK
<1>1. TypeInv => TypeOK
  <2> SUFFICES ASSUME TypeInv PROVE TypeOK
    OBVIOUS
  <2>1. PICK m \in Nat : Progress(m)
    BY DEF TypeInv
  <2>2. op.kind \in Kinds
    BY ViewsAssumption DEF TypeInv
  <2>3. /\ List \in Seq(Resources) /\ DOMAIN List = 1..Len(List)
        /\ \A i, j \in 1..Len(List) : List[i] = List[j] => i = j
    BY <2>2, ListsDistinct DEF List
  <2>4. DOMAIN reads = 1..Len(reads) /\ Len(reads) \in Nat
    BY DEF TypeInv
  <2>5. ASSUME NEW i \in DOMAIN List
        PROVE  seen[List[i]] = NotRead <=> \E j \in DOMAIN reads : reads[j] = List[i]
    <3>1. CASE i > m
      <4>1. i - m \in 1..Len(reads) /\ reads[i - m] = List[i]
        BY <2>1, <2>3, <2>4, <3>1 DEF Progress
      <4>2. QED
        BY <2>1, <2>3, <2>4, <3>1, <4>1 DEF Progress
    <3>2. CASE ~(i > m)
      <4>1. ASSUME NEW j \in 1..Len(reads), reads[j] = List[i] PROVE FALSE
        <5>1. List[m + j] = List[i] /\ m + j \in 1..Len(List)
          BY <2>1, <2>3, <2>4, <4>1 DEF Progress
        <5>2. m + j = i
          BY <2>3, <5>1
        <5>3. QED
          BY <3>2, <5>2
      <4>2. QED
        BY <2>1, <2>3, <2>4, <3>2, <4>1 DEF Progress
    <3>3. QED
      BY <3>1, <3>2
  <2>6. /\ seen["claims"] \in {Failed, NotRead} \/ IsPartial(seen["claims"], Claims, Claim)
        /\ seen["slices"] \in {Failed, NotRead} \/ IsPartial(seen["slices"], Slices, Condition)
        /\ seen["nodes"] \in {Failed, NotRead} \/ IsPartial(seen["nodes"], Nodes, BOOLEAN)
        /\ seen["get"] \in {Failed, NotRead} \/ seen["get"] \in Claim
    BY DEF TypeInv, IsValue, Resources
  <2>7. QED
    BY <2>5, <2>6 DEF TypeOK, TypeInv, List
<1>2. QED
  BY <1>1, InductiveInvariant, PTL DEF IInv
-----------------------------------------------------------------------------
(* The graph.                                                              *)

\* A device is found only if there is one to find.
LEMMA ResolvedTarget ==
    ASSUME NEW c, NEW s, Resolved(c, s)
    PROVE  Target(c, s) \in Candidates(c, s)
<1>1. Candidates(c, s) # {}
  BY FS_EmptySet DEF Resolved
<1>2. QED
  BY <1>1 DEF Target

\* The nodes that come with a claim.
LEMMA NodesOfClaims ==
    /\ \A c \in ShownClaims : <<"claim", c>> \in ClaimNodes
    /\ \A c \in ShownClaims : <<"namespace", Namespace[c]>> \in ClaimNodes
    /\ \A c \in ShownClaims : \A k \in Requested[c] : <<"class", k>> \in ClaimNodes
    /\ \A r \in ShownResults : <<"allocation", r>> \in ClaimNodes
    /\ \A r \in ShownResults : ~Resolved(r[1], r[2]) => MissingID(r[1], r[2]) \in ClaimNodes
    /\ \A c \in ShownClaims : \A p \in Owners(c) : <<"pod", p>> \in ClaimNodes
    /\ \A c \in ShownClaims : Owners(c) # {} =>
           \A n \in AllocationNodes(c) : <<"node", n>> \in ClaimNodes
<1> DEFINE Classful == UNION {{<<"class", k>> : k \in Requested[c]} : c \in ShownClaims}
           Results == {<<"allocation", r>> : r \in ShownResults}
           Missing == {MissingID(r[1], r[2]) : r \in {r \in ShownResults :
                                                        ~Resolved(r[1], r[2])}}
           Users == UNION {{<<"pod", p>> : p \in Owners(c)} : c \in ShownClaims}
           Places == UNION {{<<"node", n>> : n \in AllocationNodes(c)} :
                            c \in {c \in ShownClaims : Owners(c) # {}}}
<1>0. /\ Classful \subseteq ClaimNodes /\ Results \subseteq ClaimNodes
      /\ Missing \subseteq ClaimNodes /\ Users \subseteq ClaimNodes
      /\ Places \subseteq ClaimNodes
  <2>1. ClaimNodes = {<<"namespace", Namespace[c]>> : c \in ShownClaims}
                        \union {<<"claim", c>> : c \in ShownClaims}
                        \union {<<"class", k>> : k \in ListedClasses}
                        \union Classful \union Results
                        \union Missing \union Users \union Places
    BY Zenon DEF ClaimNodes
  <2> HIDE DEF Classful, Results, Missing, Users, Places
  <2>2. QED
    BY <2>1
<1>1. /\ \A c \in ShownClaims : <<"claim", c>> \in ClaimNodes
      /\ \A c \in ShownClaims : <<"namespace", Namespace[c]>> \in ClaimNodes
  BY Zenon DEF ClaimNodes
<1>2. \A c \in ShownClaims : \A k \in Requested[c] : <<"class", k>> \in Classful
  OBVIOUS
<1>3. \A r \in ShownResults : <<"allocation", r>> \in Results
  OBVIOUS
<1>4. \A r \in ShownResults : ~Resolved(r[1], r[2]) => MissingID(r[1], r[2]) \in Missing
  OBVIOUS
<1>5. \A c \in ShownClaims : \A p \in Owners(c) : <<"pod", p>> \in Users
  OBVIOUS
<1>6. \A c \in ShownClaims : Owners(c) # {} =>
          \A n \in AllocationNodes(c) : <<"node", n>> \in Places
  OBVIOUS
<1> HIDE DEF Classful, Results, Missing, Users, Places
<1>7. QED
  BY <1>0, <1>1, <1>2, <1>3, <1>4, <1>5, <1>6

\* The edges that come with a claim.
LEMMA EdgesOfClaims ==
    ASSUME NEW e \in ClaimEdges
    PROVE  \/ \E c \in ShownClaims : e = <<<<"claim", c>>, <<"namespace", Namespace[c]>>>>
           \/ \E c \in ShownClaims : \E k \in Requested[c] :
                  e = <<<<"claim", c>>, <<"class", k>>>>
           \/ \E r \in ShownResults :
                  e \in {<<<<"claim", r[1]>>, <<"allocation", r>>>>,
                         <<<<"allocation", r>>, Target(r[1], r[2])>>,
                         <<<<"claim", r[1]>>, Target(r[1], r[2])>>}
           \/ \E c \in ShownClaims : \E p \in Owners(c) :
                  e = <<<<"pod", p>>, <<"claim", c>>>>
           \/ \E c \in ShownClaims : \E p \in Owners(c) :
                  e = <<<<"pod", p>>, <<"namespace", Namespace[c]>>>>
           \/ \E c \in ShownClaims : \E p \in Owners(c) : \E n \in AllocationNodes(c) :
                  e = <<<<"pod", p>>, <<"node", n>>>>
<1> DEFINE A == {<<<<"claim", c>>, <<"namespace", Namespace[c]>>>> : c \in ShownClaims}
           B(c) == {<<<<"claim", c>>, <<"class", k>>>> : k \in Requested[c]}
           C(r) == {<<<<"claim", r[1]>>, <<"allocation", r>>>>,
                    <<<<"allocation", r>>, Target(r[1], r[2])>>,
                    <<<<"claim", r[1]>>, Target(r[1], r[2])>>}
           D(c) == {<<<<"pod", p>>, <<"claim", c>>>> : p \in Owners(c)}
           E(c) == {<<<<"pod", p>>, <<"namespace", Namespace[c]>>>> : p \in Owners(c)}
           F(c) == {<<<<"pod", p>>, <<"node", n>>>> :
                       p \in Owners(c), n \in AllocationNodes(c)}
           UB == UNION {B(c) : c \in ShownClaims}
           UC == UNION {C(r) : r \in ShownResults}
           UD == UNION {D(c) : c \in ShownClaims}
           UE == UNION {E(c) : c \in ShownClaims}
           UF == UNION {F(c) : c \in ShownClaims}
<1>1. e \in A \union UB \union UC \union UD \union UE \union UF
  <2>1. ClaimEdges = A \union UB \union UC \union UD \union UE \union UF
    BY DEF ClaimEdges
  <2> HIDE DEF A, UB, UC, UD, UE, UF
  <2>2. QED
    BY <2>1
<1>2. e \in A => \E c \in ShownClaims : e = <<<<"claim", c>>, <<"namespace", Namespace[c]>>>>
  BY Zenon
<1>3. e \in UB => \E c \in ShownClaims : \E k \in Requested[c] :
                      e = <<<<"claim", c>>, <<"class", k>>>>
  BY Zenon
<1>4. e \in UC => \E r \in ShownResults : e \in C(r)
  BY Zenon
<1>5. e \in UD => \E c \in ShownClaims : \E p \in Owners(c) :
                      e = <<<<"pod", p>>, <<"claim", c>>>>
  BY Zenon
<1>6. e \in UE => \E c \in ShownClaims : \E p \in Owners(c) :
                      e = <<<<"pod", p>>, <<"namespace", Namespace[c]>>>>
  BY Zenon
<1>7. e \in UF => \E c \in ShownClaims : \E p \in Owners(c) : \E n \in AllocationNodes(c) :
                      e = <<<<"pod", p>>, <<"node", n>>>>
  OBVIOUS
<1> HIDE DEF A, UB, UC, UD, UE, UF
<1>8. QED
  BY <1>1, <1>2, <1>3, <1>4, <1>5, <1>6, <1>7

\* Every edge joins two nodes of the graph.
LEMMA EdgesJoinNodes ==
    \A e \in GraphEdges : {e[1], e[2]} \subseteq GraphNodes
<1>1. ASSUME NEW r \in ShownResults PROVE Target(r[1], r[2]) \in GraphNodes
  <2>1. /\ r[1] \in ShownClaims
        /\ op.driver \in {AnyValue, Spec[r[2]].driver}
    BY DEF ShownResults
  <2>2. CASE Resolved(r[1], r[2])
    <3>1. PICK t \in Listed("slices") :
              /\ Matches(seen["claims"][r[1]].alloc, r[2], t)
              /\ Target(r[1], r[2]) = DeviceID(t)
      BY <2>2, ResolvedTarget DEF Candidates
    <3>2. t \in ShownSlices
      BY <2>1, <3>1 DEF ShownSlices, Matches
    <3>3. QED
      BY <3>1, <3>2 DEF GraphNodes, DeviceNodes
  <2>3. CASE ~Resolved(r[1], r[2])
    BY <2>3, NodesOfClaims DEF Target, GraphNodes
  <2>4. QED
    BY <2>2, <2>3
<1>2. ASSUME NEW e \in PoolEdges PROVE {e[1], e[2]} \subseteq GraphNodes
  BY DEF PoolEdges, GraphNodes, PoolNodes
<1>3. ASSUME NEW e \in DeviceEdges PROVE {e[1], e[2]} \subseteq GraphNodes
  BY DEF DeviceEdges, GraphNodes, PoolNodes, DeviceNodes
<1>4. ASSUME NEW e \in ClaimEdges PROVE {e[1], e[2]} \subseteq GraphNodes
  <2>0. ClaimNodes \subseteq GraphNodes
    BY DEF GraphNodes
  <2>1. ASSUME NEW c \in ShownClaims, e = <<<<"claim", c>>, <<"namespace", Namespace[c]>>>>
        PROVE  {e[1], e[2]} \subseteq GraphNodes
    BY <2>0, <2>1, NodesOfClaims
  <2>2. ASSUME NEW c \in ShownClaims, NEW k \in Requested[c],
               e = <<<<"claim", c>>, <<"class", k>>>>
        PROVE  {e[1], e[2]} \subseteq GraphNodes
    BY <2>0, <2>2, NodesOfClaims
  <2>3. ASSUME NEW r \in ShownResults,
               e \in {<<<<"claim", r[1]>>, <<"allocation", r>>>>,
                      <<<<"allocation", r>>, Target(r[1], r[2])>>,
                      <<<<"claim", r[1]>>, Target(r[1], r[2])>>}
        PROVE  {e[1], e[2]} \subseteq GraphNodes
    <3>1. r[1] \in ShownClaims
      BY DEF ShownResults
    <3>2. <<"claim", r[1]>> \in GraphNodes /\ <<"allocation", r>> \in GraphNodes
      BY <2>0, <3>1, NodesOfClaims
    <3>3. Target(r[1], r[2]) \in GraphNodes
      BY <1>1
    <3>4. QED
      BY <2>3, <3>2, <3>3
  <2>4. ASSUME NEW c \in ShownClaims, NEW p \in Owners(c),
               \/ e = <<<<"pod", p>>, <<"claim", c>>>>
               \/ e = <<<<"pod", p>>, <<"namespace", Namespace[c]>>>>
               \/ \E n \in AllocationNodes(c) : e = <<<<"pod", p>>, <<"node", n>>>>
        PROVE  {e[1], e[2]} \subseteq GraphNodes
    <3>1. /\ <<"pod", p>> \in ClaimNodes
          /\ <<"claim", c>> \in ClaimNodes
          /\ <<"namespace", Namespace[c]>> \in ClaimNodes
      BY NodesOfClaims
    <3>2. Owners(c) # {}
      OBVIOUS
    <3>3. \A n \in AllocationNodes(c) : <<"node", n>> \in ClaimNodes
      BY <3>2, NodesOfClaims
    <3>4. QED
      BY <2>0, <2>4, <3>1, <3>3
  <2>5. QED
    BY <2>1, <2>2, <2>3, <2>4, EdgesOfClaims
<1>5. QED
  BY <1>2, <1>3, <1>4 DEF GraphEdges

\* The graph has no edge to a node that it does not have, whatever the filters
\* hide and the lists missed.
THEOREM GraphIsClosedHolds == ViewSpec => []GraphIsClosed
<1>1. GraphIsClosed
  BY EdgesJoinNodes DEF GraphIsClosed
<1>2. QED
  BY <1>1, PTL
-----------------------------------------------------------------------------
(* The devices and the node of an allocation.                              *)

\* Requirements that name one node, and all admit n, name n.
LEMMA TermNamesNode ==
    ASSUME NEW a \in Allocations, NEW s \in a.slices, Spec[s].node # NoNode,
           NEW t \in a.terms
    PROVE  ExactNodeForTerm(t) = Spec[s].node
<1> DEFINE n == Spec[s].node
           Naming == {r \in t : r.names /\ Cardinality(r.values) = 1}
           named == UNION {r.values : r \in Naming}
<1>1. /\ Admits(t, n)
      /\ \E r \in t : r.names /\ r.values = {n}
      /\ \A r \in t : IsFiniteSet(r.values)
  BY DevicesAssumption
<1>2. ASSUME NEW r \in Naming PROVE r.values = {n}
  <2>1. n \in r.values /\ IsFiniteSet(r.values) /\ Cardinality(r.values) = 1
    BY <1>1 DEF Admits
  <2>2. \E x : r.values = {x}
    BY <2>1, FS_Singleton
  <2>3. QED
    BY <2>1, <2>2
<1>3. PICK r \in Naming : r.values = {n}
  <2>1. Cardinality({n}) = 1
    BY FS_Singleton
  <2>2. QED
    BY <1>1, <2>1
<1>4. named = {n}
  <2>1. \A x \in named : x = n
    BY <1>2
  <2>2. n \in named
    BY <1>3
  <2>3. QED
    BY <2>1, <2>2
<1>5. Cardinality(named) = 1 /\ (CHOOSE x \in named : TRUE) = n
  BY <1>4, FS_Singleton
<1>6. ExactNodeForTerm(t) = IF Cardinality(named) = 1
                            THEN CHOOSE x \in named : TRUE ELSE NoNode
  BY Zenon DEF ExactNodeForTerm
<1> HIDE DEF named
<1>7. QED
  BY <1>5, <1>6

\* The node of an allocation with a local device is the node of the device.
LEMMA LocalDeviceNode ==
    ASSUME NEW a \in Allocations, NEW s \in a.slices, Spec[s].node # NoNode
    PROVE  AllocationNodeName(a) = Spec[s].node
<1> DEFINE nodes == {ExactNodeForTerm(t) : t \in a.terms}
<1>1. a.terms # {}
  BY DevicesAssumption
<1>2. nodes = {Spec[s].node}
  BY <1>1, TermNamesNode
<1>3. Cardinality(nodes) = 1 /\ (CHOOSE n \in nodes : TRUE) = Spec[s].node
  BY <1>2, FS_Singleton
<1>4. AllocationNodeName(a) = IF Cardinality(nodes) = 1
                              THEN CHOOSE n \in nodes : TRUE ELSE NoNode
  BY Zenon DEF AllocationNodeName
<1> HIDE DEF nodes
<1>5. QED
  BY <1>3, <1>4

\* A result matches the device of its own slice and of no other; the device of no
\* node only if the allocation names no node.
LEMMA MatchesIsSame ==
    ASSUME NEW a \in Allocations, NEW s \in a.slices, NEW t \in Slices
    PROVE  Matches(a, s, t) <=>
               t = s /\ (Spec[s].node = NoNode => AllocationNodeName(a) = NoNode)
<1>1. s \in Slices
  BY DevicesAssumption
<1>2. CASE Spec[s].node # NoNode
  <2>1. AllocationNodeName(a) = Spec[s].node
    BY <1>2, LocalDeviceNode
  <2>2. QED
    BY <1>1, <1>2, <2>1, DevicesAssumption DEF Matches
<1>3. CASE Spec[s].node = NoNode
  BY <1>1, <1>3, DevicesAssumption DEF Matches
<1>4. QED
  BY <1>2, <1>3

\* The node of an allocation is the only one its selector admits.
LEMMA NodeIsAdmitted ==
    ASSUME NEW a \in Allocations, AllocationNodeName(a) # NoNode,
           NEW t \in a.terms, NEW m, Admits(t, m)
    PROVE  m = AllocationNodeName(a)
<1> DEFINE nodes == {ExactNodeForTerm(u) : u \in a.terms}
           Naming == {r \in t : r.names /\ Cardinality(r.values) = 1}
           named == UNION {r.values : r \in Naming}
<1>1. IsFiniteSet(a.terms) /\ \A r \in t : IsFiniteSet(r.values)
  BY DevicesAssumption
<1>2. IsFiniteSet(nodes)
  <2> DEFINE f == [u \in a.terms |-> ExactNodeForTerm(u)]
  <2>1. f \in Surjection(a.terms, nodes)
    BY DEF Surjection
  <2>2. QED
    BY <1>1, <2>1, FS_Surjection
<1>3. AllocationNodeName(a) = IF Cardinality(nodes) = 1
                              THEN CHOOSE n \in nodes : TRUE ELSE NoNode
  BY Zenon DEF AllocationNodeName
<1>4. ExactNodeForTerm(t) = IF Cardinality(named) = 1
                            THEN CHOOSE x \in named : TRUE ELSE NoNode
  BY Zenon DEF ExactNodeForTerm
<1>5. ExactNodeForTerm(t) \in nodes
  OBVIOUS
<1>6. ASSUME NEW r \in Naming PROVE r.values = {m}
  <2>1. m \in r.values /\ IsFiniteSet(r.values) /\ Cardinality(r.values) = 1
    BY <1>1 DEF Admits
  <2>2. \E x : r.values = {x}
    BY <2>1, FS_Singleton
  <2>3. QED
    BY <2>1, <2>2
<1>7. named \subseteq {m}
  BY <1>6
<1> HIDE DEF nodes, named
<1>8. ExactNodeForTerm(t) = AllocationNodeName(a)
  <2>1. Cardinality(nodes) = 1
    BY <1>3
  <2>2. \E x : nodes = {x}
    BY <1>2, <2>1, FS_Singleton
  <2>3. QED
    BY <1>3, <1>5, <2>1, <2>2
<1>9. Cardinality(named) = 1 /\ (CHOOSE x \in named : TRUE) = AllocationNodeName(a)
  BY <1>4, <1>8
<1>10. named = {m}
  BY <1>7, <1>9, FS_EmptySet
<1>11. QED
  BY <1>9, <1>10

\* The lists that an operation has made when it returns.
LEMMA ReadWhenReturned ==
    ASSUME TypeInv, Returned
    PROVE  /\ op.kind = "graph" =>
                  NotRead \notin {seen["claims"], seen["slices"], seen["pods"], seen["classes"]}
           /\ op.kind = "explain" =>
                  /\ NotRead \notin {seen["claims"], seen["slices"], seen["pods"], seen["get"]}
                  /\ reads = <<>> => seen["classes"] # NotRead
           /\ op.kind = "orphans" =>
                  NotRead \notin {seen["claims"], seen["slices"], seen["pods"]}
           /\ op.kind = "references" =>
                  \/ Failed \in {seen["pods"], seen["claims"]}
                  \/ NotRead \notin {seen["pods"], seen["claims"]}
           /\ op.kind = "slices" =>
                  \/ seen["slices"] = Failed
                  \/ NotRead \notin {seen["slices"], seen["nodes"]}
<1>1. PICK m \in Nat : Progress(m)
  BY DEF TypeInv
<1>2. /\ m \in 0..Len(List) /\ Len(reads) = Len(List) - m
      /\ \A i \in 1..Len(List) : seen[List[i]] = NotRead <=> i > m
  BY <1>1 DEF Progress
<1>3. op.kind = "graph" =>
          NotRead \notin {seen["claims"], seen["slices"], seen["pods"], seen["classes"]}
  <2> SUFFICES ASSUME op.kind = "graph"
               PROVE  NotRead \notin {seen["claims"], seen["slices"], seen["pods"],
                                       seen["classes"]}
    OBVIOUS
  <2>1. /\ Len(List) = 4
        /\ List[1] = "claims" /\ List[2] = "slices" /\ List[3] = "pods" /\ List[4] = "classes"
    BY ListsSpelledOut DEF List
  <2>2. reads = <<>> /\ m = 4
    BY <1>2, <2>1 DEF Returned
  <2>3. QED
    BY <1>2, <2>1, <2>2
<1>4. op.kind = "explain" =>
          /\ NotRead \notin {seen["claims"], seen["slices"], seen["pods"], seen["get"]}
          /\ reads = <<>> => seen["classes"] # NotRead
  <2> SUFFICES ASSUME op.kind = "explain"
               PROVE  /\ NotRead \notin {seen["claims"], seen["slices"], seen["pods"],
                                          seen["get"]}
                      /\ reads = <<>> => seen["classes"] # NotRead
    OBVIOUS
  <2>1. /\ Len(List) = 5
        /\ List[1] = "claims" /\ List[2] = "slices" /\ List[3] = "pods"
        /\ List[4] = "get" /\ List[5] = "classes"
    BY ListsSpelledOut DEF List
  <2>2. reads = <<>> => m = 5
    BY <1>2, <2>1
  <2>3. reads = <<>> \/ seen["get"] # NotRead
    BY DEF Returned
  <2>4. m >= 4
    BY <1>2, <2>1, <2>2, <2>3
  <2>5. QED
    BY <1>2, <2>1, <2>2, <2>4
<1>5. op.kind = "orphans" =>
          NotRead \notin {seen["claims"], seen["slices"], seen["pods"]}
  <2> SUFFICES ASSUME op.kind = "orphans"
               PROVE  NotRead \notin {seen["claims"], seen["slices"], seen["pods"]}
    OBVIOUS
  <2>1. /\ Len(List) = 3
        /\ List[1] = "claims" /\ List[2] = "slices" /\ List[3] = "pods"
    BY ListsSpelledOut DEF List
  <2>2. reads = <<>> /\ m = 3
    BY <1>2, <2>1 DEF Returned
  <2>3. QED
    BY <1>2, <2>1, <2>2
<1>6. op.kind = "references" => \/ Failed \in {seen["pods"], seen["claims"]}
                                \/ NotRead \notin {seen["pods"], seen["claims"]}
  <2> SUFFICES ASSUME op.kind = "references", Failed \notin {seen["pods"], seen["claims"]}
               PROVE  NotRead \notin {seen["pods"], seen["claims"]}
    OBVIOUS
  <2>1. Len(List) = 2 /\ List[1] = "pods" /\ List[2] = "claims"
    BY ListsSpelledOut DEF List
  <2>2. reads = <<>> /\ m = 2
    BY <1>2, <2>1 DEF Returned
  <2>3. QED
    BY <1>2, <2>1, <2>2
<1>7. op.kind = "slices" => \/ seen["slices"] = Failed
                            \/ NotRead \notin {seen["slices"], seen["nodes"]}
  <2> SUFFICES ASSUME op.kind = "slices", seen["slices"] # Failed
               PROVE  NotRead \notin {seen["slices"], seen["nodes"]}
    OBVIOUS
  <2>1. Len(List) = 2 /\ List[1] = "slices" /\ List[2] = "nodes"
    BY ListsSpelledOut DEF List
  <2>2. reads = <<>> /\ m = 2
    BY <1>2, <2>1 DEF Returned
  <2>3. QED
    BY <1>2, <2>1, <2>2
<1>8. QED
  BY <1>3, <1>4, <1>5, <1>6, <1>7

\* What is known of a claim or a slice in a list.
LEMMA ListedTyped ==
    ASSUME TypeInv
    PROVE  /\ seen["claims"] # NotRead =>
                  \A c \in Listed("claims") :
                      /\ c \in Claims /\ seen["claims"][c] \in Claim
                      /\ IsAllocated(c) => seen["claims"][c].alloc \in Allocations
           /\ seen["slices"] # NotRead => Listed("slices") \subseteq Slices
<1>1. seen["claims"] \in {Failed, NotRead} \/ IsPartial(seen["claims"], Claims, Claim)
  BY DEF TypeInv, IsValue, Resources
<1>2. seen["slices"] \in {Failed, NotRead} \/ IsPartial(seen["slices"], Slices, Condition)
  BY DEF TypeInv, IsValue, Resources
<1>3. ASSUME NEW x \in Claim PROVE HasResults(x.alloc) => x.alloc \in Allocations
  BY DEF Claim, HasResults
<1>4. QED
  BY <1>1, <1>2, <1>3 DEF Listed, IsPartial, IsAllocated

\* A result shown in the graph is of a listed claim that holds the slice.
LEMMA ShownResultFacts ==
    ASSUME NEW r \in ShownResults
    PROVE  /\ r = <<r[1], r[2]>>
           /\ r[1] \in ShownClaims /\ r[1] \in Listed("claims") /\ IsAllocated(r[1])
           /\ r[2] \in seen["claims"][r[1]].alloc.slices
           /\ op.driver \in {AnyValue, Spec[r[2]].driver}
BY DEF ShownResults, ShownClaims

\* What the graph draws for an allocation is certain, however the names of devices
\* coincide and whatever requirements the selectors have.
THEOREM GraphIsCertainHolds == ViewSpec => []GraphIsCertain
<1>1. TypeInv => GraphIsCertain
  <2> SUFFICES ASSUME TypeInv, Answered("graph") PROVE
                 /\ \A r \in ShownResults : DeviceIsHeld(r)
                 /\ \A c \in ShownClaims : NodeIsTheOnlyOne(c)
    BY DEF GraphIsCertain
  <2>1. seen["claims"] # NotRead /\ seen["slices"] # NotRead
    BY ReadWhenReturned DEF Answered
  <2>2. ASSUME NEW r \in ShownResults, Resolved(r[1], r[2])
        PROVE  Target(r[1], r[2]) = DeviceID(r[2])
    <3>1. /\ r[1] \in Listed("claims") /\ IsAllocated(r[1])
          /\ r[2] \in seen["claims"][r[1]].alloc.slices
      BY ShownResultFacts
    <3>2. seen["claims"][r[1]].alloc \in Allocations
      BY <2>1, <3>1, ListedTyped
    <3>3. PICK t \in Listed("slices") :
              /\ Matches(seen["claims"][r[1]].alloc, r[2], t)
              /\ Target(r[1], r[2]) = DeviceID(t)
      BY <2>2, ResolvedTarget DEF Candidates
    <3>4. t \in Slices
      BY <2>1, ListedTyped
    <3>5. t = r[2]
      BY <3>1, <3>2, <3>3, <3>4, MatchesIsSame
    <3>6. QED
      BY <3>3, <3>5
  <2>3. ASSUME NEW c \in ShownClaims PROVE NodeIsTheOnlyOne(c)
    <3> SUFFICES ASSUME NEW n \in AllocationNodes(c), NEW m \in Nodes,
                        NEW t \in seen["claims"][c].alloc.terms, Admits(t, m)
                 PROVE  m = n
      BY DEF NodeIsTheOnlyOne
    <3>1. /\ IsAllocated(c)
          /\ n = AllocationNodeName(seen["claims"][c].alloc) /\ n # NoNode
      BY DEF AllocationNodes
    <3>2. c \in Listed("claims")
      BY DEF ShownClaims
    <3>3. seen["claims"][c].alloc \in Allocations
      BY <2>1, <3>1, <3>2, ListedTyped
    <3>4. QED
      BY <3>1, <3>3, NodeIsAdmitted
  <2>4. QED
    BY <2>2, <2>3 DEF DeviceIsHeld
<1>2. QED
  BY <1>1, InductiveInvariant, PTL DEF IInv
-----------------------------------------------------------------------------
(* The reports.                                                            *)

\* The faults of a cluster, one kind at a time.
LEMMA FaultsSpelledOut ==
    ASSUME NEW w, NEW fault
    PROVE  fault \in Faults(w) <=>
             \/ \E c \in DOMAIN w.claims :
                    fault = <<"orphan", c>> /\ \A p \in w.pods : ~Uses(p, c)
             \/ \E p \in w.pods :
                    fault = <<"dangling", p>> /\ \E n \in Named[p] : ~Exists(w, p, n)
             \/ \E p \in w.pods : \E c \in DOMAIN w.claims :
                    /\ fault = <<"unreserved", p>>
                    /\ Namespace[c] = Namespace[p] /\ Name[c] \in Named[p]
                    /\ p \notin w.claims[c].reserved
             \/ \E c \in DOMAIN w.claims : \E s \in w.claims[c].alloc.slices :
                    /\ fault = <<"unpublished", c, s>>
                    /\ HasResults(w.claims[c].alloc) /\ s \notin DOMAIN w.slices
             \/ \E c \in DOMAIN w.claims : \E k \in Requested[c] :
                    fault = <<"classless", c, k>> /\ k \notin w.classes
             \/ \E c \in DOMAIN w.claims :
                    fault = <<"pending", c>> /\ ~HasResults(w.claims[c].alloc)
             \/ \E c \in DOMAIN w.claims :
                    fault = <<"unconsumed", c>> /\ w.claims[c].reserved = {}
             \/ \E c \in DOMAIN w.claims :
                    fault = <<"deviceless", c>> /\ DOMAIN w.slices = {}
             \/ \E c \in DOMAIN w.claims :
                    fault = <<"allocated", c>> /\ HasResults(w.claims[c].alloc)
             \/ \E s \in DOMAIN w.slices :
                    /\ fault = <<"stale", s>>
                    /\ Spec[s].node # NoNode /\ Spec[s].node \notin DOMAIN w.nodes
             \/ \E s \in DOMAIN w.slices :
                    /\ fault = <<"unready", s>>
                    /\ Spec[s].node \in DOMAIN w.nodes /\ ~w.nodes[Spec[s].node]
             \/ \E s \in DOMAIN w.slices :
                    fault = <<"unhealthy", s>> /\ w.slices[s] # "healthy"
<1> DEFINE A == {<<"orphan", c>> : c \in {c \in DOMAIN w.claims :
                                            \A p \in w.pods : ~Uses(p, c)}}
           B == {<<"dangling", p>> : p \in {p \in w.pods : \E n \in Named[p] :
                                                              ~Exists(w, p, n)}}
           C == {<<"unreserved", p>> : p \in {p \in w.pods :
                    \E c \in DOMAIN w.claims :
                        /\ Namespace[c] = Namespace[p] /\ Name[c] \in Named[p]
                        /\ p \notin w.claims[c].reserved}}
           D == UNION {{<<"unpublished", c, s>> : s \in w.claims[c].alloc.slices
                                                            \ DOMAIN w.slices} :
                       c \in {c \in DOMAIN w.claims : HasResults(w.claims[c].alloc)}}
           E == UNION {{<<"classless", c, k>> : k \in Requested[c] \ w.classes} :
                       c \in DOMAIN w.claims}
           F == {<<"pending", c>> : c \in {c \in DOMAIN w.claims :
                                             ~HasResults(w.claims[c].alloc)}}
           G == {<<"unconsumed", c>> : c \in {c \in DOMAIN w.claims :
                                                w.claims[c].reserved = {}}}
           H == {<<"deviceless", c>> : c \in {c \in DOMAIN w.claims :
                                                DOMAIN w.slices = {}}}
           I == {<<"allocated", c>> : c \in {c \in DOMAIN w.claims :
                                               HasResults(w.claims[c].alloc)}}
           J == {<<"stale", s>> : s \in {s \in DOMAIN w.slices :
                    Spec[s].node \notin DOMAIN w.nodes \union {NoNode}}}
           K == {<<"unready", s>> : s \in {s \in DOMAIN w.slices :
                    Spec[s].node \in DOMAIN w.nodes /\ ~w.nodes[Spec[s].node]}}
           L == {<<"unhealthy", s>> : s \in {s \in DOMAIN w.slices :
                                               w.slices[s] # "healthy"}}
<1>0. fault \in Faults(w) <=> \/ fault \in A \/ fault \in B \/ fault \in C
                              \/ fault \in D \/ fault \in E \/ fault \in F
                              \/ fault \in G \/ fault \in H \/ fault \in I
                              \/ fault \in J \/ fault \in K \/ fault \in L
  <2>1. Faults(w) = A \union B \union C \union D \union E \union F \union G
                      \union H \union I \union J \union K \union L
    BY Zenon DEF Faults
  <2> HIDE DEF A, B, C, D, E, F, G, H, I, J, K, L
  <2>2. QED
    BY <2>1
<1>1. fault \in A <=> \E c \in DOMAIN w.claims :
                          fault = <<"orphan", c>> /\ \A p \in w.pods : ~Uses(p, c)
  OBVIOUS
<1>2. fault \in B <=> \E p \in w.pods :
                          fault = <<"dangling", p>> /\ \E n \in Named[p] : ~Exists(w, p, n)
  OBVIOUS
<1>3. fault \in C <=> \E p \in w.pods : \E c \in DOMAIN w.claims :
                          /\ fault = <<"unreserved", p>>
                          /\ Namespace[c] = Namespace[p] /\ Name[c] \in Named[p]
                          /\ p \notin w.claims[c].reserved
  OBVIOUS
<1>4. fault \in D <=>
          \E c \in DOMAIN w.claims : \E s \in w.claims[c].alloc.slices :
              /\ fault = <<"unpublished", c, s>>
              /\ HasResults(w.claims[c].alloc) /\ s \notin DOMAIN w.slices
  OBVIOUS
<1>5. fault \in E <=> \E c \in DOMAIN w.claims : \E k \in Requested[c] :
                          fault = <<"classless", c, k>> /\ k \notin w.classes
  OBVIOUS
<1>6. fault \in F <=> \E c \in DOMAIN w.claims :
                          fault = <<"pending", c>> /\ ~HasResults(w.claims[c].alloc)
  OBVIOUS
<1>7. fault \in G <=> \E c \in DOMAIN w.claims :
                          fault = <<"unconsumed", c>> /\ w.claims[c].reserved = {}
  OBVIOUS
<1>8. fault \in H <=> \E c \in DOMAIN w.claims :
                          fault = <<"deviceless", c>> /\ DOMAIN w.slices = {}
  OBVIOUS
<1>9. fault \in I <=> \E c \in DOMAIN w.claims :
                          fault = <<"allocated", c>> /\ HasResults(w.claims[c].alloc)
  OBVIOUS
<1>10. fault \in J <=>
          \E s \in DOMAIN w.slices :
              /\ fault = <<"stale", s>>
              /\ Spec[s].node # NoNode /\ Spec[s].node \notin DOMAIN w.nodes
  OBVIOUS
<1>11. fault \in K <=>
          \E s \in DOMAIN w.slices :
              /\ fault = <<"unready", s>>
              /\ Spec[s].node \in DOMAIN w.nodes /\ ~w.nodes[Spec[s].node]
  OBVIOUS
<1>12. fault \in L <=> \E s \in DOMAIN w.slices :
                           fault = <<"unhealthy", s>> /\ w.slices[s] # "healthy"
  OBVIOUS
<1> HIDE DEF A, B, C, D, E, F, G, H, I, J, K, L
<1>13. QED
  BY <1>0, <1>1, <1>2, <1>3, <1>4, <1>5, <1>6, <1>7, <1>8, <1>9, <1>10, <1>11, <1>12, Zenon

\* The order of the lists that the reports depend on.
LEMMA OrderOfLists ==
    /\ op.kind = "graph" => Before("claims", "slices") /\ Before("claims", "classes")
    /\ op.kind = "explain" =>
           /\ Before("claims", "slices") /\ Before("claims", "get")
           /\ Before("claims", "classes")
    /\ op.kind = "orphans" => Before("claims", "pods")
    /\ op.kind = "references" => Before("pods", "claims")
    /\ op.kind = "slices" => Before("slices", "nodes")
<1>1. op.kind = "graph" => Before("claims", "slices") /\ Before("claims", "classes")
  <2> SUFFICES ASSUME op.kind = "graph"
               PROVE  Before("claims", "slices") /\ Before("claims", "classes")
    OBVIOUS
  <2>1. /\ Len(List) = 4
        /\ List[1] = "claims" /\ List[2] = "slices" /\ List[4] = "classes"
    BY ListsSpelledOut DEF List
  <2>2. QED
    BY <2>1 DEF Before
<1>2. op.kind = "explain" => /\ Before("claims", "slices") /\ Before("claims", "get")
                             /\ Before("claims", "classes")
  <2> SUFFICES ASSUME op.kind = "explain"
               PROVE  /\ Before("claims", "slices") /\ Before("claims", "get")
                      /\ Before("claims", "classes")
    OBVIOUS
  <2>1. /\ Len(List) = 5
        /\ List[1] = "claims" /\ List[2] = "slices" /\ List[4] = "get" /\ List[5] = "classes"
    BY ListsSpelledOut DEF List
  <2>2. QED
    BY <2>1 DEF Before
<1>3. op.kind = "orphans" => Before("claims", "pods")
  <2> SUFFICES ASSUME op.kind = "orphans" PROVE Before("claims", "pods")
    OBVIOUS
  <2>1. Len(List) = 3 /\ List[1] = "claims" /\ List[3] = "pods"
    BY ListsSpelledOut DEF List
  <2>2. QED
    BY <2>1 DEF Before
<1>4. op.kind = "references" => Before("pods", "claims")
  <2> SUFFICES ASSUME op.kind = "references" PROVE Before("pods", "claims")
    OBVIOUS
  <2>1. Len(List) = 2 /\ List[1] = "pods" /\ List[2] = "claims"
    BY ListsSpelledOut DEF List
  <2>2. QED
    BY <2>1 DEF Before
<1>5. op.kind = "slices" => Before("slices", "nodes")
  <2> SUFFICES ASSUME op.kind = "slices" PROVE Before("slices", "nodes")
    OBVIOUS
  <2>1. Len(List) = 2 /\ List[1] = "slices" /\ List[2] = "nodes"
    BY ListsSpelledOut DEF List
  <2>2. QED
    BY <2>1 DEF Before
<1>6. QED
  BY <1>1, <1>2, <1>3, <1>4, <1>5

\* A list that was made and did not fail has its moment.
LEMMA MomentOf ==
    ASSUME IInv, NEW r \in Resources, seen[r] # NotRead, seen[r] # Failed
    PROVE  \E w : Moment(r, w)
BY DEF IInv, MomentInv

\* A claim that was listed before r and has not changed was there at the moment of r.
LEMMA ClaimStayed ==
    ASSUME NEW r, NEW w, Moment(r, w), Before("claims", r), seen["claims"] # NotRead,
           NEW c \in Listed("claims"), c \notin touched
    PROVE  c \in DOMAIN w.claims /\ w.claims[c] = seen["claims"][c]
BY DEF Moment, SameClaims

\* The same for a slice.
LEMMA SliceStayed ==
    ASSUME NEW r, NEW w, Moment(r, w), Before("slices", r), seen["slices"] # NotRead,
           NEW s \in Listed("slices"), s \notin touched
    PROVE  s \in DOMAIN w.slices /\ w.slices[s] = seen["slices"][s]
BY DEF Moment, SameSlices

\* The same for a pod.
LEMMA PodStayed ==
    ASSUME NEW r, NEW w, Moment(r, w), Before("pods", r), seen["pods"] # NotRead,
           NEW p \in ListedPods, p \notin touched
    PROVE  p \in w.pods
BY DEF Moment, SamePods

\* A fault of the cluster at a moment was seen by the history.
LEMMA FaultThen ==
    ASSUME NEW r, NEW w, Moment(r, w), NEW fault \in Faults(w), Concern(op, w, fault)
    PROVE  fault \in ever
BY DEF Moment, Relevant

\* The reasons why a reported fault need not have been true.
Excused(fault) ==
    \/ fault[2] \in touched
    \/ HiddenFailure(fault)
    \/ NodelessResult(fault)
    \/ TemplateClaim(fault)

\* Orphans: the claim stayed until the pods were listed, and none of them uses it.
LEMMA OrphansTrue ==
    ASSUME IInv, Returned, op.kind = "orphans", NEW fault \in OrphanReport
    PROVE  fault \in ever \/ Excused(fault)
<1>1. PICK c \in Listed("claims") : fault = <<"orphan", c>> /\ Owners(c) = {}
  BY DEF OrphanReport
<1>2. fault[1] = "orphan" /\ fault[2] = c
  BY <1>1
<1>3. seen["claims"] # NotRead /\ seen["pods"] # NotRead
  BY ReadWhenReturned DEF IInv
<1> SUFFICES ASSUME ~Excused(fault) PROVE fault \in ever
  OBVIOUS
<1>4. c \notin touched /\ seen["pods"] # Failed /\ ~TemplateClaim(fault)
  BY <1>2 DEF Excused, HiddenFailure
<1>5. PICK w : Moment("pods", w)
  BY <1>3, <1>4, MomentOf DEF Resources
<1>6. c \in DOMAIN w.claims
  BY <1>3, <1>4, <1>5, ClaimStayed, OrderOfLists
<1>7. w.pods = ListedPods /\ w.pods \subseteq Pods
  BY <1>4, <1>5 DEF Moment, ListedPods, IsCluster
<1>8. ASSUME NEW p \in w.pods, Uses(p, c) PROVE FALSE
  <2>1. Name[c] \notin Named[p] \union Guessed[p]
    BY <1>1, <1>7, <1>8 DEF Owners, Uses
  <2>2. QED
    BY <1>2, <1>4, <1>7, <1>8, <2>1 DEF TemplateClaim, Uses
<1>9. fault \in Faults(w)
  BY <1>1, <1>6, <1>8, FaultsSpelledOut
<1>10. Concern(op, w, fault)
  BY <1>2 DEF Concern
<1>11. QED
  BY <1>5, <1>9, <1>10, FaultThen

\* References: the pod stayed until the claims were listed.
LEMMA ReferencesTrue ==
    ASSUME IInv, Returned, op.kind = "references", NEW fault \in ReferenceReport
    PROVE  fault \in ever \/ Excused(fault)
<1>1. seen["pods"] # Failed /\ seen["claims"] # Failed
  BY DEF ReferenceReport
<1>2. seen["pods"] # NotRead /\ seen["claims"] # NotRead
  BY <1>1, ReadWhenReturned DEF IInv
<1>3. PICK w : Moment("claims", w)
  BY <1>1, <1>2, MomentOf DEF Resources
<1>4. w.claims = seen["claims"] /\ DOMAIN w.claims = Listed("claims")
  BY <1>1, <1>3 DEF Moment, Listed
<1>5. PICK p \in ListedPods :
          \/ /\ fault = <<"dangling", p>>
             /\ \E n \in Named[p] : {c \in Listed("claims") :
                    Namespace[c] = Namespace[p] /\ Name[c] = n} = {}
          \/ /\ fault = <<"unreserved", p>>
             /\ \E n \in Named[p] : \E c \in {c \in Listed("claims") :
                    Namespace[c] = Namespace[p] /\ Name[c] = n} :
                        p \notin seen["claims"][c].reserved
  BY <1>1 DEF ReferenceReport
<1> SUFFICES ASSUME ~Excused(fault) PROVE fault \in ever
  OBVIOUS
<1>6. fault[2] = p /\ fault[1] \in {"dangling", "unreserved"}
  BY <1>5
<1>7. p \in w.pods
  BY <1>2, <1>3, <1>6, PodStayed, OrderOfLists DEF Excused
<1>8. fault \in Faults(w)
  <2>1. CASE /\ fault = <<"dangling", p>>
             /\ \E n \in Named[p] : {c \in Listed("claims") :
                    Namespace[c] = Namespace[p] /\ Name[c] = n} = {}
    <3>1. \E n \in Named[p] : ~Exists(w, p, n)
      BY <1>4, <2>1 DEF Exists
    <3>2. QED
      BY <1>7, <2>1, <3>1, FaultsSpelledOut
  <2>2. CASE /\ fault = <<"unreserved", p>>
             /\ \E n \in Named[p] : \E c \in {c \in Listed("claims") :
                    Namespace[c] = Namespace[p] /\ Name[c] = n} :
                        p \notin seen["claims"][c].reserved
    <3>1. \E c \in DOMAIN w.claims : /\ Namespace[c] = Namespace[p] /\ Name[c] \in Named[p]
                                     /\ p \notin w.claims[c].reserved
      BY <1>4, <2>2
    <3>2. QED
      BY <1>7, <2>2, <3>1, FaultsSpelledOut
  <2>3. QED
    BY <1>5, <2>1, <2>2
<1>9. Concern(op, w, fault)
  BY <1>6 DEF Concern
<1>10. QED
  BY <1>3, <1>8, <1>9, FaultThen

\* Slices: a slice with a bad node stayed until the nodes were listed.
LEMMA SlicesTrue ==
    ASSUME IInv, Returned, op.kind = "slices", NEW fault \in SliceReport
    PROVE  fault \in ever \/ Excused(fault)
<1> SUFFICES ASSUME ~Excused(fault) PROVE fault \in ever
  OBVIOUS
<1>1. PICK s \in Listed("slices") :
          \/ /\ fault = <<"stale", s>> /\ Spec[s].node # NoNode
             /\ Listed("nodes") # {} /\ Spec[s].node \notin Listed("nodes")
          \/ /\ fault = <<"unready", s>>
             /\ Spec[s].node \in Listed("nodes") /\ ~seen["nodes"][Spec[s].node]
          \/ fault = <<"unhealthy", s>> /\ seen["slices"][s] # "healthy"
  BY DEF SliceReport
<1>2. fault[2] = s /\ fault[1] \in {"stale", "unready", "unhealthy"}
  BY <1>1
<1>3. seen["slices"] # Failed /\ s \notin touched
  BY <1>1, <1>2 DEF Listed, Excused
<1>4. seen["slices"] # NotRead /\ seen["nodes"] # NotRead
  BY <1>3, ReadWhenReturned DEF IInv
<1>5. \A w : Concern(op, w, fault)
  BY <1>2 DEF Concern
<1>6. CASE fault = <<"unhealthy", s>> /\ seen["slices"][s] # "healthy"
  <2>1. PICK w : Moment("slices", w)
    BY <1>3, <1>4, MomentOf DEF Resources
  <2>2. w.slices = seen["slices"]
    BY <2>1 DEF Moment
  <2>3. s \in DOMAIN w.slices
    BY <1>3, <2>2 DEF Listed
  <2>4. fault \in Faults(w)
    BY <1>6, <2>2, <2>3, FaultsSpelledOut
  <2>5. QED
    BY <1>5, <2>1, <2>4, FaultThen
<1>7. CASE fault[1] # "unhealthy"
  <2>1. seen["nodes"] # Failed
    BY <1>1, <1>7 DEF Listed
  <2>2. PICK w : Moment("nodes", w)
    BY <1>4, <2>1, MomentOf DEF Resources
  <2>3. w.nodes = seen["nodes"] /\ DOMAIN w.nodes = Listed("nodes")
    BY <2>1, <2>2 DEF Moment, Listed
  <2>4. s \in DOMAIN w.slices
    BY <1>3, <1>4, <2>2, SliceStayed, OrderOfLists
  <2>5. fault \in Faults(w)
    <3>1. CASE /\ fault = <<"stale", s>> /\ Spec[s].node # NoNode
               /\ Spec[s].node \notin Listed("nodes")
      BY <2>3, <2>4, <3>1, FaultsSpelledOut
    <3>2. CASE /\ fault = <<"unready", s>>
               /\ Spec[s].node \in Listed("nodes") /\ ~seen["nodes"][Spec[s].node]
      BY <2>3, <2>4, <3>2, FaultsSpelledOut
    <3>3. QED
      BY <1>1, <1>7, <3>1, <3>2
  <2>6. QED
    BY <1>5, <2>2, <2>5, FaultThen
<1>8. QED
  BY <1>1, <1>6, <1>7

\* A result resolves to its device if that is listed, and not at all if it is not.
LEMMA ResolvesToItself ==
    ASSUME TypeInv, seen["claims"] # NotRead, seen["slices"] # NotRead,
           NEW c \in Listed("claims"), IsAllocated(c),
           NEW s \in seen["claims"][c].alloc.slices
    PROVE  /\ s \notin Listed("slices") => ~Resolved(c, s)
           /\ s \in Listed("slices")
              /\ (Spec[s].node = NoNode => AllocationNodes(c) = {}) => Resolved(c, s)
<1> DEFINE a == seen["claims"][c].alloc
<1>1. a \in Allocations /\ Listed("slices") \subseteq Slices
  BY ListedTyped
<1>2. \A t \in Listed("slices") :
          Matches(a, s, t) <=>
              t = s /\ (Spec[s].node = NoNode => AllocationNodeName(a) = NoNode)
  BY <1>1, MatchesIsSame
<1>3. Candidates(c, s) = {DeviceID(t) : t \in {t \in Listed("slices") : Matches(a, s, t)}}
  BY DEF Candidates
<1> HIDE DEF a
<1>4. ASSUME s \notin Listed("slices") PROVE ~Resolved(c, s)
  <2>1. Candidates(c, s) = {}
    BY <1>2, <1>3, <1>4
  <2>2. QED
    BY <2>1, FS_EmptySet DEF Resolved
<1>5. ASSUME s \in Listed("slices"), Spec[s].node = NoNode => AllocationNodes(c) = {}
      PROVE  Resolved(c, s)
  <2>1. AllocationNodes(c) = {} => AllocationNodeName(a) = NoNode
    BY DEF AllocationNodes, a
  <2>2. \A t \in Listed("slices") : Matches(a, s, t) <=> t = s
    BY <1>2, <1>5, <2>1
  <2>3. Candidates(c, s) = {DeviceID(s)}
    BY <1>3, <1>5, <2>2
  <2>4. QED
    BY <2>3, FS_Singleton DEF Resolved
<1>6. QED
  BY <1>4, <1>5

\* The two kinds of faults that the graph shows.
LEMMA GraphReportSpelledOut ==
    ASSUME NEW fault
    PROVE  fault \in GraphReport <=>
             \/ \E r \in ShownResults : /\ fault = <<"unpublished", r[1], r[2]>>
                                        /\ ~Resolved(r[1], r[2])
             \/ \E c \in ShownClaims : \E k \in Requested[c] :
                    fault = <<"classless", c, k>> /\ k \notin ListedClasses
<1> DEFINE A == {<<"unpublished", r[1], r[2]>> : r \in {r \in ShownResults :
                                                          ~Resolved(r[1], r[2])}}
           B == UNION {{<<"classless", c, k>> : k \in Requested[c] \ ListedClasses} :
                       c \in ShownClaims}
<1>1. GraphReport = A \union B
  BY Zenon DEF GraphReport
<1>2. fault \in A <=> \E r \in ShownResults : /\ fault = <<"unpublished", r[1], r[2]>>
                                              /\ ~Resolved(r[1], r[2])
  OBVIOUS
<1>3. fault \in B <=> \E c \in ShownClaims : \E k \in Requested[c] :
                          fault = <<"classless", c, k>> /\ k \notin ListedClasses
  OBVIOUS
<1> HIDE DEF A, B
<1>4. QED
  BY <1>1, <1>2, <1>3

\* Graph: a claim without its device or class stayed until that was listed.
LEMMA GraphTrue ==
    ASSUME IInv, Returned, op.kind = "graph", NEW fault \in GraphReport
    PROVE  fault \in ever \/ Excused(fault)
<1> SUFFICES ASSUME ~Excused(fault) PROVE fault \in ever
  OBVIOUS
<1>0. TypeInv
  BY DEF IInv
<1>1. /\ seen["claims"] # NotRead /\ seen["slices"] # NotRead /\ seen["classes"] # NotRead
  BY <1>0, ReadWhenReturned
<1>2. ASSUME NEW r \in ShownResults, fault = <<"unpublished", r[1], r[2]>>,
             ~Resolved(r[1], r[2])
      PROVE  fault \in ever
  <2>1. PICK c, s : c = r[1] /\ s = r[2]
    OBVIOUS
  <2>2. fault[1] = "unpublished" /\ fault[2] = c /\ fault[3] = s
    BY <1>2, <2>1
  <2>3. /\ c \in Listed("claims") /\ IsAllocated(c)
        /\ s \in seen["claims"][c].alloc.slices
        /\ op.driver \in {AnyValue, Spec[s].driver}
        /\ op.namespace \in {AnyValue, Namespace[c]}
    BY <2>1, ShownResultFacts DEF ShownClaims
  <2>4. /\ c \notin touched /\ seen["slices"] # Failed
        /\ Spec[s].node = NoNode => AllocationNodes(c) = {}
    BY <2>2 DEF Excused, HiddenFailure, NodelessResult
  <2>5. s \notin Listed("slices")
    BY <1>0, <1>1, <1>2, <2>1, <2>3, <2>4, ResolvesToItself
  <2>6. PICK w : Moment("slices", w)
    BY <1>1, <2>4, MomentOf DEF Resources
  <2>7. c \in DOMAIN w.claims /\ w.claims[c] = seen["claims"][c]
    BY <1>1, <2>3, <2>4, <2>6, ClaimStayed, OrderOfLists
  <2>8. s \notin DOMAIN w.slices
    BY <2>4, <2>5, <2>6 DEF Moment, Listed
  <2>9. fault \in Faults(w)
    BY <1>2, <2>1, <2>3, <2>7, <2>8, FaultsSpelledOut DEF IsAllocated
  <2>10. Concern(op, w, fault)
    BY <2>2, <2>3 DEF Concern
  <2>11. QED
    BY <2>6, <2>9, <2>10, FaultThen
<1>3. ASSUME NEW c \in ShownClaims, NEW k \in Requested[c],
             fault = <<"classless", c, k>>, k \notin ListedClasses
      PROVE  fault \in ever
  <2>1. fault[1] = "classless" /\ fault[2] = c
    BY <1>3
  <2>2. c \in Listed("claims") /\ op.namespace \in {AnyValue, Namespace[c]}
    BY DEF ShownClaims
  <2>3. c \notin touched /\ seen["classes"] # Failed
    BY <2>1 DEF Excused, HiddenFailure
  <2>4. PICK w : Moment("classes", w)
    BY <1>1, <2>3, MomentOf DEF Resources
  <2>5. c \in DOMAIN w.claims
    BY <1>1, <2>2, <2>3, <2>4, ClaimStayed, OrderOfLists
  <2>6. k \notin w.classes
    BY <1>3, <2>3, <2>4 DEF Moment, ListedClasses
  <2>7. fault \in Faults(w)
    BY <1>3, <2>5, <2>6, FaultsSpelledOut
  <2>8. Concern(op, w, fault)
    BY <2>1, <2>2 DEF Concern
  <2>9. QED
    BY <2>4, <2>7, <2>8, FaultThen
<1>4. QED
  BY <1>2, <1>3, GraphReportSpelledOut

\* What the explanation of a claim may say.
LEMMA ExplainReportSpelledOut ==
    ASSUME NEW fault
    PROVE  fault \in ExplainReport <=>
             /\ ~ExplainFails
             /\ \/ IsAllocated(op.claim) /\ fault = <<"allocated", op.claim>>
                \/ /\ ~IsAllocated(op.claim)
                   /\ \/ fault = <<"pending", op.claim>>
                      \/ \E k \in Requested[op.claim] :
                             fault = <<"classless", op.claim, k>> /\ k \notin ListedClasses
                      \/ fault = <<"deviceless", op.claim>> /\ Listed("slices") = {}
                      \/ fault = <<"unconsumed", op.claim>> /\ seen["get"].reserved = {}
BY DEF ExplainReport

\* Explanation: the claim stayed until what it lacks was listed.
LEMMA ExplainTrue ==
    ASSUME IInv, Returned, op.kind = "explain", NEW fault \in ExplainReport
    PROVE  fault \in ever \/ Excused(fault)
<1> SUFFICES ASSUME ~Excused(fault) PROVE fault \in ever
  OBVIOUS
<1> DEFINE c == op.claim
<1>0. TypeInv
  BY DEF IInv
<1>1. /\ seen["claims"] # NotRead /\ seen["slices"] # NotRead /\ seen["get"] # NotRead
      /\ reads = <<>> => seen["classes"] # NotRead
  BY <1>0, ReadWhenReturned
<1>2. ~ExplainFails /\ c \in Listed("claims") /\ seen["get"] # Failed
  BY ExplainReportSpelledOut DEF ExplainFails
<1>3. seen["claims"] # Failed
  BY <1>2 DEF Listed
<1>4. fault[2] = c
  BY ExplainReportSpelledOut
<1>5. c \notin touched /\ ~HiddenFailure(fault)
  BY <1>4 DEF Excused
<1>6. \A r, w : Moment(r, w) /\ Before("claims", r) =>
          c \in DOMAIN w.claims /\ w.claims[c] = seen["claims"][c]
  BY <1>1, <1>2, <1>5, ClaimStayed
<1>7. CASE fault \in {<<"allocated", c>>, <<"pending", c>>}
  <2>1. PICK w : Moment("claims", w)
    BY <1>1, <1>3, MomentOf DEF Resources
  <2>2. c \in DOMAIN w.claims /\ w.claims[c] = seen["claims"][c]
    BY <1>2, <1>3, <2>1 DEF Moment, Listed
  <2>3. \/ fault = <<"allocated", c>> /\ HasResults(w.claims[c].alloc)
        \/ fault = <<"pending", c>> /\ ~HasResults(w.claims[c].alloc)
    BY <1>7, <2>2, ExplainReportSpelledOut DEF IsAllocated
  <2>4. fault \in Faults(w)
    BY <2>2, <2>3, FaultsSpelledOut
  <2>5. Concern(op, w, fault)
    BY <2>3 DEF Concern
  <2>6. QED
    BY <2>1, <2>4, <2>5, FaultThen
<1>8. CASE fault \notin {<<"allocated", c>>, <<"pending", c>>}
  <2>1. ~HasResults(seen["claims"][c].alloc)
    BY <1>8, ExplainReportSpelledOut DEF IsAllocated
  <2>2. reads = <<>>
    BY <1>2, <2>1 DEF Returned, IsAllocated
  <2>3. ASSUME NEW k \in Requested[c], fault = <<"classless", c, k>>, k \notin ListedClasses
        PROVE  fault \in ever
    <3>1. fault[1] = "classless"
      BY <2>3
    <3>2. seen["classes"] # Failed /\ seen["classes"] # NotRead
      BY <1>1, <1>5, <2>2, <3>1 DEF HiddenFailure
    <3>3. PICK w : Moment("classes", w)
      BY <3>2, MomentOf DEF Resources
    <3>4. c \in DOMAIN w.claims /\ w.claims[c] = seen["claims"][c]
      BY <1>6, <3>3, OrderOfLists
    <3>5. k \notin w.classes
      BY <2>3, <3>2, <3>3 DEF Moment, ListedClasses
    <3>6. fault \in Faults(w)
      BY <2>3, <3>4, <3>5, FaultsSpelledOut
    <3>7. Concern(op, w, fault)
      BY <1>4, <2>1, <3>1, <3>4 DEF Concern
    <3>8. QED
      BY <3>3, <3>6, <3>7, FaultThen
  <2>4. ASSUME fault = <<"deviceless", c>>, Listed("slices") = {}
        PROVE  fault \in ever
    <3>1. fault[1] = "deviceless"
      BY <2>4
    <3>2. seen["slices"] # Failed
      BY <1>5, <3>1 DEF HiddenFailure
    <3>3. PICK w : Moment("slices", w)
      BY <1>1, <3>2, MomentOf DEF Resources
    <3>4. c \in DOMAIN w.claims /\ w.claims[c] = seen["claims"][c]
      BY <1>6, <3>3, OrderOfLists
    <3>5. DOMAIN w.slices = {}
      BY <2>4, <3>2, <3>3 DEF Moment, Listed
    <3>6. fault \in Faults(w)
      BY <2>4, <3>4, <3>5, FaultsSpelledOut
    <3>7. Concern(op, w, fault)
      BY <1>4, <2>1, <3>1, <3>4 DEF Concern
    <3>8. QED
      BY <3>3, <3>6, <3>7, FaultThen
  <2>5. ASSUME fault = <<"unconsumed", c>>, seen["get"].reserved = {}
        PROVE  fault \in ever
    <3>1. fault[1] = "unconsumed"
      BY <2>5
    <3>2. PICK w : Moment("get", w)
      BY <1>1, <1>2, MomentOf DEF Resources
    <3>3. c \in DOMAIN w.claims /\ w.claims[c] = seen["claims"][c]
      BY <1>6, <3>2, OrderOfLists
    <3>4. w.claims[c].reserved = {}
      BY <2>5, <3>2 DEF Moment
    <3>5. fault \in Faults(w)
      BY <2>5, <3>3, <3>4, FaultsSpelledOut
    <3>6. Concern(op, w, fault)
      BY <1>4, <2>1, <3>1, <3>3 DEF Concern
    <3>7. QED
      BY <3>2, <3>5, <3>6, FaultThen
  <2>6. QED
    BY <1>8, <2>3, <2>4, <2>5, ExplainReportSpelledOut
<1>9. QED
  BY <1>7, <1>8

\* No report mixes the moments of two lists into a fault that an object which stayed
\* as it was never had.
THEOREM FaultsAreTrueOrMootHolds == ViewSpec => []FaultsAreTrueOrMoot
<1>1. IInv => FaultsAreTrueOrMoot
  <2> SUFFICES ASSUME IInv, Returned, NEW fault \in Report
               PROVE  fault \in ever \/ Excused(fault)
    BY DEF FaultsAreTrueOrMoot, Excused
  <2>1. op.kind \in Kinds
    BY ViewsAssumption DEF IInv, TypeInv
  <2>2. CASE op.kind = "graph"
    BY <2>2, GraphTrue DEF Report
  <2>3. CASE op.kind = "explain"
    BY <2>3, ExplainTrue DEF Report
  <2>4. CASE op.kind = "orphans"
    BY <2>4, OrphansTrue DEF Report
  <2>5. CASE op.kind = "references"
    BY <2>5, ReferencesTrue DEF Report
  <2>6. CASE op.kind = "slices"
    BY <2>6, SlicesTrue DEF Report
  <2>7. QED
    BY <2>1, <2>2, <2>3, <2>4, <2>5, <2>6 DEF Kinds
<1>2. QED
  BY <1>1, InductiveInvariant, PTL

\* A fault that lasted held at the moment of every list.
LEMMA LastedThen ==
    ASSUME NEW r, NEW w, Moment(r, w), NEW fault \in always
    PROVE  fault \in Faults(w) /\ Concern(op, w, fault)
BY DEF Moment, Relevant

\* A claim without owner at the moment of the pods is listed without owner.
LEMMA OrphansReported ==
    ASSUME IInv, Returned, op.kind = "orphans", \A r \in Resources : seen[r] # Failed,
           NEW fault \in always
    PROVE  fault \in OrphanReport \/ GuessedClaim(fault)
<1>1. /\ seen["claims"] \notin {NotRead, Failed} /\ seen["pods"] \notin {NotRead, Failed}
  BY ReadWhenReturned DEF IInv, Resources
<1>2. PICK v : Moment("claims", v)
  BY <1>1, MomentOf DEF Resources
<1>3. PICK w : Moment("pods", w)
  BY <1>1, MomentOf DEF Resources
<1>4. fault[1] = "orphan"
  BY <1>2, LastedThen DEF Concern
<1>5. PICK c \in DOMAIN v.claims : fault = <<"orphan", c>>
  BY <1>2, <1>4, LastedThen, FaultsSpelledOut
<1>6. c \in Listed("claims")
  BY <1>1, <1>2, <1>5 DEF Moment, Listed
<1>7. \A p \in w.pods : ~Uses(p, c)
  BY <1>3, <1>4, <1>5, LastedThen, FaultsSpelledOut
<1>8. w.pods = ListedPods /\ w.pods \subseteq Pods
  BY <1>1, <1>3 DEF Moment, ListedPods, IsCluster
<1>9. CASE Owners(c) = {}
  BY <1>5, <1>6, <1>9 DEF OrphanReport
<1>10. CASE Owners(c) # {}
  <2>1. PICK p \in ListedPods : /\ Namespace[p] = Namespace[c]
                                /\ Name[c] \in Named[p] \union Guessed[p]
    BY <1>10 DEF Owners
  <2>2. Name[c] \in Guessed[p] \ (Named[p] \union Generated[p]) /\ p \in Pods
    BY <1>7, <1>8, <2>1 DEF Uses
  <2>3. fault[2] = c
    BY <1>5
  <2>4. QED
    BY <1>4, <2>1, <2>2, <2>3 DEF GuessedClaim
<1>11. QED
  BY <1>9, <1>10

\* A pod with a bad reference was listed, and so were the claims it lacks.
LEMMA ReferencesReported ==
    ASSUME IInv, Returned, op.kind = "references", \A r \in Resources : seen[r] # Failed,
           NEW fault \in always
    PROVE  fault \in ReferenceReport
<1>1. /\ seen["pods"] \notin {NotRead, Failed} /\ seen["claims"] \notin {NotRead, Failed}
  BY ReadWhenReturned DEF IInv, Resources
<1>2. PICK v : Moment("pods", v)
  BY <1>1, MomentOf DEF Resources
<1>3. PICK w : Moment("claims", w)
  BY <1>1, MomentOf DEF Resources
<1>4. fault[1] \in {"dangling", "unreserved"}
  BY <1>2, LastedThen DEF Concern
<1>5. PICK p \in v.pods : fault = <<fault[1], p>>
  BY <1>2, <1>4, LastedThen, FaultsSpelledOut
<1>6. p \in ListedPods
  BY <1>1, <1>2 DEF Moment, ListedPods
<1>7. w.claims = seen["claims"] /\ DOMAIN w.claims = Listed("claims")
  BY <1>1, <1>3 DEF Moment, Listed
<1>8. CASE fault[1] = "dangling"
  <2>1. \E n \in Named[p] : ~Exists(w, p, n)
    BY <1>3, <1>5, <1>8, LastedThen, FaultsSpelledOut
  <2>2. \E n \in Named[p] : {c \in Listed("claims") :
                                Namespace[c] = Namespace[p] /\ Name[c] = n} = {}
    BY <1>7, <2>1 DEF Exists
  <2>3. QED
    BY <1>1, <1>5, <1>6, <1>8, <2>2 DEF ReferenceReport
<1>9. CASE fault[1] = "unreserved"
  <2>1. \E c \in DOMAIN w.claims : /\ Namespace[c] = Namespace[p] /\ Name[c] \in Named[p]
                                   /\ p \notin w.claims[c].reserved
    BY <1>3, <1>5, <1>9, LastedThen, FaultsSpelledOut
  <2>2. \E n \in Named[p] : \E c \in {c \in Listed("claims") :
                                        Namespace[c] = Namespace[p] /\ Name[c] = n} :
            p \notin seen["claims"][c].reserved
    BY <1>7, <2>1
  <2>3. QED
    BY <1>1, <1>5, <1>6, <1>9, <2>2 DEF ReferenceReport
<1>10. QED
  BY <1>4, <1>8, <1>9

\* A slice that is unhealthy, or on a bad node, was listed, and so was its node.
LEMMA SlicesReported ==
    ASSUME IInv, Returned, op.kind = "slices", \A r \in Resources : seen[r] # Failed,
           NEW fault \in always
    PROVE  fault \in SliceReport \/ NoNodeListed(fault)
<1>1. /\ seen["slices"] \notin {NotRead, Failed} /\ seen["nodes"] \notin {NotRead, Failed}
  BY ReadWhenReturned DEF IInv, Resources
<1>2. PICK v : Moment("slices", v)
  BY <1>1, MomentOf DEF Resources
<1>3. PICK w : Moment("nodes", w)
  BY <1>1, MomentOf DEF Resources
<1>4. fault[1] \in {"stale", "unready", "unhealthy"}
  BY <1>2, LastedThen DEF Concern
<1>5. PICK s \in DOMAIN v.slices : fault = <<fault[1], s>>
  BY <1>2, <1>4, LastedThen, FaultsSpelledOut
<1>6. s \in Listed("slices") /\ v.slices = seen["slices"]
  BY <1>1, <1>2, <1>5 DEF Moment, Listed
<1>7. w.nodes = seen["nodes"] /\ DOMAIN w.nodes = Listed("nodes")
  BY <1>1, <1>3 DEF Moment, Listed
<1>8. CASE fault[1] = "stale"
  <2>1. Spec[s].node # NoNode /\ Spec[s].node \notin Listed("nodes")
    BY <1>3, <1>5, <1>7, <1>8, LastedThen, FaultsSpelledOut
  <2>2. QED
    BY <1>5, <1>6, <1>8, <2>1 DEF SliceReport, NoNodeListed
<1>9. CASE fault[1] = "unready"
  <2>1. Spec[s].node \in Listed("nodes") /\ ~seen["nodes"][Spec[s].node]
    BY <1>3, <1>5, <1>7, <1>9, LastedThen, FaultsSpelledOut
  <2>2. QED
    BY <1>5, <1>6, <1>9, <2>1 DEF SliceReport
<1>10. CASE fault[1] = "unhealthy"
  <2>1. seen["slices"][s] # "healthy"
    BY <1>2, <1>5, <1>6, <1>10, LastedThen, FaultsSpelledOut
  <2>2. QED
    BY <1>5, <1>6, <1>10, <2>1 DEF SliceReport
<1>11. QED
  BY <1>4, <1>8, <1>9, <1>10

\* A claim that lacks a device or a class was listed without it.
LEMMA GraphReported ==
    ASSUME IInv, Returned, op.kind = "graph", \A r \in Resources : seen[r] # Failed,
           NEW fault \in always
    PROVE  fault \in GraphReport
<1>0. TypeInv
  BY DEF IInv
<1>1. /\ seen["claims"] \notin {NotRead, Failed} /\ seen["slices"] \notin {NotRead, Failed}
      /\ seen["classes"] \notin {NotRead, Failed}
  BY <1>0, ReadWhenReturned DEF Resources
<1>2. PICK v : Moment("claims", v)
  BY <1>1, MomentOf DEF Resources
<1>3. /\ fault[1] \in {"unpublished", "classless"}
      /\ op.namespace \in {AnyValue, Namespace[fault[2]]}
      /\ fault[1] = "unpublished" => op.driver \in {AnyValue, Spec[fault[3]].driver}
  BY <1>2, LastedThen DEF Concern
<1>4. v.claims = seen["claims"] /\ DOMAIN v.claims = Listed("claims")
  BY <1>1, <1>2 DEF Moment, Listed
<1>5. CASE fault[1] = "unpublished"
  <2>1. PICK c \in DOMAIN v.claims : \E s \in v.claims[c].alloc.slices :
            fault = <<"unpublished", c, s>> /\ HasResults(v.claims[c].alloc)
    BY <1>2, <1>5, LastedThen, FaultsSpelledOut
  <2>2. PICK s \in v.claims[c].alloc.slices :
            fault = <<"unpublished", c, s>> /\ HasResults(v.claims[c].alloc)
    BY <2>1
  <2>3. /\ c \in ShownClaims /\ c \in Listed("claims") /\ IsAllocated(c)
        /\ s \in seen["claims"][c].alloc.slices
        /\ op.driver \in {AnyValue, Spec[s].driver}
    BY <1>3, <1>4, <2>2 DEF ShownClaims, IsAllocated
  <2>4. PICK w : Moment("slices", w)
    BY <1>1, MomentOf DEF Resources
  <2>5. s \notin DOMAIN w.slices
    BY <1>5, <2>2, <2>4, LastedThen, FaultsSpelledOut
  <2>6. s \notin Listed("slices")
    BY <1>1, <2>4, <2>5 DEF Moment, Listed
  <2>7. ~Resolved(c, s)
    BY <1>0, <1>1, <2>3, <2>6, ResolvesToItself
  <2>8. <<c, s>> \in ShownResults
    BY <2>3 DEF ShownResults
  <2>9. PICK r \in ShownResults : r = <<c, s>>
    BY <2>8
  <2>10. fault = <<"unpublished", r[1], r[2]>> /\ ~Resolved(r[1], r[2])
    BY <2>2, <2>7, <2>9
  <2>11. QED
    BY <2>10, GraphReportSpelledOut
<1>6. CASE fault[1] = "classless"
  <2>1. PICK c \in DOMAIN v.claims : \E k \in Requested[c] : fault = <<"classless", c, k>>
    BY <1>2, <1>6, LastedThen, FaultsSpelledOut
  <2>2. PICK k \in Requested[c] : fault = <<"classless", c, k>>
    BY <2>1
  <2>3. c \in ShownClaims
    BY <1>3, <1>4, <2>2 DEF ShownClaims
  <2>4. PICK w : Moment("classes", w)
    BY <1>1, MomentOf DEF Resources
  <2>5. k \notin w.classes
    BY <1>6, <2>2, <2>4, LastedThen, FaultsSpelledOut
  <2>6. k \notin ListedClasses
    BY <1>1, <2>4, <2>5 DEF Moment, ListedClasses
  <2>7. QED
    BY <2>2, <2>3, <2>6, GraphReportSpelledOut
<1>7. QED
  BY <1>3, <1>5, <1>6

\* A claim that lacks something is explained by it.
LEMMA ExplainReported ==
    ASSUME IInv, Returned, op.kind = "explain", \A r \in Resources : seen[r] # Failed,
           NEW fault \in always
    PROVE  fault \in ExplainReport
<1> DEFINE c == op.claim
<1>0. TypeInv
  BY DEF IInv
<1>1. /\ seen["claims"] \notin {NotRead, Failed} /\ seen["slices"] \notin {NotRead, Failed}
      /\ seen["get"] \notin {NotRead, Failed}
      /\ reads = <<>> => seen["classes"] \notin {NotRead, Failed}
  BY <1>0, ReadWhenReturned DEF Resources
<1>2. PICK v : Moment("claims", v)
  BY <1>1, MomentOf DEF Resources
<1>3. /\ fault[1] \in {"pending", "allocated", "classless", "unconsumed", "deviceless"}
      /\ fault[2] = c
      /\ fault[1] = "allocated" \/ ~HasResults(v.claims[c].alloc)
  BY <1>2, LastedThen DEF Concern
<1>4. v.claims = seen["claims"] /\ DOMAIN v.claims = Listed("claims")
  BY <1>1, <1>2 DEF Moment, Listed
<1>5. c \in DOMAIN v.claims
  BY <1>2, <1>3, LastedThen, FaultsSpelledOut
<1>6. ~ExplainFails
  BY <1>1, <1>4, <1>5 DEF ExplainFails
<1>7. CASE fault[1] = "allocated"
  <2>1. fault = <<"allocated", c>> /\ HasResults(v.claims[c].alloc)
    BY <1>2, <1>3, <1>7, LastedThen, FaultsSpelledOut
  <2>2. QED
    BY <1>4, <1>6, <2>1, ExplainReportSpelledOut DEF IsAllocated
<1>8. CASE fault[1] # "allocated"
  <2>1. ~IsAllocated(c)
    BY <1>3, <1>4, <1>8 DEF IsAllocated
  <2>2. reads = <<>>
    BY <1>6, <2>1 DEF Returned
  <2>3. CASE fault[1] = "pending"
    <3>1. fault = <<"pending", c>>
      BY <1>2, <1>3, <2>3, LastedThen, FaultsSpelledOut
    <3>2. QED
      BY <1>6, <2>1, <3>1, ExplainReportSpelledOut
  <2>4. CASE fault[1] = "classless"
    <3>1. PICK w : Moment("classes", w)
      BY <1>1, <2>2, MomentOf DEF Resources
    <3>2. PICK k \in Requested[c] : fault = <<"classless", c, k>> /\ k \notin w.classes
      BY <1>3, <2>4, <3>1, LastedThen, FaultsSpelledOut
    <3>3. k \notin ListedClasses
      BY <1>1, <2>2, <3>1, <3>2 DEF Moment, ListedClasses
    <3>4. QED
      BY <1>6, <2>1, <3>2, <3>3, ExplainReportSpelledOut
  <2>5. CASE fault[1] = "unconsumed"
    <3>1. PICK w : Moment("get", w)
      BY <1>1, MomentOf DEF Resources
    <3>2. fault = <<"unconsumed", c>> /\ w.claims[c].reserved = {}
      BY <1>3, <2>5, <3>1, LastedThen, FaultsSpelledOut
    <3>3. seen["get"].reserved = {}
      BY <3>1, <3>2 DEF Moment
    <3>4. QED
      BY <1>6, <2>1, <3>2, <3>3, ExplainReportSpelledOut
  <2>6. CASE fault[1] = "deviceless"
    <3>1. PICK w : Moment("slices", w)
      BY <1>1, MomentOf DEF Resources
    <3>2. fault = <<"deviceless", c>> /\ DOMAIN w.slices = {}
      BY <1>3, <2>6, <3>1, LastedThen, FaultsSpelledOut
    <3>3. Listed("slices") = {}
      BY <1>1, <3>1, <3>2 DEF Moment, Listed
    <3>4. QED
      BY <1>6, <2>1, <3>2, <3>3, ExplainReportSpelledOut
  <2>7. QED
    BY <1>3, <1>8, <2>3, <2>4, <2>5, <2>6
<1>9. QED
  BY <1>7, <1>8

\* A fault that lasts while an operation runs does not slip between its lists.
THEOREM LastingFaultsAreReportedHolds == ViewSpec => []LastingFaultsAreReported
<1>1. IInv => LastingFaultsAreReported
  <2> SUFFICES ASSUME IInv, Returned, \A r \in Resources : seen[r] # Failed,
                      NEW fault \in always
               PROVE  fault \in Report \/ NoNodeListed(fault) \/ GuessedClaim(fault)
    BY DEF LastingFaultsAreReported
  <2>1. op.kind \in Kinds
    BY ViewsAssumption DEF IInv, TypeInv
  <2>2. CASE op.kind = "graph"
    BY <2>2, GraphReported DEF Report
  <2>3. CASE op.kind = "explain"
    BY <2>3, ExplainReported DEF Report
  <2>4. CASE op.kind = "orphans"
    BY <2>4, OrphansReported DEF Report
  <2>5. CASE op.kind = "references"
    BY <2>5, ReferencesReported DEF Report
  <2>6. CASE op.kind = "slices"
    BY <2>6, SlicesReported DEF Report
  <2>7. QED
    BY <2>1, <2>2, <2>3, <2>4, <2>5, <2>6 DEF Kinds
<1>2. QED
  BY <1>1, InductiveInvariant, PTL
-----------------------------------------------------------------------------
(* The numbers of the explanation.                                         *)

\* Three disjoint parts make up the whole.
LEMMA ThreeParts ==
    ASSUME NEW S, IsFiniteSet(S), NEW A, NEW B, NEW C,
           A \subseteq S, B \subseteq S, C \subseteq S, S \subseteq A \union B \union C,
           A \intersect B = {}, A \intersect C = {}, B \intersect C = {}
    PROVE  /\ Cardinality(A) \in Nat /\ Cardinality(B) \in Nat /\ Cardinality(C) \in Nat
           /\ Cardinality(S) = Cardinality(A) + Cardinality(B) + Cardinality(C)
<1>1. IsFiniteSet(A) /\ IsFiniteSet(B) /\ IsFiniteSet(C)
  BY FS_Subset
<1>2. Cardinality(A) \in Nat /\ Cardinality(B) \in Nat /\ Cardinality(C) \in Nat
  BY <1>1, FS_CardinalityType
<1>3. /\ IsFiniteSet(A \union B)
      /\ Cardinality(A \union B) = Cardinality(A) + Cardinality(B) - Cardinality({})
  BY <1>1, FS_Union
<1>4. /\ S = (A \union B) \union C
      /\ (A \union B) \intersect C = {}
  OBVIOUS
<1>5. Cardinality(S) = Cardinality(A \union B) + Cardinality(C) - Cardinality({})
  BY <1>1, <1>3, <1>4, FS_Union
<1>6. QED
  BY <1>2, <1>3, <1>5, FS_EmptySet

\* The device of a listed slice counts as taken if a listed claim holds it.
LEMMA TakenIsHeld ==
    ASSUME TypeInv, seen["claims"] # NotRead, seen["slices"] # NotRead,
           NEW t \in Listed("slices")
    PROVE  DeviceAllocated(t) <=>
             \E c \in Listed("claims") :
                 /\ IsAllocated(c)
                 /\ t \in seen["claims"][c].alloc.slices
                 /\ Spec[t].node = NoNode => AllocationNodes(c) = {}
<1>1. t \in Slices
  BY ListedTyped
<1>2. ASSUME NEW c \in Listed("claims"), IsAllocated(c)
      PROVE  (\E s \in seen["claims"][c].alloc.slices :
                 Matches(seen["claims"][c].alloc, s, t))
             <=> /\ t \in seen["claims"][c].alloc.slices
                 /\ Spec[t].node = NoNode => AllocationNodes(c) = {}
  <2>1. PICK a \in Allocations : a = seen["claims"][c].alloc
    BY <1>2, ListedTyped
  <2>2. AllocationNodes(c) = {} <=> AllocationNodeName(a) = NoNode
    BY <1>2, <2>1 DEF AllocationNodes
  <2>3. \A s \in a.slices : Matches(a, s, t) <=>
            t = s /\ (Spec[s].node = NoNode => AllocationNodeName(a) = NoNode)
    BY <1>1, MatchesIsSame
  <2>4. QED
    BY <2>1, <2>2, <2>3
<1>3. QED
  BY <1>2 DEF DeviceAllocated

\* The numbers got by subtraction are the numbers of the devices they are said to
\* count, for any claims, selectors and devices.
THEOREM CandidatesAreCountedHolds == ViewSpec => []CandidatesAreCounted
<1>1. TypeInv => CandidatesAreCounted
  <2> SUFFICES ASSUME TypeInv, Answered("explain"), reads = <<>>
               PROVE  CandidatesAreCounted
    BY Zenon DEF CandidatesAreCounted
  <2> DEFINE S == Listed("slices")
             answers(s) == {Fits[k][s] : k \in Requested[op.claim] \intersect ListedClasses}
             wanted(s) == Requested[op.claim] = {} \/ "yes" \in answers(s)
             healthy(s) == seen["slices"][s] = "healthy"
             held(s) == \E c \in Listed("claims") :
                            /\ IsAllocated(c)
                            /\ s \in seen["claims"][c].alloc.slices
                            /\ Spec[s].node = NoNode => AllocationNodes(c) = {}
             Wanted == {s \in S : wanted(s)}
             Failing == {s \in S : ~wanted(s) /\ "error" \in answers(s)}
             Other == {s \in S : ~wanted(s) /\ "error" \notin answers(s)}
             Ill == {s \in S : wanted(s) /\ ~healthy(s)}
             Taken == {s \in S : wanted(s) /\ healthy(s) /\ held(s)}
             Free == {s \in S : wanted(s) /\ healthy(s) /\ ~held(s)}
  <2>1. seen["claims"] # NotRead /\ seen["slices"] # NotRead
    BY ReadWhenReturned DEF Answered
  <2>2. IsFiniteSet(S)
    <3>1. S \subseteq Slices
      BY <2>1, ListedTyped
    <3>2. QED
      BY <3>1, ViewsAssumption, FS_Subset
  <2>3. \A s \in S : /\ SelectorResult(s).passed <=> wanted(s)
                     /\ SelectorResult(s).error <=> ~wanted(s) /\ "error" \in answers(s)
    BY DEF SelectorResult, RequestedClasses
  <2>4. \A s \in S : DeviceAllocated(s) <=> held(s)
    BY <2>1, TakenIsHeld
  <2> HIDE DEF S, answers, wanted, held
  <2>5. /\ {s \in S : SelectorResult(s).passed} = Wanted
        /\ {s \in S : SelectorResult(s).error} = Failing
        /\ {s \in S : SelectorResult(s).passed /\ seen["slices"][s] # "healthy"} = Ill
        /\ {s \in S : /\ SelectorResult(s).passed /\ seen["slices"][s] = "healthy"
                      /\ ~DeviceAllocated(s)} = Free
        /\ {s \in S : TRUE} = S
    BY <2>3, <2>4
  <2>6. Stats = [total |-> Cardinality(S),
                 mismatched |-> Cardinality(S) - Cardinality(Wanted) - Cardinality(Failing),
                 unhealthy |-> Cardinality(Ill),
                 taken |-> Cardinality(Wanted) - Cardinality(Ill) - Cardinality(Free),
                 failed |-> Cardinality(Failing),
                 matched |-> Cardinality(Free)]
    BY <2>5 DEF Stats, Count, S
  <2>7. Cardinality(Other) = Cardinality(S) - Cardinality(Wanted) - Cardinality(Failing)
    <3>1. /\ Wanted \subseteq S /\ Failing \subseteq S /\ Other \subseteq S
          /\ S \subseteq Wanted \union Failing \union Other
          /\ Wanted \intersect Failing = {} /\ Wanted \intersect Other = {}
          /\ Failing \intersect Other = {}
      OBVIOUS
    <3> HIDE DEF Wanted, Failing, Other
    <3>2. QED
      BY <2>2, <3>1, ThreeParts
  <2>8. Cardinality(Taken) = Cardinality(Wanted) - Cardinality(Ill) - Cardinality(Free)
    <3>1. /\ Ill \subseteq Wanted /\ Free \subseteq Wanted /\ Taken \subseteq Wanted
          /\ Wanted \subseteq Ill \union Free \union Taken
          /\ Ill \intersect Free = {} /\ Ill \intersect Taken = {}
          /\ Free \intersect Taken = {}
          /\ Wanted \subseteq S
      OBVIOUS
    <3> HIDE DEF Wanted, Ill, Free, Taken
    <3>2. IsFiniteSet(Wanted)
      BY <2>2, <3>1, FS_Subset
    <3>3. QED
      BY <3>1, <3>2, ThreeParts
  <2>9. /\ Stats.mismatched = Cardinality(Other)
        /\ Stats.failed = Cardinality(Failing)
        /\ Stats.unhealthy = Cardinality(Ill)
        /\ Stats.taken = Cardinality(Taken)
        /\ Stats.matched = Cardinality(Free)
    <3> HIDE DEF Wanted, Failing, Other, Ill, Taken, Free
    <3>1. QED
      BY <2>6, <2>7, <2>8
  <2>10. QED
    BY <2>9 DEF CandidatesAreCounted, Count, S, answers, wanted, held
<1>2. QED
  BY <1>1, InductiveInvariant, PTL DEF IInv
=============================================================================
