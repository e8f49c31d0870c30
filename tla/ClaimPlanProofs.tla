---------------------------- MODULE ClaimPlanProofs ----------------------------
(***************************************************************************)
(* ClaimPlan, the planner the allocation pipeline is specified with, is an *)
(* abstraction of the planner of ClaimSearch: for the claims it is about,  *)
(* planClaimAllocation answers what ClaimPlan allows.  PlainPlans stands   *)
(* between the two: the plans said with the list of offers.                *)
(***************************************************************************)
EXTENDS ClaimSearchProofs

-----------------------------------------------------------------------------
(* The order of offers: they come slice by slice.                           *)

\* list is the elements of the first n sequences; t tells of which one each is.
Traces(t, list, seqs, n) ==
    /\ t \in [1..Len(list) -> 1..n]
    /\ \A j, k \in 1..Len(list) : j <= k => t[j] <= t[k]
    /\ \A j \in 1..Len(list) : list[j] \in Range(seqs[t[j]])
    /\ \A i \in 1..n : \A x \in Range(seqs[i]) :
            \E j \in 1..Len(list) : t[j] = i /\ list[j] = x

\* One sequence more.
LEMMA TracesLonger ==
    ASSUME NEW S, NEW seqs, NEW n \in Nat, seqs[n + 1] \in Seq(S),
           NEW list \in Seq(S), NEW t, Traces(t, list, seqs, n)
    PROVE  \E u : Traces(u, list \o seqs[n + 1], seqs, n + 1)
<1> DEFINE s == seqs[n + 1]
           m == Len(list)
           more == list \o s
           u == [j \in 1..Len(more) |-> IF j <= m THEN t[j] ELSE n + 1]
<1>1. /\ m \in Nat /\ Len(s) \in Nat /\ DOMAIN s = 1..Len(s) /\ Len(more) = m + Len(s)
      /\ \A j \in 1..m : more[j] = list[j]
      /\ \A j \in 1..Len(more) : j > m => more[j] = s[j - m] /\ j - m \in DOMAIN s
      /\ \A k \in DOMAIN s : m + k \in 1..Len(more) /\ more[m + k] = s[k]
  OBVIOUS
<1> HIDE DEF s, more
<1>2. /\ t \in [1..m -> 1..n]
      /\ \A j, k \in 1..m : j <= k => t[j] <= t[k]
      /\ \A j \in 1..m : list[j] \in Range(seqs[t[j]])
      /\ \A i \in 1..n : \A x \in Range(seqs[i]) :
            \E j \in 1..m : t[j] = i /\ list[j] = x
  BY DEF Traces
<1> HIDE DEF m
<1>3. /\ u \in [1..Len(more) -> 1..(n + 1)]
      /\ \A j \in 1..m : j \in 1..Len(more) /\ u[j] = t[j] /\ t[j] \in 1..n
      /\ \A j \in 1..Len(more) : j > m => u[j] = n + 1
  BY <1>1, <1>2
<1> HIDE DEF u
<1>4. \A j, k \in 1..Len(more) : j <= k => u[j] <= u[k]
  <2> TAKE j, k \in 1..Len(more)
  <2> HAVE j <= k
  <2>1. CASE k <= m
    <3>1. j \in 1..m /\ k \in 1..m
      BY <1>1, <2>1
    <3> QED
      BY <1>2, <1>3, <3>1
  <2>2. CASE k > m
    <3>1. u[k] = n + 1 /\ u[j] \in 1..(n + 1)
      BY <1>3, <2>2
    <3> QED
      BY <3>1
  <2> QED
    BY <1>1, <2>1, <2>2
<1>5. \A j \in 1..Len(more) : more[j] \in Range(seqs[u[j]])
  <2> TAKE j \in 1..Len(more)
  <2>1. CASE j <= m
    <3>1. j \in 1..m
      BY <1>1, <2>1
    <3> QED
      BY <1>1, <1>2, <1>3, <3>1
  <2>2. CASE j > m
    <3>1. more[j] = s[j - m] /\ j - m \in DOMAIN s /\ u[j] = n + 1
      BY <1>1, <1>3, <2>2
    <3> QED
      BY <3>1 DEF Range, s
  <2> QED
    BY <1>1, <2>1, <2>2
<1>6. ASSUME NEW i \in 1..(n + 1), NEW x \in Range(seqs[i])
      PROVE  \E j \in 1..Len(more) : u[j] = i /\ more[j] = x
  <2>1. CASE i = n + 1
    <3>1. PICK k \in DOMAIN s : s[k] = x
      BY <1>6, <2>1 DEF Range, s
    <3>2. m + k \in 1..Len(more) /\ more[m + k] = x /\ m + k > m
      BY <1>1, <3>1
    <3> QED
      BY <1>3, <2>1, <3>2
  <2>2. CASE i # n + 1
    <3>0. i \in 1..n
      BY <2>2
    <3>1. PICK j \in 1..m : t[j] = i /\ list[j] = x
      BY <1>2, <1>6, <3>0
    <3> QED
      BY <1>1, <1>3, <3>1
  <2> QED
    BY <2>1, <2>2
<1>7. Traces(u, more, seqs, n + 1)
  BY <1>3, <1>4, <1>5, <1>6 DEF Traces
<1> QED
  BY <1>7 DEF more, s

\* FlattenSeq keeps the order of the sequences.
LEMMA FlattenOrder ==
    ASSUME NEW S, NEW seqs \in Seq(Seq(S))
    PROVE  \E t : Traces(t, FlattenSeq(seqs), seqs, Len(seqs))
<1> DEFINE N == Len(seqs)
<1>0. N \in Nat /\ \A i \in 1..N : seqs[i] \in Seq(S)
  OBVIOUS
<1>1. CASE N = 0
  <2>1. FlattenSeq(seqs) = seqs
    BY <1>1 DEF FlattenSeq
  <2>2. Traces([j \in 1..0 |-> 0], seqs, seqs, 0)
    BY <1>1 DEF Traces
  <2> QED
    BY <1>1, <2>1, <2>2
<1>2. CASE N # 0
  <2>1. PICK flat :
            /\ flat \in [1..N -> Seq(S)]
            /\ flat[1] = seqs[1]
            /\ \A i \in 2..N : flat[i] = flat[i - 1] \o seqs[i]
            /\ FlattenSeq(seqs) = flat[N]
    BY <1>2, FlattenDef
  <2> HIDE DEF N
  <2> DEFINE T == {n \in Nat : n + 1 \in 1..N => \E t : Traces(t, flat[n + 1], seqs, n + 1)}
  <2>2. 0 \in T
    <3>1. Traces([j \in 1..Len(seqs[1]) |-> 1], seqs[1], seqs, 1)
      <4> DEFINE s == seqs[1]
                 t == [j \in 1..Len(s) |-> 1]
      <4>1. s \in Seq(S)
        BY <1>0, <1>2
      <4>2. Len(s) \in Nat /\ DOMAIN s = 1..Len(s)
        BY <4>1
      <4>3. t \in [1..Len(s) -> 1..1] /\ \A j \in 1..Len(s) : t[j] = 1
        OBVIOUS
      <4> HIDE DEF t
      <4>4. \A i \in 1..1 : i = 1
        OBVIOUS
      <4>5. \A j \in 1..Len(s) : s[j] \in Range(seqs[t[j]])
        BY <4>2, <4>3 DEF Range
      <4>6. \A i \in 1..1 : \A x \in Range(seqs[i]) :
                \E j \in 1..Len(s) : t[j] = i /\ s[j] = x
        BY <4>2, <4>3, <4>4 DEF Range
      <4>7. Traces(t, s, seqs, 1)
        BY <4>3, <4>5, <4>6 DEF Traces
      <4> QED
        BY <4>7 DEF t
    <3> QED
      BY <2>1, <3>1
  <2>3. ASSUME NEW n \in Nat, n \in T PROVE n + 1 \in T
    <3> SUFFICES ASSUME n + 2 \in 1..N
                 PROVE  \E t : Traces(t, flat[n + 2], seqs, n + 2)
      BY (n + 1) + 1 = n + 2
    <3>1. n + 1 \in 1..N /\ n + 2 \in 2..N /\ (n + 1) + 1 = n + 2 /\ (n + 2) - 1 = n + 1
      BY <1>0
    <3>2. PICK t : Traces(t, flat[n + 1], seqs, n + 1)
      BY <2>3, <3>1
    <3>3. flat[n + 2] = flat[n + 1] \o seqs[n + 2]
      BY <2>1, <3>1
    <3>4. flat[n + 1] \in Seq(S) /\ seqs[(n + 1) + 1] \in Seq(S) /\ n + 1 \in Nat
      BY <1>0, <2>1, <3>1
    <3>5. \E u : Traces(u, flat[n + 1] \o seqs[(n + 1) + 1], seqs, (n + 1) + 1)
      BY <3>2, <3>4, TracesLonger
    <3> QED
      BY <3>1, <3>3, <3>5
  <2>4. Nat \subseteq T
    <3> HIDE DEF T
    <3> QED
      BY <2>2, <2>3, NatSet
  <2>5. N - 1 \in Nat /\ (N - 1) + 1 = N /\ N \in 1..N
    BY <1>0, <1>2
  <2>6. N - 1 \in T
    BY <2>4, <2>5
  <2>7. \E t : Traces(t, flat[N], seqs, N)
    BY <2>5, <2>6
  <2> QED
    BY <2>1, <2>7 DEF N
<1> QED
  BY <1>1, <1>2

\* Nth counts upwards.
LEMMA NthAscends ==
    ASSUME NEW I \in SUBSET Int, IsFiniteSet(I), NEW k \in 1..Cardinality(I),
           NEW m \in 1..Cardinality(I), k <= m
    PROVE  Nth(I, k) <= Nth(I, m)
<1> DEFINE Up(i) == {j \in I : j <= i}
           a == Nth(I, k)
           b == Nth(I, m)
<1>1. a \in I /\ b \in I /\ Cardinality(Up(a)) = k /\ Cardinality(Up(b)) = m
  BY NthEnumerates
<1> HIDE DEF a, b
<1>0. a \in Int /\ b \in Int
  BY <1>1
<1> SUFFICES ASSUME b < a PROVE FALSE
  <2>1. ~(b < a) => a <= b
    BY <1>0
  <2> QED
    BY <2>1 DEF a, b
<1>2. /\ Up(b) \in SUBSET Up(a) /\ Up(a) \in SUBSET I
      /\ a \in Up(a) /\ a \notin Up(b) /\ Up(b) # Up(a)
  <2>1. a <= a /\ ~(a <= b) /\ \A j \in I : j <= b => j <= a
    BY <1>0
  <2>2. a \in I /\ b \in I
    BY <1>1
  <2> QED
    BY <2>1, <2>2
<1> HIDE DEF Up
<1>3. IsFiniteSet(Up(a))
  BY <1>2, FS_Subset
<1>4. /\ Cardinality(Up(b)) <= Cardinality(Up(a))
      /\ Cardinality(Up(b)) # Cardinality(Up(a))
  BY <1>2, <1>3, FS_Subset
<1> QED
  BY <1>1, <1>4

\* t tells of which slice an offer is: later offers are of later slices.
InSliceOrder(t, offers, slices, allocated) ==
    /\ IsList(offers)
    /\ t \in [DOMAIN offers -> DOMAIN slices]
    /\ \A j, k \in DOMAIN offers : j <= k => t[j] <= t[k]
    /\ \A j \in DOMAIN offers : \E d \in Range(slices[t[j]].devices) :
            /\ CompatibleNodes(slices[t[j]], allocated) # {}
            /\ offers[j] = Offer(slices[t[j]], d, allocated)
    /\ \A i \in DOMAIN slices : CompatibleNodes(slices[i], allocated) # {} =>
            \A d \in Range(slices[i].devices) :
                \E j \in DOMAIN offers : t[j] = i /\ offers[j] = Offer(slices[i], d, allocated)

\* Offers come in the order of the slices.
LEMMA OffersInOrder ==
    ASSUME NEW slices, IsList(slices), \A s \in Range(slices) : IsList(s.devices),
           NEW allocated
    PROVE  \E t : InSliceOrder(t, Offers(slices, allocated), slices, allocated)
<1> DEFINE offers == Offers(slices, allocated)
<1>1. PICK seqs : OffersBySlice(seqs, slices, allocated)
  BY OffersAreBySlice
<1> DEFINE S == UNION {Range(seqs[i]) : i \in DOMAIN seqs}
<1>2. seqs \in Seq(Seq(S)) /\ Len(seqs) \in Nat /\ DOMAIN seqs = 1..Len(seqs)
  <2>1. \A i \in DOMAIN seqs : seqs[i] \in Seq(S)
    <3> TAKE i \in DOMAIN seqs
    <3>1. seqs[i] \in Seq(Range(seqs[i])) /\ Range(seqs[i]) \subseteq S
      BY <1>1 DEF OffersBySlice, IsList
    <3> QED
      BY <3>1
  <2>2. Len(seqs) \in Nat /\ DOMAIN seqs = 1..Len(seqs) /\ seqs \in Seq(Range(seqs))
    BY <1>1, ListFacts DEF OffersBySlice
  <2> HIDE DEF S
  <2> QED
    BY <2>1, <2>2
<1> HIDE DEF S
<1>3. PICK t : Traces(t, FlattenSeq(seqs), seqs, Len(seqs))
  BY <1>2, FlattenOrder
<1>4. offers = FlattenSeq(seqs) /\ DOMAIN seqs = DOMAIN slices /\ IsList(offers)
  BY <1>1, OffersList DEF OffersBySlice
<1>5. Len(offers) \in Nat /\ DOMAIN offers = 1..Len(offers)
  BY <1>4, ListFacts
<1> HIDE DEF offers
<1>6. /\ t \in [DOMAIN offers -> DOMAIN slices]
      /\ \A j, k \in DOMAIN offers : j <= k => t[j] <= t[k]
      /\ \A j \in DOMAIN offers : offers[j] \in Range(seqs[t[j]])
      /\ \A i \in DOMAIN slices : \A x \in Range(seqs[i]) :
            \E j \in DOMAIN offers : t[j] = i /\ offers[j] = x
  BY <1>2, <1>3, <1>4, <1>5 DEF Traces
<1>7. \A j \in DOMAIN offers : \E d \in Range(slices[t[j]].devices) :
            /\ CompatibleNodes(slices[t[j]], allocated) # {}
            /\ offers[j] = Offer(slices[t[j]], d, allocated)
  <2> TAKE j \in DOMAIN offers
  <2>1. t[j] \in DOMAIN seqs /\ offers[j] \in Range(seqs[t[j]])
    BY <1>4, <1>6
  <2> QED
    BY <1>1, <2>1 DEF OffersBySlice
<1>8. \A i \in DOMAIN slices : CompatibleNodes(slices[i], allocated) # {} =>
            \A d \in Range(slices[i].devices) :
                \E j \in DOMAIN offers : t[j] = i /\ offers[j] = Offer(slices[i], d, allocated)
  <2> TAKE i \in DOMAIN slices
  <2> HAVE CompatibleNodes(slices[i], allocated) # {}
  <2> TAKE d \in Range(slices[i].devices)
  <2>1. Offer(slices[i], d, allocated) \in Range(seqs[i])
    BY <1>1, <1>4 DEF OffersBySlice
  <2> QED
    BY <1>6, <2>1
<1>9. InSliceOrder(t, offers, slices, allocated)
  BY <1>4, <1>6, <1>7, <1>8 DEF InSliceOrder
<1> QED
  BY <1>9 DEF offers

\* The offers of the eligible slices, before anything is chosen.
PlainOffers == Offers(Eligible, NoNode)

\* The j-th of them is of the healthy slice at[j], and serves its node.
PlainOrder(at) ==
    /\ IsList(PlainOffers)
    /\ at \in [DOMAIN PlainOffers -> DOMAIN input.slices]
    /\ \A j, k \in DOMAIN PlainOffers : j <= k => at[j] <= at[k]
    /\ \A j \in DOMAIN PlainOffers :
        LET o == PlainOffers[j]
            s == input.slices[at[j]]
        IN  /\ s.healthy /\ o.slice = s /\ o.node = s.node
            /\ o.device \in Range(s.devices)
            /\ o = [slice |-> s, device |-> o.device, node |-> s.node]
    /\ \A i \in DOMAIN input.slices : input.slices[i].healthy =>
            \A d \in Range(input.slices[i].devices) :
                \E j \in DOMAIN PlainOffers : at[j] = i /\ PlainOffers[j].device = d

\* The offers of a plain claim come in the order of its slices.
LEMMA PlainOffersInOrder ==
    ASSUME WellFormed(input),
           \A s \in Range(input.slices) : s.managed /\ s.supported
    PROVE  \E at : PlainOrder(at)
<1> DEFINE slices == input.slices
           I == {i \in DOMAIN slices : slices[i].managed /\ slices[i].healthy}
           os == PlainOffers
<1>1. /\ IsList(slices) /\ Len(slices) \in Nat /\ DOMAIN slices = 1..Len(slices)
      /\ \A i \in DOMAIN slices : slices[i] \in Range(slices)
  BY ListFacts DEF WellFormed
<1>2. Eligible = AtIndexes(slices, I) /\ I \in SUBSET DOMAIN slices
  BY DEF Eligible
<1>3. \A i \in DOMAIN slices : i \in I <=> slices[i].healthy
  BY <1>1
<1> HIDE DEF I
<1>4. IsFiniteSet(I) /\ I \in SUBSET Int
  BY <1>1, <1>2, IndexesFinite
<1>5. /\ IsList(Eligible) /\ DOMAIN Eligible = 1..Cardinality(I)
      /\ \A k \in DOMAIN Eligible : Nth(I, k) \in I /\ Eligible[k] = slices[Nth(I, k)]
  BY <1>1, <1>2, AtIndexesList
<1>6. \A s \in Range(slices) : IsList(s.devices) /\ s.node # NoNode
  BY DEF WellFormed, IsSlice
<1>7. \A s \in Range(Eligible) : s \in Range(slices)
  BY <1>1, <1>2, <1>5 DEF Range
<1>8. PICK t : InSliceOrder(t, os, Eligible, NoNode)
  BY <1>5, <1>6, <1>7, OffersInOrder DEF PlainOffers
<1>9. \A s \in Range(slices) : \A d :
        /\ CompatibleNodes(s, NoNode) = {s.node}
        /\ Offer(s, d, NoNode) = [slice |-> s, device |-> d, node |-> s.node]
  BY <1>6 DEF CompatibleNodes, Offer, The
<1> DEFINE at == [j \in DOMAIN os |-> Nth(I, t[j])]
<1> HIDE DEF os
<1>10. /\ t \in [DOMAIN os -> DOMAIN Eligible]
       /\ \A j, k \in DOMAIN os : j <= k => t[j] <= t[k]
  BY <1>8 DEF InSliceOrder
<1>11. /\ at \in [DOMAIN os -> DOMAIN slices]
       /\ \A j \in DOMAIN os : at[j] = Nth(I, t[j]) /\ at[j] \in I
                /\ Eligible[t[j]] = slices[at[j]]
  BY <1>2, <1>5, <1>10
<1> HIDE DEF at
<1>12. \A j, k \in DOMAIN os : j <= k => at[j] <= at[k]
  <2> TAKE j, k \in DOMAIN os
  <2> HAVE j <= k
  <2>1. t[j] <= t[k] /\ t[j] \in 1..Cardinality(I) /\ t[k] \in 1..Cardinality(I)
    BY <1>5, <1>10
  <2> QED
    BY <1>4, <1>11, <2>1, NthAscends
<1>13. ASSUME NEW j \in DOMAIN os
       PROVE  LET o == os[j]
                  s == slices[at[j]]
              IN  /\ s.healthy /\ o.slice = s /\ o.node = s.node
                  /\ o.device \in Range(s.devices)
                  /\ o = [slice |-> s, device |-> o.device, node |-> s.node]
  <2>1. PICK d \in Range(slices[at[j]].devices) : os[j] = Offer(slices[at[j]], d, NoNode)
    BY <1>8, <1>11 DEF InSliceOrder
  <2>2. slices[at[j]] \in Range(slices) /\ slices[at[j]].healthy
    BY <1>1, <1>2, <1>3, <1>11
  <2> QED
    BY <1>9, <2>1, <2>2
<1>14. ASSUME NEW i \in DOMAIN slices, slices[i].healthy, NEW d \in Range(slices[i].devices)
       PROVE  \E j \in DOMAIN os : at[j] = i /\ os[j].device = d
  <2>1. PICK k \in 1..Cardinality(I) : Nth(I, k) = i
    BY <1>3, <1>4, <1>14, NthEnumerates
  <2>2. k \in DOMAIN Eligible /\ Eligible[k] = slices[i]
    BY <1>5, <2>1
  <2>3. CompatibleNodes(Eligible[k], NoNode) # {}
    BY <1>1, <1>9, <2>2
  <2>4. PICK j \in DOMAIN os : t[j] = k /\ os[j] = Offer(Eligible[k], d, NoNode)
    BY <1>8, <1>14, <2>2, <2>3 DEF InSliceOrder
  <2> QED
    BY <1>1, <1>9, <1>11, <2>1, <2>2, <2>4
<1>15. IsList(os)
  BY <1>8 DEF InSliceOrder
<1>16. PlainOrder(at)
  BY <1>11, <1>12, <1>13, <1>14, <1>15 DEF PlainOrder, os
<1> QED
  BY <1>16

-----------------------------------------------------------------------------
(* The verdicts on the offers of a plain claim.                             *)

PlainCapacity(o) == The(o.device.capacity).value

\* What the claim asks for, 0 when it names no amount.
PlainDemand ==
    IF PlainAlternative.demand = {} THEN 0 ELSE The(PlainAlternative.demand).amount

PlainAmount(o) == IF PlainDemand = 0 THEN PlainCapacity(o) ELSE PlainDemand

PlainMatch(o) == o.device.verdict[PlainAlternative.class] = "match"

\* The offer can be taken.
AcceptsOffer(o) ==
    LET id == Identity(o) IN
    /\ PlainMatch(o)
    /\ ~ExclusiveIn(id, input.committed)
    /\ IF o.device.shareable
       THEN ConsumedIn(id, input.committed) + PlainAmount(o) <= PlainCapacity(o)
       ELSE ~SharedIn(id, input.committed) /\ PlainDemand <= PlainCapacity(o)

\* The offer contradicts what is committed.
RejectsOffer(o) ==
    LET id == Identity(o) IN
    /\ PlainMatch(o)
    /\ IF o.device.shareable
       THEN \/ ExclusiveIn(id, input.committed)
            \/ ConsumedIn(id, input.committed) > PlainCapacity(o)
       ELSE SharedIn(id, input.committed)

\* The one alternative of a plain claim.
LEMMA PlainRequest ==
    ASSUME WellFormed(input), IsPlain
    PROVE  /\ Alternatives(input.requests[1]) = <<PlainAlternative>>
           /\ IsAlternative(PlainAlternative) /\ SupportedAlternative(PlainAlternative)
           /\ PlainAlternative.mode = "ExactCount" /\ ~PlainAlternative.extras
           /\ PlainAlternative.count \in Nat
           /\ normalizedCount(PlainAlternative) \in Nat \ {0}
           /\ 1 \in 1..Len(input.requests) /\ Len(input.requests) = 1
<1> DEFINE r == input.requests[1]
<1>1. Len(input.requests) = 1 /\ SupportedRequest(r) /\ Len(r.exactly) = 1
      /\ PlainAlternative = r.exactly[1] /\ PlainAlternative.mode = "ExactCount"
  BY DEF IsPlain, PlainAlternative
<1>2. r \in Range(input.requests)
  BY <1>1, ListFacts DEF WellFormed
<1>3. /\ IsList(r.exactly) /\ IsList(r.firstAvailable)
      /\ \A alt \in Range(r.exactly) : IsAlternative(alt)
  BY <1>2 DEF WellFormed
<1> HIDE DEF r
<1>4. r.exactly = <<PlainAlternative>>
  <2>1. r.exactly \in Seq(Range(r.exactly))
    BY <1>3 DEF IsList
  <2> QED
    BY <1>1, <2>1
<1>5. r.firstAvailable = <<>>
  <2>1. r.exactly # <<>>
    BY <1>4
  <2> QED
    BY <1>1, <2>1 DEF SupportedRequest
<1>6. Alternatives(r) = <<PlainAlternative>>
  BY <1>4, <1>5 DEF Alternatives
<1>7. PlainAlternative \in Range(r.exactly) /\ PlainAlternative \in Range(Alternatives(r))
  BY <1>4, <1>6 DEF Range
<1>8. IsAlternative(PlainAlternative) /\ SupportedAlternative(PlainAlternative)
  BY <1>1, <1>3, <1>7 DEF SupportedRequest
<1>9. ~PlainAlternative.extras /\ PlainAlternative.count \in 0..AllocationResultsMaxSize
  BY <1>1, <1>8 DEF SupportedAlternative
<1>10. PlainAlternative.count \in Nat
  BY <1>9, ClaimSearchAssumption
<1> QED
  BY <1>1, <1>6, <1>8, <1>9, <1>10 DEF normalizedCount, r

\* A device of a slice, offered for the slice's node.
PlainOffer(o) ==
    /\ o.slice \in Range(input.slices) /\ o.device \in Range(o.slice.devices)
    /\ o.node = o.slice.node

\* What the offers of a plain claim are.
LEMMA PlainDevice ==
    ASSUME WellFormed(input), IsPlain, PlainAlternative.class \in input.classes,
           NEW o, PlainOffer(o)
    PROVE  LET d == o.device
               c == The(d.capacity)
           IN  /\ d.capacity = {c} /\ c.policy = {}
               /\ c.value \in Nat /\ PlainCapacity(o) = c.value
               /\ d.shareable \in BOOLEAN /\ d.supported /\ o.slice.supported
               /\ o.slice.managed
               /\ d.verdict[PlainAlternative.class] \in {"match", "other"}
               /\ CapacityExists(PlainAlternative, d)
               /\ PlainDemand \in Nat
               /\ Requested(PlainAlternative, c)
                    = IF PlainDemand = 0 THEN {} ELSE {PlainDemand}
<1> DEFINE d == o.device
           c == The(d.capacity)
           alt == PlainAlternative
           s == o.slice
<1>1. s \in Range(input.slices) /\ d \in Range(s.devices)
  BY DEF PlainOffer
<1>2. IsSlice(s, input.classes) /\ IsDevice(d, input.classes)
  BY <1>1 DEF WellFormed, IsSlice
<1>3. d \in UNION {Range(x.devices) : x \in Range(input.slices)}
  BY <1>1
<1>4. /\ s.managed /\ s.supported /\ d.supported /\ d.capacity # {}
      /\ c.policy = {} /\ c.value >= 0 /\ CapacityExists(alt, d)
      /\ \A k \in input.classes : d.verdict[k] # "error"
      /\ \A demand \in alt.demand : demand.amount # 0
  BY <1>1, <1>3 DEF IsPlain
<1>5. /\ d.shareable \in BOOLEAN /\ Optional(d.capacity)
      /\ \A k \in d.capacity : IsCapacity(k)
      /\ d.verdict[alt.class] \in {"match", "other"}
  <2>1. /\ d.shareable \in BOOLEAN /\ Optional(d.capacity)
        /\ \A k \in d.capacity : IsCapacity(k)
        /\ d.verdict[alt.class] \in {"match", "other", "error"}
    BY <1>2 DEF IsDevice
  <2> QED
    BY <1>4, <2>1
<1>6. d.capacity = {c} /\ c.value \in Nat
  <2>1. PICK x \in d.capacity : TRUE
    BY <1>4
  <2>2. d.capacity = {c} /\ IsCapacity(c)
    BY <1>5, <2>1, TheOne
  <2> QED
    BY <1>4, <2>2 DEF IsCapacity
<1>7. IsAlternative(alt) /\ ~alt.extras
  BY PlainRequest
<1> HIDE DEF d, c, alt
<1>8. /\ \A x, y \in alt.demand : x = y
      /\ \A x \in alt.demand : x.name = c.name /\ x.amount \in Nat \ {0}
  BY <1>4, <1>6, <1>7 DEF CapacityExists, IsAlternative
<1>9. CASE alt.demand = {}
  <2>1. PlainDemand = 0 /\ Requested(alt, c) = {}
    BY <1>9 DEF PlainDemand, Requested, alt
  <2> QED
    BY <1>4, <1>5, <1>6, <2>1 DEF d, c, alt, PlainCapacity
<1>10. CASE alt.demand # {}
  <2>1. PICK x \in alt.demand : TRUE
    BY <1>10
  <2>2. The(alt.demand) = x /\ alt.demand = {x}
    BY <1>8, <2>1, TheOne DEF Optional
  <2>3. PlainDemand = x.amount /\ x.amount \in Nat \ {0}
    BY <1>8, <1>10, <2>2 DEF PlainDemand, alt
  <2>4. Requested(alt, c) = {x.amount}
    BY <1>7, <1>8, <2>1, RequestedAmount
  <2> QED
    BY <1>4, <1>5, <1>6, <2>3, <2>4 DEF d, c, alt, PlainCapacity
<1> QED
  BY <1>9, <1>10

\* What is committed of a device.
LEMMA CommittedOf ==
    ASSUME WellFormed(input), NEW id
    PROVE  /\ ConsumedIn(id, input.committed) \in Nat
           /\ UsesOf(id, input.committed) = {}
                <=> ~ExclusiveIn(id, input.committed) /\ ~SharedIn(id, input.committed)
           /\ UsesOf(id, input.committed) = {} => ConsumedIn(id, input.committed) = 0
           /\ ConsumedIn(id, <<>>) = 0
<1> DEFINE list == input.committed
           f == [i \in DOMAIN list |-> list[i].amount]
           U == UsesOf(id, list)
<1>1. /\ IsList(list) /\ \A i \in DOMAIN list : list[i] \in Range(list)
      /\ \A r \in Range(list) : r.shared \in BOOLEAN /\ r.amount \in Nat
  BY ListFacts DEF WellFormed
<1>2. U \in SUBSET DOMAIN list /\ IsFiniteSet(U)
  BY <1>1, IndexesFinite DEF UsesOf
<1>3. Counts(f, U)
  BY <1>1, <1>2 DEF Counts
<1>4. ConsumedIn(id, list) = SumFunctionOnSet(f, U)
  BY DEF ConsumedIn
<1>5. ConsumedIn(id, list) \in Nat
  BY <1>3, <1>4, SumIsCount, TokensFinite
<1>6. U = {} <=> ~ExclusiveIn(id, list) /\ ~SharedIn(id, list)
  BY <1>1 DEF UsesOf, ExclusiveIn, SharedIn, Range
<1>7. U = {} => ConsumedIn(id, list) = 0
  BY <1>4, SumEmpty
<1>8. ConsumedIn(id, <<>>) = 0
  <2>1. UsesOf(id, <<>>) = {}
    BY DEF UsesOf
  <2> QED
    BY <2>1, SumEmpty DEF ConsumedIn
<1> QED
  BY <1>5, <1>6, <1>7, <1>8

\* The planner's verdict on an offer when nothing is chosen yet.
LEMMA PlainVerdict ==
    ASSUME WellFormed(input), IsPlain, PlainAlternative.class \in input.classes,
           Taken = <<>>, pc = "greedy" => ~UseBacktrackingPlanner,
           NEW o, PlainOffer(o), NEW seen
    PROVE  /\ Evaluate(PlainAlternative, o, seen)
                = IF Identity(o) \in seen THEN "skip"
                  ELSE IF AcceptsOffer(o) THEN "accept"
                  ELSE IF RejectsOffer(o) THEN "Unsupported" ELSE "skip"
           /\ pc = "greedy" => ~RejectsOffer(o)
           /\ ~(AcceptsOffer(o) /\ RejectsOffer(o))
<1> DEFINE id == Identity(o)
           d == o.device
           c == The(d.capacity)
           alt == PlainAlternative
           used == ConsumedIn(id, input.committed)
           ex == ExclusiveIn(id, input.committed)
           sh == SharedIn(id, input.committed)
           verdict == IF AcceptsOffer(o) THEN "accept"
                      ELSE IF RejectsOffer(o) THEN "Unsupported" ELSE "skip"
<1>1. /\ d.capacity = {c} /\ c.policy = {}
      /\ c.value \in Nat /\ PlainCapacity(o) = c.value
      /\ d.shareable \in BOOLEAN /\ d.supported /\ o.slice.supported /\ o.slice.managed
      /\ d.verdict[alt.class] \in {"match", "other"}
      /\ CapacityExists(alt, d)
      /\ PlainDemand \in Nat
      /\ Requested(alt, c) = IF PlainDemand = 0 THEN {} ELSE {PlainDemand}
  BY PlainDevice
<1>2. /\ used \in Nat
      /\ (UsesOf(id, input.committed) = {} <=> ~ex /\ ~sh)
      /\ UsesOf(id, input.committed) = {} => used = 0
      /\ ConsumedIn(id, <<>>) = 0
  BY CommittedOf
<1>3. ConsumedSoFar(id) = used
  BY <1>2 DEF ConsumedSoFar
<1>4. ~ExclusiveIn(id, Taken)
  BY DEF ExclusiveIn, Range
<1>5. UsesOf(id, input.committed \o Taken) = UsesOf(id, input.committed)
  <2>1. input.committed \in Seq(Range(input.committed))
    BY DEF WellFormed, IsList
  <2>2. input.committed \o <<>> = input.committed
    BY <2>1
  <2> QED
    BY <2>2
<1>6. AcceptsOffer(o) <=>
        /\ d.verdict[alt.class] = "match" /\ ~ex
        /\ IF d.shareable THEN used + PlainAmount(o) <= c.value
           ELSE ~sh /\ PlainDemand <= c.value
  BY <1>1 DEF AcceptsOffer, PlainMatch
<1>7. RejectsOffer(o) <=>
        /\ d.verdict[alt.class] = "match"
        /\ IF d.shareable THEN ex \/ used > c.value ELSE sh
  BY <1>1 DEF RejectsOffer, PlainMatch
<1>8. PlainAmount(o) \in Nat
  BY <1>1 DEF PlainAmount
<1> HIDE DEF id, c, alt, used, ex, sh
<1>9. ~(AcceptsOffer(o) /\ RejectsOffer(o))
  BY <1>1, <1>2, <1>6, <1>7, <1>8
<1>10. ShareAmounts(alt, c, used)
            = IF used + PlainAmount(o) <= c.value THEN {PlainAmount(o)} ELSE {}
  <2>1. consumedCapacityForRequest(c, Requested(alt, c)) = {PlainAmount(o)}
    BY <1>1 DEF consumedCapacityForRequest, PlainAmount
  <2> QED
    BY <2>1 DEF ShareAmounts
<1>11. PolicyIsValid(c)
  BY <1>1 DEF PolicyIsValid
<1>12. ExclusiveVerdict(alt, d) = IF PlainDemand <= c.value THEN "accept" ELSE "skip"
  <2>1. (\A amount \in Requested(alt, c) : amount <= c.value) <=> PlainDemand <= c.value
    BY <1>1
  <2>2. ~(\E k \in d.capacity : k.policy # {} \/ k.value < 0)
    BY <1>1
  <2> QED
    BY <1>1, <2>1, <2>2 DEF ExclusiveVerdict
<1>13. ASSUME d.verdict[alt.class] = "match", d.shareable
       PROVE  buildShareableCandidate(alt, o) = verdict
  <2>1. sh \/ ex \/ ~(used > c.value)
    BY <1>1, <1>2
  <2>2. buildShareableCandidate(alt, o) =
            IF ex \/ (sh /\ used > c.value) THEN "Unsupported"
            ELSE IF used + PlainAmount(o) <= c.value THEN "accept" ELSE "skip"
    BY <1>1, <1>3, <1>4, <1>10, <1>11 DEF buildShareableCandidate, id, c, used, ex, sh
  <2> QED
    BY <1>2, <1>1, <1>6, <1>7, <1>8, <1>13, <2>1, <2>2
<1>14. ASSUME d.verdict[alt.class] = "match", ~d.shareable
       PROVE  buildExclusiveCandidate(alt, o) = verdict
  <2>1. buildExclusiveCandidate(alt, o) =
            IF sh THEN "Unsupported" ELSE IF ex THEN "skip"
            ELSE ExclusiveVerdict(alt, d)
    BY <1>2, <1>5 DEF buildExclusiveCandidate, id, ex, sh
  <2> QED
    BY <1>6, <1>7, <1>12, <1>14, <2>1
<1>15. evaluateConstrainedCandidate(alt, o, seen) = IF id \in seen THEN "skip" ELSE verdict
  <2>1. CASE d.verdict[alt.class] = "other"
    <3>1. verdict = "skip"
      BY <1>6, <1>7, <2>1
    <3> HIDE DEF verdict
    <3> QED
      BY <2>1, <3>1 DEF evaluateConstrainedCandidate
  <2>2. CASE d.verdict[alt.class] = "match"
    <3> HIDE DEF verdict
    <3> QED
      BY <1>1, <1>13, <1>14, <2>2 DEF evaluateConstrainedCandidate, id
  <2> QED
    BY <1>1, <2>1, <2>2
<1>16. ASSUME pc = "greedy"
       PROVE  /\ evaluateCandidate(alt, o, seen) = IF id \in seen THEN "skip" ELSE verdict
              /\ ~RejectsOffer(o)
  <2>1. ~UseBacktrackingPlanner
    BY <1>16
  <2>2. ~d.shareable /\ ~sh
    <3>1. ~d.shareable
      BY <1>1, <2>1 DEF PlainOffer, UseBacktrackingPlanner
    <3>2. ~sh
      BY <2>1 DEF UseBacktrackingPlanner, SharedIn, sh
    <3> QED
      BY <3>1, <3>2
  <2>3. ~RejectsOffer(o)
    BY <1>7, <2>2
  <2>4. CASE d.verdict[alt.class] = "other"
    <3>1. verdict = "skip"
      BY <1>6, <1>7, <2>4
    <3> HIDE DEF verdict
    <3> QED
      BY <2>3, <2>4, <3>1 DEF evaluateCandidate
  <2>5. CASE d.verdict[alt.class] = "match"
    <3>1. verdict = IF ex THEN "skip" ELSE ExclusiveVerdict(alt, d)
      BY <1>6, <1>12, <2>2, <2>3, <2>5
    <3>2. ExclusiveVerdict(alt, d) # "Unsupported"
      BY <1>12
    <3>3. UsesOf(id, input.committed \o Taken) # {} <=> ex
      BY <1>2, <1>5, <2>2
    <3> HIDE DEF verdict
    <3> QED
      BY <1>1, <2>3, <2>5, <3>1, <3>2, <3>3 DEF evaluateCandidate, id
  <2> QED
    BY <1>1, <2>4, <2>5
<1> HIDE DEF verdict
<1>17. Evaluate(alt, o, seen) = IF id \in seen THEN "skip" ELSE verdict
  BY <1>15, <1>16 DEF Evaluate
<1> QED
  BY <1>9, <1>16, <1>17 DEF verdict, id, alt

\* A result, as ClaimPlan sees it.
AsResult(device) ==
    [device |-> device.id, node |-> device.node, shared |-> device.shared,
     amount |-> device.amount]

\* The result an accepted offer leads to.
ResultOf(o) ==
    [device |-> Identity(o), node |-> o.node, shared |-> o.device.shareable,
     amount |-> IF o.device.shareable THEN PlainAmount(o) ELSE 0]

\* The device taken of an accepted offer is that result.
LEMMA PlainTake ==
    ASSUME WellFormed(input), IsPlain, PlainAlternative.class \in input.classes,
           Taken = <<>>, NEW o, PlainOffer(o), AcceptsOffer(o)
    PROVE  /\ AsResult(Take(PlainAlternative, o)) = ResultOf(o)
           /\ Take(PlainAlternative, o).id = Identity(o)
           /\ Take(PlainAlternative, o).node = o.node
<1> DEFINE id == Identity(o)
           c == The(o.device.capacity)
           alt == PlainAlternative
           used == ConsumedIn(id, input.committed)
           taken == Take(alt, o)
<1>1. /\ c.policy = {} /\ PlainCapacity(o) = c.value /\ c.value \in Nat /\ PlainDemand \in Nat
      /\ Requested(alt, c) = IF PlainDemand = 0 THEN {} ELSE {PlainDemand}
  BY PlainDevice
<1>2. used \in Nat /\ ConsumedIn(id, <<>>) = 0
  BY CommittedOf
<1>3. ConsumedSoFar(id) = used
  BY <1>2 DEF ConsumedSoFar
<1>4. /\ taken.id = id /\ taken.node = o.node /\ taken.shared = o.device.shareable
      /\ taken.amount = IF o.device.shareable
                        THEN The(ShareAmounts(alt, c, ConsumedSoFar(id))) ELSE 0
  BY DEF Take
<1> HIDE DEF taken, id, alt, used, c
<1>5. ASSUME o.device.shareable PROVE taken.amount = PlainAmount(o)
  <2>1. consumedCapacityForRequest(c, Requested(alt, c)) = {PlainAmount(o)}
    BY <1>1 DEF consumedCapacityForRequest, PlainAmount
  <2>2. used + PlainAmount(o) <= c.value
    BY <1>1, <1>5 DEF AcceptsOffer, id, used
  <2>3. ShareAmounts(alt, c, used) = {PlainAmount(o)}
    BY <2>1, <2>2 DEF ShareAmounts
  <2>4. The({PlainAmount(o)}) = PlainAmount(o)
    BY DEF The
  <2> QED
    BY <1>3, <1>4, <1>5, <2>3, <2>4
<1>6. AsResult(taken) = ResultOf(o)
  BY <1>4, <1>5 DEF AsResult, ResultOf, id
<1> QED
  BY <1>4, <1>6 DEF taken, id, alt

-----------------------------------------------------------------------------
(* What is collected for a plain claim.                                     *)

\* No earlier offer of the same device can be taken.
IsUnseen(j) ==
    \A k \in DOMAIN PlainOffers :
        k < j /\ AcceptsOffer(PlainOffers[k]) =>
            Identity(PlainOffers[k]) # Identity(PlainOffers[j])

\* The offers that are taken, and whether one gives a reason to stop.
PlainFirst == {j \in DOMAIN PlainOffers : AcceptsOffer(PlainOffers[j]) /\ IsUnseen(j)}

PlainFails == \E j \in DOMAIN PlainOffers : RejectsOffer(PlainOffers[j]) /\ IsUnseen(j)

\* A plain claim is being planned, with nothing chosen yet.
PlainStart ==
    /\ WellFormed(input) /\ IsPlain
    /\ PlainAlternative.class \in input.classes
    /\ Taken = <<>>
    /\ pc = "greedy" => ~UseBacktrackingPlanner

\* The offers the planner looks at.
LEMMA PlainOffersAre ==
    ASSUME WellFormed(input), IsPlain
    PROVE  /\ IsList(PlainOffers)
           /\ \A j \in DOMAIN PlainOffers : PlainOffer(PlainOffers[j])
           /\ Taken = <<>> => EligibleOffers = PlainOffers
<1>1. \A s \in Range(input.slices) : s.managed /\ s.supported
  BY DEF IsPlain
<1>2. PICK at : PlainOrder(at)
  BY <1>1, PlainOffersInOrder
<1>3. \A i \in DOMAIN input.slices : input.slices[i] \in Range(input.slices)
  BY DEF Range
<1>4. \A j \in DOMAIN PlainOffers : PlainOffer(PlainOffers[j])
  BY <1>2, <1>3 DEF PlainOrder, PlainOffer
<1>5. Taken = <<>> => EligibleOffers = PlainOffers
  BY EligibleIs DEF PlainOffers, AllocatedNode
<1> QED
  BY <1>2, <1>4, <1>5 DEF PlainOrder

\* The planner collects the first acceptable offer of each device.
LEMMA PlainCollect ==
    ASSUME PlainStart, NEW count \in Nat, pc = "greedy" \/ count = 0,
           NEW out, out = Collect(PlainAlternative, EligibleOffers, count)
    PROVE  /\ out.failure = "none" <=> ~PlainFails
           /\ pc = "greedy" => ~PlainFails
           /\ out.failure = "none" =>
                \A x \in Range(out.devices) :
                    \E j \in PlainFirst : x = Take(PlainAlternative, PlainOffers[j])
           /\ out.failure = "none" /\ (count = 0 \/ out.full = {}) =>
                \A j \in PlainFirst :
                    Take(PlainAlternative, PlainOffers[j]) \in Range(out.devices)
<1> DEFINE offers == PlainOffers
           alt == PlainAlternative
           D == DOMAIN offers
           alone == {j \in D : Evaluate(alt, offers[j], {}) = "accept"}
           Seen(j) == {Identity(offers[i]) : i \in {k \in alone : k < j}}
           verdicts == [j \in D |-> Evaluate(alt, offers[j], Seen(j))]
           accepted == {j \in D : verdicts[j] = "accept"}
           failing == {j \in D : verdicts[j] \notin {"accept", "skip"}}
           On(j) == {i \in accepted : i <= j /\ offers[i].node = offers[j].node}
           filling == {j \in accepted : count = Cardinality(On(j))}
           ends == failing \cup filling
           last == IF ends = {} THEN Len(offers) ELSE Min(ends)
           J == {j \in accepted : j <= last}
           taken == AtIndexes(offers, J)
           devices == [k \in DOMAIN taken |-> Take(alt, taken[k])]
<1>1. IsList(offers) /\ EligibleOffers = offers /\ \A j \in D : PlainOffer(offers[j])
  BY PlainOffersAre DEF PlainStart
<1>2. out = [devices |-> devices,
             failure |-> IF last \in failing THEN verdicts[last] ELSE "none",
             full |-> {offers[j].node : j \in filling \cap {last}}]
  <2>1. out = Collect(alt, offers, count)
    BY <1>1
  <2> QED
    BY <2>1, Zenon DEF Collect
<1>3. Len(offers) \in Nat /\ D = 1..Len(offers)
  BY <1>1, ListFacts
<1>4. \A j \in D : \A seen :
        /\ Evaluate(alt, offers[j], seen)
            = IF Identity(offers[j]) \in seen THEN "skip"
              ELSE IF AcceptsOffer(offers[j]) THEN "accept"
              ELSE IF RejectsOffer(offers[j]) THEN "Unsupported" ELSE "skip"
        /\ pc = "greedy" => ~RejectsOffer(offers[j])
        /\ ~(AcceptsOffer(offers[j]) /\ RejectsOffer(offers[j]))
  BY <1>1, PlainVerdict DEF PlainStart
<1>5. \A j \in D : j \in alone <=> AcceptsOffer(offers[j])
  BY <1>4
<1>6. \A j \in D : Identity(offers[j]) \notin Seen(j) <=> IsUnseen(j)
  BY <1>5 DEF IsUnseen
<1>7. \A j \in D : verdicts[j] = Evaluate(alt, offers[j], Seen(j))
  OBVIOUS
<1> HIDE DEF alone, Seen
<1>8. accepted = PlainFirst /\ \A j \in D : j \in failing <=> RejectsOffer(offers[j]) /\ IsUnseen(j)
  <2>1. \A j \in D : verdicts[j]
            = IF ~IsUnseen(j) THEN "skip"
              ELSE IF AcceptsOffer(offers[j]) THEN "accept"
              ELSE IF RejectsOffer(offers[j]) THEN "Unsupported" ELSE "skip"
    BY <1>4, <1>6, <1>7
  <2>2. \A j \in D : j \in accepted <=> verdicts[j] = "accept"
    OBVIOUS
  <2>3. \A j \in D : j \in failing <=> verdicts[j] \notin {"accept", "skip"}
    OBVIOUS
  <2>4. accepted \in SUBSET D
    OBVIOUS
  <2> HIDE DEF verdicts, accepted, failing
  <2>5. \A j \in D : j \in accepted <=> AcceptsOffer(offers[j]) /\ IsUnseen(j)
    BY <2>1, <2>2
  <2>6. \A j \in D : j \in failing <=> RejectsOffer(offers[j]) /\ IsUnseen(j)
    BY <1>4, <2>1, <2>3
  <2> QED
    BY <2>4, <2>5, <2>6 DEF PlainFirst
<1>9. /\ failing \in SUBSET D /\ accepted \in SUBSET D /\ filling \in SUBSET accepted
      /\ \A j \in failing : verdicts[j] # "none"
  <2>1. \A j \in failing : verdicts[j] # "none"
    <3>1. \A j \in D : verdicts[j] # "none"
      BY <1>4, <1>7
    <3> HIDE DEF verdicts
    <3> QED
      BY <3>1
  <2> QED
    BY <2>1
<1>10. failing # {} <=> PlainFails
  BY <1>8, <1>9 DEF PlainFails
<1>11. pc = "greedy" => failing = {}
  BY <1>4, <1>8, <1>9
<1>12. count = 0 => filling = {}
  <2> SUFFICES ASSUME count = 0, NEW j \in filling PROVE FALSE
    OBVIOUS
  <2>1. j \in accepted /\ j \in D /\ Cardinality(On(j)) = 0
    BY <1>9
  <2>2. j <= j
    BY <1>3, <2>1
  <2>3. j \in On(j) /\ On(j) \in SUBSET D
    BY <1>9, <2>1, <2>2
  <2> HIDE DEF On
  <2>4. IsFiniteSet(On(j))
    BY <1>1, <2>3, IndexesFinite
  <2> QED
    BY <2>1, <2>3, <2>4, FS_EmptySet
<1>13. /\ out.devices = devices
       /\ out.failure = IF last \in failing THEN verdicts[last] ELSE "none"
       /\ out.full = {offers[j].node : j \in filling \cap {last}}
  <2> HIDE DEF devices, last, failing, filling, verdicts
  <2> QED
    BY <1>2
<1>14. ends # {} => last \in ends
  <2>1. ends \in SUBSET Nat
    BY <1>3, <1>9
  <2> HIDE DEF ends
  <2> QED
    BY <2>1, MinExists
<1>15. ends = {} => last = Len(offers)
  OBVIOUS
<1>16. J \in SUBSET D /\ J \in SUBSET accepted /\ (ends = {} => J = accepted)
  <2>1. \A j \in accepted : j <= Len(offers)
    BY <1>3, <1>9
  <2> HIDE DEF last
  <2> QED
    BY <1>9, <1>15, <2>1
<1>17. ends = {} <=> failing = {} /\ filling = {}
  OBVIOUS
<1>18. ends # {} => last \in failing \/ last \in filling
  BY <1>14
<1>19. Range(devices) = {Take(alt, offers[j]) : j \in J}
  <2> HIDE DEF J
  <2>1. /\ Range(taken) = {offers[j] : j \in J}
    BY <1>1, <1>16, AtIndexesList
  <2> HIDE DEF taken
  <2>2. Range(devices) = {Take(alt, x) : x \in Range(taken)}
    BY DEF Range
  <2> QED
    BY <2>1, <2>2
<1> HIDE DEF last, ends, filling, failing, verdicts, accepted, J, devices
<1>20. out.failure = "none" <=> failing = {}
  <2>1. failing = {} => out.failure = "none"
    BY <1>13
  <2>2. failing # {} => out.failure # "none"
    <3> SUFFICES ASSUME failing # {} PROVE out.failure # "none"
      OBVIOUS
    <3>1. filling = {}
      BY <1>11, <1>12
    <3>2. last \in failing
      BY <1>17, <1>18, <3>1
    <3> QED
      BY <1>9, <1>13, <3>2
  <2> QED
    BY <2>1, <2>2
<1>21. out.failure = "none" => \A x \in Range(out.devices) :
            \E j \in PlainFirst : x = Take(alt, offers[j])
  BY <1>8, <1>13, <1>16, <1>19
<1>22. out.failure = "none" /\ (count = 0 \/ out.full = {}) =>
            \A j \in PlainFirst : Take(alt, offers[j]) \in Range(out.devices)
  <2> SUFFICES ASSUME out.failure = "none", count = 0 \/ out.full = {}
               PROVE  \A j \in PlainFirst : Take(alt, offers[j]) \in Range(out.devices)
    OBVIOUS
  <2>1. failing = {}
    BY <1>20
  <2>2. filling = {}
    <3>1. CASE count = 0
      BY <1>12, <3>1
    <3>2. CASE out.full = {}
      <4>1. last \notin filling
        BY <1>13, <3>2
      <4> QED
        BY <1>17, <1>18, <2>1, <4>1
    <3> QED
      BY <3>1, <3>2
  <2>3. J = PlainFirst
    BY <1>8, <1>16, <1>17, <2>1, <2>2
  <2> QED
    BY <1>13, <1>19, <2>3
<1> QED
  BY <1>10, <1>11, <1>20, <1>21, <1>22

\* Devices of different identities.
AreDistinct(devices) ==
    /\ IsList(devices)
    /\ \A i, j \in DOMAIN devices : devices[i].id = devices[j].id => i = j

\* The combinations of the devices of each node, node by node.
CombinationsByNode(devices, count) ==
    FlattenSeq([i \in DOMAIN NodesOf(devices) |->
                    Combinations(OnNode(devices, NodesOf(devices)[i]), count)])

\* They are the sets of count devices of one node.
LEMMA CombinationsByNodeAre ==
    ASSUME NEW devices, AreDistinct(devices), NEW count \in Nat
    PROVE  LET all == CombinationsByNode(devices, count) IN
           /\ IsList(all)
           /\ \A s \in Range(all) :
                /\ AreDistinct(s) /\ Len(s) = count /\ Range(s) \subseteq Range(devices)
                /\ \E node : \A d \in Range(s) : d.node = node
           /\ \A set \in SUBSET Range(devices) : \A node :
                set # {} /\ Cardinality(set) = count /\ (\A d \in set : d.node = node)
                    => \E s \in Range(all) : Range(s) = set
<1> DEFINE nodes == NodesOf(devices)
           Of(node) == Combinations(OnNode(devices, node), count)
           by == [i \in DOMAIN nodes |-> Of(nodes[i])]
<1>0. CombinationsByNode(devices, count) = FlattenSeq(by)
  BY DEF CombinationsByNode
<1>1. IsList(nodes) /\ \A d \in Range(devices) : d.node \in Range(nodes)
  <2> DEFINE names == [i \in DOMAIN devices |-> devices[i].node]
  <2>1. Len(devices) \in Nat /\ DOMAIN devices = 1..Len(devices)
    BY ListFacts DEF AreDistinct
  <2>2. names \in [1..Len(devices) -> {devices[i].node : i \in DOMAIN devices}]
    BY <2>1
  <2>3. nodes = Distinct(names)
    BY DEF NodesOf
  <2>4. \A d \in Range(devices) : d.node \in Range(names)
    BY DEF Range
  <2> HIDE DEF names, nodes
  <2>5. IsList(names)
    BY <2>1, <2>2, IsListIf
  <2> QED
    BY <2>3, <2>4, <2>5, DistinctIsList
<1>2. \A node : /\ AreDistinct(OnNode(devices, node))
                /\ Range(OnNode(devices, node)) \subseteq Range(devices)
                /\ \A d \in Range(OnNode(devices, node)) : d.node = node
  BY OnNodeIs DEF AreDistinct
<1>3. \A node : /\ IsList(Of(node))
                /\ \A s \in Range(Of(node)) :
                    \E I \in SUBSET DOMAIN OnNode(devices, node) :
                        Cardinality(I) = count /\ s = AtIndexes(OnNode(devices, node), I)
  BY <1>2, CombinationsAre DEF AreDistinct
<1> HIDE DEF nodes
<1>4. /\ IsList(by) /\ DOMAIN by = DOMAIN nodes
      /\ \A i \in DOMAIN by : by[i] = Of(nodes[i]) /\ IsList(by[i])
  <2> HIDE DEF Of
  <2>1. Len(nodes) \in Nat /\ DOMAIN nodes = 1..Len(nodes)
    BY <1>1, ListFacts
  <2>2. by \in [1..Len(nodes) -> {Of(nodes[i]) : i \in DOMAIN nodes}]
    BY <2>1
  <2>3. DOMAIN by = DOMAIN nodes /\ \A i \in DOMAIN by : by[i] = Of(nodes[i])
    OBVIOUS
  <2> HIDE DEF by
  <2> QED
    BY <1>3, <2>1, <2>2, <2>3, IsListIf
<1> HIDE DEF by
<1>5. /\ IsList(FlattenSeq(by))
      /\ Range(FlattenSeq(by)) = UNION {Range(by[i]) : i \in DOMAIN by}
  BY <1>4, FlattenLists
<1>6. ASSUME NEW s \in Range(FlattenSeq(by))
      PROVE  /\ AreDistinct(s) /\ Len(s) = count /\ Range(s) \subseteq Range(devices)
             /\ \E node : \A d \in Range(s) : d.node = node
  <2>1. PICK i \in DOMAIN by : s \in Range(Of(nodes[i]))
    BY <1>4, <1>5
  <2> DEFINE some == OnNode(devices, nodes[i])
  <2>2. /\ AreDistinct(some) /\ Range(some) \subseteq Range(devices)
        /\ \A d \in Range(some) : d.node = nodes[i]
    BY <1>2
  <2>3. PICK I \in SUBSET DOMAIN some : Cardinality(I) = count /\ s = AtIndexes(some, I)
    BY <1>3, <2>1
  <2> HIDE DEF some
  <2>4. /\ IsList(s) /\ Len(s) = count
        /\ Range(s) = {some[k] : k \in I}
        /\ \A k, m \in DOMAIN s : s[k].id = s[m].id => k = m
    BY <2>2, <2>3, SomeOfDistinct DEF AreDistinct
  <2>5. Range(s) \subseteq Range(some)
    BY <2>4 DEF Range
  <2> QED
    BY <2>2, <2>4, <2>5 DEF AreDistinct
<1>7. ASSUME NEW set \in SUBSET Range(devices), NEW node, set # {},
             Cardinality(set) = count, \A d \in set : d.node = node
      PROVE  \E s \in Range(FlattenSeq(by)) : Range(s) = set
  <2>1. PICK i \in DOMAIN by : nodes[i] = node
    <3>1. node \in Range(nodes)
      BY <1>1, <1>7
    <3> QED
      BY <1>4, <3>1 DEF Range
  <2>2. set \in SUBSET Range(OnNode(devices, node))
    BY <1>7, OnNodeAll DEF AreDistinct
  <2>3. PICK s \in Range(Of(node)) : Range(s) = set
    BY <1>2, <1>7, <2>2, CombinationOf DEF AreDistinct
  <2>4. s \in Range(FlattenSeq(by))
    BY <1>4, <1>5, <2>1, <2>3
  <2> QED
    BY <2>3, <2>4
<1> QED
  BY <1>0, <1>5, <1>6, <1>7

\* A node with few devices has no large set of them.
LEMMA FewOnNode ==
    ASSUME NEW devices, AreDistinct(devices), NEW count \in Nat, NEW node,
           FewOn(devices, node, count), NEW set \in SUBSET Range(devices),
           \A d \in set : d.node = node
    PROVE  Cardinality(set) # count
<1> DEFINE here == OnNode(devices, node)
<1>1. /\ IsList(here) /\ Len(here) < count
      /\ \A k, m \in DOMAIN here : here[k].id = here[m].id => k = m
  BY OnNodeIs DEF FewOn, AreDistinct
<1>2. set \in SUBSET Range(here)
  BY OnNodeAll DEF AreDistinct
<1> HIDE DEF here
<1>3. IsFiniteSet(Range(here)) /\ Cardinality(Range(here)) = Len(here) /\ Len(here) \in Nat
  BY <1>1, CountOfDistinct, ListFacts
<1>4. Cardinality(set) <= Cardinality(Range(here))
  BY <1>2, <1>3, FS_Subset
<1> QED
  BY <1>1, <1>3, <1>4

-----------------------------------------------------------------------------
(* The selections for a plain claim.                                        *)

\* The offers that make a plan: as many as asked for, on one node.
PlainChoices ==
    {J \in SUBSET PlainFirst :
        /\ Cardinality(J) = normalizedCount(PlainAlternative)
        /\ \E n : \A j \in J : PlainOffers[j].node = n}

\* What the planner may answer to a plain claim, said with its offers.
PlainPlans ==
    IF \/ CommittedConflict
       \/ PlainAlternative.class \notin input.classes
       \/ normalizedCount(PlainAlternative) > AllocationResultsMaxSize
       \/ PlainFails
    THEN {}
    ELSE {{ResultOf(PlainOffers[j]) : j \in J} : J \in PlainChoices}

\* Different offers are taken of different devices.
LEMMA PlainFirstDistinct ==
    ASSUME WellFormed(input), IsPlain
    PROVE  /\ PlainFirst \in SUBSET DOMAIN PlainOffers /\ IsFiniteSet(PlainFirst)
           /\ \A i, j \in PlainFirst :
                Identity(PlainOffers[i]) = Identity(PlainOffers[j]) => i = j
<1>1. IsList(PlainOffers)
  BY PlainOffersAre
<1>2. PlainFirst \in SUBSET DOMAIN PlainOffers
  BY DEF PlainFirst
<1>3. IsFiniteSet(PlainFirst) /\ PlainFirst \in SUBSET Nat
  BY <1>1, <1>2, IndexesFinite
<1>4. \A i, j \in PlainFirst : i < j => Identity(PlainOffers[i]) # Identity(PlainOffers[j])
  BY DEF PlainFirst, IsUnseen
<1>5. \A i, j \in PlainFirst : i < j \/ j < i \/ i = j
  BY <1>3
<1> QED
  BY <1>2, <1>3, <1>4, <1>5

\* The devices taken of some offers.
LEMMA PlainTaken ==
    ASSUME PlainStart, NEW J \in SUBSET PlainFirst, NEW set,
           set = {Take(PlainAlternative, PlainOffers[j]) : j \in J}
    PROVE  /\ Cardinality(set) = Cardinality(J)
           /\ {AsResult(x) : x \in set} = {ResultOf(PlainOffers[j]) : j \in J}
           /\ \A n : (\A x \in set : x.node = n) <=> \A j \in J : PlainOffers[j].node = n
<1> DEFINE T(j) == Take(PlainAlternative, PlainOffers[j])
           f == [j \in J |-> T(j)]
<1>1. /\ PlainFirst \in SUBSET DOMAIN PlainOffers /\ IsFiniteSet(PlainFirst)
      /\ \A i, j \in PlainFirst :
            Identity(PlainOffers[i]) = Identity(PlainOffers[j]) => i = j
  BY PlainFirstDistinct DEF PlainStart
<1>2. \A j \in J : /\ AsResult(T(j)) = ResultOf(PlainOffers[j])
                   /\ T(j).id = Identity(PlainOffers[j])
                   /\ T(j).node = PlainOffers[j].node
  <2> TAKE j \in J
  <2>1. j \in DOMAIN PlainOffers /\ AcceptsOffer(PlainOffers[j])
    BY DEF PlainFirst
  <2>2. PlainOffer(PlainOffers[j])
    BY <2>1, PlainOffersAre DEF PlainStart
  <2> QED
    BY <2>1, <2>2, PlainTake DEF PlainStart
<1>3. set = {T(j) : j \in J}
  OBVIOUS
<1> HIDE DEF T
<1>4. f \in Bijection(J, set)
  <2>1. f \in [J -> set] /\ \A j \in J : f[j] = T(j)
    BY <1>3
  <2>2. \A i, j \in J : f[i] = f[j] => i = j
    BY <1>1, <1>2, <2>1
  <2>3. \A x \in set : \E j \in J : f[j] = x
    BY <1>3, <2>1
  <2> HIDE DEF f
  <2> QED
    BY <2>1, <2>2, <2>3 DEF Bijection, Injection, Surjection, IsInjective
<1>5. IsFiniteSet(J)
  BY <1>1, FS_Subset
<1>6. Cardinality(set) = Cardinality(J)
  BY <1>4, <1>5, FS_Bijection DEF ExistsBijection
<1>7. {AsResult(x) : x \in set} = {ResultOf(PlainOffers[j]) : j \in J}
  <2>1. {AsResult(x) : x \in set} = {AsResult(T(j)) : j \in J}
    BY <1>3
  <2> QED
    BY <1>2, <2>1
<1>8. \A n : (\A x \in set : x.node = n) <=> \A j \in J : PlainOffers[j].node = n
  BY <1>2, <1>3
<1> QED
  BY <1>6, <1>7, <1>8

\* A selection of first offers is one of the plans.
LEMMA PlainSelection ==
    ASSUME PlainStart, ~CommittedConflict, ~PlainFails,
           normalizedCount(PlainAlternative) <= AllocationResultsMaxSize,
           NEW s, AreDistinct(s), Len(s) = normalizedCount(PlainAlternative),
           NEW n, \A x \in Range(s) : x.node = n,
           \A x \in Range(s) :
                \E j \in PlainFirst : x = Take(PlainAlternative, PlainOffers[j])
    PROVE  AbstractResults(s) \in PlainPlans
<1> DEFINE J == {j \in PlainFirst : Take(PlainAlternative, PlainOffers[j]) \in Range(s)}
<1>1. Range(s) = {Take(PlainAlternative, PlainOffers[j]) : j \in J}
  OBVIOUS
<1>2. J \in SUBSET PlainFirst
  OBVIOUS
<1> HIDE DEF J
<1>3. /\ Cardinality(Range(s)) = Cardinality(J)
      /\ {AsResult(x) : x \in Range(s)} = {ResultOf(PlainOffers[j]) : j \in J}
      /\ \A j \in J : PlainOffers[j].node = n
  BY <1>1, <1>2, PlainTaken
<1>4. Cardinality(J) = normalizedCount(PlainAlternative)
  BY <1>3, CountOfDistinct DEF AreDistinct
<1>5. J \in PlainChoices
  BY <1>2, <1>3, <1>4 DEF PlainChoices
<1>6. AbstractResults(s) = {AsResult(x) : x \in Range(s)}
  BY DEF AbstractResults, AsResult
<1>7. /\ PlainAlternative.class \in input.classes
      /\ ~(normalizedCount(PlainAlternative) > AllocationResultsMaxSize)
  <2>1. normalizedCount(PlainAlternative) \in Nat
    BY PlainRequest DEF PlainStart
  <2> QED
    BY <2>1, ClaimSearchAssumption DEF PlainStart
<1>8. PlainPlans = {{ResultOf(PlainOffers[j]) : j \in K} : K \in PlainChoices}
  BY <1>7 DEF PlainPlans
<1> QED
  BY <1>3, <1>5, <1>6, <1>8

\* A plan is a set of devices that were collected.
LEMMA PlainWanted ==
    ASSUME PlainStart, PlainPlans # {}, NEW devices,
           \A j \in PlainFirst : Take(PlainAlternative, PlainOffers[j]) \in Range(devices)
    PROVE  \E set \in SUBSET Range(devices) : \E n :
                /\ Cardinality(set) = normalizedCount(PlainAlternative)
                /\ set # {} /\ \A x \in set : x.node = n
<1>1. PICK J \in PlainChoices : TRUE
  BY DEF PlainPlans
<1>2. J \in SUBSET PlainFirst /\ Cardinality(J) = normalizedCount(PlainAlternative)
  BY <1>1 DEF PlainChoices
<1>3. PICK n : \A j \in J : PlainOffers[j].node = n
  BY <1>1 DEF PlainChoices
<1> DEFINE set == {Take(PlainAlternative, PlainOffers[j]) : j \in J}
<1>4. set \in SUBSET Range(devices)
  BY <1>2
<1>5. J # {}
  BY <1>2, PlainRequest, FS_EmptySet DEF PlainStart
<1>6. set # {}
  BY <1>5
<1> HIDE DEF set
<1>7. Cardinality(set) = Cardinality(J) /\ \A x \in set : x.node = n
  BY <1>2, <1>3, PlainTaken DEF set
<1> QED
  BY <1>2, <1>4, <1>6, <1>7

\* Selections that are plans, and none only when there is no plan.
PlainAnswer(selections) ==
    /\ IsList(selections)
    /\ \A s \in Range(selections) : AbstractResults(s) \in PlainPlans
    /\ selections = <<>> => PlainPlans = {}

\* forEachConstrainedExactSelection.
LEMMA PlainSearch ==
    ASSUME PlainStart, ~CommittedConflict,
           normalizedCount(PlainAlternative) <= AllocationResultsMaxSize
    PROVE  PlainAnswer(ExactSelections(Collect(PlainAlternative, EligibleOffers, 0),
                                       normalizedCount(PlainAlternative)).selections)
<1> DEFINE alt == PlainAlternative
           count == normalizedCount(alt)
           out == Collect(alt, EligibleOffers, 0)
           answer == ExactSelections(out, count).selections
<1>1. count \in Nat \ {0} /\ count \in Nat
  BY PlainRequest DEF PlainStart
<1>2. /\ out.failure = "none" <=> ~PlainFails
      /\ out.failure = "none" => \A x \in Range(out.devices) :
            \E j \in PlainFirst : x = Take(alt, PlainOffers[j])
      /\ out.failure = "none" => \A j \in PlainFirst :
            Take(alt, PlainOffers[j]) \in Range(out.devices)
  BY PlainCollect
<1>3. AreDistinct(out.devices)
  BY EligibleCollected DEF PlainStart, CollectIs, AreDistinct
<1>4. answer = IF out.failure # "none" THEN <<>> ELSE CombinationsByNode(out.devices, count)
  BY DEF ExactSelections, Nothing, CombinationsByNode
<1> HIDE DEF out
<1>5. CASE out.failure # "none"
  <2>1. PlainPlans = {}
    BY <1>2, <1>5 DEF PlainPlans
  <2> QED
    BY <1>4, <1>5, <2>1, OneSelection DEF PlainAnswer, out
<1>6. CASE out.failure = "none"
  <2> DEFINE all == CombinationsByNode(out.devices, count)
  <2> HIDE DEF count
  <2>1. /\ IsList(all)
        /\ \A s \in Range(all) :
            /\ AreDistinct(s) /\ Len(s) = count /\ Range(s) \subseteq Range(out.devices)
            /\ \E node : \A d \in Range(s) : d.node = node
        /\ \A set \in SUBSET Range(out.devices) : \A node :
            set # {} /\ Cardinality(set) = count /\ (\A d \in set : d.node = node)
                => \E s \in Range(all) : Range(s) = set
    BY <1>1, <1>3, CombinationsByNodeAre
  <2> HIDE DEF all
  <2>2. ASSUME NEW s \in Range(all) PROVE AbstractResults(s) \in PlainPlans
    <3>1. /\ AreDistinct(s) /\ Len(s) = count
          /\ \A x \in Range(s) : \E j \in PlainFirst : x = Take(alt, PlainOffers[j])
      BY <1>2, <1>6, <2>1, <2>2
    <3>2. PICK node : \A d \in Range(s) : d.node = node
      BY <2>1, <2>2
    <3> QED
      BY <1>2, <1>6, <3>1, <3>2, PlainSelection DEF count
  <2>3. all = <<>> => PlainPlans = {}
    <3> SUFFICES ASSUME PlainPlans # {} PROVE all # <<>>
      OBVIOUS
    <3>1. PICK set \in SUBSET Range(out.devices) : \E n :
            Cardinality(set) = count /\ set # {} /\ \A x \in set : x.node = n
      BY <1>2, <1>6, PlainWanted DEF count
    <3>2. Range(all) # {}
      BY <2>1, <3>1
    <3> QED
      BY <3>2, OneSelection
  <2>4. answer = all
    BY <1>4, <1>6 DEF all, count, out
  <2> QED
    BY <2>1, <2>2, <2>3, <2>4 DEF PlainAnswer, count, out
<1> QED
  BY <1>5, <1>6

\* selectExactCountAlternative.
LEMMA PlainGreedy ==
    ASSUME PlainStart, ~CommittedConflict, pc = "greedy",
           normalizedCount(PlainAlternative) <= AllocationResultsMaxSize
    PROVE  PlainAnswer(FirstExactSelection(Collect(PlainAlternative, EligibleOffers,
                            normalizedCount(PlainAlternative))).selections)
<1> DEFINE alt == PlainAlternative
           count == normalizedCount(alt)
           out == Collect(alt, EligibleOffers, count)
           node == The(out.full)
           some == OnNode(out.devices, node)
           answer == FirstExactSelection(out).selections
<1>1. count \in Nat \ {0} /\ count \in Nat
  BY PlainRequest DEF PlainStart
<1>2. /\ out.failure = "none" /\ ~PlainFails
      /\ \A x \in Range(out.devices) :
            \E j \in PlainFirst : x = Take(alt, PlainOffers[j])
      /\ out.full = {} => \A j \in PlainFirst :
            Take(alt, PlainOffers[j]) \in Range(out.devices)
  <2> HIDE DEF count
  <2> QED
    BY <1>1, PlainCollect
<1>3. /\ AreDistinct(out.devices)
      /\ out.full = {} => \A n : FewOn(out.devices, n, count)
      /\ \A n \in out.full :
            Cardinality({i \in DOMAIN out.devices : out.devices[i].node = n}) = count
  <2> HIDE DEF count
  <2>1. CollectIs(alt, Offers(Eligible, AllocatedNode), count, out)
    BY <1>1, EligibleCollected DEF PlainStart
  <2> HIDE DEF out
  <2> QED
    BY <1>1, <1>2, <2>1 DEF CollectIs, AreDistinct, FewOn
<1>4. answer = IF out.full = {} THEN <<>> ELSE <<some>>
  BY DEF FirstExactSelection, Nothing
<1> HIDE DEF out
<1>5. CASE out.full = {}
  <2>1. PlainPlans = {}
    <3> SUFFICES ASSUME PlainPlans # {} PROVE FALSE
      OBVIOUS
    <3>1. PICK set \in SUBSET Range(out.devices) : \E n :
            Cardinality(set) = count /\ set # {} /\ \A x \in set : x.node = n
      BY <1>2, <1>5, PlainWanted
    <3>2. PICK n : Cardinality(set) = count /\ \A x \in set : x.node = n
      BY <3>1
    <3> HIDE DEF count
    <3> QED
      BY <1>1, <1>3, <1>5, <3>2, FewOnNode
  <2> QED
    BY <1>4, <1>5, <2>1, OneSelection DEF PlainAnswer, out
<1>6. CASE out.full # {}
  <2>1. node \in out.full
    BY <1>6 DEF The
  <2> HIDE DEF node, count
  <2>2. /\ IsList(some) /\ Range(some) \subseteq Range(out.devices)
        /\ Len(some) = count
        /\ \A d \in Range(some) : d.node = node
        /\ \A k, m \in DOMAIN some : some[k].id = some[m].id => k = m
    <3>1. /\ IsList(some) /\ Range(some) \subseteq Range(out.devices)
          /\ Len(some) = Cardinality({i \in DOMAIN out.devices : out.devices[i].node = node})
          /\ \A d \in Range(some) : d.node = node
          /\ \A k, m \in DOMAIN some : some[k].id = some[m].id => k = m
      BY <1>3, OnNodeIs DEF AreDistinct
    <3> QED
      BY <1>3, <2>1, <3>1
  <2> HIDE DEF some
  <2>3. \A x \in Range(some) : \E j \in PlainFirst : x = Take(alt, PlainOffers[j])
    BY <1>2, <2>2
  <2>4. AbstractResults(some) \in PlainPlans
    BY <1>2, <2>2, <2>3, PlainSelection DEF count, AreDistinct
  <2>5. answer = <<some>> /\ <<some>> # <<>>
    BY <1>4, <1>6 DEF some, node, count, out
  <2>6. PlainAnswer(<<some>>)
    BY <2>4, OneSelection DEF PlainAnswer
  <2> QED
    BY <2>5, <2>6 DEF out, count
<1> QED
  BY <1>5, <1>6

\* selectAlternative, forEachConstrainedAlternative.
LEMMA PlainOutcome ==
    ASSUME WellFormed(input), IsPlain, Taken = <<>>, ~CommittedConflict,
           pc = "greedy" => ~UseBacktrackingPlanner
    PROVE  PlainAnswer(AlternativeOutcome(PlainAlternative).selections)
<1> DEFINE alt == PlainAlternative
           out == AlternativeOutcome(alt)
<1>1. alt.mode = "ExactCount" /\ normalizedCount(alt) \in Nat
  BY PlainRequest
<1>2. RemainingResults = AllocationResultsMaxSize
  BY ClaimSearchAssumption DEF RemainingResults
<1>3. CASE alt.class \notin input.classes
  <2>1. out.selections = <<>>
    BY <1>3 DEF AlternativeOutcome, Nothing
  <2>2. PlainPlans = {}
    BY <1>3 DEF PlainPlans
  <2> QED
    BY <2>1, <2>2, OneSelection DEF PlainAnswer
<1>4. CASE alt.class \in input.classes
  <2>1. out = IF normalizedCount(alt) > RemainingResults
              THEN [Nothing EXCEPT !.limit = TRUE]
              ELSE ExactOutcome(alt, normalizedCount(alt))
    BY <1>1, <1>4 DEF AlternativeOutcome
  <2>2. CASE normalizedCount(alt) > AllocationResultsMaxSize
    <3>1. out.selections = <<>>
      BY <1>2, <2>1, <2>2 DEF Nothing
    <3>2. PlainPlans = {}
      BY <2>2 DEF PlainPlans
    <3> QED
      BY <3>1, <3>2, OneSelection DEF PlainAnswer
  <2>3. CASE ~(normalizedCount(alt) > AllocationResultsMaxSize)
    <3>1. normalizedCount(alt) <= AllocationResultsMaxSize /\ PlainStart
      BY <1>1, <1>4, <2>3, ClaimSearchAssumption DEF PlainStart
    <3>2. out = ExactOutcome(alt, normalizedCount(alt))
      BY <1>2, <2>1, <2>3
    <3> QED
      BY <3>1, <3>2, PlainSearch, PlainGreedy DEF ExactOutcome
  <2> QED
    BY <2>2, <2>3
<1> QED
  BY <1>3, <1>4

-----------------------------------------------------------------------------
(* The same said with ClaimPlan.                                            *)

\* What ClaimPlan says is consumed is a sum.
LEMMA AbstractSum ==
    ASSUME NEW held, NEW id, NEW S, NEW f,
           S = {h \in Abstract(input)!HeldResults(held) : h[2].device = id /\ h[2].shared},
           Counts(f, S), \A h \in S : f[h] = h[2].amount
    PROVE  Abstract(input)!Consumed(held, id) = SumFunctionOnSet(f, S)
<1> DEFINE Some(s) == CHOOSE x \in s : TRUE
           Rec(g) == [s \in SUBSET S |->
                        IF s = {} THEN 0 ELSE Some(s)[2].amount + g[s \ {Some(s)}]]
           Rof(g) == [s \in SUBSET S |->
                        IF s = {} THEN 0 ELSE f[Some(s)] + g[s \ {Some(s)}]]
           sum == CHOOSE g : g = Rec(g)
<1>1. Abstract(input)!Consumed(held, id) = sum[S]
  BY Zenon DEF Abstract!Consumed, Abstract!MapThenSumSet, Abstract!MapThenFoldSet
<1>2. \A s \in SUBSET S : s # {} => Some(s) \in S
  OBVIOUS
<1>3. \A g : Sums(g, f, S) <=> g = Rof(g)
  BY Zenon DEF Sums
<1> HIDE DEF Some
<1>4. \A g : Rec(g) = Rof(g)
  BY <1>2
<1> HIDE DEF Rec, Rof
<1>5. \E g : g = Rec(g)
  BY <1>3, <1>4, SumSolution
<1>6. sum = Rec(sum)
  BY <1>5
<1>7. Sums(sum, f, S)
  BY <1>3, <1>4, <1>6
<1> QED
  BY <1>1, <1>7, SumSolution, SumIsCount

\* What is committed, as ClaimPlan holds it.
LEMMA AbstractHolds ==
    ASSUME WellFormed(input)
    PROVE  /\ \A id : Abstract(input)!HeldExclusively(AbstractHeld, id)
                        <=> ExclusiveIn(id, input.committed)
           /\ \A id : Abstract(input)!HeldShared(AbstractHeld, id)
                        <=> SharedIn(id, input.committed)
           /\ Abstract(input)!UsageConflict(AbstractHeld) <=> CommittedConflict
           /\ \A id : ~ExclusiveIn(id, input.committed) =>
                Abstract(input)!Consumed(AbstractHeld, id) = ConsumedIn(id, input.committed)
<1> DEFINE list == input.committed
           Rec(i) == [device |-> list[i].id, node |-> NoNode,
                      shared |-> list[i].shared, amount |-> list[i].amount]
           all == Abstract(input)!HeldResults(AbstractHeld)
<1>1. /\ IsList(list) /\ \A i \in DOMAIN list : list[i] \in Range(list)
      /\ \A r \in Range(list) : r.shared \in BOOLEAN /\ r.amount \in Nat
  BY ListFacts DEF WellFormed
<1>2. DOMAIN AbstractHeld = DOMAIN list /\ \A i \in DOMAIN list : AbstractHeld[i] = {Rec(i)}
  BY DEF AbstractHeld
<1>3. \A i : /\ Rec(i).device = list[i].id /\ Rec(i).shared = list[i].shared
             /\ Rec(i).amount = list[i].amount
  OBVIOUS
<1> HIDE DEF Rec
<1>4. \A id : Abstract(input)!HeldExclusively(AbstractHeld, id) <=> ExclusiveIn(id, list)
  BY <1>2, <1>3 DEF Abstract!HeldExclusively, ExclusiveIn, Range
<1>5. \A id : Abstract(input)!HeldShared(AbstractHeld, id) <=> SharedIn(id, list)
  BY <1>2, <1>3 DEF Abstract!HeldShared, SharedIn, Range
<1>6. all = {<<i, Rec(i)>> : i \in DOMAIN list}
  <2>1. all = UNION {{i} \X AbstractHeld[i] : i \in DOMAIN AbstractHeld}
    BY DEF Abstract!HeldResults
  <2>2. \A i \in DOMAIN list : {i} \X AbstractHeld[i] = {<<i, Rec(i)>>}
    BY <1>2
  <2> HIDE DEF all
  <2>3. all = UNION {{<<i, Rec(i)>>} : i \in DOMAIN list}
    BY <1>2, <2>1, <2>2
  <2> QED
    BY <2>3
<1>7. Abstract(input)!UsageConflict(AbstractHeld)
        <=> \E i, j \in DOMAIN list : i # j /\ list[i].id = list[j].id /\ ~list[i].shared
  <2>1. Abstract(input)!UsageConflict(AbstractHeld) <=>
            \E g, h \in all : g # h /\ g[2].device = h[2].device /\ ~g[2].shared
    BY DEF Abstract!UsageConflict
  <2> HIDE DEF all
  <2>2. ASSUME NEW g \in all, NEW h \in all, g # h, g[2].device = h[2].device, ~g[2].shared
        PROVE  \E i, j \in DOMAIN list : i # j /\ list[i].id = list[j].id /\ ~list[i].shared
    <3>1. PICK i \in DOMAIN list : g = <<i, Rec(i)>>
      BY <1>6
    <3>2. PICK j \in DOMAIN list : h = <<j, Rec(j)>>
      BY <1>6
    <3> QED
      BY <1>3, <2>2, <3>1, <3>2
  <2>3. ASSUME NEW i \in DOMAIN list, NEW j \in DOMAIN list, i # j,
               list[i].id = list[j].id, ~list[i].shared
        PROVE  \E g, h \in all : g # h /\ g[2].device = h[2].device /\ ~g[2].shared
    <3>1. <<i, Rec(i)>> \in all /\ <<j, Rec(j)>> \in all /\ <<i, Rec(i)>> # <<j, Rec(j)>>
      BY <1>6, <2>3
    <3>2. /\ <<i, Rec(i)>>[2].device = <<j, Rec(j)>>[2].device
          /\ ~<<i, Rec(i)>>[2].shared
      BY <1>3, <2>3
    <3> QED
      BY <3>1, <3>2
  <2> QED
    BY <2>1, <2>2, <2>3
<1>8. CommittedConflict
        <=> \E i, j \in DOMAIN list : i # j /\ list[i].id = list[j].id /\ ~list[i].shared
  <2>1. ASSUME NEW i \in DOMAIN list
        PROVE  /\ IsFiniteSet(UsesOf(list[i].id, list)) /\ i \in UsesOf(list[i].id, list)
               /\ Cardinality(UsesOf(list[i].id, list)) \in Nat
    <3>1. UsesOf(list[i].id, list) \in SUBSET DOMAIN list /\ i \in UsesOf(list[i].id, list)
      BY DEF UsesOf
    <3>2. IsFiniteSet(UsesOf(list[i].id, list))
      BY <1>1, <3>1, IndexesFinite
    <3> QED
      BY <3>1, <3>2, FS_CardinalityType
  <2>2. ASSUME NEW i \in DOMAIN list, NEW j \in DOMAIN list, i # j, list[i].id = list[j].id
        PROVE  Cardinality(UsesOf(list[i].id, list)) > 1
    <3> DEFINE U == UsesOf(list[i].id, list)
    <3>1. {i, j} \in SUBSET U
      BY <2>2 DEF UsesOf
    <3>2. IsFiniteSet(U) /\ Cardinality(U) \in Nat
      BY <2>1
    <3> HIDE DEF U
    <3>3. Cardinality({i, j}) = 2
      <4>1. IsFiniteSet({i}) /\ Cardinality({i}) = 1 /\ j \notin {i}
        BY <2>2, FS_Singleton
      <4>2. Cardinality({i} \cup {j}) = Cardinality({i}) + 1
        BY <4>1, FS_AddElement
      <4>3. {i, j} = {i} \cup {j}
        OBVIOUS
      <4> QED
        BY <4>1, <4>2, <4>3
    <3>4. Cardinality({i, j}) <= Cardinality(U)
      BY <3>1, <3>2, FS_Subset
    <3>5. Cardinality(U) > 1
      BY <3>2, <3>3, <3>4
    <3> QED
      BY <3>5 DEF U
  <2>3. ASSUME NEW i \in DOMAIN list, Cardinality(UsesOf(list[i].id, list)) > 1
        PROVE  \E j \in DOMAIN list : i # j /\ list[i].id = list[j].id
    <3> DEFINE U == UsesOf(list[i].id, list)
    <3> SUFFICES ASSUME U = {i} PROVE FALSE
      BY <2>1 DEF UsesOf
    <3>1. Cardinality(U) = 1
      BY FS_Singleton
    <3> QED
      BY <2>3, <3>1
  <2>4. CommittedConflict <=> \E i \in DOMAIN list :
            ~list[i].shared /\ Cardinality(UsesOf(list[i].id, list)) > 1
    BY DEF CommittedConflict, Range
  <2> QED
    BY <2>2, <2>3, <2>4
<1>9. ASSUME NEW id, ~ExclusiveIn(id, list)
      PROVE  Abstract(input)!Consumed(AbstractHeld, id) = ConsumedIn(id, list)
  <2> DEFINE U == UsesOf(id, list)
             f == [i \in DOMAIN list |-> list[i].amount]
             S == {h \in all : h[2].device = id /\ h[2].shared}
             g == [h \in S |-> h[2].amount]
             b == [i \in U |-> <<i, Rec(i)>>]
  <2>1. U \in SUBSET DOMAIN list /\ IsFiniteSet(U)
    BY <1>1, IndexesFinite DEF UsesOf
  <2>2. \A i \in U : list[i].id = id /\ list[i].shared /\ list[i].amount \in Nat
    BY <1>1, <1>9 DEF UsesOf, ExclusiveIn
  <2>3. Counts(f, U) /\ \A i \in U : f[i] = list[i].amount
    BY <2>1, <2>2 DEF Counts
  <2> HIDE DEF all
  <2>4. \A h : h \in S <=> \E i \in U : h = <<i, Rec(i)>>
    <3>1. \A h \in S : \E i \in U : h = <<i, Rec(i)>>
      BY <1>3, <1>6 DEF UsesOf
    <3>2. \A i \in U : <<i, Rec(i)>> \in S
      BY <1>3, <1>6, <2>1, <2>2
    <3> QED
      BY <3>1, <3>2
  <2> HIDE DEF U, f
  <2>5. /\ \A i \in U : b[i] = <<i, Rec(i)>> /\ b[i] \in S /\ b[i][2].amount = list[i].amount
        /\ b \in [U -> S]
    <3> HIDE DEF S
    <3> QED
      BY <1>3, <2>4
  <2> HIDE DEF b
  <2>6. b \in Bijection(U, S)
    <3>1. \A i, j \in U : b[i] = b[j] => i = j
      BY <2>5
    <3>2. \A h \in S : \E i \in U : b[i] = h
      BY <2>4, <2>5
    <3> HIDE DEF S
    <3> QED
      BY <2>5, <3>1, <3>2 DEF Bijection, Injection, Surjection, IsInjective
  <2>7. IsFiniteSet(S)
    <3> HIDE DEF S
    <3> QED
      BY <2>1, <2>6, FS_Bijection DEF ExistsBijection
  <2>8. /\ \A h \in S : g[h] = h[2].amount
        /\ \A h \in S : g[h] \in Nat
    <3>1. \A h \in S : g[h] = h[2].amount
      OBVIOUS
    <3>2. \A h \in S : h[2].amount \in Nat
      <4> HIDE DEF S
      <4> QED
        BY <1>3, <2>2, <2>4
    <3> QED
      BY <3>1, <3>2
  <2>9. Abstract(input)!Consumed(AbstractHeld, id) = SumFunctionOnSet(g, S)
    <3>1. S = {h \in Abstract(input)!HeldResults(AbstractHeld) : h[2].device = id /\ h[2].shared}
      BY DEF all
    <3> HIDE DEF S, g
    <3>2. Counts(g, S)
      BY <2>7, <2>8 DEF Counts
    <3> QED
      BY <2>8, <3>1, <3>2, AbstractSum
  <2> HIDE DEF S, g
  <2>10. SumFunctionOnSet(f, U) = SumFunctionOnSet(g, S)
    <3>1. Counts(g, S)
      BY <2>7, <2>8 DEF Counts
    <3>2. \A i \in U : f[i] = g[b[i]]
      BY <2>3, <2>5, <2>8
    <3> QED
      BY <2>3, <2>6, <3>1, <3>2, SumRenamed
  <2>11. ConsumedIn(id, list) = SumFunctionOnSet(f, U)
    BY DEF ConsumedIn, f, U
  <2> QED
    BY <2>9, <2>10, <2>11
<1> QED
  BY <1>4, <1>5, <1>7, <1>8, <1>9

\* What ClaimPlan says of the slice i and the device id.
AbstractAccepts(i, id) ==
    Abstract(input)!Accepts(AbstractSlices, i, id, AbstractSpec, AbstractHeld)

AbstractRejects(i, id) ==
    Abstract(input)!Rejects(AbstractSlices, i, id, AbstractSpec, AbstractHeld)

\* How a slice publishes a device of its own.
LEMMA AbstractModeIs ==
    ASSUME IsPlain, NEW s \in Range(input.slices), NEW id
    PROVE  /\ \A d \in Range(s.devices) : <<s.driver, s.pool, d.name>> = id =>
                AbstractMode(s, id) = IF d.shareable THEN "shareable" ELSE "exclusive"
           /\ AbstractMode(s, id) # "absent" =>
                \E d \in Range(s.devices) : <<s.driver, s.pool, d.name>> = id
<1> DEFINE here == {d \in Range(s.devices) : <<s.driver, s.pool, d.name>> = id}
<1>1. \A d, e \in Range(s.devices) : d.name = e.name => d = e
  BY DEF IsPlain
<1>2. ASSUME NEW d \in Range(s.devices), <<s.driver, s.pool, d.name>> = id
      PROVE  here # {} /\ The(here) = d
  <2>1. d \in here /\ \A e \in here : e = d
    BY <1>1, <1>2
  <2> HIDE DEF here
  <2> QED
    BY <2>1 DEF The
<1>3. here # {} => \E d \in Range(s.devices) : <<s.driver, s.pool, d.name>> = id
  OBVIOUS
<1>4. AbstractMode(s, id) = IF here = {} THEN "absent"
                            ELSE IF The(here).shareable THEN "shareable" ELSE "exclusive"
  BY DEF AbstractMode
<1> HIDE DEF here
<1> QED
  BY <1>2, <1>3, <1>4

\* The capacity ClaimPlan gives a device, and the devices of a class.
AbstractCapacity(id) == The(The({o.device : o \in OffersOf(id)}).capacity).value

AbstractSelected(id) ==
    \A o \in OffersOf(id) : o.device.verdict[PlainAlternative.class] = "match"

\* They are those of the offers of the device.
LEMMA AbstractDevice ==
    ASSUME WellFormed(input), IsPlain, NEW o, PlainOffer(o)
    PROVE  /\ Identity(o) \in Identities
           /\ AbstractCapacity(Identity(o)) = PlainCapacity(o)
           /\ AbstractSelected(Identity(o)) <=> PlainMatch(o)
<1> DEFINE id == Identity(o)
           s == o.slice
           p == Offer(s, o.device, NoNode)
           all == Offers(input.slices, NoNode)
<1>1. s \in Range(input.slices) /\ o.device \in Range(s.devices)
  BY DEF PlainOffer
<1>2. /\ \A x \in Range(input.slices) : IsList(x.devices) /\ x.node # NoNode
      /\ IsList(input.slices)
  BY DEF WellFormed, IsSlice, IsPlain
<1>3. CompatibleNodes(s, NoNode) # {}
  BY <1>1, <1>2 DEF CompatibleNodes
<1>4. p \in Range(all)
  BY <1>1, <1>2, <1>3, OffersList DEF IsOffer
<1>5. p.device = o.device /\ Identity(p) = id
  BY DEF Offer, Identity
<1> HIDE DEF p, all, id
<1>6. p \in OffersOf(id) /\ id \in Identities
  BY <1>4, <1>5 DEF OffersOf, Identities, all
<1>7. \A q \in OffersOf(id) : /\ q.device.capacity = o.device.capacity
                              /\ q.device.verdict = o.device.verdict
  BY <1>5, <1>6 DEF IsPlain
<1>8. AbstractSelected(id) <=> PlainMatch(o)
  BY <1>5, <1>6, <1>7 DEF AbstractSelected, PlainMatch
<1>9. AbstractCapacity(id) = PlainCapacity(o)
  <2> DEFINE D == {q.device : q \in OffersOf(id)}
  <2>1. D # {} /\ \A d \in D : d.capacity = o.device.capacity
    BY <1>6, <1>7
  <2> HIDE DEF D
  <2>2. The(D) \in D
    BY <2>1 DEF The
  <2>3. The(D).capacity = o.device.capacity
    BY <2>1, <2>2
  <2> QED
    BY <2>3 DEF AbstractCapacity, PlainCapacity, D
<1> QED
  BY <1>6, <1>8, <1>9 DEF id

\* ClaimPlan's verdict on a device of a slice is the planner's on its offer.
LEMMA AbstractVerdict ==
    ASSUME WellFormed(input), IsPlain, PlainAlternative.class \in input.classes,
           NEW i \in DOMAIN input.slices, input.slices[i].healthy,
           NEW o, PlainOffer(o), o.slice = input.slices[i]
    PROVE  /\ AbstractAccepts(i, Identity(o)) <=> AcceptsOffer(o)
           /\ AbstractRejects(i, Identity(o)) <=> RejectsOffer(o)
           /\ Abstract(input)!ShareAmount(AbstractSpec, Identity(o)) = PlainAmount(o)
           /\ AbstractSlices[i].mode[Identity(o)] = "shareable" <=> o.device.shareable
<1> DEFINE id == Identity(o)
           s == input.slices[i]
           slices == AbstractSlices
           cap == AbstractCapacity(id)
<1>1. /\ id \in Identities /\ cap = PlainCapacity(o)
      /\ AbstractSelected(id) <=> PlainMatch(o)
  BY AbstractDevice
<1>2. s \in Range(input.slices) /\ o.device \in Range(s.devices)
      /\ <<s.driver, s.pool, o.device.name>> = id
  BY DEF PlainOffer, Identity
<1>3. /\ AbstractMode(s, id) = IF o.device.shareable THEN "shareable" ELSE "exclusive"
  BY <1>2, AbstractModeIs
<1>4. slices[i].healthy /\ slices[i].mode[id] = AbstractMode(s, id)
  BY <1>1 DEF AbstractSlices
<1>5. AbstractSpec.class = PlainAlternative.class /\ AbstractSpec.demand = PlainDemand
  BY DEF AbstractSpec, PlainDemand
<1>6. /\ \A x : Abstract(input)!HeldExclusively(AbstractHeld, x)
                    <=> ExclusiveIn(x, input.committed)
      /\ \A x : Abstract(input)!HeldShared(AbstractHeld, x) <=> SharedIn(x, input.committed)
      /\ ~ExclusiveIn(id, input.committed) =>
            Abstract(input)!Consumed(AbstractHeld, id) = ConsumedIn(id, input.committed)
  BY AbstractHolds
<1>7. PlainAlternative = input.requests[1].exactly[1]
  BY DEF PlainAlternative
<1>8. [x \in Identities |->
            The(The({y.device : y \in OffersOf(x)}).capacity).value][id] = cap
  BY <1>1 DEF AbstractCapacity
<1>9. id \in [c \in {input.requests[1].exactly[1].class} |->
                {x \in Identities : \A y \in OffersOf(x) : y.device.verdict[c] = "match"}]
             [AbstractSpec.class]
        <=> AbstractSelected(id)
  BY <1>1, <1>5, <1>7 DEF AbstractSelected
<1>10. Abstract(input)!Offers(slices, i, id, AbstractSpec) <=> PlainMatch(o)
  BY <1>1, <1>3, <1>4, <1>9 DEF Abstract!Offers, Abstract!Eligible
<1>11. Abstract(input)!ShareAmount(AbstractSpec, id) = PlainAmount(o)
  BY <1>1, <1>5, <1>8 DEF Abstract!ShareAmount, PlainAmount
<1> HIDE DEF id, slices, cap
<1>12. AbstractAccepts(i, id) <=>
        /\ PlainMatch(o)
        /\ IF slices[i].mode[id] = "shareable"
           THEN /\ ~ExclusiveIn(id, input.committed)
                /\ ~(Abstract(input)!Consumed(AbstractHeld, id) + PlainAmount(o) > cap)
           ELSE /\ ~SharedIn(id, input.committed)
                /\ ~ExclusiveIn(id, input.committed)
                /\ PlainDemand <= cap
  BY <1>5, <1>6, <1>8, <1>10, <1>11
     DEF AbstractAccepts, Abstract!Accepts, Abstract!CapacityExceeded,
         Abstract!ExclusiveCapacityMatches, slices
<1>13. AbstractRejects(i, id) <=>
        /\ PlainMatch(o)
        /\ IF slices[i].mode[id] = "shareable"
           THEN \/ ExclusiveIn(id, input.committed)
                \/ Abstract(input)!Consumed(AbstractHeld, id) > cap
           ELSE SharedIn(id, input.committed)
  BY <1>6, <1>8, <1>10 DEF AbstractRejects, Abstract!Rejects, slices
<1>14. slices[i].mode[id] = "shareable" <=> o.device.shareable
  BY <1>3, <1>4
<1>15. /\ PlainCapacity(o) \in Nat /\ PlainAmount(o) \in Nat
       /\ ConsumedIn(id, input.committed) \in Nat
  <2>1. PlainCapacity(o) \in Nat /\ PlainDemand \in Nat
    BY PlainDevice
  <2> QED
    BY <2>1, CommittedOf DEF PlainAmount
<1>16. AbstractAccepts(i, id) <=> AcceptsOffer(o)
  BY <1>1, <1>6, <1>12, <1>14, <1>15 DEF AcceptsOffer, id
<1>17. AbstractRejects(i, id) <=> RejectsOffer(o)
  BY <1>1, <1>6, <1>13, <1>14, <1>15 DEF RejectsOffer, id
<1> QED
  BY <1>11, <1>14, <1>16, <1>17 DEF id, slices

\* ClaimPlan's devices of slices are the offers, at the places at.
AbstractOffers(at) ==
    /\ \A j \in DOMAIN PlainOffers :
        LET o == PlainOffers[j]
            id == Identity(o)
        IN  /\ at[j] \in DOMAIN input.slices /\ id \in Identities
            /\ o.node = input.slices[at[j]].node /\ o.device.shareable \in BOOLEAN
            /\ AbstractAccepts(at[j], id) <=> AcceptsOffer(o)
            /\ AbstractRejects(at[j], id) <=> RejectsOffer(o)
            /\ Abstract(input)!ShareAmount(AbstractSpec, id) = PlainAmount(o)
            /\ AbstractSlices[at[j]].mode[id] = "shareable" <=> o.device.shareable
            /\ ~(AcceptsOffer(o) /\ RejectsOffer(o))
    /\ \A i \in DOMAIN input.slices : \A id \in Identities :
        AbstractAccepts(i, id) \/ AbstractRejects(i, id) =>
            \E j \in DOMAIN PlainOffers : at[j] = i /\ Identity(PlainOffers[j]) = id
    /\ \A j, k \in DOMAIN PlainOffers :
        at[j] = at[k] /\ Identity(PlainOffers[j]) = Identity(PlainOffers[k])
            => PlainOffers[j] = PlainOffers[k]

\* Where the offers stand in the order of the slices, this is so.
LEMMA AbstractOffersAre ==
    ASSUME WellFormed(input), IsPlain, PlainAlternative.class \in input.classes,
           NEW at, PlainOrder(at)
    PROVE  AbstractOffers(at)
<1> DEFINE os == PlainOffers
<1>1. /\ at \in [DOMAIN os -> DOMAIN input.slices]
      /\ \A j \in DOMAIN os :
            LET s == input.slices[at[j]] IN
            /\ s.healthy /\ os[j].slice = s /\ os[j].node = s.node
            /\ os[j].device \in Range(s.devices)
            /\ os[j] = [slice |-> s, device |-> os[j].device, node |-> s.node]
      /\ \A i \in DOMAIN input.slices : input.slices[i].healthy =>
            \A d \in Range(input.slices[i].devices) :
                \E j \in DOMAIN os : at[j] = i /\ os[j].device = d
  BY DEF PlainOrder
<1>2. \A j \in DOMAIN os : PlainOffer(os[j])
  BY PlainOffersAre
<1> HIDE DEF os
<1>3. ASSUME NEW j \in DOMAIN os, NEW o, o = os[j], NEW id, id = Identity(o)
      PROVE  /\ at[j] \in DOMAIN input.slices /\ id \in Identities
             /\ o.node = input.slices[at[j]].node /\ o.device.shareable \in BOOLEAN
             /\ AbstractAccepts(at[j], id) <=> AcceptsOffer(o)
             /\ AbstractRejects(at[j], id) <=> RejectsOffer(o)
             /\ Abstract(input)!ShareAmount(AbstractSpec, id) = PlainAmount(o)
             /\ AbstractSlices[at[j]].mode[id] = "shareable" <=> o.device.shareable
             /\ ~(AcceptsOffer(o) /\ RejectsOffer(o))
  <2>1. at[j] \in DOMAIN input.slices /\ PlainOffer(o)
        /\ input.slices[at[j]].healthy /\ o.slice = input.slices[at[j]]
        /\ o.node = input.slices[at[j]].node
    BY <1>1, <1>2, <1>3
  <2>2. /\ AbstractAccepts(at[j], id) <=> AcceptsOffer(o)
        /\ AbstractRejects(at[j], id) <=> RejectsOffer(o)
        /\ Abstract(input)!ShareAmount(AbstractSpec, id) = PlainAmount(o)
        /\ AbstractSlices[at[j]].mode[id] = "shareable" <=> o.device.shareable
    BY <1>3, <2>1, AbstractVerdict
  <2>3. id \in Identities
    BY <1>3, <2>1, AbstractDevice
  <2>4. PlainCapacity(o) \in Nat /\ PlainDemand \in Nat /\ o.device.shareable \in BOOLEAN
    BY <2>1, PlainDevice
  <2>5. ConsumedIn(id, input.committed) \in Nat /\ PlainAmount(o) \in Nat
    BY <2>4, CommittedOf DEF PlainAmount
  <2>6. ~(AcceptsOffer(o) /\ RejectsOffer(o))
    BY <1>3, <2>4, <2>5 DEF AcceptsOffer, RejectsOffer
  <2> QED
    BY <2>1, <2>2, <2>3, <2>4, <2>6
<1>4. ASSUME NEW i \in DOMAIN input.slices, NEW id \in Identities,
             AbstractAccepts(i, id) \/ AbstractRejects(i, id)
      PROVE  \E j \in DOMAIN os : at[j] = i /\ Identity(os[j]) = id
  <2> DEFINE s == input.slices[i]
  <2>1. s \in Range(input.slices)
    BY DEF Range
  <2>2. AbstractSlices[i].healthy = s.healthy
        /\ AbstractSlices[i].mode[id] = AbstractMode(s, id)
    BY DEF AbstractSlices
  <2>3. s.healthy /\ AbstractMode(s, id) # "absent"
    BY <1>4, <2>2 DEF AbstractAccepts, AbstractRejects, Abstract!Accepts, Abstract!Rejects,
                      Abstract!Offers, Abstract!Eligible
  <2>4. PICK d \in Range(s.devices) : <<s.driver, s.pool, d.name>> = id
    BY <2>1, <2>3, AbstractModeIs
  <2>5. PICK j \in DOMAIN os : at[j] = i /\ os[j].device = d
    BY <1>1, <2>3
  <2> QED
    BY <1>1, <2>4, <2>5 DEF Identity
<1>5. ASSUME NEW j \in DOMAIN os, NEW k \in DOMAIN os,
             at[j] = at[k], Identity(os[j]) = Identity(os[k])
      PROVE  os[j] = os[k]
  <2> DEFINE s == input.slices[at[j]]
  <2>1. s \in Range(input.slices)
    BY <1>1 DEF Range
  <2>2. os[j].device.name = os[k].device.name
    BY <1>5 DEF Identity
  <2>3. os[j].device \in Range(s.devices) /\ os[k].device \in Range(s.devices)
    BY <1>1, <1>5
  <2>4. os[j].device = os[k].device
    BY <2>1, <2>2, <2>3 DEF IsPlain
  <2> QED
    BY <1>1, <1>5, <2>4
<1> QED
  <2>1. \A j \in DOMAIN os :
          LET o == os[j]
              id == Identity(o)
          IN  /\ at[j] \in DOMAIN input.slices /\ id \in Identities
              /\ o.node = input.slices[at[j]].node /\ o.device.shareable \in BOOLEAN
              /\ AbstractAccepts(at[j], id) <=> AcceptsOffer(o)
              /\ AbstractRejects(at[j], id) <=> RejectsOffer(o)
              /\ Abstract(input)!ShareAmount(AbstractSpec, id) = PlainAmount(o)
              /\ AbstractSlices[at[j]].mode[id] = "shareable" <=> o.device.shareable
              /\ ~(AcceptsOffer(o) /\ RejectsOffer(o))
    BY <1>3
  <2> QED
    BY <1>4, <1>5, <2>1 DEF AbstractOffers, os

\* ClaimPlan's first slice with a device.
AbstractFirst(i, id) ==
    Abstract(input)!FirstAccepted(AbstractSlices, i, id, AbstractSpec, AbstractHeld)

\* It has the first offer of the device, and both see the same contradictions.
LEMMA AbstractFirstAre ==
    ASSUME WellFormed(input), NEW at, PlainOrder(at), AbstractOffers(at)
    PROVE  /\ \A i \in DOMAIN input.slices : \A id \in Identities :
                AbstractFirst(i, id) <=>
                    \E j \in PlainFirst : at[j] = i /\ Identity(PlainOffers[j]) = id
           /\ Abstract(input)!CandidateFailure(AbstractSlices, AbstractSpec, AbstractHeld)
                <=> PlainFails
<1> DEFINE os == PlainOffers
           N == Len(input.slices)
           Id(j) == Identity(os[j])
           None(i, id) == \A t \in 1..(i - 1) : ~AbstractAccepts(t, id)
<1>1. /\ IsList(os) /\ DOMAIN os = 1..Len(os) /\ Len(os) \in Nat
      /\ \A j \in DOMAIN os : at[j] \in DOMAIN input.slices
      /\ \A j, k \in DOMAIN os : j <= k => at[j] <= at[k]
  <2>1. IsList(os)
    BY DEF PlainOrder
  <2> QED
    BY <2>1, ListFacts DEF PlainOrder
<1>2. DOMAIN input.slices = 1..N /\ N \in Nat
  BY ListFacts DEF WellFormed
<1>3. /\ \A j \in DOMAIN os : /\ Id(j) \in Identities
                              /\ AbstractAccepts(at[j], Id(j)) <=> AcceptsOffer(os[j])
                              /\ AbstractRejects(at[j], Id(j)) <=> RejectsOffer(os[j])
                              /\ ~(AcceptsOffer(os[j]) /\ RejectsOffer(os[j]))
      /\ \A i \in DOMAIN input.slices : \A id \in Identities :
            AbstractAccepts(i, id) \/ AbstractRejects(i, id) =>
                \E j \in DOMAIN os : at[j] = i /\ Id(j) = id
      /\ \A j, k \in DOMAIN os : at[j] = at[k] /\ Id(j) = Id(k) => os[j] = os[k]
  BY DEF AbstractOffers
<1>4. /\ \A j \in DOMAIN os : IsUnseen(j) <=>
            \A k \in DOMAIN os : k < j /\ AcceptsOffer(os[k]) => Id(k) # Id(j)
      /\ \A j : j \in PlainFirst <=> j \in DOMAIN os /\ AcceptsOffer(os[j]) /\ IsUnseen(j)
      /\ PlainFails <=> \E j \in DOMAIN os : RejectsOffer(os[j]) /\ IsUnseen(j)
  BY DEF IsUnseen, PlainFirst, PlainFails
<1>5. /\ \A i, id : AbstractFirst(i, id) <=> AbstractAccepts(i, id) /\ None(i, id)
      /\ Abstract(input)!CandidateFailure(AbstractSlices, AbstractSpec, AbstractHeld)
            <=> \E i \in 1..N, id \in Identities : AbstractRejects(i, id) /\ None(i, id)
  BY DEF AbstractFirst, Abstract!FirstAccepted, AbstractAccepts, AbstractRejects,
         Abstract!CandidateFailure, Abstract!Slices
<1> HIDE DEF os, N, Id
<1>6. ASSUME NEW j \in DOMAIN os, IsUnseen(j) PROVE None(at[j], Id(j))
  <2> SUFFICES ASSUME NEW t \in 1..(at[j] - 1), AbstractAccepts(t, Id(j)) PROVE FALSE
    OBVIOUS
  <2>1. t \in DOMAIN input.slices /\ t < at[j] /\ at[j] \in Nat
    BY <1>1, <1>2
  <2>2. PICK k \in DOMAIN os : at[k] = t /\ Id(k) = Id(j)
    BY <1>3, <2>1
  <2>3. AcceptsOffer(os[k])
    BY <1>3, <2>2
  <2>4. k < j
    BY <1>1, <2>1, <2>2
  <2> QED
    BY <1>4, <1>6, <2>2, <2>3, <2>4
<1>7. ASSUME NEW i \in DOMAIN input.slices, NEW id \in Identities,
             AbstractAccepts(i, id), None(i, id)
      PROVE  \E j \in PlainFirst : at[j] = i /\ Id(j) = id
  <2> DEFINE M == {j \in DOMAIN os : AcceptsOffer(os[j]) /\ Id(j) = id}
             m == Min(M)
  <2>1. PICK j \in DOMAIN os : at[j] = i /\ Id(j) = id
    BY <1>3, <1>7
  <2>2. j \in M
    BY <1>3, <1>7, <2>1
  <2>3. M \in SUBSET Nat /\ M # {}
    BY <1>1, <2>2
  <2>4. m \in M /\ \A y \in M : m <= y
    <3> HIDE DEF M
    <3> QED
      BY <2>3, MinExists
  <2> HIDE DEF m
  <2>5. m \in DOMAIN os /\ AcceptsOffer(os[m]) /\ Id(m) = id /\ m <= j
    BY <2>2, <2>4
  <2>6. at[m] <= i /\ at[m] \in DOMAIN input.slices
    BY <1>1, <2>1, <2>5
  <2>7. AbstractAccepts(at[m], id)
    BY <1>3, <2>5
  <2>8. ~(at[m] < i)
    BY <1>2, <1>7, <2>6, <2>7
  <2>9. at[m] = i
    BY <1>2, <2>6, <2>8
  <2>10. IsUnseen(m)
    <3> SUFFICES ASSUME NEW k \in DOMAIN os, k < m, AcceptsOffer(os[k]), Id(k) = Id(m)
                 PROVE  FALSE
      BY <1>4, <2>5
    <3>1. k \in M
      BY <2>5
    <3> QED
      BY <1>1, <2>4, <2>5, <3>1
  <2> QED
    BY <1>4, <2>5, <2>9, <2>10
<1>8. ASSUME NEW j \in PlainFirst
      PROVE  j \in DOMAIN os /\ AbstractAccepts(at[j], Id(j)) /\ None(at[j], Id(j))
  BY <1>3, <1>4, <1>6
<1>9. ASSUME NEW j \in DOMAIN os, RejectsOffer(os[j]), IsUnseen(j)
      PROVE  /\ at[j] \in 1..N /\ Id(j) \in Identities
             /\ AbstractRejects(at[j], Id(j)) /\ None(at[j], Id(j))
  BY <1>1, <1>2, <1>3, <1>6, <1>9
<1>10. ASSUME NEW i \in 1..N, NEW id \in Identities, AbstractRejects(i, id), None(i, id)
       PROVE  PlainFails
  <2>1. PICK j \in DOMAIN os : at[j] = i /\ Id(j) = id
    BY <1>2, <1>3, <1>10
  <2>2. RejectsOffer(os[j])
    BY <1>3, <1>10, <2>1
  <2>3. IsUnseen(j)
    <3> SUFFICES ASSUME NEW k \in DOMAIN os, k < j, AcceptsOffer(os[k]), Id(k) = Id(j)
                 PROVE  FALSE
      BY <1>4
    <3>1. AbstractAccepts(at[k], id) /\ at[k] <= i /\ at[k] \in 1..N
      BY <1>1, <1>2, <1>3, <2>1
    <3>2. at[k] = i
      BY <1>2, <1>10, <3>1
    <3>3. os[k] = os[j]
      BY <1>3, <2>1, <3>2
    <3> QED
      BY <1>3, <2>2, <3>3
  <2> QED
    BY <1>4, <2>2, <2>3
<1>11. Abstract(input)!CandidateFailure(AbstractSlices, AbstractSpec, AbstractHeld)
            <=> PlainFails
  BY <1>4, <1>5, <1>9, <1>10
<1>12. \A i \in DOMAIN input.slices : \A id \in Identities :
            AbstractFirst(i, id) <=> \E j \in PlainFirst : at[j] = i /\ Id(j) = id
  BY <1>5, <1>7, <1>8
<1> QED
  BY <1>11, <1>12 DEF Id, os

\* The offers taken on a node are ClaimPlan's candidates there, with the same
\* results.
LEMMA AbstractCandidates ==
    ASSUME WellFormed(input), IsPlain, NEW at, PlainOrder(at), AbstractOffers(at), NEW n
    PROVE  /\ Abstract(input)!Candidates(AbstractSlices, n, AbstractSpec, AbstractHeld)
                = {Identity(PlainOffers[j]) : j \in {k \in PlainFirst : PlainOffers[k].node = n}}
           /\ \A j \in PlainFirst : PlainOffers[j].node = n =>
                Abstract(input)!ResultFor(AbstractSlices, n, Identity(PlainOffers[j]),
                                          AbstractSpec, AbstractHeld)
                    = ResultOf(PlainOffers[j])
<1> DEFINE os == PlainOffers
           Id(j) == Identity(os[j])
           cands == Abstract(input)!Candidates(AbstractSlices, n, AbstractSpec, AbstractHeld)
           Res(id) == Abstract(input)!ResultFor(AbstractSlices, n, id, AbstractSpec,
                                                AbstractHeld)
<1>1. \A i \in DOMAIN input.slices : \A id \in Identities :
        AbstractFirst(i, id) <=> \E j \in PlainFirst : at[j] = i /\ Id(j) = id
  BY AbstractFirstAre
<1>2. /\ PlainFirst \in SUBSET DOMAIN os
      /\ \A i, j \in PlainFirst : Id(i) = Id(j) => i = j
  BY PlainFirstDistinct
<1>3. \A j \in PlainFirst :
        /\ at[j] \in DOMAIN input.slices /\ Id(j) \in Identities
        /\ os[j].node = input.slices[at[j]].node /\ os[j].device.shareable \in BOOLEAN
        /\ Abstract(input)!ShareAmount(AbstractSpec, Id(j)) = PlainAmount(os[j])
        /\ AbstractSlices[at[j]].mode[Id(j)] = "shareable" <=> os[j].device.shareable
  BY <1>2 DEF AbstractOffers
<1>4. DOMAIN input.slices = 1..Len(input.slices)
  BY ListFacts DEF WellFormed
<1>5. cands = {id \in Identities : \E i \in 1..Len(input.slices) :
                [s \in DOMAIN input.slices |-> input.slices[s].node][i] = n
                /\ AbstractFirst(i, id)}
  BY DEF Abstract!Candidates, Abstract!Slices, AbstractFirst
<1>6. \A id : id \in cands <=> \E j \in PlainFirst : os[j].node = n /\ Id(j) = id
  <2> TAKE id
  <2>1. id \in cands <=> id \in Identities /\ \E i \in DOMAIN input.slices :
                            input.slices[i].node = n /\ AbstractFirst(i, id)
    BY <1>4, <1>5
  <2> HIDE DEF cands, os, Id
  <2> QED
    BY <1>1, <1>3, <2>1
<1>7. ASSUME NEW j \in PlainFirst, os[j].node = n PROVE Res(Id(j)) = ResultOf(os[j])
  <2> DEFINE s == CHOOSE i \in 1..Len(input.slices) : AbstractFirst(i, Id(j))
  <2>1. AbstractFirst(at[j], Id(j)) /\ at[j] \in DOMAIN input.slices
    BY <1>1, <1>3
  <2>2. \A i \in DOMAIN input.slices : AbstractFirst(i, Id(j)) => i = at[j]
    BY <1>1, <1>2, <1>3
  <2>3. s = at[j]
    <3>1. s \in 1..Len(input.slices) /\ AbstractFirst(s, Id(j))
      BY <1>4, <2>1
    <3> QED
      BY <1>4, <2>2, <3>1
  <2>4. Res(Id(j)) =
            [device |-> Id(j), node |-> n,
             shared |-> AbstractSlices[s].mode[Id(j)] = "shareable",
             amount |-> IF AbstractSlices[s].mode[Id(j)] = "shareable"
                        THEN Abstract(input)!ShareAmount(AbstractSpec, Id(j)) ELSE 0]
    BY DEF Abstract!ResultFor, Abstract!Slices, AbstractFirst
  <2> HIDE DEF s
  <2>5. ResultOf(os[j]) =
            [device |-> Id(j), node |-> n, shared |-> os[j].device.shareable,
             amount |-> IF os[j].device.shareable THEN PlainAmount(os[j]) ELSE 0]
    BY <1>7 DEF ResultOf
  <2>6. (AbstractSlices[s].mode[Id(j)] = "shareable") = os[j].device.shareable
    BY <1>3, <2>3
  <2> HIDE DEF Res, Id, os
  <2> QED
    BY <1>3, <2>4, <2>5, <2>6
<1> HIDE DEF cands, Res
<1>8. cands = {Id(j) : j \in {k \in PlainFirst : os[k].node = n}}
  <2> HIDE DEF os, Id
  <2> QED
    BY <1>6
<1> QED
  BY <1>7, <1>8 DEF cands, Res, Id, os

\* As many devices as offers.
LEMMA PlainIdentities ==
    ASSUME WellFormed(input), IsPlain, NEW J \in SUBSET PlainFirst
    PROVE  Cardinality({Identity(PlainOffers[j]) : j \in J}) = Cardinality(J)
<1> DEFINE D == {Identity(PlainOffers[j]) : j \in J}
           f == [j \in J |-> Identity(PlainOffers[j])]
<1>1. /\ IsFiniteSet(PlainFirst)
      /\ \A i, j \in PlainFirst : Identity(PlainOffers[i]) = Identity(PlainOffers[j]) => i = j
  BY PlainFirstDistinct
<1>2. f \in [J -> D] /\ (\A i, j \in J : f[i] = f[j] => i = j)
      /\ \A x \in D : \E j \in J : f[j] = x
  BY <1>1
<1> HIDE DEF f, D
<1>3. f \in Bijection(J, D)
  BY <1>2 DEF Bijection, Injection, Surjection, IsInjective
<1>4. IsFiniteSet(J)
  BY <1>1, FS_Subset
<1> QED
  BY <1>3, <1>4, FS_Bijection DEF ExistsBijection, D

\* ClaimPlan's plans, said with the planner's offers.
LEMMA AbstractPlansAre ==
    ASSUME WellFormed(input), IsPlain
    PROVE  AbstractPlans = PlainPlans
<1> DEFINE os == PlainOffers
           Id(j) == Identity(os[j])
           count == normalizedCount(PlainAlternative)
           nodes == {s.node : s \in Range(input.slices)}
           Plans(n) == Abstract(input)!NodePlans(AbstractSlices, n, AbstractSpec, AbstractHeld)
           ResultsOf(J) == {ResultOf(os[j]) : j \in J}
<1>1. /\ AbstractSpec.class = PlainAlternative.class
      /\ Abstract(input)!NormalizedCount(AbstractSpec.count) = count
      /\ count \in Nat \ {0}
  BY PlainRequest DEF AbstractSpec, Abstract!NormalizedCount, normalizedCount
<1>2. Abstract(input)!UsageConflict(AbstractHeld) <=> CommittedConflict
  BY AbstractHolds
<1>3. Abstract(input)!Unselectable(AbstractSpec, input.classes)
        <=> PlainAlternative.class \notin input.classes \/ count > AllocationResultsMaxSize
  BY <1>1 DEF Abstract!Unselectable
<1>4. AbstractPlans =
        IF \/ CommittedConflict
           \/ PlainAlternative.class \notin input.classes \/ count > AllocationResultsMaxSize
           \/ Abstract(input)!CandidateFailure(AbstractSlices, AbstractSpec, AbstractHeld)
        THEN {} ELSE UNION {Plans(n) : n \in nodes}
  BY <1>2, <1>3 DEF AbstractPlans, Abstract!Plans
<1>5. CASE PlainAlternative.class \notin input.classes
  BY <1>4, <1>5 DEF PlainPlans
<1>6. CASE PlainAlternative.class \in input.classes
  <2>1. PICK at : PlainOrder(at)
    BY PlainOffersInOrder DEF IsPlain
  <2>2. AbstractOffers(at)
    BY <1>6, <2>1, AbstractOffersAre
  <2>3. Abstract(input)!CandidateFailure(AbstractSlices, AbstractSpec, AbstractHeld)
            <=> PlainFails
    BY <2>1, <2>2, AbstractFirstAre
  <2> DEFINE Cands(n) == Abstract(input)!Candidates(AbstractSlices, n, AbstractSpec,
                                                    AbstractHeld)
             Res(n, id) == Abstract(input)!ResultFor(AbstractSlices, n, id, AbstractSpec,
                                                     AbstractHeld)
  <2>4. \A n : /\ Cands(n) = {Id(j) : j \in {k \in PlainFirst : os[k].node = n}}
               /\ \A j \in PlainFirst : os[j].node = n => Res(n, Id(j)) = ResultOf(os[j])
    BY <2>1, <2>2, AbstractCandidates
  <2>5. \A n : Plans(n) = {{Res(n, id) : id \in D} :
                              D \in {S \in SUBSET Cands(n) : Cardinality(S) = count}}
    <3> TAKE n
    <3>0. \A S : Abstract(input)!Cardinality(S) = Cardinality(S)
      BY Zenon DEF Abstract!Cardinality, Cardinality
    <3>1. Plans(n) = {{Res(n, id) : id \in D} :
                D \in {S \in SUBSET Cands(n) : Cardinality(S) =
                            Abstract(input)!NormalizedCount(AbstractSpec.count)}}
      BY <3>0 DEF Abstract!NodePlans, Abstract!kSubset
    <3> QED
      BY <1>1, <3>1
  <2> HIDE DEF Cands, Res, Plans
  <2>6. ASSUME NEW J, NEW D, J \in SUBSET PlainFirst, D = {Id(j) : j \in J}
        PROVE  Cardinality(D) = Cardinality(J)
    BY <2>6, PlainIdentities
  <2>7. ASSUME NEW n \in nodes, NEW P \in Plans(n)
        PROVE  \E J \in PlainChoices : P = ResultsOf(J)
    <3>1. PICK D \in SUBSET Cands(n) : Cardinality(D) = count /\ P = {Res(n, id) : id \in D}
      BY <2>5, <2>7
    <3> DEFINE J == {j \in PlainFirst : os[j].node = n /\ Id(j) \in D}
    <3>2. J \in SUBSET PlainFirst /\ \A j \in J : os[j].node = n
      OBVIOUS
    <3>3. D = {Id(j) : j \in J}
      <4> HIDE DEF os, Id
      <4> QED
        BY <2>4, <3>1
    <3> HIDE DEF J
    <3>4. P = ResultsOf(J) /\ Cardinality(J) = count
      <4>1. Cardinality(D) = Cardinality(J)
        BY <3>2, <3>3, PlainIdentities
      <4>2. \A j \in J : Res(n, Id(j)) = ResultOf(os[j])
        BY <2>4, <3>2
      <4> HIDE DEF os, Id, count
      <4>3. {Res(n, id) : id \in D} = {Res(n, Id(j)) : j \in J}
        BY <3>3
      <4>4. {Res(n, id) : id \in D} = ResultsOf(J)
        BY <4>2, <4>3
      <4> HIDE DEF ResultsOf
      <4> QED
        BY <3>1, <4>1, <4>4
    <3>5. J \in PlainChoices
      BY <3>2, <3>4 DEF PlainChoices
    <3> QED
      BY <3>4, <3>5
  <2>8. ASSUME NEW J \in PlainChoices
        PROVE  \E n \in nodes : ResultsOf(J) \in Plans(n)
    <3>1. J \in SUBSET PlainFirst /\ Cardinality(J) = count
      BY DEF PlainChoices
    <3>2. PICK n : \A j \in J : os[j].node = n
      BY DEF PlainChoices
    <3>3. J # {}
      BY <1>1, <3>1, FS_EmptySet
    <3>4. n \in nodes
      <4>1. PICK j \in J : TRUE
        BY <3>3
      <4>2. j \in DOMAIN os
        BY <3>1, <4>1 DEF PlainFirst
      <4>3. PlainOffer(os[j])
        BY <4>2, PlainOffersAre
      <4> QED
        BY <3>2, <4>1, <4>3 DEF PlainOffer
    <3> DEFINE D == {Id(j) : j \in J}
    <3> HIDE DEF os, Id, ResultsOf, count
    <3>5. {Res(n, id) : id \in D} = ResultsOf(J) /\ Cardinality(D) = count
      <4>1. D = {Id(j) : j \in J}
        OBVIOUS
      <4> HIDE DEF D
      <4>2. {Res(n, id) : id \in D} = ResultsOf(J)
        <5>1. {Res(n, id) : id \in D} = {Res(n, Id(j)) : j \in J}
          BY <4>1
        <5>2. \A j \in J : Res(n, Id(j)) = ResultOf(os[j])
          BY <2>4, <3>1, <3>2
        <5> QED
          BY <5>1, <5>2 DEF ResultsOf
      <4>3. Cardinality(D) = Cardinality(J)
        BY <2>6, <3>1, <4>1, Zenon
      <4> QED
        BY <3>1, <4>2, <4>3
    <3>6. D \in SUBSET Cands(n)
      BY <2>4, <3>1, <3>2
    <3> HIDE DEF D
    <3>7. ResultsOf(J) \in Plans(n)
      BY <2>5, <3>5, <3>6
    <3> QED
      BY <3>4, <3>7
  <2>9. UNION {Plans(n) : n \in nodes} = {ResultsOf(J) : J \in PlainChoices}
    <3> HIDE DEF nodes, ResultsOf
    <3>1. \A P : P \in UNION {Plans(n) : n \in nodes} <=> \E n \in nodes : P \in Plans(n)
      OBVIOUS
    <3> QED
      BY <2>7, <2>8, <3>1
  <2> HIDE DEF nodes
  <2>10. PlainPlans = IF \/ CommittedConflict
                         \/ PlainAlternative.class \notin input.classes
                         \/ count > AllocationResultsMaxSize
                         \/ PlainFails
                      THEN {} ELSE {ResultsOf(J) : J \in PlainChoices}
    BY DEF PlainPlans
  <2> HIDE DEF ResultsOf, count
  <2> QED
    BY <1>4, <2>3, <2>9, <2>10
<1> QED
  BY <1>5, <1>6

-----------------------------------------------------------------------------
(* The invariant of the search for a plain claim.                          *)

\* What is said of a plain claim is said of its input only.
LEMMA PlainNext ==
    ASSUME input' = input
    PROVE  /\ IsPlain' <=> IsPlain
           /\ PlainAlternative' = PlainAlternative
           /\ CommittedConflict' <=> CommittedConflict
           /\ PlainPlans' = PlainPlans
<1>1. IsPlain' <=> IsPlain
  BY DEF IsPlain, PlainAlternative, Identities, OffersOf
<1>2. CommittedConflict' <=> CommittedConflict
  BY DEF CommittedConflict
<1>3. PlainAlternative' = PlainAlternative
  BY DEF PlainAlternative
<1>4. PlainOffers' = PlainOffers
  BY DEF PlainOffers, Eligible
<1>5. PlainDemand' = PlainDemand
  BY <1>3 DEF PlainDemand
<1>6. \A o : /\ AcceptsOffer(o)' <=> AcceptsOffer(o)
             /\ RejectsOffer(o)' <=> RejectsOffer(o)
             /\ ResultOf(o)' = ResultOf(o)
  BY <1>3, <1>5 DEF AcceptsOffer, RejectsOffer, ResultOf, PlainAmount, PlainMatch
<1>7. \A j : IsUnseen(j)' <=> IsUnseen(j)
  BY <1>4, <1>6 DEF IsUnseen
<1>8. PlainFirst' = PlainFirst
  BY <1>4, <1>6, <1>7 DEF PlainFirst
<1>9. PlainFails' <=> PlainFails
  BY <1>4, <1>6, <1>7 DEF PlainFails
<1>10. PlainChoices' = PlainChoices
  BY <1>3, <1>4, <1>8 DEF PlainChoices
<1>11. {{ResultOf(PlainOffers[j]) : j \in J} : J \in PlainChoices}'
        = {{ResultOf(PlainOffers[j]) : j \in J} : J \in PlainChoices}
  BY <1>4, <1>6, <1>10
<1>12. PlainPlans' = PlainPlans
  BY <1>2, <1>3, <1>9, <1>11 DEF PlainPlans
<1> QED
  BY <1>1, <1>2, <1>3, <1>12

\* A sequence of one sequence.
LEMMA FlattenOne ==
    ASSUME NEW seqs, Len(seqs) = 1
    PROVE  FlattenSeq(seqs) = seqs[1]
<1> DEFINE f == CHOOSE flat : Flattens(flat, seqs, 1)
<1>1. FlattenSeq(seqs) = f[1]
  <2>1. FlattenSeq(seqs) = (CHOOSE flat : Flattens(flat, seqs, Len(seqs)))[Len(seqs)]
    <3>1. Len(seqs) # 0
      OBVIOUS
    <3> QED
      BY <3>1, Zenon DEF FlattenSeq, Flattens
  <2> QED
    BY <2>1
<1>2. Flattens(f, seqs, 1)
  BY FlattenExists
<1> HIDE DEF f
<1>3. f[1] = seqs[1]
  BY <1>2, FlattensAt
<1> QED
  BY <1>1, <1>3

\* The request's frame before its alternative is looked at, and after.
IsFreshFrame(f) ==
    f.alternatives = <<PlainAlternative>> /\ f.selections = <<>> /\ f.failure = "none"

IsTriedFrame(f, c) ==
    /\ f.alternatives = <<>> /\ IsList(f.selections)
    /\ \A s \in Range(f.selections) : AbstractResults(s) \in PlainPlans
    /\ c = <<>> /\ f.selections = <<>> => PlainPlans = {}

\* How the search for a plain claim stands.
PlainState(fs, c) ==
    /\ \A s \in Range(c) : AbstractResults(s) \in PlainPlans
    /\ \A f \in Range(fs) : (c = <<>> /\ IsFreshFrame(f)) \/ IsTriedFrame(f, c)

\* What the answer says.
PlainResult(result, taken) ==
    /\ result = "planned" => AbstractResults(taken) \in PlainPlans
    /\ result \in Reasons \ {"BudgetSpent", "Canceled"} => PlainPlans = {}

PlainIInv ==
    /\ TypeOK /\ Shape
    /\ IsPlain => /\ PlainState(frames, chosen)
                  /\ pc \in {"search", "greedy"} => ~CommittedConflict
                  /\ PlainResult(outcome, Taken)

\* A step of a plain claim is as good as its new values.
LEMMA KeepsPlain ==
    ASSUME input' = input, NEW fs, frames' = fs, NEW c, chosen' = c,
           PlainState(fs, c), NEW p, pc' = p, p \in {"search", "greedy"} => ~CommittedConflict,
           NEW r, outcome' = r, NEW t, Taken' = t, PlainResult(r, t)
    PROVE  /\ PlainState(frames, chosen)'
           /\ (pc \in {"search", "greedy"} => ~CommittedConflict)'
           /\ PlainResult(outcome, Taken)'
<1>1. /\ PlainAlternative' = PlainAlternative /\ PlainPlans' = PlainPlans
      /\ CommittedConflict' <=> CommittedConflict
  BY PlainNext
<1>2. PlainState(frames, chosen)'
  BY <1>1 DEF PlainState, IsFreshFrame, IsTriedFrame, AbstractResults
<1>3. PlainResult(outcome, Taken)'
  BY <1>1 DEF PlainResult, AbstractResults
<1> QED
  BY <1>1, <1>2, <1>3

\* There is one request, and one frame for it.
LEMMA PlainPlaces ==
    ASSUME TypeOK, Shape, IsPlain
    PROVE  /\ Len(chosen) \in {0, 1} /\ Len(frames) \in {0, 1}
           /\ chosen = <<>> <=> Len(chosen) = 0
           /\ frames = <<>> <=> Len(frames) = 0
           /\ Len(chosen) = 1 => Taken = chosen[1] /\ chosen[1] \in Range(chosen)
           /\ Len(chosen) = 0 => Taken = <<>>
           /\ Iterating => /\ Len(chosen) = 0 /\ Len(frames) = 1
                           /\ Last(frames) = frames[1] /\ frames[1] \in Range(frames)
                           /\ frames[1].failure \in {"none"} \cup Reasons
                           /\ Range(frames) = {frames[1]}
<1>1. /\ Len(input.requests) = 1 /\ Len(frames) \in Nat /\ Len(chosen) \in Nat
      /\ Len(chosen) <= 1 /\ Len(frames) <= 1
      /\ Iterating => /\ Len(frames) = Len(chosen) + 1
                      /\ Last(frames) = frames[Len(frames)]
                      /\ Last(frames) \in Range(frames)
      /\ DOMAIN frames = 1..Len(frames)
  BY Places DEF IsPlain
<1>2. IsList(chosen) /\ IsList(frames)
  BY DEF Shape, AreFrames
<1>3. /\ chosen = <<>> <=> Len(chosen) = 0
      /\ frames = <<>> <=> Len(frames) = 0
      /\ DOMAIN chosen = 1..Len(chosen)
  BY <1>2, ListFacts
<1>4. Len(chosen) = 1 => Taken = chosen[1] /\ chosen[1] \in Range(chosen)
  <2> HAVE Len(chosen) = 1
  <2>1. 1 \in DOMAIN chosen
    BY <1>3
  <2> QED
    BY <2>1, FlattenOne DEF Taken, Range
<1>5. Len(chosen) = 0 => Taken = <<>>
  BY <1>3 DEF Taken, FlattenSeq
<1>6. ASSUME Iterating
      PROVE  /\ Len(chosen) = 0 /\ Len(frames) = 1 /\ Last(frames) = frames[1]
             /\ frames[1] \in Range(frames) /\ frames[1].failure \in {"none"} \cup Reasons
             /\ Range(frames) = {frames[1]}
  <2>1. Len(chosen) = 0 /\ Len(frames) = 1
    BY <1>1, <1>6
  <2>2. Last(frames) = frames[1] /\ frames[1] \in Range(frames)
    BY <1>1, <1>6, <2>1
  <2>3. DOMAIN frames = {1}
    BY <1>1, <2>1
  <2> QED
    BY <2>1, <2>2, <2>3 DEF TypeOK, Range
<1>7. Len(chosen) \in {0, 1} /\ Len(frames) \in {0, 1}
  <2>1. \A n \in Nat : n <= 1 => n \in {0, 1}
    OBVIOUS
  <2> QED
    BY <1>1, <2>1
<1> QED
  BY <1>3, <1>4, <1>5, <1>6, <1>7

\* Every action keeps it.
LEMMA PlainStep == PlainIInv /\ [Next]_vars => PlainIInv'
<1> SUFFICES ASSUME PlainIInv, [Next]_vars, IsPlain
             PROVE  /\ PlainState(frames, chosen)'
                    /\ (pc \in {"search", "greedy"} => ~CommittedConflict)'
                    /\ PlainResult(outcome, Taken)'
  <2>1. ASSUME PlainIInv, [Next]_vars PROVE TypeOK' /\ Shape' /\ (IsPlain' <=> IsPlain)
    BY <2>1, ShapeStep, PlainNext DEF PlainIInv
  <2> QED
    BY <2>1 DEF PlainIInv
<1>1. /\ TypeOK /\ Shape /\ WellFormed(input)
      /\ PlainState(frames, chosen) /\ PlainResult(outcome, Taken)
      /\ pc \in {"search", "greedy"} => ~CommittedConflict
      /\ pc = "greedy" => ~UseBacktrackingPlanner
  BY DEF PlainIInv, Shape
<1>2. input' = input
  BY <1>1, ShapeStep
<1>3. /\ PlainResult("none", Taken) /\ \A t : PlainResult("none", t)
      /\ \A t : PlainResult("BudgetSpent", t) /\ PlainResult("Canceled", t)
      /\ \A t : \A r \in Reasons : PlainPlans = {} => PlainResult(r, t)
  BY DEF PlainResult, Reasons
<1>4. chosen' = chosen => Taken' = Taken
  BY DEF Taken
<1>5. pc \in {"search", "greedy"} => outcome = "none"
  BY <1>1 DEF TypeOK
<1>6. Len(input.requests) = 1 /\ Alternatives(input.requests[1]) = <<PlainAlternative>>
      /\ SupportedRequest(input.requests[1])
  BY <1>1, PlainRequest DEF IsPlain
<1>7. /\ Len(chosen) \in {0, 1} /\ Len(frames) \in {0, 1}
      /\ chosen = <<>> <=> Len(chosen) = 0
      /\ frames = <<>> <=> Len(frames) = 0
      /\ Len(chosen) = 1 => Taken = chosen[1] /\ chosen[1] \in Range(chosen)
      /\ Len(chosen) = 0 => Taken = <<>>
      /\ Iterating => /\ Len(chosen) = 0 /\ Len(frames) = 1
                      /\ Last(frames) = frames[1] /\ frames[1] \in Range(frames)
                      /\ frames[1].failure \in {"none"} \cup Reasons
                      /\ Range(frames) = {frames[1]}
  BY <1>1, PlainPlaces
<1> DEFINE f == frames[1]
<1>8. CASE planClaimAllocation
  <2>1. ConstraintsSupported
    <3>1. input.constraints = <<>>
      BY DEF IsPlain
    <3> QED
      BY <3>1, OneSelection DEF ConstraintsSupported
  <2>2. /\ frames' = frames /\ chosen' = chosen /\ outcome = "none"
        /\ \/ CommittedConflict /\ pc' = "done" /\ outcome' = "Unsupported"
           \/ ~CommittedConflict /\ outcome' = outcome
    BY <1>1, <1>8, <2>1 DEF planClaimAllocation, Finish, TypeOK
  <2>3. CommittedConflict => PlainPlans = {}
    BY DEF PlainPlans
  <2>4. PlainResult(outcome', Taken)
    BY <1>3, <2>2, <2>3 DEF Reasons
  <2>5. pc' \in {"search", "greedy"} => ~CommittedConflict
    BY <2>2
  <2> QED
    BY <1>1, <1>2, <1>4, <2>2, <2>4, <2>5, KeepsPlain
<1>9. CASE EnterRequest
  <2> DEFINE new == Frame(<<PlainAlternative>>, <<>>, TRUE, FALSE, "none")
  <2>1. /\ pc \in {"search", "greedy"} /\ Len(frames) = Len(chosen) /\ Len(chosen) < 1
        /\ chosen' = chosen
    BY <1>6, <1>9 DEF EnterRequest, Entering
  <2>2. chosen = <<>> /\ frames = <<>> /\ Len(chosen) + 1 = 1
    BY <1>7, <2>1
  <2>3. frames' = Append(<<>>, new) /\ pc' = pc /\ outcome' = outcome
    BY <1>6, <1>9, <2>2 DEF EnterRequest
  <2>4. Range(Append(<<>>, new)) = {new} /\ Range(<<>>) = {}
    <3> HIDE DEF new
    <3>1. IsList(<<>>) /\ Range(<<>>) = {}
      BY OneSelection
    <3>2. Range(Append(<<>>, new)) = Range(<<>>) \cup {new}
      BY <3>1, AppendFacts
    <3> QED
      BY <3>1, <3>2
  <2>5. IsFreshFrame(new)
    BY DEF IsFreshFrame, Frame
  <2> HIDE DEF new
  <2>6. PlainState(Append(<<>>, new), <<>>)
    BY <2>4, <2>5 DEF PlainState
  <2> QED
    BY <1>1, <1>2, <1>4, <1>5, <2>1, <2>2, <2>3, <2>6, KeepsPlain
<1>10. CASE AllRequestsSelected
  <2>1. /\ Len(chosen) = 1 /\ pc' = "done" /\ outcome' = "planned"
        /\ chosen' = chosen /\ frames' = frames
    BY <1>6, <1>10 DEF AllRequestsSelected, Finish
  <2>2. AbstractResults(Taken) \in PlainPlans
    BY <1>1, <1>7, <2>1 DEF PlainState
  <2>3. PlainResult("planned", Taken)
    BY <2>2 DEF PlainResult, Reasons
  <2> QED
    BY <1>1, <1>2, <1>4, <2>1, <2>3, KeepsPlain
<1>11. CASE NextAlternative
  <2> DEFINE out == AlternativeOutcome(PlainAlternative)
             new == AfterAlternative(f, out)
             fs == [frames EXCEPT ![Len(frames)] = new]
  <2>1. /\ Iterating /\ pc' = pc /\ outcome' = outcome /\ chosen' = chosen
        /\ Last(frames).alternatives # <<>>
        /\ frames' = [frames EXCEPT ![Len(frames)] =
                AfterAlternative(@, AlternativeOutcome(Head(@.alternatives)))]
    BY <1>11 DEF NextAlternative
  <2>2. /\ Len(frames) = 1 /\ Last(frames) = f /\ f \in Range(frames) /\ chosen = <<>>
        /\ Taken = <<>> /\ pc \in {"search", "greedy"}
    BY <1>7, <2>1 DEF Iterating
  <2>3. IsFreshFrame(f)
    BY <1>1, <2>1, <2>2 DEF PlainState, IsTriedFrame
  <2>4. f.alternatives = <<PlainAlternative>> /\ Head(f.alternatives) = PlainAlternative
        /\ Tail(f.alternatives) = <<>>
    BY <2>3 DEF IsFreshFrame
  <2>5. frames' = fs
    BY <2>1, <2>2, <2>4
  <2>6. PlainAnswer(out.selections)
    BY <1>1, <2>2, PlainOutcome
  <2> HIDE DEF out
  <2>7. new.alternatives = <<>> /\ new.selections = out.selections
    BY <2>4 DEF AfterAlternative, Frame
  <2> HIDE DEF new
  <2>8. IsTriedFrame(new, <<>>)
    BY <2>6, <2>7 DEF IsTriedFrame, PlainAnswer
  <2>9. Range(fs) = {new}
    <3>1. IsList(frames) /\ frames # <<>>
      BY <1>1, <1>7, <2>2 DEF Shape, AreFrames
    <3>2. DOMAIN fs = 1..1 /\ fs[1] = new
      BY <2>2, <3>1, ReplaceLast
    <3> HIDE DEF fs
    <3> QED
      BY <3>2 DEF Range
  <2> HIDE DEF fs
  <2>10. PlainState(fs, <<>>)
    BY <2>8, <2>9, OneSelection DEF PlainState
  <2> QED
    BY <1>1, <1>2, <1>4, <1>5, <2>1, <2>2, <2>5, <2>10, KeepsPlain
<1>12. CASE SelectRequest
  <2> DEFINE s == Head(f.selections)
             c == Append(<<>>, s)
  <2>1. /\ Iterating /\ pc' = pc /\ outcome' = outcome /\ frames' = frames
        /\ Last(frames).selections # <<>> /\ chosen' = Append(chosen, Head(Last(frames).selections))
    BY <1>12 DEF SelectRequest
  <2>2. /\ Last(frames) = f /\ Range(frames) = {f} /\ chosen = <<>>
        /\ pc \in {"search", "greedy"} /\ chosen' = c
    BY <1>7, <2>1 DEF Iterating
  <2>3. IsTriedFrame(f, <<>>)
    BY <1>1, <2>1, <2>2 DEF PlainState, IsFreshFrame
  <2>4. IsList(f.selections) /\ s \in Range(f.selections)
    BY <2>1, <2>2, <2>3, TailFacts DEF IsTriedFrame
  <2>5. AbstractResults(s) \in PlainPlans
    BY <2>3, <2>4 DEF IsTriedFrame
  <2>6. Range(c) = {s} /\ c # <<>>
    BY OneSelection, AppendFacts
  <2> HIDE DEF c, s
  <2>7. PlainState(frames, c)
    BY <2>2, <2>3, <2>5, <2>6 DEF PlainState, IsTriedFrame
  <2> QED
    BY <1>1, <1>2, <1>3, <1>5, <2>1, <2>2, <2>7, KeepsPlain
<1>13. CASE Yield
  <2> DEFINE s == Head(f.selections)
             c == Append(<<>>, s)
             new == [f EXCEPT !.selections = Tail(@)]
             fs == [frames EXCEPT ![Len(frames)] = new]
  <2>1. /\ Iterating /\ Last(frames).selections # <<>>
    BY <1>13 DEF Yield
  <2>2. /\ Len(frames) = 1 /\ Last(frames) = f /\ Range(frames) = {f} /\ chosen = <<>>
        /\ pc \in {"search", "greedy"}
    BY <1>7, <2>1 DEF Iterating
  <2>3. IsTriedFrame(f, <<>>)
    BY <1>1, <2>1, <2>2 DEF PlainState, IsFreshFrame
  <2>4. /\ IsList(f.selections) /\ s \in Range(f.selections)
        /\ IsList(Tail(f.selections)) /\ Range(Tail(f.selections)) \subseteq Range(f.selections)
    BY <2>1, <2>2, <2>3, TailFacts DEF IsTriedFrame
  <2>5. AbstractResults(s) \in PlainPlans
    BY <2>3, <2>4 DEF IsTriedFrame
  <2>6. matchConstraintsSatisfied(Taken \o s) = "yes"
    <3>1. input.constraints = <<>>
      BY DEF IsPlain
    <3> QED
      BY <3>1 DEF matchConstraintsSatisfied
  <2>7. CASE BudgetSpent
    <3>1. pc' = "done" /\ outcome' = "BudgetSpent" /\ frames' = frames /\ chosen' = chosen
      BY <1>13, <2>7 DEF Yield, Finish
    <3> QED
      BY <1>1, <1>2, <1>3, <1>4, <3>1, KeepsPlain
  <2>8. CASE ~BudgetSpent
    <3>1. /\ chosen' = c /\ pc' = pc /\ outcome' = outcome
          /\ frames' = [frames EXCEPT ![Len(frames)].selections = Tail(@)]
      BY <1>13, <2>2, <2>6, <2>8 DEF Yield
    <3>2. frames' = fs
      BY <2>2, <3>1
    <3>3. new.alternatives = f.alternatives /\ new.selections = Tail(f.selections)
      <4>1. f = Frame(f.alternatives, f.selections, f.missing, f.limit, f.failure)
        BY <1>1, <2>1, <2>2, Places DEF IsFrame
      <4> QED
        BY <4>1 DEF Frame
    <3>4. Range(c) = {s} /\ c # <<>>
      BY OneSelection, AppendFacts
    <3>5. Range(fs) = {new}
      <4>1. IsList(frames) /\ frames # <<>>
        BY <1>1, <1>7, <2>2 DEF Shape, AreFrames
      <4> HIDE DEF new
      <4>2. DOMAIN fs = 1..1 /\ fs[1] = new
        BY <2>2, <4>1, ReplaceLast
      <4> HIDE DEF fs
      <4> QED
        BY <4>2 DEF Range
    <3> HIDE DEF c, s, new, fs
    <3>6. IsTriedFrame(new, c)
      BY <2>3, <2>4, <3>3, <3>4 DEF IsTriedFrame
    <3>7. PlainState(fs, c)
      BY <2>5, <3>4, <3>5, <3>6 DEF PlainState
    <3> QED
      BY <1>1, <1>2, <1>3, <1>5, <2>2, <3>1, <3>2, <3>7, KeepsPlain
  <2> QED
    BY <2>7, <2>8
<1>14. CASE Exhausted
  <2> DEFINE failure == IterationFailure(Last(frames), input.requests[Len(frames)])
  <2>1. /\ Iterating /\ Last(frames).selections = <<>>
        /\ Last(frames).alternatives = <<>> \/ Last(frames).failure # "none"
    BY <1>14 DEF Exhausted, NothingLeft
  <2>2. /\ Len(frames) = 1 /\ Last(frames) = f /\ f \in Range(frames) /\ chosen = <<>>
        /\ f.failure \in {"none"} \cup Reasons
    BY <1>7, <2>1
  <2>3. IsTriedFrame(f, <<>>)
    BY <1>1, <2>1, <2>2 DEF PlainState, IsFreshFrame
  <2>4. PlainPlans = {}
    BY <2>1, <2>2, <2>3 DEF IsTriedFrame
  <2>5. ~Backtracks(failure)
    BY <2>2 DEF Backtracks
  <2>6. failure \in {"none"} \cup Reasons
    BY <2>2 DEF IterationFailure, Reasons
  <2>7. /\ frames' = frames /\ chosen' = chosen /\ pc' = "done"
        /\ outcome' = IF failure = "none" THEN "NoMatch" ELSE failure
    BY <1>14, <2>5 DEF Exhausted, Finish
  <2> HIDE DEF failure
  <2>8. outcome' \in Reasons
    BY <2>6, <2>7 DEF Reasons
  <2> QED
    BY <1>1, <1>2, <1>3, <1>4, <2>4, <2>7, <2>8, KeepsPlain
<1>15. CASE Canceled
  <2>1. frames' = frames /\ chosen' = chosen /\ pc' = "done" /\ outcome' = "Canceled"
    BY <1>15 DEF Canceled, Finish
  <2> QED
    BY <1>1, <1>2, <1>3, <1>4, <2>1, KeepsPlain
<1>16. CASE UNCHANGED vars
  <2>1. frames' = frames /\ chosen' = chosen /\ pc' = pc /\ outcome' = outcome
    BY <1>16 DEF vars
  <2> QED
    BY <1>1, <1>2, <1>4, <2>1, KeepsPlain
<1> QED
  BY <1>8, <1>9, <1>10, <1>11, <1>12, <1>13, <1>14, <1>15, <1>16 DEF Next, Answered

\* It holds when the planner starts.
LEMMA PlainInit == Init => PlainIInv
<1> SUFFICES ASSUME Init PROVE PlainIInv
  OBVIOUS
<1>1. TypeOK /\ Shape
  BY SearchInit DEF SearchIInv
<1>2. frames = <<>> /\ chosen = <<>> /\ pc = "start" /\ outcome = "none"
  BY DEF Init
<1>3. PlainState(frames, chosen)
  BY <1>2, OneSelection DEF PlainState
<1> QED
  BY <1>1, <1>2, <1>3 DEF PlainIInv, PlainResult, Reasons

\* The planner's answers are ClaimPlan's.
LEMMA AgreesFrom == PlainIInv => AgreesWithClaimPlan
<1> SUFFICES ASSUME PlainIInv, IsPlain
             PROVE  /\ outcome = "planned" => AbstractResults(Taken) \in AbstractPlans
                    /\ outcome \in Reasons \ {"BudgetSpent", "Canceled"} => AbstractPlans = {}
  BY DEF AgreesWithClaimPlan
<1>1. AbstractPlans = PlainPlans
  BY AbstractPlansAre DEF PlainIInv, Shape
<1> QED
  BY <1>1 DEF PlainIInv, PlainResult

\* planClaimAllocation answers a claim of one ExactCount request without
\* constraints as ClaimPlan says: with one of its plans, and with a failure, its
\* budget and its context aside, only where ClaimPlan has none.
THEOREM AgreesWithClaimPlanHolds == Spec => []AgreesWithClaimPlan
  BY PlainInit, PlainStep, AgreesFrom, PTL DEF Spec
=============================================================================
