--------------------------- MODULE ClaimSearchProofs ---------------------------
(***************************************************************************)
(* Whatever planClaimAllocation answers is a plan, for every claim,        *)
(* cluster, policy and budget.  From the bottom up: loops over lists,      *)
(* sums, the amount a capacity policy charges, the verdict on an offer,    *)
(* what is held of a device, the combinations of devices, the selections   *)
(* of an alternative, the constraints, and the invariant of the search.    *)
(* Nor does it miss a plan, or prefer a later alternative.                 *)
(***************************************************************************)
EXTENDS ClaimSearchProperties, FiniteSetTheorems, SequenceTheorems,
        WellFoundedInduction, TLAPS

-----------------------------------------------------------------------------
(* Sets of indexes and sequences.                                          *)

\* The elements up to x in the order R, and how many they are.
UpTo(S, R, x) == {y \in S : y = x \/ <<y, x>> \in R}

Place(S, R, x) == Cardinality(UpTo(S, R, x))

\* R is a strict total order on S.
Orders(R, S) ==
    /\ \A x \in S : <<x, x>> \notin R
    /\ \A x, y \in S : x # y => <<x, y>> \in R \/ <<y, x>> \in R
    /\ \A x, y, z \in S : <<x, y>> \in R /\ <<y, z>> \in R => <<x, z>> \in R

\* Every element of S has a place of its own, and every place is taken.
PlacesAreTaken(S, R) ==
    /\ \A x \in S : Place(S, R, x) \in 1..Cardinality(S)
    /\ \A x, y \in S : Place(S, R, x) = Place(S, R, y) => x = y
    /\ \A n \in 1..Cardinality(S) : \E x \in S : Place(S, R, x) = n

\* In a finite set with a strict total order, every place is taken: the number
\* of elements up to x tells the elements apart, hence counts them all.
LEMMA EveryPlaceIsTaken ==
    ASSUME NEW S, IsFiniteSet(S), NEW R, Orders(R, S)
    PROVE  PlacesAreTaken(S, R)
<1> DEFINE place == [x \in S |-> Place(S, R, x)]
           N == Cardinality(S)
<1>0. N \in Nat
  BY FS_CardinalityType
<1>1. \A x \in S : IsFiniteSet(UpTo(S, R, x)) /\ Place(S, R, x) <= N /\ Place(S, R, x) \in Nat
  <2> TAKE x \in S
  <2>1. UpTo(S, R, x) \in SUBSET S
    BY DEF UpTo
  <2> QED
    BY <2>1, FS_Subset, FS_CardinalityType DEF Place
<1>2. \A x \in S : Place(S, R, x) # 0
  <2> TAKE x \in S
  <2>1. x \in UpTo(S, R, x)
    BY DEF UpTo
  <2> QED
    BY <1>1, <2>1, FS_EmptySet DEF Place
<1>3. \A x \in S : Place(S, R, x) \in 1..N
  <2> HIDE DEF N
  <2> QED
    BY <1>0, <1>1, <1>2
<1>4. ASSUME NEW x \in S, NEW y \in S, <<x, y>> \in R
      PROVE  Place(S, R, x) # Place(S, R, y)
  <2>1. UpTo(S, R, x) \in SUBSET UpTo(S, R, y)
    BY <1>4 DEF UpTo, Orders
  <2>2. y \in UpTo(S, R, y) /\ y \notin UpTo(S, R, x)
    BY <1>4 DEF UpTo, Orders
  <2> QED
    BY <1>1, <2>1, <2>2, FS_Subset DEF Place
<1>5. \A x, y \in S : Place(S, R, x) = Place(S, R, y) => x = y
  <2> QED
    BY <1>4 DEF Orders
<1>6. \A n \in 1..N : \E x \in S : Place(S, R, x) = n
  <2>1. place \in Injection(S, 1..N)
    <3> HIDE DEF N
    <3> QED
      BY <1>3, <1>5 DEF Injection, IsInjective
  <2>2. IsFiniteSet(1..N) /\ Cardinality(1..N) = N
    <3> HIDE DEF N
    <3> QED
      BY <1>0, FS_Interval
  <2>3. place \in Surjection(S, 1..N)
    <3> HIDE DEF place
    <3> QED
      BY <2>1, <2>2, FS_Injection
  <2> HIDE DEF N
  <2> QED
    BY <2>3 DEF Surjection
<1> QED
  BY <1>3, <1>5, <1>6 DEF PlacesAreTaken

\* Nth enumerates a finite set of indexes.
LEMMA NthEnumerates ==
    ASSUME NEW I \in SUBSET Int, IsFiniteSet(I)
    PROVE  /\ \A k \in 1..Cardinality(I) : Nth(I, k) \in I
           /\ \A k, m \in 1..Cardinality(I) : Nth(I, k) = Nth(I, m) => k = m
           /\ \A i \in I : \E k \in 1..Cardinality(I) : Nth(I, k) = i
           /\ \A k \in 1..Cardinality(I) : Cardinality({j \in I : j <= Nth(I, k)}) = k
<1> DEFINE R == {p \in I \X I : p[1] < p[2]}
<1>0. \A i, j \in I : <<i, j>> \in R <=> i < j
  OBVIOUS
<1> HIDE DEF R
<1>1. Orders(R, I)
  BY <1>0 DEF Orders
<1>2. \A i \in I : {j \in I : j <= i} = UpTo(I, R, i)
  <2> TAKE i \in I
  <2>1. \A j \in I : j <= i <=> (j = i \/ <<j, i>> \in R)
    BY <1>0
  <2> QED
    BY <2>1, Zenon DEF UpTo
<1>3. /\ \A x \in I : Place(I, R, x) \in 1..Cardinality(I)
      /\ \A x, y \in I : Place(I, R, x) = Place(I, R, y) => x = y
      /\ \A n \in 1..Cardinality(I) : \E x \in I : Place(I, R, x) = n
  <2>1. PlacesAreTaken(I, R)
    BY <1>1, EveryPlaceIsTaken
  <2> QED
    BY <2>1 DEF PlacesAreTaken
<1>4. \A i \in I : Cardinality({j \in I : j <= i}) = Place(I, R, i)
  BY <1>2 DEF Place
<1>5. \A k : Nth(I, k) = CHOOSE i \in I : Cardinality({j \in I : j <= i}) = k
  BY DEF Nth
<1>6. \A k \in 1..Cardinality(I) :
        Nth(I, k) \in I /\ Place(I, R, Nth(I, k)) = k
  <2> TAKE k \in 1..Cardinality(I)
  <2>1. \E i \in I : Cardinality({j \in I : j <= i}) = k
    BY <1>3, <1>4
  <2>2. /\ Nth(I, k) \in I
        /\ Cardinality({j \in I : j <= Nth(I, k)}) = k
    BY <1>5, <2>1
  <2> QED
    BY <1>4, <2>2
<1>7. \A i \in I : Nth(I, Place(I, R, i)) = i
  BY <1>3, <1>6
<1>8. \A k \in 1..Cardinality(I) : Cardinality({j \in I : j <= Nth(I, k)}) = k
  BY <1>4, <1>6
<1> QED
  BY <1>3, <1>6, <1>7, <1>8

\* A set of indexes of a sequence is finite.
LEMMA IndexesFinite ==
    ASSUME NEW seq, IsList(seq), NEW I \in SUBSET DOMAIN seq
    PROVE  /\ IsFiniteSet(I) /\ I \in SUBSET Nat /\ I \in SUBSET Int
           /\ Len(seq) \in Nat /\ DOMAIN seq = 1..Len(seq)
           /\ Cardinality(I) \in 0..Len(seq)
<1>1. Len(seq) \in Nat /\ DOMAIN seq = 1..Len(seq)
  BY DEF IsList
<1>2. IsFiniteSet(1..Len(seq)) /\ Cardinality(1..Len(seq)) = Len(seq)
  BY <1>1, FS_Interval
<1>3. IsFiniteSet(I) /\ Cardinality(I) <= Len(seq) /\ Cardinality(I) \in Nat
  BY <1>1, <1>2, FS_Subset, FS_CardinalityType
<1> QED
  BY <1>1, <1>3

\* The elements at a set of indexes.
LEMMA AtIndexesList ==
    ASSUME NEW seq, IsList(seq), NEW I \in SUBSET DOMAIN seq
    PROVE  LET at == AtIndexes(seq, I) IN
           /\ IsList(at)
           /\ Len(at) = Cardinality(I) /\ DOMAIN at = 1..Cardinality(I)
           /\ \A k \in DOMAIN at : Nth(I, k) \in I /\ at[k] = seq[Nth(I, k)]
           /\ Range(at) = {seq[i] : i \in I}
<1> DEFINE at == AtIndexes(seq, I)
           N == Cardinality(I)
<1>1. IsFiniteSet(I) /\ I \in SUBSET Int /\ N \in Nat
  BY IndexesFinite
<1>2. /\ \A k \in 1..N : Nth(I, k) \in I
      /\ \A i \in I : \E k \in 1..N : Nth(I, k) = i
  BY <1>1, NthEnumerates
<1>3. at = [k \in 1..N |-> seq[Nth(I, k)]]
  BY DEF AtIndexes
<1> HIDE DEF at, N
<1>4. DOMAIN at = 1..N /\ \A k \in 1..N : at[k] = seq[Nth(I, k)]
  BY <1>3
<1>5. Range(at) = {seq[i] : i \in I}
  BY <1>2, <1>4 DEF Range
<1>6. at \in Seq(Range(at))
  <2>1. at \in [1..N -> Range(at)]
    BY <1>3 DEF Range
  <2> QED
    BY <1>1, <2>1
<1>7. Len(at) = N
  BY <1>1, <1>4, <1>6
<1> QED
  BY <1>2, <1>4, <1>5, <1>6, <1>7 DEF at, N, IsList

\* Induction, for a set of numbers.
LEMMA NatSet ==
    ASSUME NEW S, 0 \in S, \A n \in Nat : n \in S => n + 1 \in S
    PROVE  Nat \subseteq S
<1> DEFINE T == Nat \ S
<1> SUFFICES ASSUME T # {} PROVE FALSE
  OBVIOUS
<1>1. T \subseteq Nat
  OBVIOUS
<1> HIDE DEF T
<1>2. \E n \in T : \A m \in T : ~(<<m, n>> \in OpToRel(<, Nat))
  BY <1>1, NatLessThanWellFounded, WFMin
<1>3. PICK n \in T : \A m \in T : ~(m < n)
  BY <1>1, <1>2 DEF OpToRel
<1>4. n \in Nat /\ n # 0
  BY <1>1 DEF T
<1>5. n - 1 \in Nat /\ n - 1 \notin T
  BY <1>1, <1>3, <1>4
<1>6. n - 1 \in S
  BY <1>5 DEF T
<1>7. (n - 1) + 1 \in S
  BY <1>5, <1>6
<1> QED
  BY <1>4, <1>7 DEF T

-----------------------------------------------------------------------------
(* FlattenSeq.                                                             *)

\* flat[i] is the concatenation of the first i sequences.
Flattens(flat, seqs, n) ==
    flat = [i \in 1..n |-> IF i = 1 THEN seqs[i] ELSE flat[i - 1] \o seqs[i]]

\* The same, element by element.
LEMMA FlattensAt ==
    ASSUME NEW flat, NEW seqs, NEW n \in Nat, Flattens(flat, seqs, n)
    PROVE  \A i \in 1..n :
            flat[i] = IF i = 1 THEN seqs[i] ELSE flat[i - 1] \o seqs[i]
<1> DEFINE e == [i \in 1..n |->
                    IF i = 1 THEN seqs[i] ELSE flat[i - 1] \o seqs[i]]
<1>1. flat = e
  BY DEF Flattens
<1>2. \A i \in 1..n : e[i] = IF i = 1 THEN seqs[i] ELSE flat[i - 1] \o seqs[i]
  BY Zenon
<1> HIDE DEF e
<1> QED
  BY <1>1, <1>2, Zenon

\* The recursion of FlattenSeq has a solution.
LEMMA FlattenExists ==
    ASSUME NEW seqs, NEW n \in Nat
    PROVE  \E flat : Flattens(flat, seqs, n)
<1> DEFINE S == {m \in Nat : \E flat : Flattens(flat, seqs, m)}
<1>1. 0 \in S
  <2>1. Flattens([i \in 1..0 |-> <<>>], seqs, 0)
    BY DEF Flattens
  <2> QED
    BY <2>1
<1>2. ASSUME NEW m \in Nat, m \in S PROVE m + 1 \in S
  <2>1. PICK f : Flattens(f, seqs, m)
    BY <1>2
  <2> DEFINE g == [i \in 1..(m + 1) |->
                    IF i = 1 THEN seqs[i] ELSE f[i - 1] \o seqs[i]]
  <2>2. \A i \in 1..m : g[i] = f[i]
    <3>1. \A i \in 1..m : f[i] = IF i = 1 THEN seqs[i] ELSE f[i - 1] \o seqs[i]
      BY <2>1, FlattensAt
    <3>2. \A i \in 1..m : i \in 1..(m + 1)
      OBVIOUS
    <3> QED
      BY <3>1, <3>2, Zenon
  <2>3. g = [i \in 1..(m + 1) |-> IF i = 1 THEN seqs[i] ELSE g[i - 1] \o seqs[i]]
    <3>1. \A i \in 1..(m + 1) : i # 1 => g[i - 1] = f[i - 1]
      <4> TAKE i \in 1..(m + 1)
      <4> HAVE i # 1
      <4>1. i - 1 \in 1..m
        OBVIOUS
      <4> HIDE DEF g
      <4> QED
        BY <4>1, <2>2
    <3>2. \A i \in 1..(m + 1) : g[i] = IF i = 1 THEN seqs[i] ELSE f[i - 1] \o seqs[i]
      OBVIOUS
    <3>3. g = [i \in 1..(m + 1) |-> g[i]]
      OBVIOUS
    <3> HIDE DEF g
    <3>4. \A i \in 1..(m + 1) : g[i] = IF i = 1 THEN seqs[i] ELSE g[i - 1] \o seqs[i]
      BY <3>1, <3>2
    <3> QED
      BY <3>3, <3>4
  <2> HIDE DEF g
  <2>4. Flattens(g, seqs, m + 1)
    BY <2>3 DEF Flattens
  <2> QED
    BY <2>4
<1> HIDE DEF S
<1>3. n \in S
  BY <1>1, <1>2, NatSet
<1> QED
  BY <1>3 DEF S

\* What FlattenSeq is.
LEMMA FlattenDef ==
    ASSUME NEW S, NEW seqs \in Seq(Seq(S)), Len(seqs) # 0
    PROVE  \E flat :
            /\ flat \in [1..Len(seqs) -> Seq(S)]
            /\ flat[1] = seqs[1]
            /\ \A i \in 2..Len(seqs) : flat[i] = flat[i - 1] \o seqs[i]
            /\ FlattenSeq(seqs) = flat[Len(seqs)]
<1> DEFINE N == Len(seqs)
           f == CHOOSE flat : Flattens(flat, seqs, N)
<1>0. N \in Nat \ {0}
  OBVIOUS
<1>1. FlattenSeq(seqs) = f[N]
  BY Zenon DEF FlattenSeq, Flattens
<1>2. Flattens(f, seqs, N)
  BY <1>0, FlattenExists
<1>3. \A i \in 1..N : seqs[i] \in Seq(S)
  OBVIOUS
<1> HIDE DEF f, N
<1>4. f = [i \in 1..N |-> IF i = 1 THEN seqs[i] ELSE f[i - 1] \o seqs[i]]
  BY <1>2 DEF Flattens
<1>5. f[1] = seqs[1] /\ \A i \in 2..N : f[i] = f[i - 1] \o seqs[i]
  <2>1. \A i \in 1..N : f[i] = IF i = 1 THEN seqs[i] ELSE f[i - 1] \o seqs[i]
    BY <1>0, <1>2, FlattensAt
  <2>2. 1 \in 1..N /\ \A i \in 2..N : i \in 1..N /\ i # 1
    BY <1>0
  <2> QED
    BY <2>1, <2>2, Zenon
<1>6. \A i \in 1..N : f[i] \in Seq(S)
  <2> DEFINE T == {m \in Nat : m + 1 \in 1..N => f[m + 1] \in Seq(S)}
  <2>1. 0 \in T
    BY <1>0, <1>3, <1>5
  <2>2. ASSUME NEW m \in Nat, m \in T PROVE m + 1 \in T
    <3> SUFFICES ASSUME m + 2 \in 1..N PROVE f[m + 2] \in Seq(S)
      OBVIOUS
    <3>1. m + 1 \in 1..N /\ m + 2 \in 2..N /\ (m + 2) - 1 = m + 1
      BY <1>0
    <3>2. f[m + 1] \in Seq(S) /\ seqs[m + 2] \in Seq(S)
      BY <1>3, <2>2, <3>1
    <3>3. f[m + 2] = f[m + 1] \o seqs[m + 2]
      BY <1>5, <3>1
    <3> QED
      BY <3>2, <3>3
  <2> HIDE DEF T
  <2>3. Nat \subseteq T
    BY <2>1, <2>2, NatSet
  <2> TAKE i \in 1..N
  <2>4. i - 1 \in T /\ (i - 1) + 1 = i
    BY <1>0, <2>3
  <2> QED
    BY <2>4 DEF T
<1> QED
  BY <1>1, <1>4, <1>5, <1>6 DEF N

\* The range of a flattened sequence.
LEMMA FlattenRange ==
    ASSUME NEW S, NEW seqs \in Seq(Seq(S))
    PROVE  /\ FlattenSeq(seqs) \in Seq(S)
           /\ Range(FlattenSeq(seqs)) = UNION {Range(seqs[i]) : i \in DOMAIN seqs}
<1> DEFINE N == Len(seqs)
<1>0. N \in Nat /\ DOMAIN seqs = 1..N
  OBVIOUS
<1>1. CASE N = 0
  <2>1. FlattenSeq(seqs) = seqs /\ seqs = <<>>
    BY <1>1 DEF FlattenSeq
  <2> QED
    BY <2>1 DEF Range
<1>2. CASE N # 0
  <2>1. PICK f : /\ f \in [1..N -> Seq(S)]
                 /\ f[1] = seqs[1]
                 /\ \A i \in 2..N : f[i] = f[i - 1] \o seqs[i]
                 /\ FlattenSeq(seqs) = f[N]
    BY <1>2, FlattenDef
  <2>2. \A i \in 1..N : seqs[i] \in Seq(S)
    OBVIOUS
  <2> DEFINE Sofar(m) == UNION {Range(seqs[i]) : i \in 1..m}
             T == {m \in Nat : m + 1 \in 1..N => Range(f[m + 1]) = Sofar(m + 1)}
  <2> HIDE DEF N
  <2>3. 0 \in T
    BY <2>1
  <2>4. ASSUME NEW m \in Nat, m \in T PROVE m + 1 \in T
    <3>0. (m + 1) + 1 = m + 2 /\ m + 1 \in Nat
      OBVIOUS
    <3> SUFFICES ASSUME m + 2 \in 1..N PROVE Range(f[m + 2]) = Sofar(m + 2)
      BY <3>0, Zenon
    <3>1. m + 1 \in 1..N /\ m + 2 \in 2..N /\ (m + 2) - 1 = m + 1
      BY <1>0
    <3>2. f[m + 1] \in Seq(S) /\ seqs[m + 2] \in Seq(S)
      BY <2>1, <2>2, <3>1
    <3>3. f[m + 2] = f[m + 1] \o seqs[m + 2]
      BY <2>1, <3>1
    <3>4. Range(f[m + 2]) = Range(f[m + 1]) \cup Range(seqs[m + 2])
      BY <3>2, <3>3, RangeConcatenation
    <3>5. Range(f[m + 1]) = Sofar(m + 1)
      BY <2>4, <3>1
    <3>6. 1..(m + 2) = 1..(m + 1) \cup {m + 2}
      OBVIOUS
    <3>7. Sofar(m + 2) = Sofar(m + 1) \cup Range(seqs[m + 2])
      BY <3>6, Zenon
    <3> QED
      BY <3>4, <3>5, <3>7
  <2> HIDE DEF T
  <2>5. Nat \subseteq T
    BY <2>3, <2>4, NatSet
  <2>6. N - 1 \in T /\ (N - 1) + 1 = N /\ N \in 1..N
    BY <1>0, <1>2, <2>5
  <2>7. Range(f[N]) = Sofar(N)
    BY <2>6 DEF T
  <2> QED
    BY <1>0, <2>1, <2>6, <2>7
<1> QED
  BY <1>1, <1>2

\* Flattening one sequence more.
LEMMA FlattenAppend ==
    ASSUME NEW S, NEW seqs \in Seq(Seq(S)), NEW s \in Seq(S)
    PROVE  FlattenSeq(Append(seqs, s)) = FlattenSeq(seqs) \o s
<1> DEFINE N == Len(seqs)
           more == Append(seqs, s)
<1>0. /\ N \in Nat /\ DOMAIN seqs = 1..N
      /\ more \in Seq(Seq(S)) /\ Len(more) = N + 1
      /\ more[N + 1] = s /\ \A i \in 1..N : more[i] = seqs[i]
  OBVIOUS
<1>1. PICK g : /\ g \in [1..(N + 1) -> Seq(S)]
               /\ g[1] = more[1]
               /\ \A i \in 2..(N + 1) : g[i] = g[i - 1] \o more[i]
               /\ FlattenSeq(more) = g[N + 1]
  <2> HIDE DEF more, N
  <2>1. Len(more) # 0
    BY <1>0
  <2>2. \E g : /\ g \in [1..Len(more) -> Seq(S)]
               /\ g[1] = more[1]
               /\ \A i \in 2..Len(more) : g[i] = g[i - 1] \o more[i]
               /\ FlattenSeq(more) = g[Len(more)]
    BY <1>0, <2>1, FlattenDef
  <2> QED
    BY <1>0, <2>2
<1>2. CASE N = 0
  <2>1. FlattenSeq(seqs) = <<>>
    BY <1>2 DEF FlattenSeq
  <2>2. FlattenSeq(more) = s
    <3> HIDE DEF more, N
    <3> QED
      BY <1>0, <1>1, <1>2
  <2> QED
    BY <2>1, <2>2
<1>3. CASE N # 0
  <2>1. PICK f : /\ f \in [1..N -> Seq(S)]
                 /\ f[1] = seqs[1]
                 /\ \A i \in 2..N : f[i] = f[i - 1] \o seqs[i]
                 /\ FlattenSeq(seqs) = f[N]
    BY <1>3, FlattenDef
  <2> HIDE DEF more, N
  <2> DEFINE T == {m \in Nat : m + 1 \in 1..N => f[m + 1] = g[m + 1]}
  <2>2. 0 \in T
    BY <1>0, <1>1, <2>1
  <2>3. ASSUME NEW m \in Nat, m \in T PROVE m + 1 \in T
    <3> SUFFICES ASSUME m + 2 \in 1..N PROVE f[m + 2] = g[m + 2]
      OBVIOUS
    <3>1. /\ m + 1 \in 1..N /\ m + 2 \in 2..N /\ m + 2 \in 2..(N + 1)
          /\ (m + 2) - 1 = m + 1
      BY <1>0
    <3>2. f[m + 2] = f[m + 1] \o seqs[m + 2]
      BY <2>1, <3>1
    <3>3. g[m + 2] = g[m + 1] \o more[m + 2]
      BY <1>1, <3>1
    <3>4. more[m + 2] = seqs[m + 2] /\ f[m + 1] = g[m + 1]
      BY <1>0, <2>3, <3>1
    <3> QED
      BY <3>2, <3>3, <3>4
  <2> HIDE DEF T
  <2>4. Nat \subseteq T
    BY <2>2, <2>3, NatSet
  <2>5. N - 1 \in T /\ (N - 1) + 1 = N /\ N \in 1..N
    BY <1>0, <1>3, <2>4
  <2>6. f[N] = g[N]
    BY <2>5 DEF T
  <2>7. N + 1 \in 2..(N + 1) /\ (N + 1) - 1 = N
    BY <1>0, <1>3
  <2>8. g[N + 1] = g[N] \o s
    BY <1>0, <1>1, <2>7
  <2>9. FlattenSeq(more) = FlattenSeq(seqs) \o s
    BY <1>1, <2>1, <2>6, <2>8
  <2> QED
    BY <2>9 DEF more
<1> QED
  BY <1>2, <1>3

-----------------------------------------------------------------------------
(* Sums.                                                                   *)

\* f has a natural number for every element of a finite set.
Counts(f, S) == IsFiniteSet(S) /\ \A x \in S : f[x] \in Nat

\* A sum is the number of units: one token per unit of each element.
Tokens(f, S) == UNION {{x} \X (1..f[x]) : x \in S}

\* Tokens are finitely many.
LEMMA TokensFinite ==
    ASSUME NEW f, NEW S, Counts(f, S)
    PROVE  IsFiniteSet(Tokens(f, S)) /\ Cardinality(Tokens(f, S)) \in Nat
<1> DEFINE T == {{x} \X (1..f[x]) : x \in S}
           g == [x \in S |-> {x} \X (1..f[x])]
<1>1. g \in Surjection(S, T)
  BY DEF Surjection
<1>2. IsFiniteSet(T)
  BY <1>1, FS_Surjection DEF Counts
<1>3. ASSUME NEW x \in S PROVE IsFiniteSet({x} \X (1..f[x]))
  <2>1. f[x] \in Int
    BY DEF Counts
  <2>2. IsFiniteSet(1..f[x])
    BY <2>1, FS_Interval
  <2> QED
    BY <2>2, FS_Singleton, FS_Product
<1>4. IsFiniteSet(Tokens(f, S))
  BY <1>2, <1>3, FS_UNION DEF Tokens
<1> QED
  BY <1>4, FS_CardinalityType

\* Tokens of disjoint sets add up.
LEMMA TokensUnion ==
    ASSUME NEW f, NEW S, NEW T, Counts(f, S), Counts(f, T), S \cap T = {}
    PROVE  Cardinality(Tokens(f, S \cup T))
            = Cardinality(Tokens(f, S)) + Cardinality(Tokens(f, T))
<1> DEFINE A == Tokens(f, S)
           B == Tokens(f, T)
<1>1. Tokens(f, S \cup T) = A \cup B
  BY DEF Tokens
<1>2. A \cap B = {}
  BY DEF Tokens
<1>3. /\ IsFiniteSet(A) /\ Cardinality(A) \in Nat
      /\ IsFiniteSet(B) /\ Cardinality(B) \in Nat
  BY TokensFinite
<1> HIDE DEF A, B
<1>4. Cardinality(A \cup B) = Cardinality(A) + Cardinality(B) - Cardinality({})
  BY <1>2, <1>3, FS_Union
<1>5. Cardinality(A \cup B) = Cardinality(A) + Cardinality(B)
  BY <1>3, <1>4, FS_EmptySet
<1> QED
  BY <1>1, <1>5 DEF A, B

\* One element has its amount of tokens.
LEMMA TokensSingle ==
    ASSUME NEW f, NEW x, f[x] \in Nat
    PROVE  Counts(f, {x}) /\ Cardinality(Tokens(f, {x})) = f[x]
<1>1. f[x] \in Int
  OBVIOUS
<1>2. IsFiniteSet(1..f[x]) /\ Cardinality(1..f[x]) = f[x]
  <2>1. \A n \in Nat : IsFiniteSet(1..n) /\ Cardinality(1..n) = n
    BY FS_Interval
  <2> QED
    BY <2>1
<1>3. IsFiniteSet({x}) /\ Cardinality({x}) = 1
  BY FS_Singleton
<1>4. Cardinality({x} \X (1..f[x])) = Cardinality({x}) * Cardinality(1..f[x])
  BY <1>2, <1>3, FS_Product
<1>5. \A n \in Nat : 1 * n = n
  OBVIOUS
<1>6. Cardinality({x} \X (1..f[x])) = 1 * f[x]
  BY <1>2, <1>3, <1>4, Zenon
<1>7. Tokens(f, {x}) = {x} \X (1..f[x])
  BY DEF Tokens
<1> QED
  BY <1>3, <1>5, <1>6, <1>7 DEF Counts

\* g solves the recursion of a sum.
Sums(g, f, S) ==
    g = [s \in SUBSET S |->
            IF s = {} THEN 0
            ELSE f[CHOOSE x \in s : TRUE] + g[s \ {CHOOSE x \in s : TRUE}]]

\* The recursive sum has a value, and it is the number of tokens: the count
\* satisfies the recursion, and by well-founded induction on the subsets of S
\* nothing else does.
LEMMA SumSolution ==
    ASSUME NEW f, NEW S, Counts(f, S)
    PROVE  /\ \E g : Sums(g, f, S)
           /\ \A g : Sums(g, f, S) => g[S] = Cardinality(Tokens(f, S))
<1> DEFINE Some(s) == CHOOSE x \in s : TRUE
           Rec(g) == [s \in SUBSET S |->
                        IF s = {} THEN 0 ELSE f[Some(s)] + g[s \ {Some(s)}]]
           count == [s \in SUBSET S |-> Cardinality(Tokens(f, s))]
<1>1. \A g : Sums(g, f, S) <=> g = Rec(g)
  BY Zenon DEF Sums
<1>2. \A s \in SUBSET S : s # {} => Some(s) \in s
  OBVIOUS
<1> HIDE DEF Some
<1>3. ASSUME NEW s \in SUBSET S, s # {}
      PROVE  count[s] = f[Some(s)] + count[s \ {Some(s)}]
  <2>1. Some(s) \in s
    BY <1>2, <1>3
  <2>2. Counts(f, s \ {Some(s)}) /\ f[Some(s)] \in Nat
    BY <2>1, FS_Subset DEF Counts
  <2>3. /\ Counts(f, {Some(s)})
        /\ Cardinality(Tokens(f, {Some(s)})) = f[Some(s)]
    BY <2>2, TokensSingle
  <2>4. s = {Some(s)} \cup (s \ {Some(s)}) /\ {Some(s)} \cap (s \ {Some(s)}) = {}
    BY <2>1
  <2>5. Cardinality(Tokens(f, {Some(s)} \cup (s \ {Some(s)})))
          = f[Some(s)] + Cardinality(Tokens(f, s \ {Some(s)}))
    BY <2>2, <2>3, <2>4, TokensUnion
  <2>6. Cardinality(Tokens(f, s)) = f[Some(s)] + Cardinality(Tokens(f, s \ {Some(s)}))
    BY <2>4, <2>5
  <2> QED
    BY <2>6
<1>4. count[{}] = 0
  <2>1. Tokens(f, {}) = {}
    BY DEF Tokens
  <2> QED
    BY <2>1, FS_EmptySet
<1>5. count = Rec(count)
  <2>1. \A s \in SUBSET S : count[s] = Rec(count)[s]
    <3> HIDE DEF count
    <3> QED
      BY <1>3, <1>4
  <2> HIDE DEF count
  <2>2. count = [s \in SUBSET S |-> count[s]]
    BY DEF count
  <2> QED
    BY <2>1, <2>2
<1>6. \E g : Sums(g, f, S)
  <2> HIDE DEF Rec, count
  <2> QED
    BY <1>1, <1>5
<1>7. ASSUME NEW sum, Sums(sum, f, S) PROVE sum[S] = count[S]
  <2> DEFINE Bad == {s \in SUBSET S : sum[s] # count[s]}
  <2> SUFFICES ASSUME Bad # {} PROVE FALSE
    OBVIOUS
  <2>s. sum = Rec(sum)
    BY <1>1, <1>7
  <2>0. FiniteSubsetsOf(S) = SUBSET S
    BY FS_FiniteSubsetsOfFinite DEF Counts
  <2>1. IsWellFoundedOn(StrictSubsetOrdering(S), SUBSET S)
    BY <2>0, FS_StrictSubsetOrderingWellFounded
  <2>2. \E s \in Bad : \A t \in Bad : ~ (<<t, s>> \in StrictSubsetOrdering(S))
    <3>1. Bad \subseteq SUBSET S
      OBVIOUS
    <3> HIDE DEF Bad
    <3> QED
      BY <2>1, <3>1, WFMin
  <2>3. PICK s \in Bad : \A t \in Bad : ~ (<<t, s>> \in StrictSubsetOrdering(S))
    BY <2>2
  <2> HIDE DEF count
  <2>4. \A t \in SUBSET S : t \subseteq s /\ t # s => sum[t] = count[t]
    BY <2>3 DEF StrictSubsetOrdering
  <2>5. s # {}
    BY <1>4, <2>s, <2>3
  <2>6. sum[s] = f[Some(s)] + sum[s \ {Some(s)}]
    BY <2>s, <2>3, <2>5
  <2>7. sum[s \ {Some(s)}] = count[s \ {Some(s)}]
    BY <1>2, <2>3, <2>4, <2>5
  <2> QED
    BY <1>3, <2>3, <2>5, <2>6, <2>7
<1> QED
  BY <1>6, <1>7

\* So a sum is a number of tokens.
LEMMA SumIsCount ==
    ASSUME NEW f, NEW S, Counts(f, S)
    PROVE  SumFunctionOnSet(f, S) = Cardinality(Tokens(f, S))
<1>1. SumFunctionOnSet(f, S) = (CHOOSE g : Sums(g, f, S))[S]
  BY Zenon DEF SumFunctionOnSet, FoldFunctionOnSet, MapThenFoldSet, Sums
<1> QED
  BY <1>1, SumSolution

\* Sums are natural numbers, those of disjoint sets add up, and one element
\* has its own amount.
LEMMA SumUnion ==
    ASSUME NEW f, NEW S, NEW T, Counts(f, S), Counts(f, T), S \cap T = {}
    PROVE  /\ SumFunctionOnSet(f, S) \in Nat /\ SumFunctionOnSet(f, T) \in Nat
           /\ SumFunctionOnSet(f, S \cup T)
                = SumFunctionOnSet(f, S) + SumFunctionOnSet(f, T)
<1>1. Counts(f, S \cup T)
  BY FS_Union DEF Counts
<1> QED
  BY <1>1, SumIsCount, TokensUnion, TokensFinite

\* The sum over one element.
LEMMA SumSingle ==
    ASSUME NEW f, NEW x, f[x] \in Nat
    PROVE  SumFunctionOnSet(f, {x}) = f[x]
  BY TokensSingle, SumIsCount

\* The sum over no element.
LEMMA SumEmpty ==
    ASSUME NEW f
    PROVE  SumFunctionOnSet(f, {}) = 0
<1>1. Counts(f, {}) /\ Tokens(f, {}) = {}
  BY FS_EmptySet DEF Counts, Tokens
<1> QED
  BY <1>1, SumIsCount, FS_EmptySet

\* Renaming the elements does not change a sum.
LEMMA SumRenamed ==
    ASSUME NEW f, NEW S, Counts(f, S), NEW g, NEW T, Counts(g, T),
           NEW b \in Bijection(S, T), \A x \in S : f[x] = g[b[x]]
    PROVE  SumFunctionOnSet(f, S) = SumFunctionOnSet(g, T)
<1> DEFINE A == Tokens(f, S)
           B == Tokens(g, T)
           r == [t \in A |-> <<b[t[1]], t[2]>>]
<1>0. /\ b \in [S -> T]
      /\ \A x, y \in S : b[x] = b[y] => x = y
      /\ \A y \in T : \E x \in S : b[x] = y
  BY DEF Bijection, Injection, Surjection, IsInjective
<1>1. \A t : t \in A <=> \E x \in S : \E n \in 1..f[x] : t = <<x, n>>
  BY DEF Tokens
<1>2. \A t : t \in B <=> \E x \in T : \E n \in 1..g[x] : t = <<x, n>>
  BY DEF Tokens
<1> HIDE DEF A, B
<1>3. r \in [A -> B]
  BY <1>0, <1>1, <1>2
<1>4. \A t, u \in A : r[t] = r[u] => t = u
  BY <1>0, <1>1
<1>5. \A u \in B : \E t \in A : r[t] = u
  <2> TAKE u \in B
  <2>1. PICK y \in T : \E n \in 1..g[y] : u = <<y, n>>
    BY <1>2
  <2>4. PICK n \in 1..g[y] : u = <<y, n>>
    BY <2>1
  <2>2. PICK x \in S : b[x] = y
    BY <1>0
  <2>3. <<x, n>> \in A /\ r[<<x, n>>] = u
    BY <1>1, <2>4, <2>2
  <2> QED
    BY <2>3
<1>6. r \in Bijection(A, B)
  <2> HIDE DEF r
  <2> QED
    BY <1>3, <1>4, <1>5 DEF Bijection, Injection, Surjection, IsInjective
<1>7. IsFiniteSet(A)
  BY TokensFinite DEF A
<1>8. Cardinality(B) = Cardinality(A)
  <2> HIDE DEF r
  <2> QED
    BY <1>6, <1>7, FS_Bijection DEF ExistsBijection
<1> QED
  BY <1>8, SumIsCount DEF A, B

-----------------------------------------------------------------------------
(* CapacityPolicy: a share is charged the least amount its policy allows.  *)

\* The least element of a set.
LEMMA MinIs ==
    ASSUME NEW S \in SUBSET Int, NEW x \in S, \A y \in S : x <= y
    PROVE  Min(S) = x
<1>1. \E z \in S : \A y \in S : z =< y
  OBVIOUS
<1>2. Min(S) \in S /\ \A y \in S : Min(S) =< y
  BY <1>1 DEF Min
<1>3. Min(S) <= x /\ x <= Min(S) /\ Min(S) \in Int /\ x \in Int
  BY <1>2
<1> QED
  BY <1>3

\* A nonempty set of natural numbers has a least element.
LEMMA MinExists ==
    ASSUME NEW S \in SUBSET Nat, S # {}
    PROVE  Min(S) \in S /\ \A y \in S : Min(S) <= y
<1>1. \E n \in S : \A m \in S : ~(<<m, n>> \in OpToRel(<, Nat))
  BY NatLessThanWellFounded, WFMin
<1>2. PICK n \in S : \A m \in S : ~(m < n)
  BY <1>1 DEF OpToRel
<1>3. \A m \in S : n <= m
  BY <1>2
<1> QED
  BY <1>3 DEF Min

\* The element of a field that is set.
LEMMA TheOne ==
    ASSUME NEW field, Optional(field), NEW x \in field
    PROVE  The(field) = x /\ field = {x}
  BY DEF The, Optional

\* Multiplying by a positive number keeps the order.
LEMMA TimesOrder ==
    ASSUME NEW b \in Nat \ {0}, NEW x \in Int, NEW y \in Int
    PROVE  /\ b * x \in Int
           /\ b * x < b * y => x < y
           /\ x <= y => b * x <= b * y
  OBVIOUS

\* Quantity.Value rounds up.
LEMMA ValueRoundsUp ==
    ASSUME NEW q \in Int
    PROVE  /\ Value(q) \in Int
           /\ Unit * Value(q) >= q /\ Unit * (Value(q) - 1) < q
           /\ q % Unit = 0 => Unit * Value(q) = q
<1>1. /\ Value(q) \in Int
      /\ Unit * Value(q) >= q /\ Unit * (Value(q) - 1) < q
  BY CapacityPolicyAssumption DEF Value
<1>2. ASSUME q % Unit = 0 PROVE Unit * Value(q) = q
  <2>1. PICK k \in Int : q = Unit * k
    BY <1>2, CapacityPolicyAssumption
  <2>2. Value(q) - 1 < k
    BY <1>1, <2>1, CapacityPolicyAssumption, TimesOrder
  <2>3. Value(q) >= k
    <3> SUFFICES ASSUME Value(q) <= k - 1 PROVE FALSE
      BY <1>1
    <3>1. Unit * Value(q) <= Unit * (k - 1)
      BY <1>1, CapacityPolicyAssumption, TimesOrder
    <3>2. Unit * (k - 1) < Unit * k
      BY CapacityPolicyAssumption
    <3> QED
      BY <1>1, <2>1, <3>1, <3>2, CapacityPolicyAssumption
  <2>4. Value(q) = k
    BY <1>1, <2>2, <2>3
  <2> QED
    BY <2>1, <2>4
<1> QED
  BY <1>1, <1>2

\* Rounding up to a step gives the least aligned amount that covers the request.
LEMMA RoundToStep ==
    ASSUME NEW a \in Int, NEW min \in Int, NEW step \in Int,
           step > 0, min % Unit = 0, step % Unit = 0,
           NEW r,
           r = Unit * (Value(min)
                + (-((Value(min) - Value(a)) \div Value(step))) * Value(step))
    PROVE  /\ r \in Int /\ r >= a
           /\ (r - min) % step = 0
           /\ \A q \in Int : q >= a /\ (q - min) % step = 0 => q >= r
<1> DEFINE m == Value(min)
           s == Value(step)
           v == Value(a)
           n == -((m - v) \div s)
<1>0. Unit \in Nat \ {0}
  BY CapacityPolicyAssumption
<1>1. /\ m \in Int /\ Unit * m = min
      /\ s \in Int /\ Unit * s = step
      /\ v \in Int /\ Unit * v >= a /\ Unit * (v - 1) < a
  BY ValueRoundsUp
<1>2. s > 0
  <2> HIDE DEF s
  <2>1. Unit * 0 < Unit * s
    BY <1>0, <1>1
  <2> QED
    BY <1>0, <1>1, <2>1, TimesOrder
<1> HIDE DEF m, s, v
<1>3. /\ n \in Int
      /\ s * n >= v - m /\ s * (n - 1) < v - m
  <2> DEFINE d == (m - v) \div s
  <2>1. d \in Int /\ s * d <= m - v /\ m - v < s * d + s
    BY <1>1, <1>2
  <2> HIDE DEF d
  <2>2. n = -d
    BY DEF d
  <2>3. s * (-d) = -(s * d) /\ s * (-d - 1) = -(s * d) - s /\ s * d \in Int
    BY <1>1, <2>1
  <2> HIDE DEF n
  <2> QED
    BY <1>1, <2>1, <2>2, <2>3
<1>4. r = Unit * (m + n * s)
  BY DEF m, s, v
<1> HIDE DEF n
<1>5. n * s = s * n /\ s * n \in Int /\ m + s * n \in Int
  BY <1>1, <1>3
<1>6. r = Unit * (m + s * n) /\ r \in Int
  BY <1>0, <1>4, <1>5
<1>7. r >= a
  <2>1. Unit * v <= Unit * (m + s * n)
    BY <1>0, <1>1, <1>3, <1>5, TimesOrder
  <2> QED
    BY <1>0, <1>1, <1>6, <2>1
<1>8. r - min = step * n
  <2>1. Unit * (m + s * n) = Unit * m + Unit * (s * n)
    BY <1>0, <1>1, <1>5
  <2>2. Unit * (s * n) = (Unit * s) * n
    BY <1>0, <1>1, <1>3
  <2>3. step * n \in Int
    BY <1>3
  <2> QED
    BY <1>1, <1>6, <2>1, <2>2, <2>3
<1>9. (r - min) % step = 0
  <2>1. \A b \in Nat \ {0}, k \in Int : (b * k) % b = 0
    OBVIOUS
  <2> QED
    BY <1>3, <1>8, <2>1
<1>10. ASSUME NEW q \in Int, q >= a, (q - min) % step = 0
       PROVE  q >= r
  <2>1. PICK k \in Int : q - min = step * k
    BY <1>10
  <2>2. s * k \in Int /\ q = Unit * (m + s * k)
    <3>1. step * k = Unit * (s * k) /\ s * k \in Int
      BY <1>0, <1>1
    <3>2. Unit * (m + s * k) = Unit * m + Unit * (s * k)
      BY <1>0, <1>1, <3>1
    <3> QED
      BY <1>0, <1>1, <2>1, <3>1, <3>2
  <2>3. v - 1 < m + s * k
    <3>1. Unit * (v - 1) < Unit * (m + s * k)
      BY <1>0, <1>1, <1>10, <2>2
    <3> QED
      BY <1>0, <1>1, <2>2, <3>1, TimesOrder
  <2>4. s * (n - 1) < s * k
    BY <1>1, <1>3, <1>5, <2>2, <2>3
  <2>5. n - 1 < k
    BY <1>1, <1>2, <1>3, <2>4, TimesOrder
  <2>6. s * n <= s * k
    BY <1>1, <1>2, <1>3, <2>5, TimesOrder
  <2>7. Unit * (m + s * n) <= Unit * (m + s * k)
    BY <1>0, <1>1, <1>5, <2>2, <2>6, TimesOrder
  <2> QED
    BY <1>6, <2>2, <2>7
<1> QED
  BY <1>6, <1>7, <1>9, <1>10

\* Charge, when x is the least permitted amount that covers the request, unless
\* it exceeds the capacity.
LEMMA ChargeIs ==
    ASSUME NEW c, c.value \in Nat, NEW a \in Nat, NEW x \in Int, x >= a,
           x <= c.value => x \in PermittedAmounts(c),
           \A q \in PermittedAmounts(c) : q >= a => q >= x
    PROVE  Charge(c, {a}) = IF x <= c.value THEN x ELSE c.value + 1
<1> DEFINE P == PermittedAmounts(c)
           enough == {q \in P : q >= a}
<1>1. P \in SUBSET Int /\ \A q \in P : q <= c.value
  BY DEF PermittedAmounts
<1>2. The({a}) = a /\ {a} # {}
  BY DEF The
<1>3. Charge(c, {a}) = IF enough = {} THEN c.value + 1 ELSE Min(enough)
  BY <1>2, Zenon DEF Charge
<1>4. CASE x <= c.value
  <2>1. enough \in SUBSET Int /\ x \in enough /\ \A y \in enough : x <= y
    <3> HIDE DEF P
    <3>1. \A q \in P : q >= a => q >= x
      BY DEF P
    <3>2. x \in P
      BY <1>4 DEF P
    <3> QED
      BY <1>1, <3>1, <3>2
  <2> HIDE DEF enough
  <2>2. Min(enough) = x
    BY <2>1, MinIs
  <2> QED
    BY <1>3, <1>4, <2>1, <2>2
<1>5. CASE ~(x <= c.value)
  <2>1. enough = {}
    <3> HIDE DEF P
    <3>1. \A q \in P : q >= a => q >= x
      BY DEF P
    <3>2. \A q \in P : ~(q >= a)
      BY <1>1, <1>5, <3>1
    <3> QED
      BY <3>2
  <2> QED
    BY <1>3, <1>5, <2>1
<1> QED
  BY <1>4, <1>5

\* Charge, when no permitted amount covers the request.
LEMMA ChargeIsNone ==
    ASSUME NEW c, NEW a \in Nat, \A q \in PermittedAmounts(c) : ~(q >= a)
    PROVE  Charge(c, {a}) = c.value + 1
<1>1. The({a}) = a /\ {a} # {}
  BY DEF The
<1>2. {q \in PermittedAmounts(c) : q >= a} = {}
  OBVIOUS
<1> QED
  BY <1>1, <1>2 DEF Charge

\* What consumedCapacityForRequest answers is what Charge says, as far as the
\* capacity goes.
Agrees(c, requested) ==
    LET consumed == consumedCapacityForRequest(c, requested)
        charge == Charge(c, requested)
    IN  /\ charge \in Nat
        /\ consumed \subseteq Int
        /\ \A q \in Int : q <= c.value => (q \in consumed <=> q = charge)
        /\ requested # {} /\ charge <= c.value => The(requested) <= charge

\* It is enough to compare the answer with the least covering amount.
LEMMA AgreesIf ==
    ASSUME NEW c, c.value \in Nat, NEW a \in Nat, NEW x \in Int, x >= a,
           x <= c.value => x \in PermittedAmounts(c),
           \A q \in PermittedAmounts(c) : q >= a => q >= x,
           NEW consumed, consumedCapacityForRequest(c, {a}) = consumed,
           consumed \subseteq {x}, x <= c.value => consumed = {x}
    PROVE  Agrees(c, {a})
<1>1. Charge(c, {a}) = IF x <= c.value THEN x ELSE c.value + 1
  BY ChargeIs
<1>2. The({a}) = a
  BY DEF The
<1> DEFINE charge == Charge(c, {a})
<1>3. CASE x <= c.value
  <2>1. charge = x /\ consumed = {x}
    BY <1>1, <1>3
  <2> HIDE DEF charge
  <2>2. charge \in Nat /\ consumed \subseteq Int /\ a <= charge
    BY <2>1
  <2>3. \A q \in Int : q <= c.value => (q \in consumed <=> q = charge)
    BY <2>1
  <2> QED
    BY <1>2, <2>2, <2>3 DEF Agrees, charge
<1>4. CASE ~(x <= c.value)
  <2>1. charge = c.value + 1
    BY <1>1, <1>4
  <2> HIDE DEF charge
  <2>2. charge \in Nat /\ consumed \subseteq Int /\ ~(charge <= c.value)
    BY <2>1
  <2>3. \A q \in Int : q <= c.value => (q \in consumed <=> q = charge)
    BY <1>4, <2>1
  <2> QED
    BY <1>2, <2>2, <2>3 DEF Agrees, charge
<1> QED
  BY <1>3, <1>4

\* The amounts of a valid policy's values are in ascending order.
LEMMA ValuesAscend ==
    ASSUME NEW values \in Seq(Int),
           \A i \in 2..Len(values) : values[i - 1] < values[i]
    PROVE  \A i, j \in DOMAIN values : i <= j => values[i] <= values[j]
<1> DEFINE N == Len(values)
           S == {n \in Nat : \A i \in 1..N : i + n \in 1..N => values[i] <= values[i + n]}
<1>0. N \in Nat /\ DOMAIN values = 1..N /\ \A i \in 1..N : values[i] \in Int
  OBVIOUS
<1>1. 0 \in S
  BY <1>0
<1>2. ASSUME NEW n \in Nat, n \in S PROVE n + 1 \in S
  <2> SUFFICES ASSUME NEW i \in 1..N, i + (n + 1) \in 1..N
               PROVE  values[i] <= values[i + (n + 1)]
    OBVIOUS
  <2>1. i + n \in 1..N /\ i + (n + 1) \in 2..N /\ (i + (n + 1)) - 1 = i + n
    BY <1>0
  <2>2. values[i] <= values[i + n] /\ values[i + n] < values[i + (n + 1)]
    BY <1>2, <2>1
  <2> QED
    BY <1>0, <2>1, <2>2
<1> HIDE DEF S
<1>3. Nat \subseteq S
  BY <1>1, <1>2, NatSet
<1> SUFFICES ASSUME NEW i \in 1..N, NEW j \in 1..N, i <= j
             PROVE  values[i] <= values[j]
  BY <1>0
<1>4. j - i \in S /\ i + (j - i) = j
  BY <1>0, <1>3
<1> QED
  BY <1>4 DEF S

\* The policy of a capacity that has one.
LEMMA ThePolicy ==
    ASSUME NEW c, IsCapacity(c), PolicyIsValid(c), c.policy # {}
    PROVE  LET p == The(c.policy) IN
           /\ c.policy = {p} /\ IsPolicy(p)
           /\ p.validValues = <<>> \/ p.validRange = {}
           /\ p.validValues # <<>> => ValidValuesAreValid(c.value, p)
           /\ p.validValues = <<>> /\ p.validRange # {} => ValidRangeIsValid(c.value, p)
           /\ p.validValues = <<>> /\ p.validRange = {} =>
                \A q \in p.default : q \in 0..c.value
<1>1. PICK p \in c.policy : TRUE
  OBVIOUS
<1>2. The(c.policy) = p /\ c.policy = {p} /\ IsPolicy(p)
  BY TheOne DEF IsCapacity
<1> QED
  BY <1>2 DEF PolicyIsValid

\* The range of a policy that has one: it has a minimum.
LEMMA TheRange ==
    ASSUME NEW total \in Int, NEW p, IsPolicy(p), p.validRange # {},
           ValidRangeIsValid(total, p)
    PROVE  LET range == The(p.validRange)
               min == The(range.min)
           IN  /\ p.validRange = {range}
               /\ IsQuantity(range.min) /\ IsQuantity(range.max)
               /\ IsQuantity(range.step)
               /\ range.min = {min} /\ min \in 0..total
               /\ \A max \in range.max : max \in min..total
               /\ \A step \in range.step : step \in Int /\ step > 0
<1>1. PICK range \in p.validRange : TRUE
  OBVIOUS
<1>2. The(p.validRange) = range /\ p.validRange = {range}
  BY TheOne DEF IsPolicy
<1>3. IsQuantity(range.min) /\ IsQuantity(range.max) /\ IsQuantity(range.step)
  BY DEF IsPolicy
<1>4. PICK min \in range.min : TRUE
  BY <1>2 DEF ValidRangeIsValid
<1>5. The(range.min) = min /\ range.min = {min}
  BY <1>3, TheOne DEF IsQuantity
<1> QED
  BY <1>2, <1>3, <1>5 DEF ValidRangeIsValid, StepIsValid, IsQuantity

\* No demand: the policy's default, or all of the capacity.
LEMMA AgreesWithoutDemand ==
    ASSUME NEW c, IsCapacity(c), PolicyIsValid(c)
    PROVE  Agrees(c, {})
<1> DEFINE p == The(c.policy)
<1>0. c.value \in Nat
  BY DEF IsCapacity, PolicyIsValid
<1>1. CASE c.policy # {} /\ p.default # {}
  <2>1. c.policy = {p} /\ IsPolicy(p)
    BY <1>1, ThePolicy
  <2>2. PICK x \in p.default : TRUE
    BY <1>1
  <2>3. The(p.default) = x /\ p.default = {x} /\ x \in Int
    BY <2>1, TheOne DEF IsPolicy, IsQuantity
  <2> HIDE DEF p
  <2>4. x >= 0
    <3>1. CASE p.validValues # <<>>
      <4>1. ValidValuesAreValid(c.value, p)
        BY <1>1, <3>1, ThePolicy DEF p
      <4>2. PICK i \in DOMAIN p.validValues : p.validValues[i] \in p.default
        BY <4>1 DEF ValidValuesAreValid
      <4>3. p.validValues[i] = x /\ p.validValues[i] \in 0..c.value
        BY <2>3, <4>1, <4>2 DEF ValidValuesAreValid
      <4> QED
        BY <1>0, <4>3
    <3>2. CASE p.validValues = <<>> /\ p.validRange # {}
      <4>1. ValidRangeIsValid(c.value, p)
        BY <1>1, <3>2, ThePolicy DEF p
      <4>2. The(The(p.validRange).min) \in 0..c.value
        BY <4>1 DEF ValidRangeIsValid
      <4>3. x >= The(The(p.validRange).min)
        BY <2>3, <4>1 DEF ValidRangeIsValid, quantityWithinRange
      <4> QED
        BY <1>0, <2>3, <4>2, <4>3
    <3>3. CASE p.validValues = <<>> /\ p.validRange = {}
      BY <1>0, <1>1, <2>3, <3>3, ThePolicy DEF p
    <3> QED
      BY <3>1, <3>2, <3>3
  <2>5. consumedCapacityForRequest(c, {}) = {x}
    BY <1>1, <2>3 DEF consumedCapacityForRequest, p
  <2>6. Charge(c, {}) = x
    BY <1>1, <2>1, <2>3 DEF Charge, p
  <2> QED
    BY <2>3, <2>4, <2>5, <2>6 DEF Agrees
<1>2. CASE ~(c.policy # {} /\ p.default # {})
  <2>1. consumedCapacityForRequest(c, {}) = {c.value}
    BY <1>2 DEF consumedCapacityForRequest
  <2>2. Charge(c, {}) = c.value
    <3>1. \A q \in c.policy : q = p
      BY TheOne DEF IsCapacity
    <3> QED
      BY <1>2, <3>1 DEF Charge
  <2> QED
    BY <1>0, <2>1, <2>2 DEF Agrees
<1> QED
  BY <1>1, <1>2

\* Neither values nor a range: the demand itself.
LEMMA AgreesWithDemand ==
    ASSUME NEW c, c.value \in Nat, NEW a \in Nat,
           \A p \in c.policy : p.validValues = <<>> /\ p.validRange = {},
           consumedCapacityForRequest(c, {a}) = {a}
    PROVE  Agrees(c, {a})
<1>1. PermittedAmounts(c) = 0..c.value
  BY DEF PermittedAmounts
<1> DEFINE x == a
           consumed == {a}
<1>2. /\ x \in Int /\ x >= a
      /\ x <= c.value => x \in PermittedAmounts(c)
      /\ \A q \in PermittedAmounts(c) : q >= a => q >= x
      /\ consumedCapacityForRequest(c, {a}) = consumed
      /\ consumed \subseteq {x} /\ (x <= c.value => consumed = {x})
  <2>1. x <= c.value => x \in PermittedAmounts(c)
    BY <1>1
  <2>2. x \in Int /\ x >= a
    OBVIOUS
  <2> QED
    BY <2>1, <2>2, Zenon
<1> HIDE DEF x, consumed
<1> QED
  BY <1>2, AgreesIf

\* validValues: the first value that covers the demand.
LEMMA AgreesWithValues ==
    ASSUME NEW c, IsCapacity(c), PolicyIsValid(c), c.policy # {}, NEW a \in Nat,
           The(c.policy).validValues # <<>>
    PROVE  Agrees(c, {a})
<1> DEFINE p == The(c.policy)
           values == p.validValues
           enough == {i \in DOMAIN values : a <= values[i]}
<1>0. c.value \in Nat
  BY DEF IsCapacity, PolicyIsValid
<1>1. /\ c.policy = {p} /\ p.validRange = {}
      /\ values \in Seq(Int) /\ ValidValuesAreValid(c.value, p)
  BY ThePolicy DEF IsPolicy
<1>2. The({a}) = a /\ {a} # {}
  BY DEF The
<1>3. consumedCapacityForRequest(c, {a})
        = IF enough = {} THEN {} ELSE {values[Min(enough)]}
  BY <1>1, <1>2 DEF consumedCapacityForRequest
<1>4. /\ \A i \in DOMAIN values : values[i] \in 0..c.value
      /\ \A i \in 2..Len(values) : values[i - 1] < values[i]
  BY <1>1 DEF ValidValuesAreValid
<1>5. PermittedAmounts(c) = Range(values)
  <2>1. \A q : q \in PermittedAmounts(c) <=> q \in 0..c.value /\ q \in Range(values)
    BY <1>1 DEF PermittedAmounts
  <2> QED
    BY <1>4, <2>1 DEF Range
<1> HIDE DEF p
<1>6. CASE enough = {}
  <2>1. \A q \in PermittedAmounts(c) : ~(q >= a)
    BY <1>4, <1>5, <1>6 DEF Range
  <2>2. Charge(c, {a}) = c.value + 1
    BY <2>1, ChargeIsNone
  <2>3. consumedCapacityForRequest(c, {a}) = {}
    BY <1>3, <1>6
  <2> DEFINE charge == Charge(c, {a})
             consumed == consumedCapacityForRequest(c, {a})
  <2>4. /\ charge \in Nat /\ consumed \subseteq Int /\ ~(charge <= c.value)
        /\ \A q \in Int : q <= c.value => (q \in consumed <=> q = charge)
    <3> HIDE DEF charge, consumed
    <3>1. charge = c.value + 1 /\ consumed = {}
      BY <2>2, <2>3 DEF charge, consumed
    <3> QED
      BY <1>0, <3>1
  <2> QED
    BY <2>4 DEF Agrees
<1>7. CASE enough # {}
  <2> DEFINE n == Min(enough)
  <2>1. enough \in SUBSET Nat
    BY <1>1
  <2>2. n \in enough /\ \A i \in enough : n <= i
    <3> HIDE DEF enough
    <3> QED
      BY <1>7, <2>1, MinExists
  <2> HIDE DEF n
  <2>3. n \in DOMAIN values /\ a <= values[n] /\ values[n] \in 0..c.value
    BY <1>4, <2>2
  <2>4. \A i, j \in DOMAIN values : i <= j => values[i] <= values[j]
    BY <1>1, <1>4, ValuesAscend
  <2>5. \A q \in PermittedAmounts(c) : q >= a => q >= values[n]
    <3> SUFFICES ASSUME NEW i \in DOMAIN values, values[i] >= a
                 PROVE  values[i] >= values[n]
      BY <1>5 DEF Range
    <3>1. i \in enough
      BY <1>4
    <3>2. values[n] <= values[i]
      BY <2>2, <2>3, <2>4, <3>1
    <3> QED
      BY <1>4, <2>3, <3>2
  <2>6. values[n] \in PermittedAmounts(c)
    BY <1>5, <2>3 DEF Range
  <2>7. consumedCapacityForRequest(c, {a}) = {values[n]}
    BY <1>3, <1>7 DEF n
  <2>8. values[n] \in Int /\ values[n] >= a
    BY <2>3
  <2> DEFINE x == values[n]
             consumed == {x}
  <2>9. /\ x \in Int /\ x >= a
        /\ x <= c.value => x \in PermittedAmounts(c)
        /\ \A q \in PermittedAmounts(c) : q >= a => q >= x
        /\ consumedCapacityForRequest(c, {a}) = consumed
        /\ consumed \subseteq {x} /\ (x <= c.value => consumed = {x})
    BY <2>5, <2>6, <2>7, <2>8
  <2> HIDE DEF x, consumed
  <2> QED
    BY <1>0, <2>9, AgreesIf
<1> QED
  BY <1>6, <1>7

\* validRange: the minimum, the demand, or the next step that covers it.
LEMMA AgreesWithRange ==
    ASSUME NEW c, IsCapacity(c), PolicyIsValid(c), HasWholeSteps(c),
           c.policy # {}, NEW a \in Nat,
           The(c.policy).validValues = <<>>, The(c.policy).validRange # {}
    PROVE  Agrees(c, {a})
<1> DEFINE p == The(c.policy)
           range == The(p.validRange)
           min == The(range.min)
           step == The(range.step)
           rounded == IF range.step = {} THEN a
                      ELSE Unit * (Value(min)
                            + (-((Value(min) - Value(a)) \div Value(step))) * Value(step))
           consumed == consumedCapacityForRequest(c, {a})
<1>0. c.value \in Nat
  BY DEF IsCapacity, PolicyIsValid
<1>1. c.policy = {p} /\ IsPolicy(p) /\ ValidRangeIsValid(c.value, p)
  BY ThePolicy
<1>2. /\ p.validRange = {range}
      /\ IsQuantity(range.max) /\ IsQuantity(range.step)
      /\ range.min = {min} /\ min \in 0..c.value
      /\ \A max \in range.max : max \in min..c.value
      /\ \A s \in range.step : s \in Int /\ s > 0
  <2> HIDE DEF p
  <2>1. p.validRange # {} /\ c.value \in Int
    BY <1>0 DEF p
  <2> QED
    BY <1>1, <2>1, TheRange, Zenon
<1>3. The({a}) = a /\ {a} # {}
  BY DEF The
<1>4. consumed = IF a < min THEN {min}
                 ELSE {q \in {rounded} : quantityWithinRange(q, range)}
  BY <1>1, <1>3 DEF consumedCapacityForRequest, roundCapacityToValidRange
<1>5. range.step # {} =>
        range.step = {step} /\ step \in Int /\ step > 0
        /\ step % Unit = 0 /\ min % Unit = 0
  <2> SUFFICES ASSUME NEW s \in range.step
               PROVE  range.step = {step} /\ step \in Int /\ step > 0
                      /\ step % Unit = 0 /\ min % Unit = 0
    OBVIOUS
  <2>1. step = s /\ range.step = {s}
    BY <1>2, TheOne DEF IsQuantity
  <2>2. p \in c.policy /\ range \in p.validRange
    BY <1>1, <1>2
  <2>3. min \in range.step \cup range.min /\ s \in range.step \cup range.min
    BY <1>2
  <2>4. \A q \in range.step \cup range.min : q % Unit = 0
    BY <2>2 DEF HasWholeSteps
  <2> QED
    BY <1>2, <2>1, <2>3, <2>4
<1>6. \A q : q \in PermittedAmounts(c) <=>
        /\ q \in 0..c.value /\ q >= min
        /\ \A max \in range.max : q <= max
        /\ range.step # {} => (q - min) % step = 0
  BY <1>1, <1>2, <1>5 DEF PermittedAmounts
<1>7. \A q : quantityWithinRange(q, range)
        <=> q >= min /\ \A max \in range.max : q <= max
  BY DEF quantityWithinRange
<1>8. /\ rounded \in Int /\ rounded >= a
      /\ range.step # {} => (rounded - min) % step = 0
      /\ \A q \in PermittedAmounts(c) : q >= a => q >= rounded
  <2>1. CASE range.step = {}
    BY <1>6, <2>1
  <2>2. CASE range.step # {}
    <3> HIDE DEF min, step, range
    <3>1. /\ a \in Int /\ min \in Int /\ step \in Int /\ step > 0
          /\ min % Unit = 0 /\ step % Unit = 0
          /\ rounded = Unit * (Value(min)
                + (-((Value(min) - Value(a)) \div Value(step))) * Value(step))
      BY <1>2, <1>5, <2>2
    <3> HIDE DEF rounded
    <3>2. /\ rounded \in Int /\ rounded >= a
          /\ (rounded - min) % step = 0
          /\ \A q \in Int : q >= a /\ (q - min) % step = 0 => q >= rounded
      BY <3>1, RoundToStep
    <3>3. \A q \in PermittedAmounts(c) : q \in Int /\ (q - min) % step = 0
      BY <1>6, <2>2
    <3> QED
      BY <3>2, <3>3
  <2> QED
    BY <2>1, <2>2
<1> HIDE DEF p, range, min, step, rounded, consumed
<1>9. CASE a < min
  <2>1. min \in PermittedAmounts(c)
    <3>1. range.step # {} => (min - min) % step = 0
      BY <1>2, <1>5
    <3>2. \A max \in range.max : min <= max
      BY <1>2
    <3> QED
      BY <1>2, <1>6, <3>1, <3>2
  <2>2. /\ min \in Int /\ min >= a
        /\ min <= c.value => min \in PermittedAmounts(c)
        /\ \A q \in PermittedAmounts(c) : q >= a => q >= min
        /\ consumedCapacityForRequest(c, {a}) = consumed
        /\ consumed \subseteq {min} /\ (min <= c.value => consumed = {min})
    <3>1. consumed = {min}
      BY <1>4, <1>9
    <3>2. min \in Int /\ min >= a
      BY <1>2, <1>9
    <3>3. \A q \in PermittedAmounts(c) : q >= min
      BY <1>6
    <3>4. consumedCapacityForRequest(c, {a}) = consumed
      BY DEF consumed
    <3> QED
      BY <2>1, <3>1, <3>2, <3>3, <3>4
  <2> QED
    BY <1>0, <2>2, AgreesIf
<1>10. CASE ~(a < min) /\ \A max \in range.max : rounded <= max
  <2>1. rounded >= min
    BY <1>2, <1>8, <1>10
  <2>2. consumed = {rounded}
    BY <1>4, <1>7, <1>10, <2>1
  <2>3. rounded <= c.value => rounded \in PermittedAmounts(c)
    BY <1>0, <1>2, <1>6, <1>8, <1>10, <2>1
  <2>4. /\ rounded \in Int /\ rounded >= a
        /\ rounded <= c.value => rounded \in PermittedAmounts(c)
        /\ \A q \in PermittedAmounts(c) : q >= a => q >= rounded
        /\ consumedCapacityForRequest(c, {a}) = consumed
        /\ consumed \subseteq {rounded} /\ (rounded <= c.value => consumed = {rounded})
    BY <1>8, <2>2, <2>3 DEF consumed
  <2> QED
    BY <1>0, <2>4, AgreesIf
<1>11. CASE ~(a < min) /\ ~(\A max \in range.max : rounded <= max)
  <2>1. consumed = {}
    BY <1>4, <1>7, <1>11
  <2>2. \A q \in PermittedAmounts(c) : ~(q >= a)
    <3> SUFFICES ASSUME NEW q \in PermittedAmounts(c), q >= a PROVE FALSE
      OBVIOUS
    <3>1. PICK max \in range.max : ~(rounded <= max)
      BY <1>11
    <3>2. q \in Int /\ q >= rounded /\ q <= max /\ max \in Int
      BY <1>2, <1>6, <1>8
    <3> QED
      BY <1>8, <3>1, <3>2
  <2> DEFINE charge == Charge(c, {a})
  <2>3. charge = c.value + 1
    BY <2>2, ChargeIsNone
  <2> HIDE DEF charge
  <2>4. /\ charge \in Nat /\ consumed \subseteq Int /\ ~(charge <= c.value)
        /\ \A q \in Int : q <= c.value => (q \in consumed <=> q = charge)
    BY <1>0, <2>1, <2>3
  <2> QED
    BY <2>4 DEF Agrees, charge, consumed
<1> QED
  BY <1>9, <1>10, <1>11

\* A request is charged the least amount the policy permits that covers its
\* demand, the policy's default when it asks for nothing, and nothing at all
\* when no permitted amount covers it (consumedCapacityForRequest), for every
\* policy validateDeviceCapacityPolicy accepts whose steps are whole numbers.
THEOREM ConsumedIsCharge ==
    ASSUME NEW c, IsCapacity(c), PolicyIsValid(c), HasWholeSteps(c),
           NEW requested, IsQuantity(requested), requested \subseteq Nat
    PROVE  Agrees(c, requested)
<1>0. c.value \in Nat
  BY DEF IsCapacity, PolicyIsValid
<1>1. CASE requested = {}
  BY <1>1, AgreesWithoutDemand
<1>2. CASE requested # {}
  <2>1. PICK a \in requested : TRUE
    BY <1>2
  <2>2. requested = {a} /\ a \in Nat
    BY TheOne DEF IsQuantity
  <2>3. CASE c.policy = {}
    <3>1. consumedCapacityForRequest(c, {a}) = {a}
      BY <2>3 DEF consumedCapacityForRequest
    <3> QED
      BY <1>0, <2>2, <2>3, <3>1, AgreesWithDemand
  <2>4. CASE c.policy # {} /\ The(c.policy).validValues # <<>>
    BY <2>2, <2>4, AgreesWithValues
  <2>5. CASE c.policy # {} /\ The(c.policy).validValues = <<>>
             /\ The(c.policy).validRange # {}
    BY <2>2, <2>5, AgreesWithRange
  <2>6. CASE c.policy # {} /\ The(c.policy).validValues = <<>>
             /\ The(c.policy).validRange = {}
    <3>1. consumedCapacityForRequest(c, {a}) = {a}
      BY <2>6 DEF consumedCapacityForRequest
    <3>2. \A p \in c.policy : p.validValues = <<>> /\ p.validRange = {}
      BY <2>6, ThePolicy
    <3> QED
      BY <1>0, <2>2, <3>1, <3>2, AgreesWithDemand
  <2> QED
    BY <2>3, <2>4, <2>5, <2>6
<1> QED
  BY <1>1, <1>2

-----------------------------------------------------------------------------
(* Lists.                                                                  *)

\* A function on 1..n is a list.
LEMMA IsListIf ==
    ASSUME NEW n \in Nat, NEW S, NEW f \in [1..n -> S]
    PROVE  IsList(f) /\ Len(f) = n /\ DOMAIN f = 1..n
<1>1. f \in Seq(S) /\ Len(f) = n /\ DOMAIN f = 1..n
  OBVIOUS
<1>2. \A i \in 1..n : f[i] \in Range(f)
  BY <1>1 DEF Range
<1> QED
  BY <1>1, <1>2 DEF IsList

\* What a list is made of.
LEMMA ListFacts ==
    ASSUME NEW s, IsList(s)
    PROVE  /\ Len(s) \in Nat /\ DOMAIN s = 1..Len(s) /\ s \in Seq(Range(s))
           /\ \A i \in DOMAIN s : s[i] \in Range(s)
           /\ \A x \in Range(s) : \E i \in DOMAIN s : s[i] = x
           /\ s # <<>> <=> Len(s) # 0
           /\ s # <<>> <=> Range(s) # {}
<1>1. Len(s) \in Nat /\ DOMAIN s = 1..Len(s) /\ s \in Seq(Range(s))
  BY DEF IsList
<1>2. \A i \in DOMAIN s : s[i] \in Range(s)
  BY DEF Range
<1>3. \A x \in Range(s) : \E i \in DOMAIN s : s[i] = x
  BY DEF Range
<1>4. s # <<>> <=> Len(s) # 0
  BY <1>1
<1>5. Len(s) # 0 <=> Range(s) # {}
  BY <1>1, <1>2, <1>3
<1> QED
  BY <1>1, <1>2, <1>3, <1>4, <1>5

\* The concatenation of a list of lists.
LEMMA FlattenLists ==
    ASSUME NEW seqs, IsList(seqs), \A i \in DOMAIN seqs : IsList(seqs[i])
    PROVE  /\ IsList(FlattenSeq(seqs))
           /\ Range(FlattenSeq(seqs)) = UNION {Range(seqs[i]) : i \in DOMAIN seqs}
<1> DEFINE S == UNION {Range(seqs[i]) : i \in DOMAIN seqs}
<1>1. \A i \in DOMAIN seqs : seqs[i] \in Seq(S)
  <2> TAKE i \in DOMAIN seqs
  <2>1. seqs[i] \in Seq(Range(seqs[i]))
    BY DEF IsList
  <2>2. Range(seqs[i]) \subseteq S
    OBVIOUS
  <2> QED
    BY <2>1, <2>2
<1>2. Len(seqs) \in Nat /\ DOMAIN seqs = 1..Len(seqs) /\ seqs \in Seq(Range(seqs))
  BY DEF IsList
<1> HIDE DEF S
<1>3. seqs \in Seq(Seq(S))
  BY <1>1, <1>2
<1>4. FlattenSeq(seqs) \in Seq(S) /\ Range(FlattenSeq(seqs)) = S
  BY <1>3, FlattenRange DEF S
<1> QED
  BY <1>4 DEF IsList, S

\* The concatenation of a list of lists and one more.
LEMMA FlattenLonger ==
    ASSUME NEW seqs, IsList(seqs), \A i \in DOMAIN seqs : IsList(seqs[i]),
           NEW s, IsList(s)
    PROVE  FlattenSeq(Append(seqs, s)) = FlattenSeq(seqs) \o s
<1> DEFINE S == (UNION {Range(seqs[i]) : i \in DOMAIN seqs}) \cup Range(s)
<1>1. \A i \in DOMAIN seqs : seqs[i] \in Seq(S)
  <2> TAKE i \in DOMAIN seqs
  <2>1. seqs[i] \in Seq(Range(seqs[i]))
    BY DEF IsList
  <2>2. Range(seqs[i]) \subseteq S
    OBVIOUS
  <2> QED
    BY <2>1, <2>2
<1>2. Len(seqs) \in Nat /\ DOMAIN seqs = 1..Len(seqs) /\ seqs \in Seq(Range(seqs))
  BY DEF IsList
<1>3. s \in Seq(S)
  <2>1. s \in Seq(Range(s))
    BY DEF IsList
  <2>2. Range(s) \subseteq S
    OBVIOUS
  <2> QED
    BY <2>1, <2>2
<1> HIDE DEF S
<1>4. seqs \in Seq(Seq(S))
  BY <1>1, <1>2
<1> QED
  BY <1>3, <1>4, FlattenAppend

-----------------------------------------------------------------------------
(* Offers.                                                                 *)

Offer(slice, device, allocated) ==
    [slice |-> slice, device |-> device,
     node |-> The(CompatibleNodes(slice, allocated))]

\* o offers a device of one of the slices.
IsOffer(o, slices, allocated) ==
    \E s \in Range(slices) : \E d \in Range(s.devices) :
        CompatibleNodes(s, allocated) # {} /\ o = Offer(s, d, allocated)

\* The offers of the slices, slice by slice.
OffersBySlice(seqs, slices, allocated) ==
    /\ IsList(seqs) /\ DOMAIN seqs = DOMAIN slices
    /\ \A i \in DOMAIN seqs : IsList(seqs[i])
    /\ \A i \in DOMAIN seqs : \A o : o \in Range(seqs[i]) <=>
            \E d \in Range(slices[i].devices) :
                CompatibleNodes(slices[i], allocated) # {} /\ o = Offer(slices[i], d, allocated)
    /\ Offers(slices, allocated) = FlattenSeq(seqs)

\* Offers is their concatenation.
LEMMA OffersAreBySlice ==
    ASSUME NEW slices, IsList(slices), \A s \in Range(slices) : IsList(s.devices),
           NEW allocated
    PROVE  \E seqs : OffersBySlice(seqs, slices, allocated)
<1> DEFINE Of(s) == IF CompatibleNodes(s, allocated) = {} THEN <<>>
                    ELSE [i \in DOMAIN s.devices |-> Offer(s, s.devices[i], allocated)]
           seqs == [i \in DOMAIN slices |-> Of(slices[i])]
<1>1. Offers(slices, allocated) = FlattenSeq(seqs)
  BY Zenon DEF Offers, Offer
<1>2. Len(slices) \in Nat /\ DOMAIN slices = 1..Len(slices)
  BY ListFacts
<1>3. \A s \in Range(slices) : IsList(Of(s))
  <2> TAKE s \in Range(slices)
  <2>1. CASE CompatibleNodes(s, allocated) = {}
    BY <2>1 DEF IsList
  <2>2. CASE CompatibleNodes(s, allocated) # {}
    <3> DEFINE f == [i \in DOMAIN s.devices |-> Offer(s, s.devices[i], allocated)]
               S == {Offer(s, d, allocated) : d \in Range(s.devices)}
    <3>1. Len(s.devices) \in Nat /\ DOMAIN s.devices = 1..Len(s.devices)
      BY ListFacts
    <3>2. f \in [1..Len(s.devices) -> S]
      BY <3>1, ListFacts
    <3> HIDE DEF f, S
    <3>3. IsList(f)
      BY <3>1, <3>2, IsListIf
    <3> QED
      BY <2>2, <3>3 DEF f
  <2> QED
    BY <2>1, <2>2
<1>4. \A s \in Range(slices) : \A o : o \in Range(Of(s)) <=>
        \E d \in Range(s.devices) :
            CompatibleNodes(s, allocated) # {} /\ o = Offer(s, d, allocated)
  <2> TAKE s \in Range(slices)
  <2> TAKE o
  <2>1. CASE CompatibleNodes(s, allocated) = {}
    BY <2>1 DEF Range
  <2>2. CASE CompatibleNodes(s, allocated) # {}
    <3>1. Of(s) = [i \in DOMAIN s.devices |-> Offer(s, s.devices[i], allocated)]
      BY <2>2
    <3> QED
      BY <2>2, <3>1 DEF Range
  <2> QED
    BY <2>1, <2>2
<1> HIDE DEF Of
<1>5. /\ IsList(seqs) /\ DOMAIN seqs = DOMAIN slices
      /\ \A i \in DOMAIN seqs : seqs[i] = Of(slices[i])
  <2>1. seqs \in [1..Len(slices) -> {Of(s) : s \in Range(slices)}]
    BY <1>2, ListFacts
  <2>2. IsList(seqs)
    <3> HIDE DEF seqs
    <3> QED
      BY <1>2, <2>1, IsListIf
  <2> QED
    BY <2>2
<1> HIDE DEF seqs
<1>6. \A i \in DOMAIN seqs : slices[i] \in Range(slices) /\ IsList(seqs[i])
  BY <1>3, <1>5, ListFacts
<1>7. OffersBySlice(seqs, slices, allocated)
  BY <1>1, <1>4, <1>5, <1>6 DEF OffersBySlice
<1> QED
  BY <1>7

\* Offers makes one offer of each device of each slice that can serve the node.
LEMMA OffersList ==
    ASSUME NEW slices, IsList(slices), \A s \in Range(slices) : IsList(s.devices),
           NEW allocated
    PROVE  /\ IsList(Offers(slices, allocated))
           /\ \A o : o \in Range(Offers(slices, allocated))
                        <=> IsOffer(o, slices, allocated)
<1>1. PICK seqs : OffersBySlice(seqs, slices, allocated)
  BY OffersAreBySlice
<1>2. /\ IsList(FlattenSeq(seqs))
      /\ Range(FlattenSeq(seqs)) = UNION {Range(seqs[i]) : i \in DOMAIN seqs}
  BY <1>1, FlattenLists DEF OffersBySlice
<1>3. ASSUME NEW o
      PROVE  o \in Range(FlattenSeq(seqs)) <=> IsOffer(o, slices, allocated)
  <2>1. o \in Range(FlattenSeq(seqs)) <=>
            \E i \in DOMAIN slices : \E d \in Range(slices[i].devices) :
                CompatibleNodes(slices[i], allocated) # {} /\ o = Offer(slices[i], d, allocated)
    BY <1>1, <1>2 DEF OffersBySlice
  <2> QED
    BY <2>1 DEF IsOffer, Range
<1> QED
  BY <1>1, <1>2, <1>3 DEF OffersBySlice

-----------------------------------------------------------------------------
(* Verdicts on offers.                                                     *)

\* The offers a planner is asked about: the device is what the API gives.
Decidable(alt, o) ==
    alt.class \in input.classes /\ IsDevice(o.device, input.classes)

\* Why an offer, and with it a request, fails.
Failures == {"SelectorError", "Unsupported"}

\* The verdicts on an offer.
LEMMA VerdictType ==
    ASSUME NEW alt, NEW o, Decidable(alt, o), NEW seen
    PROVE  Evaluate(alt, o, seen) \in {"accept", "skip"} \cup Failures
<1>1. o.device.verdict[alt.class] \in {"match", "other", "error"}
  BY DEF Decidable, IsDevice
<1>2. ExclusiveVerdict(alt, o.device) \in {"accept", "skip", "Unsupported"}
  BY DEF ExclusiveVerdict
<1>3. buildShareableCandidate(alt, o) \in {"accept", "skip", "Unsupported"}
  BY DEF buildShareableCandidate
<1>4. buildExclusiveCandidate(alt, o) \in {"accept", "skip", "Unsupported"}
  BY <1>2 DEF buildExclusiveCandidate
<1>5. evaluateConstrainedCandidate(alt, o, seen)
        \in {"accept", "skip", "Unsupported", "SelectorError"}
  BY <1>1, <1>3, <1>4 DEF evaluateConstrainedCandidate
<1>6. evaluateCandidate(alt, o, seen)
        \in {"accept", "skip", "Unsupported", "SelectorError"}
  BY <1>1, <1>2 DEF evaluateCandidate
<1> QED
  BY <1>5, <1>6 DEF Evaluate, Failures

\* An identity that was seen is not accepted again, whatever it is.
LEMMA AcceptedAlone ==
    ASSUME NEW alt, NEW o, Decidable(alt, o), NEW seen
    PROVE  Evaluate(alt, o, seen) = "accept"
                <=> Evaluate(alt, o, {}) = "accept" /\ Identity(o) \notin seen
<1>1. o.device.verdict[alt.class] \in {"match", "other", "error"}
  BY DEF Decidable, IsDevice
<1>2. evaluateConstrainedCandidate(alt, o, seen) = "accept"
        <=> /\ evaluateConstrainedCandidate(alt, o, {}) = "accept"
            /\ Identity(o) \notin seen
  BY <1>1 DEF evaluateConstrainedCandidate
<1>3. evaluateCandidate(alt, o, seen) = "accept"
        <=> evaluateCandidate(alt, o, {}) = "accept" /\ Identity(o) \notin seen
  BY <1>1 DEF evaluateCandidate
<1> QED
  BY <1>2, <1>3 DEF Evaluate

\* The plan so far, as the planner keeps it and as a sequence of sets.
Linked ==
    \A id :
        /\ ConsumedSoFar(id) \in Nat
        /\ HeldAmount(id, ChosenSets) = ConsumedSoFar(id)
        /\ (\A held \in HeldBefore(id, ChosenSets) : IsShare(held))
                <=> ~ExclusiveIn(id, input.committed) /\ ~ExclusiveIn(id, Taken)
        /\ HeldBefore(id, ChosenSets) = {}
                <=> UsesOf(id, input.committed \o Taken) = {}

\* The amount asked of a capacity.
LEMMA RequestedAmount ==
    ASSUME NEW alt, IsAlternative(alt), ~alt.extras, NEW c
    PROVE  /\ IsQuantity(Requested(alt, c)) /\ Requested(alt, c) \subseteq Nat
           /\ \A demand \in alt.demand :
                demand.name = c.name => Requested(alt, c) = {demand.amount}
  BY DEF IsAlternative, IsQuantity, Optional, Requested

\* What it means for the planner's verdict to be right.
IsRight(verdict, alt, o) ==
    LET taken == AsTaken(alt, o.slice, o.device)
        fits == Fits(alt, o.device, taken, ChosenSets)
    IN  /\ verdict = "accept" =>
            fits /\ taken.amount \in Nat /\ taken.amount = Take(alt, o).amount
        /\ verdict = "skip" => ~fits

\* buildShareableCandidate accepts a share exactly when it fits.
LEMMA ShareVerdictIsRight ==
    ASSUME Linked, NEW alt, IsAlternative(alt), ~alt.extras,
           NEW o, Decidable(alt, o), o.device.shareable,
           \A c \in o.device.capacity : HasWholeSteps(c)
    PROVE  IsRight(buildShareableCandidate(alt, o), alt, o)
<1> DEFINE id == Identity(o)
           c == The(o.device.capacity)
           taken == AsTaken(alt, o.slice, o.device)
           verdict == buildShareableCandidate(alt, o)
           requested == Requested(alt, c)
           charge == Charge(c, requested)
           used == ConsumedSoFar(id)
<1>1. SUFFICES ASSUME verdict \in {"accept", "skip"}
               PROVE  IsRight(verdict, alt, o)
  BY DEF IsRight
<1>2. /\ o.device.capacity # {}
      /\ ~ExclusiveIn(id, input.committed) /\ ~ExclusiveIn(id, Taken)
      /\ CapacityExists(alt, o.device) => PolicyIsValid(c)
      /\ verdict = "skip" <=> \/ ~CapacityExists(alt, o.device)
                              \/ ShareAmounts(alt, c, used) = {}
  BY <1>1 DEF buildShareableCandidate
<1>3. o.device.capacity = {c} /\ IsCapacity(c) /\ HasWholeSteps(c)
  <2>1. PICK d \in o.device.capacity : TRUE
    BY <1>2
  <2>2. o.device.capacity = {d} /\ c = d
    BY TheOne DEF Decidable, IsDevice
  <2> QED
    BY <2>2 DEF Decidable, IsDevice
<1>4. /\ taken.id = id /\ taken.amount = charge
      /\ Take(alt, o).amount = The(ShareAmounts(alt, c, used))
  BY DEF AsTaken, Take, Identity
<1>5. /\ used \in Nat
      /\ HeldAmount(id, ChosenSets) = used
      /\ \A held \in HeldBefore(id, ChosenSets) : IsShare(held)
  BY <1>2 DEF Linked
<1>6. Fits(alt, o.device, taken, ChosenSets) <=>
        /\ \A demand \in alt.demand :
                demand.name = c.name /\ demand.amount <= c.value
        /\ used + charge <= c.value
  BY <1>3, <1>4, <1>5 DEF Fits
<1>7. CapacityExists(alt, o.device)
            <=> \A demand \in alt.demand : c.name = demand.name
  BY <1>3 DEF CapacityExists
<1>8. CASE ~CapacityExists(alt, o.device)
  BY <1>2, <1>6, <1>7, <1>8 DEF IsRight
<1>9. CASE CapacityExists(alt, o.device)
  <2>1. /\ IsQuantity(requested) /\ requested \subseteq Nat
        /\ \A demand \in alt.demand :
            demand.name = c.name => requested = {demand.amount}
    <3> HIDE DEF c
    <3> QED
      BY RequestedAmount
  <2>2. PolicyIsValid(c)
    BY <1>2, <1>9
  <2> DEFINE consumed == consumedCapacityForRequest(c, requested)
  <2>3. Agrees(c, requested)
    <3> HIDE DEF c, requested
    <3> QED
      BY <1>3, <2>1, <2>2, ConsumedIsCharge
  <2>4. /\ charge \in Nat /\ consumed \subseteq Int
        /\ \A q \in Int : q <= c.value => (q \in consumed <=> q = charge)
        /\ requested # {} /\ charge <= c.value => The(requested) <= charge
    BY <2>3 DEF Agrees
  <2>5. ShareAmounts(alt, c, used) = {q \in consumed : used + q <= c.value}
    BY DEF ShareAmounts
  <2>6. c.value \in Int
    BY <1>3 DEF IsCapacity
  <2> DEFINE amounts == ShareAmounts(alt, c, used)
  <2> HIDE DEF c, requested, charge, used, consumed, amounts
  <2>7. amounts = {q \in consumed : used + q <= c.value}
    BY <2>5 DEF amounts, used
  <2>8. CASE used + charge <= c.value
    <3>1. amounts = {charge}
      <4>1. \A q \in consumed : used + q <= c.value => q = charge
        BY <1>5, <2>4, <2>6
      <4>2. charge \in consumed
        BY <1>5, <2>4, <2>6, <2>8
      <4> QED
        BY <2>7, <2>8, <4>1, <4>2
    <3>2. The(amounts) = charge
      BY <3>1 DEF The
    <3>3. \A demand \in alt.demand :
            demand.name = c.name /\ demand.amount <= c.value
      <4> TAKE demand \in alt.demand
      <4>1. demand.name = c.name /\ requested = {demand.amount}
        BY <1>7, <1>9, <2>1
      <4>2. The(requested) = demand.amount /\ demand.amount \in Nat
        BY <2>1, <4>1 DEF The
      <4>3. charge <= c.value
        BY <1>5, <2>4, <2>6, <2>8
      <4> QED
        BY <2>4, <2>6, <4>1, <4>2, <4>3
    <3>4. verdict # "skip" /\ verdict = "accept"
      BY <1>1, <1>2, <1>9, <3>1 DEF amounts
    <3>5. Fits(alt, o.device, taken, ChosenSets)
      BY <1>6, <2>8, <3>3
    <3>6. taken.amount \in Nat /\ taken.amount = Take(alt, o).amount
      BY <1>4, <2>4, <3>2 DEF amounts
    <3> QED
      BY <3>4, <3>5, <3>6 DEF IsRight
  <2>9. CASE ~(used + charge <= c.value)
    <3>1. amounts = {}
      <4>1. \A q \in consumed : ~(used + q <= c.value)
        BY <1>5, <2>4, <2>6, <2>9
      <4> QED
        BY <2>7, <4>1
    <3>2. verdict = "skip" /\ ~Fits(alt, o.device, taken, ChosenSets)
      BY <1>2, <1>6, <2>9, <3>1 DEF amounts
    <3> QED
      BY <3>2 DEF IsRight
  <2> QED
    BY <2>8, <2>9
<1> QED
  BY <1>8, <1>9

\* A device that is not shared.
LEMMA ExclusiveVerdictIsRight ==
    ASSUME Linked, NEW alt, IsAlternative(alt), ~alt.extras,
           NEW o, Decidable(alt, o), ~o.device.shareable
    PROVE  /\ UsesOf(Identity(o), input.committed \o Taken) = {} =>
                IsRight(ExclusiveVerdict(alt, o.device), alt, o)
           /\ UsesOf(Identity(o), input.committed \o Taken) # {} =>
                IsRight("skip", alt, o)
<1> DEFINE id == Identity(o)
           taken == AsTaken(alt, o.slice, o.device)
           verdict == ExclusiveVerdict(alt, o.device)
           free == UsesOf(id, input.committed \o Taken) = {}
<1>1. taken.id = id /\ taken.amount = 0 /\ Take(alt, o).amount = 0
  BY DEF AsTaken, Take, Identity
<1>2. Fits(alt, o.device, taken, ChosenSets) <=>
        /\ \A demand \in alt.demand : \E c \in o.device.capacity :
                c.name = demand.name /\ demand.amount <= c.value
        /\ free
  <2>1. HeldBefore(id, ChosenSets) = {} <=> free
    BY DEF Linked
  <2> HIDE DEF free
  <2> QED
    BY <1>1, <2>1 DEF Fits
<1>3. CASE ~free
  BY <1>2, <1>3 DEF IsRight
<1>4. CASE free
  <2>1. SUFFICES ASSUME verdict \in {"accept", "skip"}
                 PROVE  IsRight(verdict, alt, o)
    BY <1>4 DEF IsRight
  <2>2. \A c, d \in o.device.capacity : c = d
    BY DEF Decidable, IsDevice, Optional
  <2>3. verdict = "accept" <=>
            /\ CapacityExists(alt, o.device)
            /\ \A c \in o.device.capacity :
                \A amount \in Requested(alt, c) : amount <= c.value
    BY <2>1 DEF ExclusiveVerdict
  <2>4. verdict = "accept" <=>
            \A demand \in alt.demand : \E c \in o.device.capacity :
                c.name = demand.name /\ demand.amount <= c.value
    <3>1. \A c : \A demand \in alt.demand :
            demand.name = c.name => Requested(alt, c) = {demand.amount}
      BY RequestedAmount
    <3>2. \A c : \A amount \in Requested(alt, c) :
            \E demand \in alt.demand : demand.name = c.name /\ demand.amount = amount
      BY DEF Requested
    <3> QED
      BY <2>2, <2>3, <3>1, <3>2 DEF CapacityExists
  <2> HIDE DEF free
  <2> QED
    BY <1>1, <1>2, <1>4, <2>1, <2>4 DEF IsRight
<1> QED
  BY <1>3, <1>4

\* What the planners make of an offer is right: they accept only what fits, and
\* skip nothing that fits and was not seen.
LEMMA EvaluateIsRight ==
    ASSUME Linked, NEW alt, IsAlternative(alt), ~alt.extras,
           NEW o, Decidable(alt, o),
           \A c \in o.device.capacity : HasWholeSteps(c),
           pc = "greedy" => ~o.device.shareable,
           NEW seen
    PROVE  /\ Evaluate(alt, o, seen) = "accept" =>
                /\ o.device.verdict[alt.class] = "match"
                /\ o.slice.supported /\ IsRight("accept", alt, o)
           /\ /\ Evaluate(alt, o, seen) = "skip"
              /\ o.device.verdict[alt.class] = "match" /\ Identity(o) \notin seen
              => IsRight("skip", alt, o)
<1> DEFINE uses == UsesOf(Identity(o), input.committed \o Taken)
           verdict == Evaluate(alt, o, seen)
<1>1. o.device.verdict[alt.class] \in {"match", "other", "error"}
      /\ o.device.shareable \in BOOLEAN
  BY DEF Decidable, IsDevice
<1>2. ~o.device.shareable =>
        /\ uses = {} => IsRight(ExclusiveVerdict(alt, o.device), alt, o)
        /\ uses # {} => IsRight("skip", alt, o)
  BY ExclusiveVerdictIsRight
<1>3. o.device.shareable => IsRight(buildShareableCandidate(alt, o), alt, o)
  BY ShareVerdictIsRight
<1>4. CASE pc = "greedy"
  <2>1. verdict = evaluateCandidate(alt, o, seen)
    BY <1>4 DEF Evaluate
  <2>2. verdict = "accept" =>
            /\ o.device.verdict[alt.class] = "match" /\ o.slice.supported
            /\ uses = {} /\ ExclusiveVerdict(alt, o.device) = "accept"
    BY <1>1, <2>1 DEF evaluateCandidate
  <2>3. verdict = "skip" /\ o.device.verdict[alt.class] = "match"
            /\ Identity(o) \notin seen
            => uses # {} \/ ExclusiveVerdict(alt, o.device) = "skip"
    <3> SUFFICES ASSUME verdict = "skip", o.device.verdict[alt.class] = "match",
                        Identity(o) \notin seen, uses = {}
                 PROVE  ExclusiveVerdict(alt, o.device) = "skip"
      OBVIOUS
    <3>1. verdict = ExclusiveVerdict(alt, o.device) \/ verdict = "Unsupported"
      BY <2>1 DEF evaluateCandidate
    <3> QED
      BY <3>1
  <2> HIDE DEF uses, verdict
  <2> QED
    BY <1>2, <1>4, <2>2, <2>3 DEF verdict
<1>5. CASE pc # "greedy"
  <2>1. verdict = evaluateConstrainedCandidate(alt, o, seen)
    BY <1>5 DEF Evaluate
  <2>2. verdict = "accept" =>
            /\ o.device.verdict[alt.class] = "match" /\ o.slice.supported
            /\ \/ o.device.shareable /\ buildShareableCandidate(alt, o) = "accept"
               \/ /\ ~o.device.shareable
                  /\ buildExclusiveCandidate(alt, o) = "accept"
    BY <1>1, <2>1 DEF evaluateConstrainedCandidate
  <2>3. verdict = "skip" /\ o.device.verdict[alt.class] = "match"
            /\ Identity(o) \notin seen
            => \/ o.device.shareable /\ buildShareableCandidate(alt, o) = "skip"
               \/ /\ ~o.device.shareable
                  /\ buildExclusiveCandidate(alt, o) = "skip"
    BY <1>1, <2>1 DEF evaluateConstrainedCandidate
  <2>4. /\ buildExclusiveCandidate(alt, o) = "accept" =>
                uses = {} /\ ExclusiveVerdict(alt, o.device) = "accept"
        /\ buildExclusiveCandidate(alt, o) = "skip" =>
                uses # {} \/ ExclusiveVerdict(alt, o.device) = "skip"
    <3>1. buildExclusiveCandidate(alt, o) \in {"accept", "skip"} =>
            buildExclusiveCandidate(alt, o)
                = IF uses # {} THEN "skip" ELSE ExclusiveVerdict(alt, o.device)
      BY DEF buildExclusiveCandidate
    <3> HIDE DEF uses
    <3>2. CASE uses = {}
      BY <3>1, <3>2
    <3>3. CASE uses # {}
      BY <3>1, <3>3
    <3> QED
      BY <3>2, <3>3
  <2> HIDE DEF uses, verdict
  <2> QED
    BY <1>2, <1>3, <1>5, <2>2, <2>3, <2>4 DEF verdict
<1> QED
  BY <1>4, <1>5

\* An offer of a slice with a node of its own is for that node.
LEMMA OfferNode ==
    ASSUME NEW s, NEW d, NEW allocated, CompatibleNodes(s, allocated) # {},
           s.node # NoNode
    PROVE  /\ Offer(s, d, allocated).node = s.node
           /\ CompatibleNodes(s, allocated) = {s.node}
           /\ allocated \in {NoNode, s.node}
<1>1. /\ CompatibleNodes(s, allocated) = {s.node}
      /\ allocated \in {NoNode, s.node}
  BY DEF CompatibleNodes
<1> QED
  BY <1>1 DEF Offer, The

\* An accepted offer enters the plan as the device it is.
LEMMA TakeIsAsTaken ==
    ASSUME NEW s, NEW d, NEW allocated, NEW alt,
           CompatibleNodes(s, allocated) # {}, s.node # NoNode,
           IsRight("accept", alt, Offer(s, d, allocated))
    PROVE  Take(alt, Offer(s, d, allocated)) = AsTaken(alt, s, d)
<1> DEFINE o == Offer(s, d, allocated)
<1>1. o.slice = s /\ o.device = d /\ o.node = s.node
  BY OfferNode DEF Offer
<1> HIDE DEF o
<1>2. AsTaken(alt, s, d).amount = Take(alt, o).amount
  BY <1>1 DEF IsRight, o
<1>3. Take(alt, o) = [request |-> alt.name, id |-> Identity(o), node |-> o.node,
                      shared |-> o.device.shareable, amount |-> Take(alt, o).amount,
                      attributes |-> o.device.attributes]
  BY DEF Take
<1>4. AsTaken(alt, s, d) =
        [request |-> alt.name, id |-> <<s.driver, s.pool, d.name>>, node |-> s.node,
         shared |-> d.shareable, amount |-> AsTaken(alt, s, d).amount,
         attributes |-> d.attributes]
  BY DEF AsTaken
<1>5. Identity(o) = <<s.driver, s.pool, d.name>>
  BY <1>1 DEF Identity
<1>6. Take(alt, o) = AsTaken(alt, s, d)
  BY <1>1, <1>2, <1>3, <1>4, <1>5, Zenon
<1> QED
  BY <1>6 DEF o

-----------------------------------------------------------------------------
(* Collecting.                                                             *)

\* As many places as elements at them.
LEMMA NthCount ==
    ASSUME NEW J \in SUBSET Int, IsFiniteSet(J), NEW K \in SUBSET J
    PROVE  Cardinality({k \in 1..Cardinality(J) : Nth(J, k) \in K}) = Cardinality(K)
<1> DEFINE P == {k \in 1..Cardinality(J) : Nth(J, k) \in K}
           f == [k \in P |-> Nth(J, k)]
<1>1. /\ \A k, m \in 1..Cardinality(J) : Nth(J, k) = Nth(J, m) => k = m
      /\ \A i \in J : \E k \in 1..Cardinality(J) : Nth(J, k) = i
  BY NthEnumerates
<1>2. f \in [P -> K] /\ \A k \in P : f[k] = Nth(J, k)
  OBVIOUS
<1>3. \A k, m \in P : f[k] = f[m] => k = m
  BY <1>1
<1>4. \A i \in K : \E k \in P : f[k] = i
  BY <1>1
<1> HIDE DEF f
<1>5. f \in Bijection(P, K)
  <2> HIDE DEF P
  <2> QED
    BY <1>2, <1>3, <1>4 DEF Bijection, Injection, Surjection, IsInjective
<1>6. IsFiniteSet(K)
  BY FS_Subset
<1>7. IsFiniteSet(P)
  <2>1. Cardinality(J) \in Nat
    BY FS_CardinalityType
  <2>2. IsFiniteSet(1..Cardinality(J))
    BY <2>1, FS_Interval
  <2> QED
    BY <2>2, FS_Subset
<1> HIDE DEF P
<1>8. Cardinality(P) = Cardinality(K)
  BY <1>5, <1>7, FS_Bijection DEF ExistsBijection
<1> QED
  BY <1>8 DEF P

\* What is collected.
CollectIs(alt, offers, count, out) ==
    /\ out.failure \in {"none"} \cup Failures
    /\ out.failure # "none" => \E o \in Range(offers) : \E seen :
            Evaluate(alt, o, seen) = out.failure
    /\ IsList(out.devices)
    /\ \A d \in Range(out.devices) : \E o \in Range(offers) :
            Evaluate(alt, o, {}) = "accept" /\ d = Take(alt, o)
    /\ \A i, j \in DOMAIN out.devices :
            out.devices[i].id = out.devices[j].id => i = j
    /\ out.failure = "none" /\ (count = 0 \/ out.full = {}) =>
        /\ \A o \in Range(offers) :
                \/ \E d \in Range(out.devices) : d.id = Identity(o)
                \/ \E seen : Identity(o) \notin seen /\ Evaluate(alt, o, seen) = "skip"
        /\ \A n : count # 0 =>
                Cardinality({i \in DOMAIN out.devices : out.devices[i].node = n}) < count
    /\ Optional(out.full)
    /\ \A n \in out.full :
            Cardinality({i \in DOMAIN out.devices : out.devices[i].node = n}) = count

\* Collect takes offers that are accepted alone, one of each identity, in order.
LEMMA CollectFacts ==
    ASSUME NEW alt, NEW offers, IsList(offers),
           \A o \in Range(offers) : Decidable(alt, o), NEW count \in Nat
    PROVE  CollectIs(alt, offers, count, Collect(alt, offers, count))
<1> DEFINE D == DOMAIN offers
           alone == {j \in D : Evaluate(alt, offers[j], {}) = "accept"}
           Seen(j) == {Identity(offers[i]) : i \in {k \in alone : k < j}}
           verdicts == [j \in D |-> Evaluate(alt, offers[j], Seen(j))]
           accepted == {j \in D : verdicts[j] = "accept"}
           failing == {j \in D : verdicts[j] \notin {"accept", "skip"}}
           On(j) == {i \in accepted : i <= j /\ offers[i].node = offers[j].node}
           filling == {j \in accepted : count = Cardinality(On(j))}
           ends == failing \cup filling
           last == IF ends = {} THEN Len(offers) ELSE Min(ends)
           J == {j \in accepted : j <= last}
           taken == AtIndexes(offers, J)
           devices == [k \in DOMAIN taken |-> Take(alt, taken[k])]
           out == Collect(alt, offers, count)
<1>1. out = [devices |-> devices,
             failure |-> IF last \in failing THEN verdicts[last] ELSE "none",
             full |-> {offers[j].node : j \in filling \cap {last}}]
  BY Zenon DEF Collect
<1>2. /\ Len(offers) \in Nat /\ D = 1..Len(offers)
      /\ \A j \in D : offers[j] \in Range(offers)
      /\ \A o \in Range(offers) : \E j \in D : offers[j] = o
  BY ListFacts
<1>3. \A j \in D : verdicts[j] = Evaluate(alt, offers[j], Seen(j))
  OBVIOUS
<1>4. \A j \in D : verdicts[j] \in {"accept", "skip"} \cup Failures
  <2> TAKE j \in D
  <2>1. Decidable(alt, offers[j])
    BY <1>2
  <2> HIDE DEF Seen
  <2>2. \A seen : Evaluate(alt, offers[j], seen) \in {"accept", "skip"} \cup Failures
    BY <2>1, VerdictType
  <2> QED
    BY <1>3, <2>2
<1>5. \A j \in D : j \in accepted
            <=> j \in alone /\ \A i \in alone : i < j => Identity(offers[i]) # Identity(offers[j])
  <2> TAKE j \in D
  <2>1. Decidable(alt, offers[j])
    BY <1>2
  <2>2. \A seen : Evaluate(alt, offers[j], seen) = "accept"
            <=> Evaluate(alt, offers[j], {}) = "accept" /\ Identity(offers[j]) \notin seen
    BY <2>1, AcceptedAlone
  <2>3. Identity(offers[j]) \in Seen(j)
            <=> \E i \in alone : i < j /\ Identity(offers[i]) = Identity(offers[j])
    OBVIOUS
  <2>4. j \in accepted <=> Evaluate(alt, offers[j], Seen(j)) = "accept"
    OBVIOUS
  <2>5. j \in alone <=> Evaluate(alt, offers[j], {}) = "accept"
    OBVIOUS
  <2> HIDE DEF Seen, accepted, alone
  <2> QED
    BY <2>2, <2>3, <2>4, <2>5
<1>6. \A i, j \in accepted : Identity(offers[i]) = Identity(offers[j]) => i = j
  <2>1. \A i, j \in accepted : i < j => Identity(offers[i]) # Identity(offers[j])
    BY <1>5
  <2> QED
    BY <1>2, <2>1
<1>7. ends \in SUBSET D /\ accepted \in SUBSET D /\ failing \in SUBSET D
      /\ filling \in SUBSET accepted /\ alone \in SUBSET D
      /\ accepted \cap failing = {}
  OBVIOUS
<1>8. J \in SUBSET D /\ J \in SUBSET accepted
  OBVIOUS
<1>9. ends # {} => last \in ends /\ \A j \in ends : last <= j
  <2> SUFFICES ASSUME ends # {} PROVE last \in ends /\ \A j \in ends : last <= j
    OBVIOUS
  <2>1. ends \in SUBSET Nat
    BY <1>2, <1>7
  <2>2. last = Min(ends)
    OBVIOUS
  <2> HIDE DEF ends, last
  <2> QED
    BY <2>1, <2>2, MinExists
<1>10. /\ IsList(taken) /\ DOMAIN taken = 1..Cardinality(J) /\ Cardinality(J) \in Nat
       /\ IsFiniteSet(J) /\ J \in SUBSET Int
       /\ \A k \in DOMAIN taken : Nth(J, k) \in J /\ taken[k] = offers[Nth(J, k)]
       /\ Range(taken) = {offers[j] : j \in J}
  <2> HIDE DEF J
  <2>1. /\ IsFiniteSet(J) /\ J \in SUBSET Int
        /\ Cardinality(J) \in 0..Len(offers)
    BY <1>8, IndexesFinite
  <2>2. /\ IsList(taken) /\ DOMAIN taken = 1..Cardinality(J)
        /\ \A k \in DOMAIN taken : Nth(J, k) \in J /\ taken[k] = offers[Nth(J, k)]
        /\ Range(taken) = {offers[j] : j \in J}
    BY <1>8, AtIndexesList
  <2> QED
    BY <1>2, <2>1, <2>2
<1>11. /\ IsList(devices) /\ DOMAIN devices = 1..Cardinality(J)
       /\ \A k \in DOMAIN devices : devices[k] = Take(alt, offers[Nth(J, k)])
  <2> HIDE DEF taken
  <2>1. devices \in [1..Cardinality(J) -> {Take(alt, o) : o \in Range(taken)}]
    BY <1>10, ListFacts
  <2>2. IsList(devices)
    <3> HIDE DEF devices, J
    <3> QED
      BY <1>10, <2>1, IsListIf
  <2> QED
    BY <1>10, <2>2
<1>12. \A o : Take(alt, o).id = Identity(o) /\ Take(alt, o).node = o.node
  BY DEF Take
<1> HIDE DEF verdicts, accepted, failing, filling, last, J, devices, taken, Seen, alone
<1>13. /\ out.devices = devices
       /\ out.failure = IF last \in failing THEN verdicts[last] ELSE "none"
       /\ out.full = {offers[j].node : j \in filling \cap {last}}
  BY <1>1
<1> HIDE DEF out, ends
<1>14. out.failure \in {"none"} \cup Failures
  BY <1>4, <1>7, <1>13 DEF failing
<1>d. out.failure # "none" => \E o \in Range(offers) : \E seen :
            Evaluate(alt, o, seen) = out.failure
  <2> SUFFICES ASSUME out.failure # "none"
               PROVE  \E o \in Range(offers) : \E seen :
                        Evaluate(alt, o, seen) = out.failure
    OBVIOUS
  <2>1. last \in failing /\ out.failure = verdicts[last]
    BY <1>13
  <2>2. last \in D /\ offers[last] \in Range(offers)
    BY <1>2, <1>7, <2>1
  <2>3. Evaluate(alt, offers[last], Seen(last)) = out.failure
    BY <1>3, <2>1, <2>2
  <2> QED
    BY <2>2, <2>3
<1>15. ASSUME NEW d \in Range(devices)
       PROVE  \E o \in Range(offers) :
                Evaluate(alt, o, {}) = "accept" /\ d = Take(alt, o)
  <2>1. PICK k \in DOMAIN devices : d = devices[k]
    BY DEF Range
  <2>2. Nth(J, k) \in accepted
    BY <1>8, <1>10, <1>11
  <2>3. Nth(J, k) \in alone
    BY <1>5, <1>7, <2>2
  <2>4. Evaluate(alt, offers[Nth(J, k)], {}) = "accept"
    BY <2>3 DEF alone
  <2> QED
    BY <1>2, <1>7, <1>11, <2>1, <2>2, <2>4
<1>16. ASSUME NEW k \in DOMAIN devices, NEW m \in DOMAIN devices,
              devices[k].id = devices[m].id
       PROVE  k = m
  <2>1. Nth(J, k) \in accepted /\ Nth(J, m) \in accepted
    BY <1>8, <1>10, <1>11
  <2>2. Identity(offers[Nth(J, k)]) = Identity(offers[Nth(J, m)])
    BY <1>11, <1>12, <1>16
  <2>3. Nth(J, k) = Nth(J, m)
    BY <1>6, <2>1, <2>2
  <2> QED
    BY <1>10, <1>11, <2>3, NthEnumerates
<1>17. ASSUME out.failure = "none", count = 0 \/ out.full = {}
       PROVE  filling = {} /\ failing = {} /\ J = accepted
  <2>1. last \notin failing
    <3> SUFFICES ASSUME last \in failing PROVE FALSE
      OBVIOUS
    <3>1. verdicts[last] \in Failures
      BY <1>4, <1>7 DEF failing
    <3>2. out.failure \in Failures
      BY <1>13, <3>1
    <3> QED
      BY <1>17, <3>2 DEF Failures
  <2>2. filling = {}
    <3>1. CASE count = 0
      <4> SUFFICES ASSUME NEW j \in filling PROVE FALSE
        OBVIOUS
      <4>1. j \in accepted /\ Cardinality(On(j)) = 0
        BY <3>1 DEF filling
      <4>2. accepted \in SUBSET Nat
        BY <1>2, <1>7
      <4>3. j \in On(j)
        BY <4>1, <4>2
      <4>4. IsFiniteSet(accepted)
        BY <1>7, IndexesFinite
      <4>5. IsFiniteSet(On(j))
        BY <4>4, FS_Subset
      <4> HIDE DEF On
      <4> QED
        BY <4>1, <4>3, <4>5, FS_EmptySet
    <3>2. CASE out.full = {}
      <4>1. last \notin filling
        BY <1>13, <3>2
      <4>2. ends = {}
        BY <1>9, <2>1, <4>1 DEF ends
      <4> QED
        BY <4>2 DEF ends
    <3> QED
      BY <1>17, <3>1, <3>2
  <2>3. failing = {}
    BY <1>9, <2>1, <2>2 DEF ends
  <2>4. J = accepted
    <3>1. last = Len(offers)
      BY <2>2, <2>3 DEF last, ends
    <3> QED
      BY <1>2, <1>7, <3>1 DEF J
  <2> QED
    BY <2>2, <2>3, <2>4
<1>a. ASSUME out.failure = "none", count = 0 \/ out.full = {}, NEW o \in Range(offers)
       PROVE  \/ \E d \in Range(devices) : d.id = Identity(o)
              \/ \E seen : Identity(o) \notin seen /\ Evaluate(alt, o, seen) = "skip"
  <2>2. failing = {} /\ J = accepted
    BY <1>17, <1>a
  <2>4. \A j \in accepted : \E d \in Range(devices) : d.id = Identity(offers[j])
    <3> TAKE j \in accepted
    <3>1. PICK k \in 1..Cardinality(J) : Nth(J, k) = j
      BY <1>10, <2>2, NthEnumerates
    <3>2. k \in DOMAIN devices /\ devices[k].id = Identity(offers[j])
      BY <1>11, <1>12, <3>1
    <3> QED
      BY <3>2 DEF Range
  <2>5. PICK j \in D : offers[j] = o
    BY <1>2
  <2>6. CASE j \in accepted
    BY <2>4, <2>5, <2>6
  <2>7. CASE j \notin accepted /\ Identity(o) \notin Seen(j)
    <3>1. verdicts[j] = "skip"
      BY <2>2, <2>7 DEF accepted, failing
    <3>2. Evaluate(alt, o, Seen(j)) = "skip"
      BY <1>3, <2>5, <3>1
    <3> QED
      BY <2>7, <3>2
  <2>8. CASE Identity(o) \in Seen(j)
    <3> DEFINE same == {i \in alone : Identity(offers[i]) = Identity(o)}
    <3>1. same # {} /\ same \in SUBSET Nat
      BY <1>2, <1>7, <2>8 DEF Seen
    <3>2. Min(same) \in same /\ \A i \in same : Min(same) <= i
      <4> HIDE DEF same
      <4> QED
        BY <3>1, MinExists
    <3>3. PICK m \in same : \A i \in same : m <= i
      BY <3>2
    <3>4. \A i \in alone : i < m => Identity(offers[i]) # Identity(offers[m])
      BY <3>1, <3>3
    <3>5. m \in accepted
      BY <1>5, <1>7, <3>4
    <3> QED
      BY <2>4, <3>5
  <2> QED
    BY <2>6, <2>7, <2>8
<1>b. ASSUME out.failure = "none", count # 0, out.full = {}, NEW n
       PROVE  Cardinality({i \in DOMAIN devices : devices[i].node = n}) < count
  <2> DEFINE K == {j \in J : offers[j].node = n}
             P == {k \in 1..Cardinality(J) : Nth(J, k) \in K}
             Q == {i \in DOMAIN devices : devices[i].node = n}
  <2>1. filling = {} /\ J = accepted
    BY <1>17, <1>b
  <2>2. K \in SUBSET J /\ K \in SUBSET Int /\ IsFiniteSet(K) /\ Cardinality(K) \in Nat
    <3>1. K \in SUBSET J
      OBVIOUS
    <3>2. IsFiniteSet(K)
      BY <1>10, <3>1, FS_Subset
    <3> QED
      BY <1>10, <3>1, <3>2, FS_CardinalityType
  <2>3. Cardinality(P) = Cardinality(K)
    <3> HIDE DEF K
    <3> QED
      BY <1>10, <2>2, NthCount
  <2>4. P = Q
    <3>1. \A k \in DOMAIN devices : devices[k].node = offers[Nth(J, k)].node
      BY <1>11, <1>12
    <3>2. \A k \in DOMAIN devices : Nth(J, k) \in J
      BY <1>10, <1>11
    <3>3. \A k \in DOMAIN devices : Nth(J, k) \in K <=> devices[k].node = n
      BY <3>1, <3>2
    <3>4. DOMAIN devices = 1..Cardinality(J)
      BY <1>11
    <3> HIDE DEF K
    <3> QED
      BY <3>3, <3>4, Zenon
  <2>5. Cardinality(K) < count
    <3> SUFFICES ASSUME count <= Cardinality(K) PROVE FALSE
      BY <2>2
    <3>1. count \in 1..Cardinality(K)
      BY <1>b, <2>2
    <3> DEFINE j == Nth(K, count)
    <3>2. j \in K /\ Cardinality({i \in K : i <= j}) = count
      <4> HIDE DEF K
      <4> QED
        BY <2>2, <3>1, NthEnumerates
    <3> HIDE DEF j
    <3>3. j \in accepted /\ offers[j].node = n
      BY <2>1, <3>2
    <3>4. On(j) = {i \in K : i <= j}
      BY <2>1, <3>3
    <3>5. j \in filling
      BY <3>2, <3>3, <3>4 DEF filling
    <3> QED
      BY <2>1, <3>5
  <2> QED
    BY <2>3, <2>4, <2>5
<1>18. Optional(out.full)
  BY <1>13 DEF Optional
<1>19. ASSUME NEW n \in out.full
       PROVE  Cardinality({i \in DOMAIN devices : devices[i].node = n}) = count
  <2>1. last \in filling /\ n = offers[last].node
    BY <1>13
  <2> DEFINE K == On(last)
             P == {k \in 1..Cardinality(J) : Nth(J, k) \in K}
             Q == {i \in DOMAIN devices : devices[i].node = n}
  <2>2. Cardinality(K) = count
    BY <2>1 DEF filling
  <2>3. \A j \in J : j \in K <=> offers[j].node = n
    BY <2>1 DEF J
  <2>4. K \in SUBSET J
    BY DEF J
  <2> HIDE DEF On, K
  <2>5. Cardinality(P) = Cardinality(K)
    BY <1>10, <2>4, NthCount
  <2>6. P = Q
    <3>1. \A k \in DOMAIN devices : devices[k].node = offers[Nth(J, k)].node
      BY <1>11, <1>12
    <3>2. \A k \in DOMAIN devices : Nth(J, k) \in J
      BY <1>10, <1>11
    <3>3. \A k \in DOMAIN devices : Nth(J, k) \in K <=> devices[k].node = n
      BY <2>3, <3>1, <3>2
    <3>4. DOMAIN devices = 1..Cardinality(J)
      BY <1>11
    <3> QED
      BY <3>3, <3>4, Zenon
  <2> QED
    BY <2>2, <2>5, <2>6
<1>c. out.failure = "none" /\ (count = 0 \/ out.full = {}) =>
        /\ \A o \in Range(offers) :
                \/ \E d \in Range(out.devices) : d.id = Identity(o)
                \/ \E seen : Identity(o) \notin seen /\ Evaluate(alt, o, seen) = "skip"
        /\ \A n : count # 0 =>
                Cardinality({i \in DOMAIN out.devices : out.devices[i].node = n}) < count
  <2> SUFFICES ASSUME out.failure = "none", count = 0 \/ out.full = {}
               PROVE  /\ \A o \in Range(offers) :
                            \/ \E d \in Range(devices) : d.id = Identity(o)
                            \/ \E seen : /\ Identity(o) \notin seen
                                         /\ Evaluate(alt, o, seen) = "skip"
                      /\ \A n : count # 0 =>
                            Cardinality({i \in DOMAIN devices : devices[i].node = n})
                                < count
    BY <1>13, Zenon
  <2>1. \A o \in Range(offers) :
            \/ \E d \in Range(devices) : d.id = Identity(o)
            \/ \E seen : Identity(o) \notin seen /\ Evaluate(alt, o, seen) = "skip"
    BY <1>a
  <2>2. ASSUME NEW n, count # 0
        PROVE  Cardinality({i \in DOMAIN devices : devices[i].node = n}) < count
    BY <1>b, <2>2
  <2> QED
    BY <2>1, <2>2
<1> QED
  BY <1>11, <1>13, <1>14, <1>15, <1>16, <1>18, <1>19, <1>c, <1>d, Zenon DEF CollectIs, out

-----------------------------------------------------------------------------
(* The plan so far.                                                        *)

SetsOf(lists) == [k \in DOMAIN lists |-> Range(lists[k])]

\* Lists of devices, those of one list of different identities.
Tidy(lists) ==
    /\ IsList(lists)
    /\ \A k \in DOMAIN lists :
        /\ IsList(lists[k])
        /\ \A i, j \in DOMAIN lists[k] : lists[k][i].id = lists[k][j].id => i = j
        /\ \A i \in DOMAIN lists[k] : lists[k][i].amount \in Nat

\* A list without its last element.
LEMMA WithoutLast ==
    ASSUME NEW c, IsList(c), NEW n \in Nat, Len(c) = n + 1
    PROVE  LET before == SubSeq(c, 1, n) IN
           /\ IsList(before) /\ Len(before) = n /\ DOMAIN before = 1..n
           /\ \A k \in 1..n : before[k] = c[k]
           /\ c = Append(before, c[n + 1])
<1> DEFINE before == SubSeq(c, 1, n)
<1>1. c \in Seq(Range(c)) /\ DOMAIN c = 1..(n + 1)
  BY DEF IsList
<1>2. /\ before \in Seq(Range(c)) /\ Len(before) = n /\ DOMAIN before = 1..n
      /\ \A k \in 1..n : before[k] = c[k]
  BY <1>1
<1> HIDE DEF before
<1>3. c = Append(before, c[n + 1])
  BY <1>1, <1>2
<1>4. IsList(before)
  <2>1. before \in [1..n -> Range(c)]
    BY <1>2
  <2> QED
    BY <2>1, IsListIf
<1> QED
  BY <1>2, <1>3, <1>4 DEF before

\* Results, one more list.
LEMMA ResultsLonger ==
    ASSUME NEW c, IsList(c), NEW s
    PROVE  \A r : r \in Results(SetsOf(Append(c, s))) <=>
                \/ r \in Results(SetsOf(c))
                \/ \E d \in Range(s) : r = <<Len(c) + 1, d>>
<1> DEFINE more == Append(c, s)
<1>1. /\ Len(c) \in Nat /\ DOMAIN c = 1..Len(c)
      /\ DOMAIN more = 1..(Len(c) + 1)
      /\ more[Len(c) + 1] = s /\ \A k \in 1..Len(c) : more[k] = c[k]
  BY DEF IsList
<1> HIDE DEF more
<1>2. \A lists, r : r \in Results(SetsOf(lists))
        <=> \E k \in DOMAIN lists : \E d \in Range(lists[k]) : r = <<k, d>>
  BY DEF Results, SetsOf
<1> SUFFICES ASSUME NEW r
             PROVE  r \in Results(SetsOf(more)) <=>
                        \/ r \in Results(SetsOf(c))
                        \/ \E d \in Range(s) : r = <<Len(c) + 1, d>>
  BY DEF more
<1>3. ASSUME r \in Results(SetsOf(more))
      PROVE  \/ r \in Results(SetsOf(c))
             \/ \E d \in Range(s) : r = <<Len(c) + 1, d>>
  <2>1. PICK k \in DOMAIN more : \E d \in Range(more[k]) : r = <<k, d>>
    BY <1>2, <1>3
  <2>2. CASE k = Len(c) + 1
    BY <1>1, <2>1, <2>2
  <2>3. CASE k # Len(c) + 1
    <3>1. k \in DOMAIN c /\ more[k] = c[k]
      BY <1>1, <2>3
    <3> QED
      BY <1>2, <2>1, <3>1
  <2> QED
    BY <2>2, <2>3
<1>4. ASSUME r \in Results(SetsOf(c)) PROVE r \in Results(SetsOf(more))
  <2>1. PICK k \in DOMAIN c : \E d \in Range(c[k]) : r = <<k, d>>
    BY <1>2, <1>4
  <2>2. k \in DOMAIN more /\ more[k] = c[k]
    BY <1>1
  <2> QED
    BY <1>2, <2>1, <2>2
<1>5. ASSUME NEW d \in Range(s), r = <<Len(c) + 1, d>>
      PROVE  r \in Results(SetsOf(more))
  <2>1. Len(c) + 1 \in DOMAIN more /\ more[Len(c) + 1] = s
    BY <1>1
  <2> QED
    BY <1>2, <1>5, <2>1
<1> QED
  BY <1>3, <1>4, <1>5

\* The concatenation enumerates the results.
Enumerates(b, flat, results) ==
    /\ b \in [DOMAIN flat -> results]
    /\ \A i, j \in DOMAIN flat : b[i] = b[j] => i = j
    /\ \A r \in results : \E i \in DOMAIN flat : b[i] = r
    /\ \A i \in DOMAIN flat : b[i][2] = flat[i]

IsEnumerated(c) == \E b : Enumerates(b, FlattenSeq(c), Results(SetsOf(c)))

\* One more list keeps the results enumerated.
LEMMA EnumeratedLonger ==
    ASSUME NEW c, Tidy(c), IsEnumerated(c), NEW s, IsList(s),
           \A i, j \in DOMAIN s : s[i].id = s[j].id => i = j
    PROVE  IsEnumerated(Append(c, s))
<1> DEFINE flat == FlattenSeq(c)
           more == FlattenSeq(Append(c, s))
           results == Results(SetsOf(c))
           K == Len(c) + 1
           added == Results(SetsOf(Append(c, s)))
           N == Len(flat)
           M == Len(s)
<1>1. IsList(flat) /\ more = flat \o s
  BY FlattenLists, FlattenLonger DEF Tidy
<1>2. /\ N \in Nat /\ DOMAIN flat = 1..N /\ M \in Nat /\ DOMAIN s = 1..M
      /\ flat \in Seq(Range(flat)) /\ s \in Seq(Range(s))
      /\ Len(c) \in Nat /\ DOMAIN c = 1..Len(c)
  <2> HIDE DEF flat
  <2> QED
    BY <1>1, ListFacts DEF Tidy
<1>3. \A r : r \in added <=> \/ r \in results
                             \/ \E d \in Range(s) : r = <<K, d>>
  BY ResultsLonger DEF Tidy
<1>4. \A r \in results : r[1] # K
  BY <1>2 DEF Results, SetsOf
<1>5. PICK b : Enumerates(b, flat, results)
  BY DEF IsEnumerated
<1> HIDE DEF flat, more, results, added, K, N, M
<1>6. /\ DOMAIN more = 1..(N + M)
      /\ \A i \in 1..N : more[i] = flat[i]
      /\ \A i \in 1..(N + M) : i \notin 1..N => i - N \in 1..M /\ more[i] = s[i - N]
  BY <1>1, <1>2 DEF N, M
<1> DEFINE f == [i \in 1..(N + M) |-> IF i \in 1..N THEN b[i] ELSE <<K, s[i - N]>>]
<1>7. /\ \A i \in 1..N : b[i] \in results /\ b[i][2] = flat[i]
      /\ \A i, j \in 1..N : b[i] = b[j] => i = j
      /\ \A r \in results : \E i \in 1..N : b[i] = r
  BY <1>2, <1>5 DEF Enumerates
<1>8. /\ \A i \in 1..N : i \in 1..(N + M) /\ f[i] = b[i]
      /\ \A i \in 1..(N + M) : i \notin 1..N => f[i] = <<K, s[i - N]>>
  BY <1>2
<1>9. f \in [DOMAIN more -> added]
  <2> SUFFICES ASSUME NEW i \in 1..(N + M) PROVE f[i] \in added
    BY <1>6
  <2>1. CASE i \in 1..N
    BY <1>3, <1>7, <1>8, <2>1
  <2>2. CASE i \notin 1..N
    <3>1. s[i - N] \in Range(s)
      BY <1>2, <1>6, <2>2 DEF Range
    <3> QED
      BY <1>3, <1>8, <2>2, <3>1
  <2> QED
    BY <2>1, <2>2
<1> HIDE DEF f
<1>10. ASSUME NEW i \in 1..(N + M), NEW j \in 1..(N + M), f[i] = f[j]
       PROVE  i = j
  <2>1. CASE i \in 1..N /\ j \in 1..N
    BY <1>7, <1>8, <1>10, <2>1
  <2>2. CASE i \in 1..N /\ j \notin 1..N
    <3>1. b[i][1] = K /\ b[i] \in results
      BY <1>7, <1>8, <1>10, <2>2
    <3> QED
      BY <1>4, <3>1
  <2>3. CASE i \notin 1..N /\ j \in 1..N
    <3>1. b[j][1] = K /\ b[j] \in results
      BY <1>7, <1>8, <1>10, <2>3
    <3> QED
      BY <1>4, <3>1
  <2>4. CASE i \notin 1..N /\ j \notin 1..N
    <3>1. s[i - N] = s[j - N] /\ i - N \in 1..M /\ j - N \in 1..M
      BY <1>6, <1>8, <1>10, <2>4
    <3>2. i - N = j - N
      BY <1>2, <3>1
    <3> QED
      BY <1>2, <3>2
  <2> QED
    BY <2>1, <2>2, <2>3, <2>4
<1>11. ASSUME NEW r \in added PROVE \E i \in 1..(N + M) : f[i] = r
  <2>1. CASE r \in results
    BY <1>7, <1>8, <2>1
  <2>2. CASE r \notin results
    <3>1. PICK d \in Range(s) : r = <<K, d>>
      BY <1>3, <2>2
    <3>2. PICK m \in 1..M : s[m] = d
      BY <1>2 DEF Range
    <3>3. N + m \in 1..(N + M) /\ N + m \notin 1..N /\ (N + m) - N = m
      BY <1>2
    <3> QED
      BY <1>8, <3>1, <3>2, <3>3
  <2> QED
    BY <2>1, <2>2
<1>12. ASSUME NEW i \in 1..(N + M) PROVE f[i][2] = more[i]
  <2>1. CASE i \in 1..N
    BY <1>6, <1>7, <1>8, <2>1
  <2>2. CASE i \notin 1..N
    BY <1>6, <1>8, <2>2
  <2> QED
    BY <2>1, <2>2
<1>13. Enumerates(f, more, added)
  BY <1>6, <1>9, <1>10, <1>11, <1>12 DEF Enumerates
<1> QED
  BY <1>13 DEF IsEnumerated, more, added

\* The devices of tidy lists are the results of their sets, one by one.
LEMMA TidyIsEnumerated ==
    ASSUME NEW c, Tidy(c)
    PROVE  IsEnumerated(c)
<1> DEFINE T == {n \in Nat : \A d : Tidy(d) /\ Len(d) = n => IsEnumerated(d)}
<1>1. 0 \in T
  <2> SUFFICES ASSUME NEW d, Tidy(d), Len(d) = 0 PROVE IsEnumerated(d)
    OBVIOUS
  <2>1. d = <<>> /\ DOMAIN d = {}
    BY DEF Tidy, IsList
  <2>2. FlattenSeq(d) = <<>>
    BY <2>1 DEF FlattenSeq
  <2>3. Results(SetsOf(d)) = {}
    BY <2>1 DEF Results, SetsOf
  <2>4. Enumerates(<<>>, FlattenSeq(d), Results(SetsOf(d)))
    BY <2>2, <2>3 DEF Enumerates
  <2> QED
    BY <2>4 DEF IsEnumerated
<1>2. ASSUME NEW n \in Nat, n \in T PROVE n + 1 \in T
  <2> SUFFICES ASSUME NEW d, Tidy(d), Len(d) = n + 1 PROVE IsEnumerated(d)
    OBVIOUS
  <2> DEFINE before == SubSeq(d, 1, n)
  <2>1. /\ IsList(before) /\ Len(before) = n /\ DOMAIN before = 1..n
        /\ \A k \in 1..n : before[k] = d[k]
        /\ d = Append(before, d[n + 1])
    BY WithoutLast DEF Tidy
  <2>2. DOMAIN d = 1..(n + 1)
    BY DEF Tidy, IsList
  <2> HIDE DEF before
  <2>3. Tidy(before)
    <3>1. \A k \in DOMAIN before : k \in DOMAIN d /\ before[k] = d[k]
      BY <2>1, <2>2
    <3> QED
      BY <2>1, <3>1 DEF Tidy
  <2>4. IsEnumerated(before)
    BY <1>2, <2>1, <2>3
  <2>5. n + 1 \in DOMAIN d
    BY <2>2
  <2> DEFINE s == d[n + 1]
  <2>6. IsList(s) /\ \A i, j \in DOMAIN s : s[i].id = s[j].id => i = j
    BY <2>5 DEF Tidy
  <2> HIDE DEF s
  <2>7. IsEnumerated(Append(before, s))
    BY <2>3, <2>4, <2>6, EnumeratedLonger
  <2> QED
    BY <2>1, <2>7 DEF s
<1> HIDE DEF T
<1>3. Nat \subseteq T
  BY <1>1, <1>2, NatSet
<1>4. Len(c) \in T
  BY <1>3 DEF Tidy, IsList
<1> QED
  BY <1>4 DEF T

\* b names the uses of a device in a list, with their amounts.
Renames(b, id, list, g, T) ==
    /\ IsList(list)
    /\ \A i \in DOMAIN list : list[i].amount \in Nat
    /\ \A i \in UsesOf(id, list) : b[i] \in T /\ g[b[i]] = list[i].amount
    /\ \A i, j \in UsesOf(id, list) : b[i] = b[j] => i = j
    /\ \A t \in T : \E i \in UsesOf(id, list) : b[i] = t

\* What a list uses of a device, told by other names.
LEMMA ConsumedRenamed ==
    ASSUME NEW list, NEW id, NEW g, NEW T, NEW b, Renames(b, id, list, g, T)
    PROVE  Counts(g, T) /\ SumFunctionOnSet(g, T) = ConsumedIn(id, list)
<1> DEFINE S == UsesOf(id, list)
           f == [i \in DOMAIN list |-> list[i].amount]
           c == [i \in S |-> b[i]]
<1>0. /\ IsList(list)
      /\ \A i \in DOMAIN list : list[i].amount \in Nat
      /\ \A i \in S : b[i] \in T /\ g[b[i]] = list[i].amount
      /\ \A i, j \in S : b[i] = b[j] => i = j
      /\ \A t \in T : \E i \in S : b[i] = t
  BY DEF Renames
<1>1. S \in SUBSET DOMAIN list
  BY DEF UsesOf
<1>2. IsFiniteSet(S)
  BY <1>0, <1>1, IndexesFinite
<1>3. ConsumedIn(id, list) = SumFunctionOnSet(f, S)
  BY DEF ConsumedIn
<1> HIDE DEF S
<1>4. /\ \A i \in S : f[i] = list[i].amount /\ f[i] \in Nat
      /\ c \in [S -> T] /\ \A i \in S : c[i] = b[i]
  BY <1>0, <1>1
<1>5. Counts(f, S)
  BY <1>2, <1>4 DEF Counts
<1> HIDE DEF f, c
<1>6. c \in Bijection(S, T)
  BY <1>0, <1>4 DEF Bijection, Injection, Surjection, IsInjective
<1>7. IsFiniteSet(T)
  BY <1>2, <1>6, FS_Bijection DEF ExistsBijection
<1>8. Counts(g, T)
  <2>1. \A t \in T : g[t] \in Nat
    BY <1>0, <1>1
  <2> QED
    BY <1>7, <2>1 DEF Counts
<1>9. \A i \in S : f[i] = g[c[i]]
  BY <1>0, <1>4
<1>10. SumFunctionOnSet(f, S) = SumFunctionOnSet(g, T)
  BY <1>5, <1>6, <1>8, <1>9, SumRenamed
<1> QED
  BY <1>3, <1>8, <1>10

\* The devices taken and the results of the plan are the same, one by one.
LEMMA TakenIsResults ==
    ASSUME Tidy(chosen)
    PROVE  /\ IsList(Taken)
           /\ \A i \in DOMAIN Taken : Taken[i].amount \in Nat
           /\ \E b : Enumerates(b, Taken, Results(ChosenSets))
           /\ \A r \in Results(ChosenSets) : r[1] # 0
           /\ IsFiniteSet(Results(ChosenSets))
           /\ Cardinality(Results(ChosenSets)) = Len(Taken)
<1>1. IsList(Taken) /\ Range(Taken) = UNION {Range(chosen[k]) : k \in DOMAIN chosen}
  BY FlattenLists DEF Tidy, Taken
<1>2. \A i \in DOMAIN Taken : Taken[i].amount \in Nat
  <2> TAKE i \in DOMAIN Taken
  <2>1. Taken[i] \in Range(Taken)
    BY DEF Range
  <2>2. PICK k \in DOMAIN chosen : Taken[i] \in Range(chosen[k])
    BY <1>1, <2>1
  <2>3. PICK j \in DOMAIN chosen[k] : Taken[i] = chosen[k][j]
    BY <2>2 DEF Range
  <2> QED
    BY <2>3 DEF Tidy
<1>3. ChosenSets = SetsOf(chosen)
  BY DEF ChosenSets, SetsOf
<1>4. PICK b : Enumerates(b, Taken, Results(ChosenSets))
  BY <1>3, TidyIsEnumerated DEF IsEnumerated, Taken
<1>5. \A r \in Results(ChosenSets) : r[1] # 0
  <2>1. DOMAIN chosen = 1..Len(chosen) /\ Len(chosen) \in Nat
    BY DEF Tidy, IsList
  <2> QED
    BY <1>3, <2>1 DEF Results, SetsOf
<1>6. /\ IsFiniteSet(DOMAIN Taken) /\ Cardinality(DOMAIN Taken) = Len(Taken)
  <2> DEFINE N == Len(Taken)
  <2>1. N \in Nat /\ DOMAIN Taken = 1..N
    BY <1>1, ListFacts
  <2> HIDE DEF N
  <2>2. IsFiniteSet(1..N) /\ Cardinality(1..N) = N
    BY <2>1, FS_Interval
  <2> QED
    BY <2>1, <2>2 DEF N
<1> DEFINE R == Results(ChosenSets)
           D == DOMAIN Taken
<1> HIDE DEF R, D
<1>7. b \in Bijection(D, R)
  BY <1>4 DEF Enumerates, Bijection, Injection, Surjection, IsInjective, R, D
<1>8. IsFiniteSet(R) /\ Cardinality(R) = Len(Taken)
  BY <1>6, <1>7, FS_Bijection DEF ExistsBijection, D
<1> QED
  BY <1>1, <1>2, <1>4, <1>5, <1>8 DEF R

\* What the planner counts is what is held.
LEMMA PlanIsLinked ==
    ASSUME WellFormed(input), Tidy(chosen)
    PROVE  Linked
<1> SUFFICES ASSUME NEW id
             PROVE  /\ ConsumedSoFar(id) \in Nat
                    /\ HeldAmount(id, ChosenSets) = ConsumedSoFar(id)
                    /\ (\A held \in HeldBefore(id, ChosenSets) : IsShare(held))
                            <=> ~ExclusiveIn(id, input.committed)
                                /\ ~ExclusiveIn(id, Taken)
                    /\ HeldBefore(id, ChosenSets) = {}
                            <=> UsesOf(id, input.committed \o Taken) = {}
  BY DEF Linked
<1> DEFINE C == input.committed
           R == Results(ChosenSets)
           H == HeldBefore(id, ChosenSets)
           Old == {<<0, i>> : i \in UsesOf(id, C)}
           New == {r \in R : r[2].id = id}
           g == [held \in H |-> AmountOf(held)]
<1>1. /\ IsList(C) /\ \A i \in DOMAIN C : C[i].amount \in Nat /\ C[i].shared \in BOOLEAN
      /\ C \in Seq(Range(C))
  BY DEF WellFormed, IsList, Range
<1>2. /\ IsList(Taken) /\ \A i \in DOMAIN Taken : Taken[i].amount \in Nat
      /\ \A r \in R : r[1] # 0
  BY TakenIsResults
<1>3. PICK b : Enumerates(b, Taken, R)
  BY TakenIsResults
<1>4. H = Old \cup New
  BY DEF HeldBefore, UsesOf
<1>5. Old \cap New = {}
  BY <1>2
<1>6. /\ \A i \in UsesOf(id, C) : i \in DOMAIN C /\ C[i].id = id
      /\ \A i \in DOMAIN C : C[i].id = id => i \in UsesOf(id, C)
      /\ \A i \in UsesOf(id, Taken) : i \in DOMAIN Taken /\ Taken[i].id = id
      /\ \A i \in DOMAIN Taken : Taken[i].id = id => i \in UsesOf(id, Taken)
  BY DEF UsesOf
<1>7. /\ \A i \in DOMAIN Taken : b[i] \in R /\ b[i][2] = Taken[i]
      /\ \A i, j \in DOMAIN Taken : b[i] = b[j] => i = j
      /\ \A r \in R : \E i \in DOMAIN Taken : b[i] = r
  BY <1>3 DEF Enumerates
<1>8. /\ \A i : <<0, i>> \in Old <=> i \in UsesOf(id, C)
      /\ \A t \in Old : \E i \in UsesOf(id, C) : t = <<0, i>>
      /\ \A r : r \in New <=> r \in R /\ r[2].id = id
  OBVIOUS
<1> HIDE DEF C, R, Old, New
<1>9. /\ \A i : AmountOf(<<0, i>>) = C[i].amount /\ IsShare(<<0, i>>) = C[i].shared
      /\ \A r \in R : AmountOf(r) = r[2].amount /\ IsShare(r) = r[2].shared
  BY <1>2 DEF AmountOf, IsShare, C
<1>10. /\ \A i \in UsesOf(id, C) : <<0, i>> \in Old /\ g[<<0, i>>] = C[i].amount
       /\ \A i \in UsesOf(id, Taken) : b[i] \in New /\ g[b[i]] = Taken[i].amount
  <2>1. \A h \in H : g[h] = AmountOf(h)
    OBVIOUS
  <2> HIDE DEF g
  <2>2. \A i \in UsesOf(id, C) : <<0, i>> \in Old /\ g[<<0, i>>] = C[i].amount
    BY <1>4, <1>8, <1>9, <2>1
  <2>3. \A i \in UsesOf(id, Taken) : b[i] \in New /\ b[i] \in R
    BY <1>6, <1>7, <1>8
  <2>4. \A i \in UsesOf(id, Taken) : g[b[i]] = Taken[i].amount
    BY <1>4, <1>6, <1>7, <1>9, <2>1, <2>3
  <2> QED
    BY <2>2, <2>3, <2>4
<1> HIDE DEF g
<1>11. Counts(g, Old) /\ SumFunctionOnSet(g, Old) = ConsumedIn(id, C)
  <2> DEFINE old == [i \in UsesOf(id, C) |-> <<0, i>>]
  <2>1. /\ \A i \in UsesOf(id, C) : old[i] \in Old /\ g[old[i]] = C[i].amount
        /\ \A i, j \in UsesOf(id, C) : old[i] = old[j] => i = j
        /\ \A t \in Old : \E i \in UsesOf(id, C) : old[i] = t
    BY <1>8, <1>10
  <2> HIDE DEF old
  <2>2. Renames(old, id, C, g, Old)
    BY <1>1, <2>1 DEF Renames
  <2> QED
    BY <2>2, ConsumedRenamed
<1>12. Counts(g, New) /\ SumFunctionOnSet(g, New) = ConsumedIn(id, Taken)
  <2>1. \A t \in New : \E i \in UsesOf(id, Taken) : b[i] = t
    BY <1>6, <1>7, <1>8
  <2>2. \A i, j \in UsesOf(id, Taken) : b[i] = b[j] => i = j
    BY <1>6, <1>7
  <2>3. Renames(b, id, Taken, g, New)
    BY <1>2, <1>10, <2>1, <2>2 DEF Renames
  <2> QED
    BY <2>3, ConsumedRenamed
<1>13. /\ ConsumedIn(id, C) \in Nat /\ ConsumedIn(id, Taken) \in Nat
       /\ SumFunctionOnSet(g, H) = ConsumedIn(id, C) + ConsumedIn(id, Taken)
  <2>1. /\ SumFunctionOnSet(g, Old) \in Nat /\ SumFunctionOnSet(g, New) \in Nat
        /\ SumFunctionOnSet(g, Old \cup New)
            = SumFunctionOnSet(g, Old) + SumFunctionOnSet(g, New)
    BY <1>5, <1>11, <1>12, SumUnion
  <2> QED
    BY <1>4, <1>11, <1>12, <2>1
<1>14. HeldAmount(id, ChosenSets) = SumFunctionOnSet(g, H)
  BY Zenon DEF HeldAmount, SumFunction, g
<1>15. /\ ConsumedSoFar(id) \in Nat /\ HeldAmount(id, ChosenSets) = ConsumedSoFar(id)
  BY <1>13, <1>14 DEF ConsumedSoFar, C
<1>16. (\A held \in H : IsShare(held))
            <=> ~ExclusiveIn(id, C) /\ ~ExclusiveIn(id, Taken)
  <2>1. (\A held \in H : IsShare(held)) <=>
            (\A held \in Old : IsShare(held)) /\ (\A held \in New : IsShare(held))
    BY <1>4
  <2>2. (\A held \in Old : IsShare(held)) <=> ~ExclusiveIn(id, C)
    <3>1. (\A held \in Old : IsShare(held)) <=> \A i \in UsesOf(id, C) : C[i].shared
      BY <1>8, <1>9
    <3>2. ExclusiveIn(id, C) <=> \E i \in DOMAIN C : C[i].id = id /\ ~C[i].shared
      BY DEF ExclusiveIn, Range
    <3> QED
      BY <1>6, <3>1, <3>2
  <2>3. (\A held \in New : IsShare(held)) <=> ~ExclusiveIn(id, Taken)
    <3>1. (\A held \in New : IsShare(held))
            <=> \A i \in UsesOf(id, Taken) : Taken[i].shared
      BY <1>6, <1>7, <1>8, <1>9
    <3>2. ExclusiveIn(id, Taken)
            <=> \E i \in DOMAIN Taken : Taken[i].id = id /\ ~Taken[i].shared
      BY DEF ExclusiveIn, Range
    <3> QED
      BY <1>6, <3>1, <3>2
  <2> QED
    BY <2>1, <2>2, <2>3
<1>17. H = {} <=> UsesOf(id, C \o Taken) = {}
  <2>1. H = {} <=> UsesOf(id, C) = {} /\ UsesOf(id, Taken) = {}
    <3>1. Old = {} <=> UsesOf(id, C) = {}
      BY <1>8
    <3>2. New = {} <=> UsesOf(id, Taken) = {}
      BY <1>6, <1>7, <1>8
    <3> QED
      BY <1>4, <3>1, <3>2
  <2>2. UsesOf(id, C \o Taken) = {}
            <=> UsesOf(id, C) = {} /\ UsesOf(id, Taken) = {}
    <3> DEFINE N == Len(C)
               M == Len(Taken)
               both == C \o Taken
    <3>1. /\ N \in Nat /\ DOMAIN C = 1..N /\ M \in Nat /\ DOMAIN Taken = 1..M
          /\ C \in Seq(Range(C)) /\ Taken \in Seq(Range(Taken))
      BY <1>1, <1>2, ListFacts
    <3>2. /\ DOMAIN both = 1..(N + M)
          /\ \A i \in 1..N : i \in 1..(N + M) /\ both[i] = C[i]
          /\ \A i \in 1..M : i + N \in 1..(N + M) /\ both[i + N] = Taken[i]
          /\ \A i \in 1..(N + M) : i \notin 1..N =>
                i - N \in 1..M /\ both[i] = Taken[i - N]
      BY <3>1
    <3> HIDE DEF N, M, both
    <3>3. UsesOf(id, both) = {} <=> \A i \in 1..(N + M) : both[i].id # id
      BY <3>2 DEF UsesOf
    <3>4. UsesOf(id, C) = {} <=> \A i \in 1..N : C[i].id # id
      BY <3>1 DEF UsesOf
    <3>5. UsesOf(id, Taken) = {} <=> \A i \in 1..M : Taken[i].id # id
      BY <3>1 DEF UsesOf
    <3>6. (\A i \in 1..(N + M) : both[i].id # id) <=>
            (\A i \in 1..N : C[i].id # id) /\ (\A i \in 1..M : Taken[i].id # id)
      BY <3>2
    <3> QED
      BY <3>3, <3>4, <3>5, <3>6 DEF both
  <2> QED
    BY <2>1, <2>2
<1> QED
  BY <1>15, <1>16, <1>17 DEF C

-----------------------------------------------------------------------------
(* Combinations.                                                           *)

\* I comes before J when they first differ at an element of I.
LEMMA BeforeIs ==
    ASSUME NEW I \in SUBSET Nat, NEW J \in SUBSET Nat
    PROVE  Before(I, J) <=>
            \E m \in I \ J : \A x \in Nat : x < m => (x \in I <=> x \in J)
<1> DEFINE D == (I \ J) \cup (J \ I)
<1>1. Before(I, J) <=> I # J /\ Min(D) \in I
  BY DEF Before
<1>2. D \in SUBSET Nat /\ (D # {} <=> I # J)
  OBVIOUS
<1>3. D # {} => Min(D) \in D /\ \A y \in D : Min(D) <= y
  <2> HIDE DEF D
  <2> QED
    BY <1>2, MinExists
<1>4. ASSUME Before(I, J)
      PROVE  \E m \in I \ J : \A x \in Nat : x < m => (x \in I <=> x \in J)
  <2>1. PICK m \in D : m \in I /\ \A y \in D : m <= y
    BY <1>1, <1>2, <1>3, <1>4
  <2>2. m \in I \ J
    BY <2>1
  <2>3. \A x \in Nat : x < m => x \notin D
    BY <1>2, <2>1
  <2> QED
    BY <2>2, <2>3
<1>5. ASSUME NEW m \in I \ J, \A x \in Nat : x < m => (x \in I <=> x \in J)
      PROVE  Before(I, J)
  <2>1. m \in D /\ \A y \in D : m <= y
    BY <1>2, <1>5
  <2>2. Min(D) = m
    <3>1. D \in SUBSET Int
      BY <1>2
    <3> HIDE DEF D
    <3> QED
      BY <2>1, <3>1, MinIs
  <2> QED
    BY <1>1, <1>2, <2>1, <2>2
<1> QED
  BY <1>4, <1>5

\* Before orders the sets of indexes.
LEMMA BeforeOrders ==
    ASSUME NEW sets \in SUBSET SUBSET Nat, NEW R,
           \A I, J \in sets : <<I, J>> \in R <=> Before(I, J)
    PROVE  Orders(R, sets)
<1>1. \A I \in sets : <<I, I>> \notin R
  BY DEF Before
<1>2. ASSUME NEW I \in sets, NEW J \in sets, I # J
      PROVE  <<I, J>> \in R \/ <<J, I>> \in R
  <2> DEFINE D == (I \ J) \cup (J \ I)
  <2>1. D \in SUBSET Nat /\ D # {} /\ D = (J \ I) \cup (I \ J)
    BY <1>2
  <2>2. Min(D) \in D
    <3> HIDE DEF D
    <3> QED
      BY <2>1, MinExists
  <2>3. Before(I, J) <=> Min(D) \in I
    BY <1>2 DEF Before
  <2>4. Before(J, I) <=> Min(D) \in J
    BY <1>2, <2>1 DEF Before
  <2>5. Min(D) \in I \/ Min(D) \in J
    BY <2>2
  <2> QED
    BY <2>3, <2>4, <2>5
<1>3. ASSUME NEW I \in sets, NEW J \in sets, NEW K \in sets,
             <<I, J>> \in R, <<J, K>> \in R
      PROVE  <<I, K>> \in R
  <2>1. PICK a \in I \ J : \A x \in Nat : x < a => (x \in I <=> x \in J)
    BY <1>3, BeforeIs
  <2>2. PICK b \in J \ K : \A x \in Nat : x < b => (x \in J <=> x \in K)
    BY <1>3, BeforeIs
  <2>3. a \in Nat /\ b \in Nat /\ a # b
    BY <2>1, <2>2
  <2>4. CASE a < b
    <3>1. a \in I \ K /\ \A x \in Nat : x < a => (x \in I <=> x \in K)
      BY <2>1, <2>2, <2>3, <2>4
    <3>2. Before(I, K)
      BY <3>1, BeforeIs
    <3> QED
      BY <3>2
  <2>5. CASE b < a
    <3>1. b \in I \ K /\ \A x \in Nat : x < b => (x \in I <=> x \in K)
      BY <2>1, <2>2, <2>3, <2>5
    <3>2. Before(I, K)
      BY <3>1, BeforeIs
    <3> QED
      BY <3>2
  <2> QED
    BY <2>3, <2>4, <2>5
<1> QED
  BY <1>1, <1>2, <1>3 DEF Orders

\* Every combination is the elements at count indexes.
LEMMA CombinationsAre ==
    ASSUME NEW seq, IsList(seq), NEW count \in Nat
    PROVE  /\ IsList(Combinations(seq, count))
           /\ \A s \in Range(Combinations(seq, count)) :
                \E I \in SUBSET DOMAIN seq :
                    Cardinality(I) = count /\ s = AtIndexes(seq, I)
           /\ \A I \in SUBSET DOMAIN seq :
                Cardinality(I) = count => AtIndexes(seq, I) \in Range(Combinations(seq, count))
<1> DEFINE sets == kSubset(count, DOMAIN seq)
           N == Cardinality(sets)
           R == {p \in sets \X sets : Before(p[1], p[2])}
           At(I) == Cardinality({J \in sets : J = I \/ Before(J, I)})
           Chosen(n) == CHOOSE I \in sets : At(I) = n
           all == Combinations(seq, count)
<1>1. all = [n \in 1..N |-> AtIndexes(seq, Chosen(n))]
  BY Zenon DEF Combinations
<1>2. /\ sets \in SUBSET SUBSET DOMAIN seq /\ \A I \in sets : Cardinality(I) = count
      /\ DOMAIN seq \in SUBSET Nat
  BY IndexesFinite DEF kSubset
<1>3. IsFiniteSet(sets) /\ N \in Nat
  <2>1. IsFiniteSet(DOMAIN seq)
    BY IndexesFinite
  <2>2. IsFiniteSet(SUBSET DOMAIN seq)
    BY <2>1, FS_SUBSET
  <2> HIDE DEF sets
  <2>3. IsFiniteSet(sets)
    BY <1>2, <2>2, FS_Subset
  <2> QED
    BY <2>3, FS_CardinalityType
<1> HIDE DEF sets
<1>4. \A I, J \in sets : <<I, J>> \in R <=> Before(I, J)
  OBVIOUS
<1>5. sets \in SUBSET SUBSET Nat
  BY <1>2
<1> HIDE DEF R
<1>6. PlacesAreTaken(sets, R)
  BY <1>3, <1>4, <1>5, BeforeOrders, EveryPlaceIsTaken
<1>7. \A I \in sets : At(I) = Place(sets, R, I)
  <2> TAKE I \in sets
  <2>1. {J \in sets : J = I \/ Before(J, I)} = UpTo(sets, R, I)
    BY <1>4 DEF UpTo
  <2> QED
    BY <2>1 DEF Place
<1> HIDE DEF At, N
<1>8. \A n \in 1..N : Chosen(n) \in sets
  <2> TAKE n \in 1..N
  <2>1. \E I \in sets : At(I) = n
    BY <1>6, <1>7 DEF PlacesAreTaken, N
  <2> QED
    BY <2>1
<1>a. ASSUME NEW I \in sets PROVE \E n \in 1..N : Chosen(n) = I
  <2>1. At(I) \in 1..N
    BY <1>6, <1>7 DEF PlacesAreTaken, N
  <2>2. Chosen(At(I)) \in sets /\ At(Chosen(At(I))) = At(I)
    <3>1. \E J \in sets : At(J) = At(I)
      OBVIOUS
    <3> QED
      BY <3>1
  <2> HIDE DEF Chosen
  <2>3. Chosen(At(I)) = I
    BY <1>6, <1>7, <2>2 DEF PlacesAreTaken
  <2> QED
    BY <2>1, <2>3
<1> HIDE DEF Chosen
<1>9. all \in [1..N -> {AtIndexes(seq, I) : I \in sets}]
  BY <1>1, <1>8
<1>b. \A I \in SUBSET DOMAIN seq :
        Cardinality(I) = count => AtIndexes(seq, I) \in Range(all)
  <2> SUFFICES ASSUME NEW I \in SUBSET DOMAIN seq, Cardinality(I) = count
               PROVE  \E n \in DOMAIN all : all[n] = AtIndexes(seq, I)
    BY DEF Range
  <2>1. I \in sets
    BY DEF sets, kSubset
  <2>2. PICK n \in 1..N : Chosen(n) = I
    BY <1>a, <2>1
  <2> QED
    BY <1>1, <2>2
<1> HIDE DEF all
<1>10. IsList(all)
  BY <1>3, <1>9, IsListIf
<1>11. \A s \in Range(all) : \E I \in sets : s = AtIndexes(seq, I)
  BY <1>9 DEF Range
<1> QED
  BY <1>2, <1>10, <1>11, <1>b DEF all

\* The devices at some indexes of a list of different identities.
LEMMA SomeOfDistinct ==
    ASSUME NEW devices, IsList(devices),
           \A i, j \in DOMAIN devices : devices[i].id = devices[j].id => i = j,
           NEW I \in SUBSET DOMAIN devices
    PROVE  LET some == AtIndexes(devices, I) IN
           /\ IsList(some) /\ Len(some) = Cardinality(I)
           /\ Range(some) = {devices[i] : i \in I}
           /\ \A k, m \in DOMAIN some : some[k].id = some[m].id => k = m
<1> DEFINE some == AtIndexes(devices, I)
<1>1. /\ IsList(some)
      /\ Len(some) = Cardinality(I) /\ DOMAIN some = 1..Cardinality(I)
      /\ \A k \in DOMAIN some : Nth(I, k) \in I /\ some[k] = devices[Nth(I, k)]
      /\ Range(some) = {devices[i] : i \in I}
  BY AtIndexesList
<1>2. IsFiniteSet(I) /\ I \in SUBSET Int
  BY IndexesFinite
<1> HIDE DEF some
<1>3. ASSUME NEW k \in DOMAIN some, NEW m \in DOMAIN some, some[k].id = some[m].id
      PROVE  k = m
  <2>1. Nth(I, k) = Nth(I, m)
    BY <1>1, <1>3
  <2> QED
    BY <1>1, <1>2, <2>1, NthEnumerates
<1> QED
  BY <1>1, <1>3 DEF some

\* A list of different identities has as many devices as places.
LEMMA CountOfDistinct ==
    ASSUME NEW s, IsList(s), \A i, j \in DOMAIN s : s[i].id = s[j].id => i = j
    PROVE  IsFiniteSet(Range(s)) /\ Cardinality(Range(s)) = Len(s)
<1>1. /\ Len(s) \in Nat /\ DOMAIN s = 1..Len(s) /\ s \in Seq(Range(s))
      /\ \A x \in Range(s) : \E i \in DOMAIN s : s[i] = x
  BY ListFacts
<1> DEFINE N == Len(s)
<1> HIDE DEF N
<1>2. s \in [1..N -> Range(s)]
  BY <1>1 DEF N
<1>3. s \in Bijection(1..N, Range(s))
  BY <1>1, <1>2 DEF Bijection, Injection, Surjection, IsInjective, N
<1>4. IsFiniteSet(1..N) /\ Cardinality(1..N) = N
  BY <1>1, FS_Interval DEF N
<1> QED
  BY <1>3, <1>4, FS_Bijection DEF ExistsBijection, N

\* A sequence without its repetitions has the same elements.
LEMMA DistinctIsList ==
    ASSUME NEW seq, IsList(seq)
    PROVE  IsList(Distinct(seq)) /\ Range(Distinct(seq)) = Range(seq)
<1> DEFINE I == {i \in DOMAIN seq : \A j \in 1..(i - 1) : seq[j] # seq[i]}
<1>1. I \in SUBSET DOMAIN seq /\ Distinct(seq) = AtIndexes(seq, I)
  BY DEF Distinct
<1>2. IsList(Distinct(seq)) /\ Range(Distinct(seq)) = {seq[i] : i \in I}
  <2> HIDE DEF I
  <2> QED
    BY <1>1, AtIndexesList
<1>3. ASSUME NEW x \in Range(seq) PROVE \E i \in I : seq[i] = x
  <2> DEFINE S == {i \in DOMAIN seq : seq[i] = x}
  <2>1. S # {} /\ S \in SUBSET Nat /\ DOMAIN seq = 1..Len(seq) /\ Len(seq) \in Nat
    BY IndexesFinite, ListFacts DEF Range
  <2>2. Min(S) \in S /\ \A i \in S : Min(S) <= i
    <3> HIDE DEF S
    <3> QED
      BY <2>1, MinExists
  <2>3. PICK m \in S : \A i \in S : m <= i
    BY <2>2
  <2>4. \A j \in 1..(m - 1) : j \in DOMAIN seq /\ ~(m <= j)
    BY <2>1
  <2> QED
    BY <2>3, <2>4
<1>4. \A i \in I : seq[i] \in Range(seq)
  BY <1>1 DEF Range
<1> QED
  BY <1>2, <1>3, <1>4

-----------------------------------------------------------------------------
(* Selections.                                                             *)

\* What a request is planned with: the plan so far is on one node.
Planning ==
    /\ WellFormed(input)
    /\ Tidy(chosen)
    /\ pc = "greedy" => ~UseBacktrackingPlanner
    /\ \A d, e \in Range(Taken) : d.node = e.node
    /\ \A d \in Range(Taken) : d.node # NoNode

Acceptable(alt) ==
    IsAlternative(alt) /\ SupportedAlternative(alt) /\ alt.class \in input.classes

\* Slices the planner manages.
Managed(slices) ==
    IsList(slices) /\ \A s \in Range(slices) : s \in Range(input.slices) /\ s.managed

\* The offers of managed slices, on each of which there is a verdict.
LEMMA ManagedOffers ==
    ASSUME WellFormed(input), NEW slices, Managed(slices), NEW allocated,
           NEW alt, alt.class \in input.classes
    PROVE  /\ IsList(Offers(slices, allocated))
           /\ \A o : o \in Range(Offers(slices, allocated))
                        <=> IsOffer(o, slices, allocated)
           /\ \A o \in Range(Offers(slices, allocated)) : Decidable(alt, o)
<1>1. \A s \in Range(slices) : IsSlice(s, input.classes)
  BY DEF WellFormed, Managed
<1>2. /\ IsList(Offers(slices, allocated))
      /\ \A o : o \in Range(Offers(slices, allocated))
                    <=> IsOffer(o, slices, allocated)
  <2>1. IsList(slices) /\ \A s \in Range(slices) : IsList(s.devices)
    BY <1>1 DEF IsSlice, Managed
  <2> QED
    BY <2>1, OffersList
<1>3. ASSUME NEW o, IsOffer(o, slices, allocated) PROVE Decidable(alt, o)
  <2>1. PICK s \in Range(slices) : \E d \in Range(s.devices) :
            o = Offer(s, d, allocated)
    BY <1>3 DEF IsOffer
  <2>2. PICK d \in Range(s.devices) : o = Offer(s, d, allocated)
    BY <2>1
  <2>3. IsDevice(d, input.classes)
    BY <1>1 DEF IsSlice
  <2> QED
    BY <2>2, <2>3 DEF Decidable, Offer
<1> QED
  BY <1>2, <1>3

\* An accepted offer is a device that fits, and none that fits is skipped.
LEMMA OffersAreRight ==
    ASSUME Planning, StepsAreWhole, NEW alt, Acceptable(alt),
           NEW slices, Managed(slices), NEW allocated,
           NEW s \in Range(slices), NEW d \in Range(s.devices),
           CompatibleNodes(s, allocated) # {}
    PROVE  LET o == Offer(s, d, allocated) IN
           /\ Evaluate(alt, o, {}) = "accept" =>
                /\ s.node # NoNode /\ o.node = s.node
                /\ allocated \in {NoNode, s.node}
                /\ d.verdict[alt.class] = "match"
                /\ Take(alt, o) = AsTaken(alt, s, d)
                /\ AsTaken(alt, s, d).amount \in Nat
                /\ Fits(alt, d, AsTaken(alt, s, d), ChosenSets)
           /\ \A seen :
                /\ Evaluate(alt, o, seen) = "skip"
                /\ Identity(o) \notin seen /\ d.verdict[alt.class] = "match"
                => ~Fits(alt, d, AsTaken(alt, s, d), ChosenSets)
<1> DEFINE o == Offer(s, d, allocated)
<1>1. Linked
  BY PlanIsLinked DEF Planning
<1>2. /\ IsSlice(s, input.classes) /\ IsDevice(d, input.classes)
      /\ s \in Range(input.slices) /\ s.managed
  BY DEF Planning, WellFormed, Managed, IsSlice
<1>3. o.slice = s /\ o.device = d
  BY DEF Offer
<1>4. \A c \in d.capacity : HasWholeSteps(c)
  BY <1>2 DEF StepsAreWhole
<1>5. pc = "greedy" => ~d.shareable
  BY <1>2 DEF Planning, UseBacktrackingPlanner
<1>6. IsAlternative(alt) /\ ~alt.extras
  BY DEF Acceptable, SupportedAlternative
<1> HIDE DEF o
<1>7. Decidable(alt, o)
  BY <1>2, <1>3 DEF Decidable, Acceptable
<1>8. \A seen :
        /\ Evaluate(alt, o, seen) = "accept" =>
            /\ o.device.verdict[alt.class] = "match"
            /\ o.slice.supported /\ IsRight("accept", alt, o)
        /\ /\ Evaluate(alt, o, seen) = "skip"
           /\ o.device.verdict[alt.class] = "match" /\ Identity(o) \notin seen
           => IsRight("skip", alt, o)
  BY <1>1, <1>3, <1>4, <1>5, <1>6, <1>7, EvaluateIsRight
<1>9. ASSUME Evaluate(alt, o, {}) = "accept"
      PROVE  /\ s.node # NoNode /\ o.node = s.node
             /\ allocated \in {NoNode, s.node}
             /\ d.verdict[alt.class] = "match"
             /\ Take(alt, o) = AsTaken(alt, s, d)
             /\ AsTaken(alt, s, d).amount \in Nat
             /\ Fits(alt, d, AsTaken(alt, s, d), ChosenSets)
  <2>1. d.verdict[alt.class] = "match" /\ s.supported /\ IsRight("accept", alt, o)
    BY <1>3, <1>8, <1>9
  <2>2. s.node # NoNode
    BY <1>2, <2>1 DEF IsSlice
  <2>3. o.node = s.node /\ allocated \in {NoNode, s.node}
    BY <2>2, OfferNode DEF o
  <2>4. Take(alt, o) = AsTaken(alt, s, d)
    BY <2>1, <2>2, TakeIsAsTaken DEF o
  <2>5. /\ AsTaken(alt, s, d).amount \in Nat
        /\ Fits(alt, d, AsTaken(alt, s, d), ChosenSets)
    BY <1>3, <2>1 DEF IsRight
  <2> QED
    BY <2>1, <2>2, <2>3, <2>4, <2>5
<1>10. ASSUME NEW seen, Evaluate(alt, o, seen) = "skip",
              Identity(o) \notin seen, d.verdict[alt.class] = "match"
       PROVE  ~Fits(alt, d, AsTaken(alt, s, d), ChosenSets)
  <2>1. IsRight("skip", alt, o)
    BY <1>3, <1>8, <1>10
  <2> QED
    BY <1>3, <2>1 DEF IsRight
<1> QED
  BY <1>9, <1>10 DEF o

\* The plan's node, from the devices taken and from its results.
LEMMA NodeOfPlan ==
    ASSUME Planning
    PROVE  /\ \A node : SlicesOn(node, ChosenSets) = ManagedOn(node, AllocatedNode)
           /\ \A d \in Range(Taken) : AllocatedNode = d.node
<1> DEFINE R == Results(ChosenSets)
           node == IF R = {} THEN NoNode ELSE The(R)[2].node
<1>1. /\ IsList(Taken) /\ \E b : Enumerates(b, Taken, R)
  BY TakenIsResults DEF Planning
<1>2. PICK b : Enumerates(b, Taken, R)
  BY <1>1
<1>3. /\ Len(Taken) \in Nat /\ DOMAIN Taken = 1..Len(Taken)
      /\ (Taken # <<>> <=> Len(Taken) # 0)
      /\ \A i \in DOMAIN Taken : Taken[i] \in Range(Taken)
  BY <1>1, ListFacts
<1>4. \A d \in Range(Taken) : AllocatedNode = d.node
  <2> TAKE d \in Range(Taken)
  <2>1. PICK i \in DOMAIN Taken : d = Taken[i]
    BY DEF Range
  <2>2. Taken # <<>> /\ 1 \in DOMAIN Taken
    BY <1>3, <2>1
  <2>3. Taken[1].node = d.node
    BY <1>3, <2>2 DEF Planning
  <2> QED
    BY <2>2, <2>3 DEF AllocatedNode
<1> HIDE DEF R
<1>5. node = AllocatedNode
  <2>1. CASE R = {}
    <3>1. Taken = <<>>
      <4> SUFFICES ASSUME Taken # <<>> PROVE FALSE
        OBVIOUS
      <4>1. 1 \in DOMAIN Taken
        BY <1>3
      <4> QED
        BY <1>2, <2>1, <4>1 DEF Enumerates
    <3> QED
      BY <2>1, <3>1 DEF AllocatedNode
  <2>2. CASE R # {}
    <3>1. The(R) \in R
      BY <2>2 DEF The
    <3>2. PICK i \in DOMAIN Taken : b[i] = The(R)
      BY <1>2, <3>1 DEF Enumerates
    <3>3. The(R)[2] = Taken[i]
      BY <1>2, <3>2 DEF Enumerates
    <3> QED
      BY <1>3, <1>4, <2>2, <3>3
  <2> QED
    BY <2>1, <2>2
<1>6. \A n : SlicesOn(n, ChosenSets) = ManagedOn(n, node)
  BY DEF SlicesOn, R
<1> QED
  BY <1>4, <1>5, <1>6

\* A selection that serves the alternative after the plan so far.
IsSelection(s, alt) ==
    /\ IsList(s) /\ s # <<>>
    /\ \A i, j \in DOMAIN s : s[i].id = s[j].id => i = j
    /\ \A i \in DOMAIN s : s[i].amount \in Nat
    /\ Len(s) <= RemainingResults
    /\ \E slice \in Range(input.slices) :
        /\ slice.node # NoNode
        /\ AllocatedNode \in {NoNode, slice.node}
        /\ Serves(Range(s), alt, slice.node, ChosenSets)

\* Where the devices that are collected come from.
LEMMA CollectedFrom ==
    ASSUME Planning, StepsAreWhole, NEW alt, Acceptable(alt),
           NEW slices, Managed(slices), NEW count, NEW out,
           CollectIs(alt, Offers(slices, AllocatedNode), count, out),
           NEW d \in Range(out.devices)
    PROVE  \E s \in Range(slices) : \E e \in Range(s.devices) :
            /\ CompatibleNodes(s, AllocatedNode) # {}
            /\ d = AsTaken(alt, s, e) /\ d.node = s.node /\ d.amount \in Nat
            /\ s.node # NoNode /\ AllocatedNode \in {NoNode, s.node}
            /\ e.verdict[alt.class] = "match"
            /\ Fits(alt, e, AsTaken(alt, s, e), ChosenSets)
<1> DEFINE a == AllocatedNode
<1>1. PICK o \in Range(Offers(slices, a)) :
            Evaluate(alt, o, {}) = "accept" /\ d = Take(alt, o)
  BY DEF CollectIs
<1>2. IsOffer(o, slices, a)
  BY ManagedOffers DEF Planning, Acceptable
<1> HIDE DEF a
<1>3. PICK s \in Range(slices) : \E e \in Range(s.devices) :
            CompatibleNodes(s, a) # {} /\ o = Offer(s, e, a)
  BY <1>2 DEF IsOffer
<1>4. PICK e \in Range(s.devices) : CompatibleNodes(s, a) # {} /\ o = Offer(s, e, a)
  BY <1>3
<1>5. /\ s.node # NoNode /\ Offer(s, e, a).node = s.node
      /\ a \in {NoNode, s.node}
      /\ e.verdict[alt.class] = "match"
      /\ Take(alt, Offer(s, e, a)) = AsTaken(alt, s, e)
      /\ AsTaken(alt, s, e).amount \in Nat
      /\ Fits(alt, e, AsTaken(alt, s, e), ChosenSets)
  BY <1>1, <1>4, OffersAreRight
<1>6. AsTaken(alt, s, e).node = s.node
  BY DEF AsTaken
<1> QED
  BY <1>1, <1>4, <1>5, <1>6 DEF a

\* A number of devices of one node.
LEMMA ExactIsSelection ==
    ASSUME Planning, StepsAreWhole, NEW alt, Acceptable(alt), alt.mode # "All",
           NEW slices, Managed(slices), \A s \in Range(slices) : s.healthy,
           NEW count, NEW out,
           CollectIs(alt, Offers(slices, AllocatedNode), count, out),
           NEW s, IsList(s), Range(s) \subseteq Range(out.devices), NEW node,
           \A d \in Range(s) : d.node = node,
           \A i, j \in DOMAIN s : s[i].id = s[j].id => i = j,
           Len(s) = normalizedCount(alt), normalizedCount(alt) <= RemainingResults
    PROVE  IsSelection(s, alt)
<1>1. normalizedCount(alt) \in Nat \ {0}
  <2>1. alt.count \in Nat
    BY ClaimSearchAssumption DEF Acceptable, SupportedAlternative
  <2> QED
    BY <2>1 DEF normalizedCount
<1>2. s # <<>> /\ Range(s) # {} /\ 1 \in DOMAIN s
  BY <1>1, ListFacts
<1>3. ASSUME NEW d \in Range(s)
      PROVE  /\ \E t \in Range(input.slices) :
                    t.node = node /\ node # NoNode /\ AllocatedNode \in {NoNode, node}
             /\ d.amount \in Nat
             /\ d \in Suitable(alt, node, ChosenSets)
  <2>1. d \in Range(out.devices) /\ d.node = node
    OBVIOUS
  <2>2. PICK t \in Range(slices) : \E e \in Range(t.devices) :
            /\ CompatibleNodes(t, AllocatedNode) # {}
            /\ d = AsTaken(alt, t, e) /\ d.node = t.node /\ d.amount \in Nat
            /\ t.node # NoNode /\ AllocatedNode \in {NoNode, t.node}
            /\ e.verdict[alt.class] = "match"
            /\ Fits(alt, e, AsTaken(alt, t, e), ChosenSets)
    BY <2>1, CollectedFrom
  <2>3. t \in Range(input.slices) /\ t.managed /\ t.healthy /\ t.node = node
    BY <2>1, <2>2 DEF Managed
  <2>4. t \in SlicesFor(alt, node, ChosenSets)
    BY <2>3 DEF SlicesFor
  <2>5. d \in Suitable(alt, node, ChosenSets)
    BY <2>2, <2>4 DEF Suitable
  <2> QED
    BY <2>2, <2>3, <2>5
<1>4. PICK t \in Range(input.slices) :
            t.node = node /\ node # NoNode /\ AllocatedNode \in {NoNode, node}
  BY <1>2, <1>3
<1>5. \A d, e \in Range(s) : d.id = e.id => d = e
  BY DEF Range
<1>6. Cardinality(Range(s)) = normalizedCount(alt)
  BY CountOfDistinct
<1>7. Serves(Range(s), alt, node, ChosenSets)
  BY <1>2, <1>3, <1>5, <1>6 DEF Serves
<1>8. \A i \in DOMAIN s : s[i].amount \in Nat
  BY <1>3 DEF Range
<1> QED
  BY <1>2, <1>4, <1>7, <1>8 DEF IsSelection

\* The managed slices that serve a node.
LEMMA ManagedOnIs ==
    ASSUME WellFormed(input), NEW node, NEW allocated
    PROVE  LET on == ManagedOn(node, allocated) IN
           /\ Managed(on)
           /\ \A t : t \in Range(on) <=>
                /\ t \in Range(input.slices) /\ t.managed
                /\ node \in CompatibleNodes(t, allocated)
<1> DEFINE on == ManagedOn(node, allocated)
           I == {i \in DOMAIN input.slices :
                    /\ input.slices[i].managed
                    /\ node \in CompatibleNodes(input.slices[i], allocated)}
<1>1. on = AtIndexes(input.slices, I) /\ I \in SUBSET DOMAIN input.slices
  BY DEF ManagedOn
<1>2. IsList(input.slices)
  BY DEF WellFormed
<1>3. IsList(on) /\ Range(on) = {input.slices[i] : i \in I}
  <2> HIDE DEF I, on
  <2> QED
    BY <1>1, <1>2, AtIndexesList
<1>4. \A t : t \in Range(on) <=>
        /\ t \in Range(input.slices) /\ t.managed
        /\ node \in CompatibleNodes(t, allocated)
  <2> HIDE DEF on
  <2> QED
    BY <1>3 DEF Range
<1> QED
  BY <1>3, <1>4 DEF Managed

\* The slices of the latest generation of each pool.
LEMMA CurrentSlicesAre ==
    ASSUME NEW on, IsList(on)
    PROVE  /\ IsList(CurrentSlices(on))
           /\ \A t : t \in Range(CurrentSlices(on))
                        <=> \E i \in Current(on, PoolOf(t)) : on[i] = t
<1> DEFINE names == [i \in DOMAIN on |-> PoolOf(on[i])]
           pools == Distinct(names)
           seqs == [i \in DOMAIN pools |-> AtIndexes(on, Current(on, pools[i]))]
<1>1. CurrentSlices(on) = FlattenSeq(seqs)
  BY Zenon DEF CurrentSlices
<1>2. Len(on) \in Nat /\ DOMAIN on = 1..Len(on)
  BY ListFacts
<1>3. IsList(names) /\ Range(names) = {PoolOf(on[i]) : i \in DOMAIN on}
  <2>1. names \in [1..Len(on) -> {PoolOf(on[i]) : i \in DOMAIN on}]
    BY <1>2
  <2>2. IsList(names)
    <3> HIDE DEF names
    <3> QED
      BY <1>2, <2>1, IsListIf
  <2> QED
    BY <2>2 DEF Range
<1> HIDE DEF names
<1>4. IsList(pools) /\ Range(pools) = {PoolOf(on[i]) : i \in DOMAIN on}
  BY <1>3, DistinctIsList
<1> HIDE DEF pools
<1>5. \A p : /\ Current(on, p) \in SUBSET DOMAIN on
             /\ \A i \in Current(on, p) : PoolOf(on[i]) = p
  BY DEF Current
<1>6. \A p : /\ IsList(AtIndexes(on, Current(on, p)))
             /\ Range(AtIndexes(on, Current(on, p))) = {on[i] : i \in Current(on, p)}
  BY <1>5, AtIndexesList
<1>7. Len(pools) \in Nat /\ DOMAIN pools = 1..Len(pools)
  BY <1>4, ListFacts
<1>8. /\ IsList(seqs) /\ DOMAIN seqs = DOMAIN pools
      /\ \A k \in DOMAIN seqs : seqs[k] = AtIndexes(on, Current(on, pools[k]))
  <2>1. seqs \in [1..Len(pools) -> {AtIndexes(on, Current(on, p)) : p \in Range(pools)}]
    BY <1>4, <1>7, ListFacts
  <2>2. IsList(seqs)
    <3> HIDE DEF seqs
    <3> QED
      BY <1>7, <2>1, IsListIf
  <2> QED
    BY <2>2
<1> HIDE DEF seqs
<1>9. /\ IsList(FlattenSeq(seqs))
      /\ Range(FlattenSeq(seqs)) = UNION {Range(seqs[k]) : k \in DOMAIN seqs}
  <2>1. \A k \in DOMAIN seqs : IsList(seqs[k])
    BY <1>6, <1>8
  <2> QED
    BY <1>8, <2>1, FlattenLists
<1>10. ASSUME NEW t
       PROVE  t \in Range(FlattenSeq(seqs))
                    <=> \E i \in Current(on, PoolOf(t)) : on[i] = t
  <2>1. ASSUME t \in Range(FlattenSeq(seqs))
        PROVE  \E i \in Current(on, PoolOf(t)) : on[i] = t
    <3>1. PICK k \in DOMAIN seqs : t \in Range(seqs[k])
      BY <1>9, <2>1
    <3>2. PICK i \in Current(on, pools[k]) : t = on[i]
      BY <1>6, <1>8, <3>1
    <3>3. PoolOf(t) = pools[k]
      BY <1>5, <3>2
    <3> QED
      BY <3>2, <3>3
  <2>2. ASSUME NEW i \in Current(on, PoolOf(t)), on[i] = t
        PROVE  t \in Range(FlattenSeq(seqs))
    <3>1. i \in DOMAIN on
      BY <1>5
    <3>2. PoolOf(t) \in Range(pools)
      BY <1>4, <2>2, <3>1
    <3>3. PICK k \in DOMAIN pools : pools[k] = PoolOf(t)
      BY <3>2 DEF Range
    <3>4. t \in Range(seqs[k])
      BY <1>6, <1>8, <2>2, <3>3
    <3> QED
      BY <1>8, <1>9, <3>3, <3>4
  <2> QED
    BY <2>1, <2>2
<1> QED
  BY <1>1, <1>9, <1>10

\* Those of them that are healthy.
LEMMA HealthyAre ==
    ASSUME NEW slices, IsList(slices)
    PROVE  /\ IsList(Healthy(slices))
           /\ \A t : t \in Range(Healthy(slices)) <=> t \in Range(slices) /\ t.healthy
<1> DEFINE I == {i \in DOMAIN slices : slices[i].healthy}
<1>1. Healthy(slices) = AtIndexes(slices, I) /\ I \in SUBSET DOMAIN slices
  BY DEF Healthy
<1>2. IsList(Healthy(slices)) /\ Range(Healthy(slices)) = {slices[i] : i \in I}
  <2> HIDE DEF I
  <2> QED
    BY <1>1, AtIndexesList
<1> QED
  BY <1>2 DEF Range

\* completeCurrentPoolSlices: every current slice says how many there are.
LEMMA CompleteIsCovered ==
    ASSUME NEW on, IsList(on), \A t \in Range(on) : t.generation \in Int,
           Complete(on), NEW s \in Range(on), NEW i \in Current(on, PoolOf(s))
    PROVE  on[i].count = Cardinality(Current(on, PoolOf(s)))
<1> DEFINE current == Current(on, PoolOf(s))
           m == Min(current)
<1>1. /\ Len(on) \in Nat /\ DOMAIN on = 1..Len(on)
      /\ \A k \in DOMAIN on : on[k] \in Range(on)
  BY ListFacts
<1>2. /\ current \in SUBSET DOMAIN on
      /\ \A k \in current : PoolOf(on[k]) = PoolOf(s)
      /\ \A k \in current : \A t \in Range(on) :
            PoolOf(t) = PoolOf(s) => t.generation <= on[k].generation
  BY DEF Current
<1>3. Cardinality(current) = on[m].count
  BY DEF Complete
<1> HIDE DEF current
<1>4. m \in current /\ \A k \in current : m <= k
  <2>1. current \in SUBSET Nat /\ current # {}
    BY <1>1, <1>2 DEF current
  <2> QED
    BY <2>1, MinExists
<1> HIDE DEF m
<1>5. i \in current
  BY DEF current
<1>6. /\ m \in DOMAIN on /\ i \in DOMAIN on
      /\ PoolOf(on[m]) = PoolOf(on[i])
      /\ on[m].generation = on[i].generation
  <2>1. /\ m \in DOMAIN on /\ i \in DOMAIN on
        /\ PoolOf(on[m]) = PoolOf(s) /\ PoolOf(on[i]) = PoolOf(s)
    BY <1>2, <1>4, <1>5
  <2>2. /\ on[m].generation \in Int /\ on[i].generation \in Int
        /\ on[m].generation <= on[i].generation
        /\ on[i].generation <= on[m].generation
    BY <1>1, <1>2, <1>4, <1>5, <2>1
  <2> QED
    BY <2>1, <2>2
<1>7. CASE m = i
  BY <1>3, <1>7 DEF current
<1>8. CASE m # i
  <2>1. m < i
    BY <1>1, <1>2, <1>4, <1>5, <1>8
  <2>2. \A k \in 1..(i - 1) : \/ PoolOf(on[k]) # PoolOf(on[i])
                              \/ on[k].generation <= on[i].generation
    <3> TAKE k \in 1..(i - 1)
    <3>1. k \in DOMAIN on
      BY <1>1, <1>6
    <3> QED
      BY <1>1, <1>2, <1>5, <3>1
  <2>3. on[m].count = on[i].count
    BY <1>6, <2>1, <2>2 DEF Complete
  <2> QED
    BY <1>3, <2>3 DEF current
<1> QED
  BY <1>7, <1>8

\* All devices of one node.
LEMMA AllIsSelection ==
    ASSUME Planning, StepsAreWhole, NEW alt, Acceptable(alt), alt.mode = "All",
           NEW node, NEW out,
           out = AllDevicesOf(alt, ManagedOn(node, AllocatedNode), AllocatedNode),
           out.failure = "none", Len(out.devices) \in 1..RemainingResults
    PROVE  IsSelection(out.devices, alt)
<1> DEFINE a == AllocatedNode
           on == ManagedOn(node, a)
           slices == Healthy(CurrentSlices(on))
           set == Range(out.devices)
           suitable == Suitable(alt, node, ChosenSets)
<1>1. /\ Managed(on) /\ IsList(on)
      /\ \A t : t \in Range(on) <=> /\ t \in Range(input.slices) /\ t.managed
                                    /\ node \in CompatibleNodes(t, a)
  BY ManagedOnIs DEF Managed, Planning
<1>2. SlicesOn(node, ChosenSets) = on
  BY NodeOfPlan
<1>3. Complete(on) /\ out = Collect(alt, Offers(slices, a), 0)
  <2>1. ~Complete(on) => out.failure = "Unsupported"
    BY DEF AllDevicesOf, NoCandidates
  <2> QED
    BY <2>1, Zenon DEF AllDevicesOf
<1> HIDE DEF a, on
<1>4. /\ IsList(slices)
      /\ \A t : t \in Range(slices)
                    <=> t.healthy /\ \E i \in Current(on, PoolOf(t)) : on[i] = t
  BY <1>1, CurrentSlicesAre, HealthyAre
<1>5. \A t \in Range(slices) : t \in Range(on)
  BY <1>4 DEF Current, Range
<1> HIDE DEF slices
<1>6. Managed(slices)
  BY <1>1, <1>4, <1>5 DEF Managed
<1>7. CollectIs(alt, Offers(slices, a), 0, out)
  <2>1. /\ IsList(Offers(slices, a))
        /\ \A o \in Range(Offers(slices, a)) : Decidable(alt, o)
    BY <1>6, ManagedOffers DEF Planning, Acceptable
  <2> QED
    BY <1>3, <2>1, CollectFacts
<1>8. /\ IsList(out.devices)
      /\ \A i, j \in DOMAIN out.devices :
            out.devices[i].id = out.devices[j].id => i = j
      /\ \A o \in Range(Offers(slices, a)) :
            \/ \E d \in set : d.id = Identity(o)
            \/ \E seen : Identity(o) \notin seen /\ Evaluate(alt, o, seen) = "skip"
  BY <1>7 DEF CollectIs
<1>9. out.devices # <<>> /\ set # {}
  BY <1>8, ListFacts
<1>10. \A t : t \in SlicesFor(alt, node, ChosenSets)
            <=> /\ t \in Range(input.slices) /\ t.managed /\ t.node = node
                /\ t \in Range(slices)
  BY <1>2, <1>4 DEF SlicesFor
<1>11. ASSUME NEW d \in set
       PROVE  /\ \E t \in Range(input.slices) :
                    t.node = node /\ node # NoNode /\ a \in {NoNode, node}
              /\ d.amount \in Nat /\ d \in suitable
  <2>1. PICK t \in Range(slices) : \E e \in Range(t.devices) :
            /\ CompatibleNodes(t, AllocatedNode) # {}
            /\ d = AsTaken(alt, t, e) /\ d.node = t.node /\ d.amount \in Nat
            /\ t.node # NoNode /\ AllocatedNode \in {NoNode, t.node}
            /\ e.verdict[alt.class] = "match"
            /\ Fits(alt, e, AsTaken(alt, t, e), ChosenSets)
    BY <1>6, <1>7, CollectedFrom DEF a
  <2>2. t \in Range(input.slices) /\ t.managed /\ node \in CompatibleNodes(t, a)
    BY <1>1, <1>5
  <2>3. t.node = node
    <3>1. CompatibleNodes(t, a) = {t.node}
      BY <2>1, OfferNode DEF a
    <3> QED
      BY <2>2, <3>1
  <2>4. t \in SlicesFor(alt, node, ChosenSets)
    BY <1>10, <2>2, <2>3
  <2>5. d \in suitable
    BY <2>1, <2>4 DEF Suitable
  <2> QED
    BY <2>1, <2>2, <2>3, <2>5 DEF a
<1>12. PICK t \in Range(input.slices) :
            t.node = node /\ node # NoNode /\ a \in {NoNode, node}
  BY <1>9, <1>11
<1>13. ASSUME NEW d \in suitable PROVE \E c \in set : c.id = d.id
  <2>1. PICK s \in SlicesFor(alt, node, ChosenSets) :
            \E e \in Range(s.devices) :
                /\ d = AsTaken(alt, s, e) /\ e.verdict[alt.class] = "match"
                /\ Fits(alt, e, AsTaken(alt, s, e), ChosenSets)
    BY DEF Suitable
  <2>2. PICK e \in Range(s.devices) :
            /\ d = AsTaken(alt, s, e) /\ e.verdict[alt.class] = "match"
            /\ Fits(alt, e, AsTaken(alt, s, e), ChosenSets)
    BY <2>1
  <2>3. s \in Range(slices) /\ CompatibleNodes(s, a) # {}
    BY <1>1, <1>5, <1>10
  <2> DEFINE o == Offer(s, e, a)
  <2>4. o \in Range(Offers(slices, a))
    <3>1. IsOffer(o, slices, a)
      BY <2>2, <2>3 DEF IsOffer
    <3> QED
      BY <1>6, <3>1, ManagedOffers DEF Planning, Acceptable
  <2>5. Identity(o) = d.id
    BY <2>2 DEF Identity, Offer, AsTaken
  <2>6. \A seen :
            /\ Evaluate(alt, o, seen) = "skip"
            /\ Identity(o) \notin seen /\ e.verdict[alt.class] = "match"
            => ~Fits(alt, e, AsTaken(alt, s, e), ChosenSets)
    BY <1>6, <2>3, OffersAreRight
  <2> HIDE DEF o
  <2> QED
    BY <1>8, <2>2, <2>4, <2>5, <2>6
<1>14. Covered(node, ChosenSets)
  <2>1. \A r \in Range(on) : r.generation \in Int
    BY <1>1 DEF Planning, WellFormed, IsSlice
  <2>2. \A r \in Range(on) : \A i \in Current(on, PoolOf(r)) :
            on[i].count = Cardinality(Current(on, PoolOf(r)))
    BY <1>1, <1>3, <2>1, CompleteIsCovered
  <2> QED
    BY <1>2, <2>2 DEF Covered
<1>15. \A d, e \in set : d.id = e.id => d = e
  BY <1>8 DEF Range
<1>16. {d.id : d \in set} = {d.id : d \in suitable}
  BY <1>11, <1>13
<1>17. Serves(set, alt, node, ChosenSets)
  <2>1. set \subseteq suitable
    BY <1>11
  <2> HIDE DEF set
  <2> QED
    BY <1>9, <1>14, <1>15, <1>16, <2>1 DEF Serves
<1>18. \A i \in DOMAIN out.devices : out.devices[i].amount \in Nat
  BY <1>11 DEF Range
<1> QED
  BY <1>8, <1>9, <1>12, <1>17, <1>18 DEF IsSelection, a

-----------------------------------------------------------------------------
(* What an alternative leads to.                                           *)

\* The greatest of a set of indexes.
LEMMA MaxExists ==
    ASSUME NEW n \in Nat, NEW S \in SUBSET (1..n), S # {}
    PROVE  Max(S) \in S
<1> DEFINE T == {n - x : x \in S}
<1>1. T \in SUBSET Nat /\ T # {}
  <2>1. \A x \in S : n - x \in Nat
    OBVIOUS
  <2>2. PICK x \in S : TRUE
    OBVIOUS
  <2>3. n - x \in T
    BY <2>2
  <2> QED
    BY <2>1, <2>3
<1>2. Min(T) \in T /\ \A y \in T : Min(T) <= y
  <2> HIDE DEF T
  <2> QED
    BY <1>1, MinExists
<1>3. PICK x \in S : Min(T) = n - x
  BY <1>2
<1>4. \A y \in S : x >= y
  <2> TAKE y \in S
  <2>1. n - x <= n - y
    BY <1>2, <1>3
  <2> QED
    BY <2>1
<1>5. \E z \in S : \A y \in S : z >= y
  BY <1>4
<1> QED
  BY <1>5 DEF Max

\* The nodes of the managed slices are a list of nodes.
LEMMA NodesAreList ==
    ASSUME WellFormed(input), NEW allocated
    PROVE  IsList(ManagedNodes(allocated))
<1> DEFINE I == {i \in DOMAIN input.slices :
                    /\ input.slices[i].managed
                    /\ CompatibleNodes(input.slices[i], allocated) # {}}
           slices == AtIndexes(input.slices, I)
           nodes == [i \in DOMAIN slices |-> The(CompatibleNodes(slices[i], allocated))]
<1>1. ManagedNodes(allocated) = Distinct(nodes)
  BY DEF ManagedNodes
<1>2. I \in SUBSET DOMAIN input.slices
  OBVIOUS
<1>3. IsList(slices)
  <2> HIDE DEF I
  <2> QED
    BY <1>2, AtIndexesList DEF WellFormed
<1> HIDE DEF slices
<1>4. Len(slices) \in Nat /\ DOMAIN slices = 1..Len(slices)
  BY <1>3, ListFacts
<1>5. nodes \in [1..Len(slices) ->
                    {The(CompatibleNodes(slices[i], allocated)) : i \in DOMAIN slices}]
  BY <1>4
<1> HIDE DEF nodes
<1>6. IsList(nodes)
  BY <1>4, <1>5, IsListIf
<1> QED
  BY <1>1, <1>6, DistinctIsList

\* What the devices of one node lead to.
LEMMA AllDevicesType ==
    ASSUME WellFormed(input), NEW alt, alt.class \in input.classes,
           NEW node, NEW allocated
    PROVE  AllDevicesOf(alt, ManagedOn(node, allocated), allocated).failure
                \in {"none"} \cup Failures
<1> DEFINE on == ManagedOn(node, allocated)
           slices == Healthy(CurrentSlices(on))
           offers == Offers(slices, allocated)
<1>1. Managed(on) /\ IsList(on)
  BY ManagedOnIs DEF Managed
<1> HIDE DEF on
<1>2. Managed(slices)
  <2>1. /\ IsList(slices)
        /\ \A t \in Range(slices) : \E i \in Current(on, PoolOf(t)) : on[i] = t
    BY <1>1, CurrentSlicesAre, HealthyAre
  <2>2. \A t \in Range(slices) : t \in Range(on)
    BY <2>1 DEF Current, Range
  <2> QED
    BY <1>1, <2>1, <2>2 DEF Managed
<1> HIDE DEF slices
<1>3. IsList(offers) /\ \A o \in Range(offers) : Decidable(alt, o)
  BY <1>2, ManagedOffers
<1> HIDE DEF offers
<1>4. Collect(alt, offers, 0).failure \in {"none"} \cup Failures
  BY <1>3, CollectFacts DEF CollectIs
<1>5. CASE Complete(on)
  BY <1>4, <1>5, Zenon DEF AllDevicesOf, offers, slices, on
<1>6. CASE ~Complete(on)
  BY <1>6 DEF AllDevicesOf, NoCandidates, Failures, on
<1> QED
  BY <1>5, <1>6

\* The slices whose devices an ExactCount alternative is offered.
Eligible ==
    AtIndexes(input.slices, {i \in DOMAIN input.slices :
                input.slices[i].managed /\ input.slices[i].healthy})

\* The eligible slices are managed and healthy.
LEMMA EligibleIs ==
    ASSUME WellFormed(input)
    PROVE  /\ Managed(Eligible) /\ \A s \in Range(Eligible) : s.healthy
           /\ EligibleOffers = Offers(Eligible, AllocatedNode)
<1> DEFINE I == {i \in DOMAIN input.slices :
                    input.slices[i].managed /\ input.slices[i].healthy}
<1>1. Eligible = AtIndexes(input.slices, I) /\ I \in SUBSET DOMAIN input.slices
  BY DEF Eligible
<1>2. IsList(Eligible) /\ Range(Eligible) = {input.slices[i] : i \in I}
  <2> HIDE DEF I
  <2> QED
    BY <1>1, AtIndexesList DEF WellFormed
<1>3. EligibleOffers = Offers(Eligible, AllocatedNode)
  BY DEF EligibleOffers, Eligible
<1>4. \A s \in Range(Eligible) :
            s \in Range(input.slices) /\ s.managed /\ s.healthy
  BY <1>2 DEF Range
<1> QED
  BY <1>2, <1>3, <1>4 DEF Managed

\* What is collected from them.
LEMMA EligibleCollected ==
    ASSUME WellFormed(input), NEW alt, alt.class \in input.classes,
           NEW count \in Nat
    PROVE  CollectIs(alt, Offers(Eligible, AllocatedNode), count,
                     Collect(alt, EligibleOffers, count))
<1>1. Managed(Eligible) /\ EligibleOffers = Offers(Eligible, AllocatedNode)
  BY EligibleIs
<1>2. /\ IsList(Offers(Eligible, AllocatedNode))
      /\ \A o \in Range(Offers(Eligible, AllocatedNode)) : Decidable(alt, o)
  BY <1>1, ManagedOffers
<1> QED
  BY <1>1, <1>2, CollectFacts

\* The devices of a node, by node.
LEMMA OnNodeIs ==
    ASSUME NEW devices, IsList(devices),
           \A i, j \in DOMAIN devices : devices[i].id = devices[j].id => i = j,
           NEW node
    PROVE  LET some == OnNode(devices, node)
               I == {i \in DOMAIN devices : devices[i].node = node}
           IN  /\ IsList(some) /\ Len(some) = Cardinality(I)
               /\ Range(some) \subseteq Range(devices)
               /\ \A d \in Range(some) : d.node = node
               /\ \A k, m \in DOMAIN some : some[k].id = some[m].id => k = m
<1> DEFINE some == OnNode(devices, node)
           I == {i \in DOMAIN devices : devices[i].node = node}
<1>1. some = AtIndexes(devices, I) /\ I \in SUBSET DOMAIN devices
  BY DEF OnNode
<1>2. \A i \in I : devices[i].node = node
  OBVIOUS
<1> HIDE DEF some, I
<1>3. /\ IsList(some) /\ Len(some) = Cardinality(I)
      /\ Range(some) = {devices[i] : i \in I}
      /\ \A k, m \in DOMAIN some : some[k].id = some[m].id => k = m
  BY <1>1, SomeOfDistinct
<1>4. Range(some) \subseteq Range(devices) /\ \A d \in Range(some) : d.node = node
  BY <1>1, <1>2, <1>3 DEF Range
<1> QED
  BY <1>3, <1>4 DEF some, I

\* Lists of selections.
AreSelections(selections, alt) ==
    IsList(selections) /\ \A s \in Range(selections) : IsSelection(s, alt)

\* No selection, and one.
LEMMA OneSelection ==
    ASSUME NEW s, NEW alt
    PROVE  /\ IsList(<<>>) /\ IsList(<<s>>)
           /\ Range(<<>>) = {} /\ Range(<<s>>) = {s}
           /\ AreSelections(<<>>, alt)
           /\ IsSelection(s, alt) => AreSelections(<<s>>, alt)
<1>1. IsList(<<>>) /\ Range(<<>>) = {}
  BY DEF IsList, Range
<1>2. Range(<<s>>) = {s}
  BY DEF Range
<1>3. IsList(<<s>>)
  BY <1>2 DEF IsList
<1> QED
  BY <1>1, <1>2, <1>3 DEF AreSelections

\* forEachConstrainedExactSelection.
LEMMA ExactSelectionsAre ==
    ASSUME Planning, StepsAreWhole, NEW alt, Acceptable(alt), alt.mode # "All",
           normalizedCount(alt) <= RemainingResults
    PROVE  AreSelections(ExactSelections(Collect(alt, EligibleOffers, 0),
                            normalizedCount(alt)).selections, alt)
<1> DEFINE out == Collect(alt, EligibleOffers, 0)
           count == normalizedCount(alt)
           nodes == NodesOf(out.devices)
           seqs == [i \in DOMAIN nodes |->
                        Combinations(OnNode(out.devices, nodes[i]), count)]
           answer == ExactSelections(out, count).selections
<1>1. CollectIs(alt, Offers(Eligible, AllocatedNode), 0, out)
  BY EligibleCollected DEF Planning, Acceptable
<1>2. count \in Nat
  <2>1. alt.count \in Nat
    BY ClaimSearchAssumption DEF Acceptable, SupportedAlternative
  <2> QED
    BY <2>1 DEF normalizedCount
<1>3. answer = IF out.failure # "none" THEN <<>> ELSE FlattenSeq(seqs)
  BY DEF ExactSelections, Nothing
<1>4. Managed(Eligible) /\ \A s \in Range(Eligible) : s.healthy
  BY EligibleIs DEF Planning
<1> HIDE DEF out, count
<1>5. /\ IsList(out.devices)
      /\ \A i, j \in DOMAIN out.devices :
            out.devices[i].id = out.devices[j].id => i = j
  BY <1>1 DEF CollectIs
<1>6. IsList(nodes)
  <2> DEFINE names == [i \in DOMAIN out.devices |-> out.devices[i].node]
  <2>1. Len(out.devices) \in Nat /\ DOMAIN out.devices = 1..Len(out.devices)
    BY <1>5, ListFacts
  <2>2. names \in [1..Len(out.devices) -> {out.devices[i].node : i \in DOMAIN out.devices}]
    BY <2>1
  <2>3. nodes = Distinct(names)
    BY DEF NodesOf
  <2> HIDE DEF names, nodes
  <2>4. IsList(names)
    BY <2>1, <2>2, IsListIf
  <2> QED
    BY <2>3, <2>4, DistinctIsList
<1> HIDE DEF nodes
<1>7. ASSUME NEW node
      PROVE  LET all == Combinations(OnNode(out.devices, node), count) IN
             IsList(all) /\ \A s \in Range(all) : IsSelection(s, alt)
  <2> DEFINE some == OnNode(out.devices, node)
             all == Combinations(some, count)
  <2>1. /\ IsList(some) /\ Range(some) \subseteq Range(out.devices)
        /\ \A d \in Range(some) : d.node = node
        /\ \A k, m \in DOMAIN some : some[k].id = some[m].id => k = m
    BY <1>5, OnNodeIs
  <2> HIDE DEF some
  <2>2. /\ IsList(all)
        /\ \A s \in Range(all) : \E I \in SUBSET DOMAIN some :
                Cardinality(I) = count /\ s = AtIndexes(some, I)
    BY <1>2, <2>1, CombinationsAre
  <2>3. ASSUME NEW s \in Range(all) PROVE IsSelection(s, alt)
    <3>1. PICK I \in SUBSET DOMAIN some :
                Cardinality(I) = count /\ s = AtIndexes(some, I)
      BY <2>2
    <3>2. /\ IsList(s) /\ Len(s) = count
          /\ Range(s) = {some[i] : i \in I}
          /\ \A k, m \in DOMAIN s : s[k].id = s[m].id => k = m
      BY <2>1, <3>1, SomeOfDistinct
    <3>3. Range(s) \subseteq Range(some)
      BY <3>2 DEF Range
    <3>4. Range(s) \subseteq Range(out.devices) /\ \A d \in Range(s) : d.node = node
      BY <2>1, <3>3
    <3>5. Len(s) = normalizedCount(alt)
      BY <3>2 DEF count
    <3> QED
      BY <1>1, <1>4, <3>2, <3>4, <3>5, ExactIsSelection
  <2> QED
    BY <2>2, <2>3 DEF some
<1>8. /\ IsList(seqs) /\ DOMAIN seqs = DOMAIN nodes
      /\ \A i \in DOMAIN seqs : seqs[i] = Combinations(OnNode(out.devices, nodes[i]), count)
  <2>1. Len(nodes) \in Nat /\ DOMAIN nodes = 1..Len(nodes)
    BY <1>6, ListFacts
  <2>2. seqs \in [1..Len(nodes) ->
            {Combinations(OnNode(out.devices, nodes[i]), count) : i \in DOMAIN nodes}]
    BY <2>1
  <2>3. IsList(seqs)
    <3> HIDE DEF seqs
    <3> QED
      BY <2>1, <2>2, IsListIf
  <2> QED
    BY <2>3
<1> HIDE DEF seqs
<1>9. \A i \in DOMAIN seqs :
            IsList(seqs[i]) /\ \A s \in Range(seqs[i]) : IsSelection(s, alt)
  BY <1>7, <1>8
<1>10. /\ IsList(FlattenSeq(seqs))
       /\ Range(FlattenSeq(seqs)) = UNION {Range(seqs[i]) : i \in DOMAIN seqs}
  BY <1>8, <1>9, FlattenLists
<1>11. AreSelections(FlattenSeq(seqs), alt)
  BY <1>9, <1>10 DEF AreSelections
<1>12. AreSelections(answer, alt)
  BY <1>3, <1>11, OneSelection
<1> QED
  BY <1>12 DEF out, count

\* selectExactCountAlternative.
LEMMA FirstExactSelectionIs ==
    ASSUME Planning, StepsAreWhole, NEW alt, Acceptable(alt), alt.mode # "All",
           normalizedCount(alt) <= RemainingResults
    PROVE  AreSelections(FirstExactSelection(
                Collect(alt, EligibleOffers, normalizedCount(alt))).selections, alt)
<1> DEFINE count == normalizedCount(alt)
           out == Collect(alt, EligibleOffers, count)
           node == The(out.full)
           some == OnNode(out.devices, node)
           answer == FirstExactSelection(out).selections
<1>1. count \in Nat
  <2>1. alt.count \in Nat
    BY ClaimSearchAssumption DEF Acceptable, SupportedAlternative
  <2> QED
    BY <2>1 DEF normalizedCount
<1>2. CollectIs(alt, Offers(Eligible, AllocatedNode), count, out)
  <2> HIDE DEF count
  <2> QED
    BY <1>1, EligibleCollected DEF Planning, Acceptable
<1>3. answer = IF out.full = {} THEN <<>> ELSE <<some>>
  BY DEF FirstExactSelection, Nothing
<1>4. Managed(Eligible) /\ \A s \in Range(Eligible) : s.healthy
  BY EligibleIs DEF Planning
<1> HIDE DEF out
<1>5. /\ IsList(out.devices)
      /\ \A i, j \in DOMAIN out.devices :
            out.devices[i].id = out.devices[j].id => i = j
      /\ \A n \in out.full :
            Cardinality({i \in DOMAIN out.devices : out.devices[i].node = n}) = count
  BY <1>2 DEF CollectIs
<1>6. CASE out.full = {}
  BY <1>3, <1>6, OneSelection DEF out
<1>7. CASE out.full # {}
  <2>1. node \in out.full
    BY <1>7 DEF The
  <2> HIDE DEF node, count
  <2>2. /\ IsList(some) /\ Range(some) \subseteq Range(out.devices)
        /\ Len(some) = Cardinality({i \in DOMAIN out.devices : out.devices[i].node = node})
        /\ \A d \in Range(some) : d.node = node
        /\ \A k, m \in DOMAIN some : some[k].id = some[m].id => k = m
    BY <1>5, OnNodeIs
  <2>3. Len(some) = normalizedCount(alt)
    BY <1>5, <2>1, <2>2 DEF count
  <2> HIDE DEF some
  <2>4. IsSelection(some, alt)
    BY <1>2, <1>4, <2>2, <2>3, ExactIsSelection
  <2>5. AreSelections(<<some>>, alt)
    BY <2>4, OneSelection
  <2> QED
    BY <1>3, <1>7, <2>5 DEF out, some, node, count
<1> QED
  BY <1>6, <1>7

\* The answers of the nodes to an All alternative.
LEMMA ByNode ==
    ASSUME WellFormed(input), NEW alt, alt.class \in input.classes
    PROVE  LET nodes == ManagedNodes(AllocatedNode)
               byNode == AllDevicesByNode(alt, nodes, AllocatedNode)
           IN  /\ DOMAIN byNode = DOMAIN nodes
               /\ DOMAIN nodes = 1..Len(nodes) /\ Len(nodes) \in Nat
               /\ \A i \in DOMAIN byNode :
                    /\ byNode[i] = AllDevicesOf(alt,
                            ManagedOn(nodes[i], AllocatedNode), AllocatedNode)
                    /\ byNode[i].failure \in {"none"} \cup Failures
<1> DEFINE nodes == ManagedNodes(AllocatedNode)
           byNode == AllDevicesByNode(alt, nodes, AllocatedNode)
<1>1. DOMAIN nodes = 1..Len(nodes) /\ Len(nodes) \in Nat
  BY NodesAreList, ListFacts
<1> HIDE DEF nodes
<1>2. /\ DOMAIN byNode = DOMAIN nodes
      /\ \A i \in DOMAIN byNode :
            byNode[i] = AllDevicesOf(alt, ManagedOn(nodes[i], AllocatedNode), AllocatedNode)
  BY DEF AllDevicesByNode
<1> HIDE DEF byNode
<1>3. \A i \in DOMAIN byNode : byNode[i].failure \in {"none"} \cup Failures
  BY <1>2, AllDevicesType
<1> QED
  BY <1>1, <1>2, <1>3 DEF nodes, byNode

\* forEachConstrainedAllSelection.
LEMMA AllSelectionsAre ==
    ASSUME Planning, StepsAreWhole, NEW alt, Acceptable(alt), alt.mode = "All"
    PROVE  AreSelections(AllSelections(AllDevicesByNode(alt,
                ManagedNodes(AllocatedNode), AllocatedNode)).selections, alt)
<1> DEFINE nodes == ManagedNodes(AllocatedNode)
           byNode == AllDevicesByNode(alt, nodes, AllocatedNode)
           failing == {i \in DOMAIN byNode : byNode[i].failure # "none"}
           usable == DOMAIN byNode \ failing
           One(i) == IF i \in usable /\ Len(byNode[i].devices) \in 1..RemainingResults
                     THEN <<byNode[i].devices>> ELSE <<>>
           seqs == [i \in DOMAIN byNode |-> One(i)]
           answer == AllSelections(byNode).selections
<1>1. /\ DOMAIN byNode = 1..Len(nodes) /\ Len(nodes) \in Nat
      /\ \A i \in DOMAIN byNode :
            byNode[i] = AllDevicesOf(alt, ManagedOn(nodes[i], AllocatedNode), AllocatedNode)
  BY ByNode DEF Planning, Acceptable
<1>2. answer = FlattenSeq(seqs)
  BY DEF AllSelections, Nothing
<1> HIDE DEF byNode, nodes
<1>3. ASSUME NEW i \in DOMAIN byNode PROVE AreSelections(One(i), alt)
  <2>1. CASE i \in usable /\ Len(byNode[i].devices) \in 1..RemainingResults
    <3>1. byNode[i].failure = "none"
      BY <2>1
    <3>2. IsSelection(byNode[i].devices, alt)
      BY <1>1, <2>1, <3>1, AllIsSelection
    <3> QED
      BY <2>1, <3>2, OneSelection
  <2>2. CASE ~(i \in usable /\ Len(byNode[i].devices) \in 1..RemainingResults)
    BY <2>2, OneSelection
  <2> QED
    BY <2>1, <2>2
<1> HIDE DEF One
<1>4. /\ IsList(seqs) /\ DOMAIN seqs = DOMAIN byNode
      /\ \A i \in DOMAIN seqs : seqs[i] = One(i)
  <2>1. seqs \in [1..Len(nodes) -> {One(i) : i \in DOMAIN byNode}]
    BY <1>1
  <2>2. IsList(seqs)
    <3> HIDE DEF seqs
    <3> QED
      BY <1>1, <2>1, IsListIf
  <2> QED
    BY <2>2
<1> HIDE DEF seqs
<1>5. \A i \in DOMAIN seqs :
            IsList(seqs[i]) /\ \A s \in Range(seqs[i]) : IsSelection(s, alt)
  BY <1>3, <1>4 DEF AreSelections
<1>6. /\ IsList(FlattenSeq(seqs))
      /\ Range(FlattenSeq(seqs)) = UNION {Range(seqs[i]) : i \in DOMAIN seqs}
  BY <1>4, <1>5, FlattenLists
<1>7. AreSelections(FlattenSeq(seqs), alt)
  BY <1>5, <1>6 DEF AreSelections
<1> QED
  BY <1>2, <1>7 DEF byNode, nodes

\* selectAllAlternative.
LEMMA FirstAllSelectionIs ==
    ASSUME Planning, StepsAreWhole, NEW alt, Acceptable(alt), alt.mode = "All",
           NEW complete \in SUBSET DOMAIN ManagedNodes(AllocatedNode)
    PROVE  AreSelections(FirstAllSelection(AllDevicesByNode(alt,
                ManagedNodes(AllocatedNode), AllocatedNode), complete).selections, alt)
<1> DEFINE nodes == ManagedNodes(AllocatedNode)
           byNode == AllDevicesByNode(alt, nodes, AllocatedNode)
           decisive == {i \in complete :
                \/ byNode[i].failure # "none"
                \/ Len(byNode[i].devices) \in 1..RemainingResults}
           first == byNode[Min(decisive)]
           answer == FirstAllSelection(byNode, complete).selections
<1>1. /\ DOMAIN byNode = 1..Len(nodes) /\ Len(nodes) \in Nat
      /\ DOMAIN byNode = DOMAIN nodes
      /\ \A i \in DOMAIN byNode :
            byNode[i] = AllDevicesOf(alt, ManagedOn(nodes[i], AllocatedNode), AllocatedNode)
  BY ByNode DEF Planning, Acceptable
<1>2. /\ decisive = {} => answer = <<>>
      /\ decisive # {} => answer = IF first.failure # "none"
                                   THEN <<>> ELSE <<first.devices>>
  BY DEF FirstAllSelection, Nothing
<1>3. complete \in SUBSET DOMAIN byNode
  BY <1>1
<1> HIDE DEF byNode, nodes
<1>4. decisive \in SUBSET DOMAIN byNode /\ decisive \in SUBSET Nat
  BY <1>1, <1>3
<1>5. CASE decisive # {} /\ first.failure = "none"
  <2>1. Min(decisive) \in decisive
    <3> HIDE DEF decisive
    <3> QED
      BY <1>4, <1>5, MinExists
  <2>2. PICK i \in decisive : i = Min(decisive)
    BY <2>1
  <2>3. /\ i \in DOMAIN byNode /\ byNode[i].failure = "none"
        /\ Len(byNode[i].devices) \in 1..RemainingResults
    BY <1>4, <1>5, <2>2
  <2>4. IsSelection(byNode[i].devices, alt)
    BY <1>1, <2>3, AllIsSelection
  <2>5. AreSelections(<<byNode[i].devices>>, alt)
    BY <2>4, OneSelection
  <2> QED
    BY <1>2, <1>5, <2>2, <2>5 DEF byNode, nodes
<1>6. CASE ~(decisive # {} /\ first.failure = "none")
  <2>1. answer = <<>>
    BY <1>2, <1>6
  <2> QED
    BY <2>1, OneSelection DEF byNode, nodes
<1> QED
  BY <1>5, <1>6

\* Whatever an alternative leads to serves it.
LEMMA OutcomeSelections ==
    ASSUME Planning, StepsAreWhole, pc \in {"search", "greedy"},
           NEW alt, IsAlternative(alt), SupportedAlternative(alt)
    PROVE  /\ AreSelections(AlternativeOutcome(alt).selections, alt)
           /\ AlternativeOutcome(alt).selections # <<>> => alt.class \in input.classes
<1> DEFINE answer == AlternativeOutcome(alt)
           nodes == ManagedNodes(AllocatedNode)
           byNode == AllDevicesByNode(alt, nodes, AllocatedNode)
           complete == {i \in DOMAIN nodes : Complete(ManagedOn(nodes[i], AllocatedNode))}
<1>1. CASE alt.class \notin input.classes
  <2>1. answer.selections = <<>>
    BY <1>1 DEF AlternativeOutcome, Nothing
  <2> QED
    BY <2>1, OneSelection
<1>2. CASE alt.class \in input.classes /\ alt.mode = "All"
  <2>1. Acceptable(alt)
    BY <1>2 DEF Acceptable
  <2>2. answer = IF pc = "greedy" THEN FirstAllSelection(byNode, complete)
                 ELSE AllSelections(byNode)
    BY <1>2 DEF AlternativeOutcome, AllOutcome
  <2>3. AreSelections(AllSelections(byNode).selections, alt)
    BY <1>2, <2>1, AllSelectionsAre
  <2>4. AreSelections(FirstAllSelection(byNode, complete).selections, alt)
    <3>1. complete \in SUBSET DOMAIN nodes
      OBVIOUS
    <3> HIDE DEF complete
    <3> QED
      BY <1>2, <2>1, <3>1, FirstAllSelectionIs
  <2> QED
    BY <1>2, <2>2, <2>3, <2>4
<1>3. CASE alt.class \in input.classes /\ alt.mode # "All"
  <2> DEFINE count == normalizedCount(alt)
  <2>1. Acceptable(alt)
    BY <1>3 DEF Acceptable
  <2>2. CASE count > RemainingResults
    <3>1. answer.selections = <<>>
      BY <1>3, <2>2 DEF AlternativeOutcome, Nothing
    <3> QED
      BY <1>3, <3>1, OneSelection
  <2>3. CASE ~(count > RemainingResults)
    <3>1. count <= RemainingResults
      <4>1. count \in Nat
        <5>1. alt.count \in Nat
          BY <1>3, ClaimSearchAssumption DEF SupportedAlternative
        <5> QED
          BY <5>1 DEF normalizedCount
      <4>2. RemainingResults \in Int
        <5>1. Len(Taken) \in Nat
          BY TakenIsResults, ListFacts DEF Planning
        <5> QED
          BY <5>1, ClaimSearchAssumption DEF RemainingResults
      <4> QED
        BY <2>3, <4>1, <4>2
    <3>2. answer = IF pc = "greedy"
                   THEN FirstExactSelection(Collect(alt, EligibleOffers, count))
                   ELSE ExactSelections(Collect(alt, EligibleOffers, 0), count)
      BY <1>3, <2>3 DEF AlternativeOutcome, ExactOutcome
    <3>3. AreSelections(ExactSelections(Collect(alt, EligibleOffers, 0), count).selections, alt)
      BY <1>3, <2>1, <3>1, ExactSelectionsAre
    <3>4. AreSelections(FirstExactSelection(Collect(alt, EligibleOffers, count)).selections, alt)
      BY <1>3, <2>1, <3>1, FirstExactSelectionIs
    <3> QED
      BY <1>3, <3>2, <3>3, <3>4
  <2> QED
    BY <2>2, <2>3
<1> QED
  BY <1>1, <1>2, <1>3

\* And if it leads nowhere, for one of the reasons.
LEMMA OutcomeFailure ==
    ASSUME WellFormed(input), NEW alt, SupportedAlternative(alt)
    PROVE  AlternativeOutcome(alt).failure \in {"none"} \cup Failures
<1> DEFINE answer == AlternativeOutcome(alt)
           nodes == ManagedNodes(AllocatedNode)
           byNode == AllDevicesByNode(alt, nodes, AllocatedNode)
           complete == {i \in DOMAIN nodes : Complete(ManagedOn(nodes[i], AllocatedNode))}
           count == normalizedCount(alt)
<1>1. CASE alt.class \notin input.classes
  BY <1>1 DEF AlternativeOutcome, Nothing
<1>2. CASE alt.class \in input.classes /\ alt.mode = "All"
  <2>1. answer = IF pc = "greedy" THEN FirstAllSelection(byNode, complete)
                 ELSE AllSelections(byNode)
    BY <1>2 DEF AlternativeOutcome, AllOutcome
  <2>2. /\ DOMAIN byNode = 1..Len(nodes) /\ Len(nodes) \in Nat
        /\ DOMAIN byNode = DOMAIN nodes
        /\ \A i \in DOMAIN byNode : byNode[i].failure \in {"none"} \cup Failures
    BY <1>2, ByNode
  <2>3. complete \in SUBSET DOMAIN nodes
    OBVIOUS
  <2> HIDE DEF nodes, byNode, complete
  <2>4. FirstAllSelection(byNode, complete).failure \in {"none"} \cup Failures
    <3> DEFINE decisive == {i \in complete :
                    \/ byNode[i].failure # "none"
                    \/ Len(byNode[i].devices) \in 1..RemainingResults}
    <3>1. CASE decisive = {}
      BY <3>1 DEF FirstAllSelection, Nothing, Failures
    <3>2. CASE decisive # {}
      <4>1. FirstAllSelection(byNode, complete).failure = byNode[Min(decisive)].failure
        BY <3>2 DEF FirstAllSelection, Nothing
      <4>2. decisive \in SUBSET Nat /\ decisive \in SUBSET DOMAIN byNode
        BY <2>2, <2>3
      <4> HIDE DEF decisive
      <4>3. Min(decisive) \in decisive
        BY <3>2, <4>2, MinExists
      <4> QED
        BY <2>2, <4>1, <4>2, <4>3
    <3> QED
      BY <3>1, <3>2
  <2>5. AllSelections(byNode).failure \in {"none"} \cup Failures
    <3> DEFINE failing == {i \in DOMAIN byNode : byNode[i].failure # "none"}
    <3>1. AllSelections(byNode).failure
            \in {"none", byNode[Max(failing)].failure}
          /\ (failing = {} => AllSelections(byNode).failure = "none")
      BY DEF AllSelections, Nothing
    <3>2. failing \in SUBSET DOMAIN byNode
      OBVIOUS
    <3> HIDE DEF failing
    <3>3. failing # {} => Max(failing) \in DOMAIN byNode
      BY <2>2, <3>2, MaxExists
    <3> QED
      BY <2>2, <3>1, <3>3
  <2> QED
    BY <2>1, <2>4, <2>5
<1>3. CASE alt.class \in input.classes /\ alt.mode # "All"
  <2>1. count \in Nat
    <3>1. alt.count \in Nat
      BY <1>3, ClaimSearchAssumption DEF SupportedAlternative
    <3> QED
      BY <3>1 DEF normalizedCount
  <2> HIDE DEF count
  <2>2. /\ Collect(alt, EligibleOffers, count).failure \in {"none"} \cup Failures
        /\ Collect(alt, EligibleOffers, 0).failure \in {"none"} \cup Failures
    BY <1>3, <2>1, EligibleCollected DEF CollectIs
  <2>3. CASE count > RemainingResults
    BY <1>3, <2>3 DEF AlternativeOutcome, Nothing, count
  <2>4. CASE ~(count > RemainingResults)
    <3>1. answer = IF pc = "greedy"
                   THEN FirstExactSelection(Collect(alt, EligibleOffers, count))
                   ELSE ExactSelections(Collect(alt, EligibleOffers, 0), count)
      BY <1>3, <2>4 DEF AlternativeOutcome, ExactOutcome, count
    <3>2. \A out : FirstExactSelection(out).failure = out.failure
                   /\ ExactSelections(out, count).failure = out.failure
      BY DEF FirstExactSelection, ExactSelections, Nothing
    <3> QED
      BY <2>2, <3>1, <3>2
  <2> QED
    BY <2>3, <2>4
<1> QED
  BY <1>1, <1>2, <1>3

-----------------------------------------------------------------------------
(* Good selections.                                                        *)

Prefix(c, n) == SubSeq(c, 1, n)

\* A selection that extends the plan before it: the planner's lists, and what
\* Extensions asks of their devices.
IsGood(s, before, request) ==
    /\ IsList(s) /\ s # <<>>
    /\ \A i, j \in DOMAIN s : s[i].id = s[j].id => i = j
    /\ \A i \in DOMAIN s : s[i].amount \in Nat
    /\ Len(s) + Len(FlattenSeq(before)) <= AllocationResultsMaxSize
    /\ \E alt \in Range(Alternatives(request)), slice \in Range(input.slices) :
        /\ alt.class \in input.classes /\ slice.node # NoNode
        /\ \A d \in Range(FlattenSeq(before)) : d.node = slice.node
        /\ Serves(Range(s), alt, slice.node, SetsOf(before))

\* The selections of the first requests, each good after those before it.
IsGoodPlan(c) ==
    /\ IsList(c)
    /\ \A k \in DOMAIN c :
        /\ IsGood(c[k], Prefix(c, k - 1), input.requests[k])
        /\ ConstraintsHold(SetsOf(Prefix(c, k)))

\* The first n elements of a list.
LEMMA PrefixFacts ==
    ASSUME NEW c, IsList(c), NEW n \in 0..Len(c)
    PROVE  /\ IsList(Prefix(c, n)) /\ Len(Prefix(c, n)) = n
           /\ DOMAIN Prefix(c, n) = 1..n
           /\ \A i \in 1..n : Prefix(c, n)[i] = c[i] /\ i \in DOMAIN c
<1>1. Len(c) \in Nat /\ DOMAIN c = 1..Len(c) /\ c \in Seq(Range(c))
  BY ListFacts
<1>2. /\ Prefix(c, n) \in [1..n -> Range(c)]
      /\ \A i \in 1..n : Prefix(c, n)[i] = c[i] /\ i \in DOMAIN c
  <2>1. /\ Prefix(c, n) \in Seq(Range(c)) /\ Len(Prefix(c, n)) = n
        /\ \A i \in 1..n : Prefix(c, n)[i] = c[i] /\ i \in DOMAIN c
    BY <1>1 DEF Prefix
  <2> QED
    BY <2>1
<1> QED
  BY <1>2, IsListIf

\* Lists that agree are the same.
LEMMA SameList ==
    ASSUME NEW c, IsList(c), NEW d, IsList(d), Len(c) = Len(d),
           \A i \in 1..Len(c) : c[i] = d[i]
    PROVE  c = d
<1>1. /\ Len(c) \in Nat /\ c \in Seq(Range(c)) /\ DOMAIN c = 1..Len(c)
      /\ d \in Seq(Range(d)) /\ DOMAIN d = 1..Len(c)
  BY ListFacts
<1> QED
  BY <1>1

\* Prefixes of longer and of shorter lists.
LEMMA PrefixesAgree ==
    ASSUME NEW c, IsList(c), NEW d, IsList(d), NEW n \in Nat,
           n <= Len(c), n <= Len(d), \A i \in 1..n : c[i] = d[i]
    PROVE  Prefix(c, n) = Prefix(d, n)
<1>1. n \in 0..Len(c) /\ n \in 0..Len(d)
  BY ListFacts
<1>2. /\ IsList(Prefix(c, n)) /\ Len(Prefix(c, n)) = n
      /\ IsList(Prefix(d, n)) /\ Len(Prefix(d, n)) = n
      /\ \A i \in 1..n : Prefix(c, n)[i] = c[i] /\ Prefix(d, n)[i] = d[i]
  BY <1>1, PrefixFacts
<1> QED
  BY <1>2, SameList

\* All elements of a list.
LEMMA PrefixWhole ==
    ASSUME NEW c, IsList(c)
    PROVE  Prefix(c, Len(c)) = c
<1>1. Len(c) \in 0..Len(c)
  BY ListFacts
<1> QED
  BY <1>1, PrefixFacts, SameList

\* A list with one more element.
LEMMA AppendFacts ==
    ASSUME NEW c, IsList(c), NEW s
    PROVE  /\ IsList(Append(c, s)) /\ Len(Append(c, s)) = Len(c) + 1
           /\ DOMAIN Append(c, s) = 1..(Len(c) + 1)
           /\ \A i \in 1..Len(c) : Append(c, s)[i] = c[i]
           /\ Append(c, s)[Len(c) + 1] = s
           /\ Range(Append(c, s)) = Range(c) \cup {s}
<1> DEFINE n == Len(c)
           S == Range(c) \cup {s}
<1>1. /\ n \in Nat /\ DOMAIN c = 1..n /\ c \in Seq(Range(c))
      /\ \A i \in 1..n : c[i] \in Range(c)
      /\ \A x \in Range(c) : \E i \in 1..n : c[i] = x
  BY ListFacts
<1>2. c \in Seq(S)
  BY <1>1
<1> HIDE DEF S, n
<1>3. s \in S
  BY DEF S
<1>4. /\ Append(c, s) \in Seq(S) /\ Len(Append(c, s)) = n + 1
      /\ DOMAIN Append(c, s) = 1..(n + 1)
      /\ \A i \in 1..n : Append(c, s)[i] = c[i]
      /\ Append(c, s)[n + 1] = s
  BY <1>1, <1>2, <1>3 DEF n
<1> DEFINE a == Append(c, s)
<1> HIDE DEF a
<1>5. a \in [1..(n + 1) -> S] /\ n + 1 \in Nat
  <2>1. a \in Seq(S) /\ DOMAIN a = 1..(n + 1) /\ n + 1 \in Nat
    BY <1>1, <1>4 DEF a
  <2>2. \A i \in DOMAIN a : a[i] \in S
    BY <2>1
  <2> QED
    BY <2>1, <2>2
<1>6. IsList(a)
  BY <1>5, IsListIf
<1>7. Range(a) = S
  <2>1. DOMAIN a = 1..(n + 1) /\ (\A i \in 1..n : a[i] = c[i]) /\ a[n + 1] = s
    BY <1>4 DEF a
  <2>2. ASSUME NEW x \in Range(a) PROVE x \in S
    BY <1>5, <2>2 DEF a, Range
  <2>3. ASSUME NEW x \in S PROVE x \in Range(a)
    <3>1. CASE x = s
      <4>1. n + 1 \in DOMAIN a
        BY <1>1, <2>1
      <4> QED
        BY <2>1, <3>1, <4>1 DEF Range
    <3>2. CASE x \in Range(c)
      <4>1. PICK i \in 1..n : c[i] = x
        BY <1>1, <3>2
      <4>2. i \in DOMAIN a /\ a[i] = x
        BY <1>1, <2>1, <4>1
      <4> QED
        BY <4>2 DEF Range
    <3> QED
      BY <3>1, <3>2 DEF S
  <2> QED
    BY <2>2, <2>3
<1> QED
  BY <1>4, <1>6, <1>7 DEF a, S, n

\* A prefix and the prefix before it.
LEMMA PrefixGrows ==
    ASSUME NEW c, IsList(c), NEW k \in DOMAIN c
    PROVE  /\ k \in Nat /\ k - 1 \in Nat /\ k - 1 \in 0..Len(c) /\ k \in 0..Len(c)
           /\ Prefix(c, k) = Append(Prefix(c, k - 1), c[k])
<1>1. k \in 1..Len(c) /\ Len(c) \in Nat
  BY ListFacts
<1>2. k \in Nat /\ k - 1 \in Nat /\ k - 1 \in 0..Len(c) /\ k \in 0..Len(c)
  BY <1>1
<1> DEFINE p == Prefix(c, k - 1)
           q == Prefix(c, k)
<1>3. /\ IsList(p) /\ Len(p) = k - 1 /\ \A i \in 1..(k - 1) : p[i] = c[i]
      /\ IsList(q) /\ Len(q) = k /\ \A i \in 1..k : q[i] = c[i]
  BY <1>2, PrefixFacts
<1> HIDE DEF p, q
<1>4. /\ IsList(Append(p, c[k])) /\ Len(Append(p, c[k])) = k
      /\ \A i \in 1..(k - 1) : Append(p, c[k])[i] = p[i]
      /\ Append(p, c[k])[k] = c[k]
  BY <1>2, <1>3, AppendFacts
<1>5. \A i \in 1..k : q[i] = Append(p, c[k])[i]
  BY <1>2, <1>3, <1>4
<1>6. q = Append(p, c[k])
  BY <1>3, <1>4, <1>5, SameList
<1> QED
  BY <1>2, <1>6 DEF p, q

\* The sets of the first lists.
LEMMA SetsOfPrefix ==
    ASSUME NEW c, IsList(c), NEW n \in 0..Len(c)
    PROVE  SubSeq(SetsOf(c), 1, n) = SetsOf(Prefix(c, n))
<1> DEFINE S == {Range(c[k]) : k \in DOMAIN c}
           a == SetsOf(c)
           b == SetsOf(Prefix(c, n))
<1>1. Len(c) \in Nat /\ DOMAIN c = 1..Len(c) /\ n \in Nat
  BY ListFacts
<1>2. a \in [1..Len(c) -> S] /\ \A i \in 1..Len(c) : a[i] = Range(c[i])
  BY <1>1 DEF SetsOf
<1>3. /\ DOMAIN Prefix(c, n) = 1..n
      /\ \A i \in 1..n : Prefix(c, n)[i] = c[i] /\ i \in DOMAIN c
  BY PrefixFacts
<1>4. b \in [1..n -> S] /\ \A i \in 1..n : b[i] = Range(c[i])
  BY <1>3 DEF SetsOf
<1> HIDE DEF S, a, b
<1>5. /\ IsList(a) /\ Len(a) = Len(c) /\ IsList(b) /\ Len(b) = n
  BY <1>1, <1>2, <1>4, IsListIf
<1>6. /\ IsList(Prefix(a, n)) /\ Len(Prefix(a, n)) = n
      /\ \A i \in 1..n : Prefix(a, n)[i] = a[i]
  BY <1>5, PrefixFacts
<1>7. \A i \in 1..n : Prefix(a, n)[i] = b[i]
  BY <1>1, <1>2, <1>4, <1>6
<1>8. Prefix(a, n) = b
  BY <1>5, <1>6, <1>7, SameList
<1> QED
  BY <1>8 DEF Prefix, a, b

\* The sets of one more list.
LEMMA SetsOfAppend ==
    ASSUME NEW c, IsList(c), NEW s
    PROVE  SetsOf(Append(c, s)) = Append(SetsOf(c), Range(s))
<1> DEFINE S == {Range(c[k]) : k \in DOMAIN c} \cup {Range(s)}
           n == Len(c)
           a == SetsOf(c)
           b == SetsOf(Append(c, s))
<1>1. n \in Nat /\ DOMAIN c = 1..n
  BY ListFacts
<1>2. a \in [1..n -> S] /\ \A i \in 1..n : a[i] = Range(c[i])
  BY <1>1 DEF SetsOf
<1>3. /\ DOMAIN Append(c, s) = 1..(n + 1)
      /\ \A i \in 1..n : Append(c, s)[i] = c[i]
      /\ Append(c, s)[n + 1] = s
  BY AppendFacts
<1>4. b \in [1..(n + 1) -> S] /\ (\A i \in 1..n : b[i] = Range(c[i])) /\ b[n + 1] = Range(s)
  <2>1. DOMAIN b = 1..(n + 1) /\ \A i \in 1..(n + 1) : b[i] = Range(Append(c, s)[i])
    BY <1>3 DEF SetsOf
  <2>2. (\A i \in 1..n : b[i] = Range(c[i])) /\ b[n + 1] = Range(s)
    BY <1>1, <1>3, <2>1
  <2>3. \A i \in 1..(n + 1) : b[i] \in S
    <3> TAKE i \in 1..(n + 1)
    <3>1. CASE i = n + 1
      BY <2>2, <3>1
    <3>2. CASE i # n + 1
      <4>1. i \in 1..n
        BY <1>1, <3>2
      <4> QED
        BY <1>1, <2>2, <4>1
    <3> QED
      BY <3>1, <3>2
  <2> QED
    BY <2>1, <2>2, <2>3 DEF SetsOf
<1> HIDE DEF S, a, b, n
<1>5. n + 1 \in Nat
  BY <1>1
<1>6. /\ IsList(a) /\ Len(a) = n /\ IsList(b) /\ Len(b) = n + 1
  BY <1>1, <1>2, <1>4, <1>5, IsListIf
<1>7. /\ IsList(Append(a, Range(s))) /\ Len(Append(a, Range(s))) = n + 1
      /\ \A i \in 1..n : Append(a, Range(s))[i] = a[i]
      /\ Append(a, Range(s))[n + 1] = Range(s)
  BY <1>6, AppendFacts
<1>8. \A i \in 1..(n + 1) : b[i] = Append(a, Range(s))[i]
  BY <1>1, <1>2, <1>4, <1>7
<1>9. b = Append(a, Range(s))
  BY <1>6, <1>7, <1>8, SameList
<1> QED
  BY <1>9 DEF a, b

\* The results of any lists of devices, counted.
LEMMA TidyCount ==
    ASSUME NEW c, Tidy(c)
    PROVE  /\ IsList(FlattenSeq(c))
           /\ IsFiniteSet(Results(SetsOf(c)))
           /\ Cardinality(Results(SetsOf(c))) = Len(FlattenSeq(c))
           /\ \A r \in Results(SetsOf(c)) : r[2] \in Range(FlattenSeq(c))
<1> DEFINE flat == FlattenSeq(c)
           R == Results(SetsOf(c))
           D == DOMAIN flat
           n == Len(flat)
<1>1. IsList(flat)
  BY FlattenLists DEF Tidy
<1>2. PICK b : Enumerates(b, flat, R)
  BY TidyIsEnumerated DEF IsEnumerated
<1> HIDE DEF flat, R
<1>3. n \in Nat /\ DOMAIN flat = 1..n
  BY <1>1, ListFacts
<1> HIDE DEF n
<1>4. IsFiniteSet(1..n) /\ Cardinality(1..n) = n
  BY <1>3, FS_Interval
<1> HIDE DEF D
<1>5. b \in Bijection(D, R)
  BY <1>2 DEF Enumerates, Bijection, Injection, Surjection, IsInjective, D
<1>6. IsFiniteSet(R) /\ Cardinality(R) = n
  BY <1>3, <1>4, <1>5, FS_Bijection DEF ExistsBijection, D
<1>7. \A r \in R : r[2] \in Range(flat)
  BY <1>2 DEF Enumerates, Range
<1> QED
  BY <1>1, <1>6, <1>7 DEF flat, R, n

\* The devices of a good selection are devices of the input.
LEMMA ServesDevices ==
    ASSUME WellFormed(input), NEW set, NEW alt, NEW node, NEW plan,
           Serves(set, alt, node, plan), NEW d \in set
    PROVE  /\ d.node = node
           /\ \A name \in DOMAIN d.attributes : IsFiniteSet(d.attributes[name])
<1>1. d \in Suitable(alt, node, plan)
  BY DEF Serves
<1>2. PICK s \in SlicesFor(alt, node, plan) : \E e \in Range(s.devices) :
            d = AsTaken(alt, s, e)
  BY <1>1 DEF Suitable
<1>3. PICK e \in Range(s.devices) : d = AsTaken(alt, s, e)
  BY <1>2
<1>4. s \in Range(input.slices) /\ s.node = node
  BY DEF SlicesFor
<1>5. IsDevice(e, input.classes)
  BY <1>4 DEF WellFormed, IsSlice
<1>6. d.node = s.node /\ d.attributes = e.attributes
  BY <1>3 DEF AsTaken
<1> QED
  BY <1>4, <1>5, <1>6 DEF IsDevice

\* The devices of a good selection are on one node, that of the plan before it.
LEMMA GoodDevices ==
    ASSUME WellFormed(input), NEW s, NEW before, NEW request,
           IsGood(s, before, request)
    PROVE  \E node :
            /\ node # NoNode
            /\ \A d \in Range(FlattenSeq(before)) : d.node = node
            /\ \A d \in Range(s) :
                /\ d.node = node
                /\ \A name \in DOMAIN d.attributes : IsFiniteSet(d.attributes[name])
<1>1. PICK alt \in Range(Alternatives(request)), slice \in Range(input.slices) :
        /\ slice.node # NoNode
        /\ \A d \in Range(FlattenSeq(before)) : d.node = slice.node
        /\ Serves(Range(s), alt, slice.node, SetsOf(before))
  BY DEF IsGood
<1>2. \A d \in Range(s) :
        /\ d.node = slice.node
        /\ \A name \in DOMAIN d.attributes : IsFiniteSet(d.attributes[name])
  BY <1>1, ServesDevices
<1> QED
  BY <1>1, <1>2

\* The concatenation of two lists.
LEMMA ConcatFacts ==
    ASSUME NEW a, IsList(a), NEW b, IsList(b)
    PROVE  /\ IsList(a \o b) /\ Len(a \o b) = Len(a) + Len(b)
           /\ Range(a \o b) = Range(a) \cup Range(b)
<1> DEFINE n == Len(a)
           m == Len(b)
           S == Range(a) \cup Range(b)
           c == a \o b
<1>1. /\ n \in Nat /\ DOMAIN a = 1..n /\ a \in Seq(Range(a))
      /\ \A i \in 1..n : a[i] \in Range(a)
      /\ \A x \in Range(a) : \E i \in 1..n : a[i] = x
  BY ListFacts
<1>2. /\ m \in Nat /\ DOMAIN b = 1..m /\ b \in Seq(Range(b))
      /\ \A i \in 1..m : b[i] \in Range(b)
      /\ \A x \in Range(b) : \E i \in 1..m : b[i] = x
  BY ListFacts
<1>3. a \in Seq(S) /\ b \in Seq(S)
  BY <1>1, <1>2
<1> HIDE DEF S
<1>4. /\ c \in Seq(S) /\ Len(c) = n + m /\ DOMAIN c = 1..(n + m)
      /\ \A i \in 1..n : i \in 1..(n + m) /\ c[i] = a[i]
      /\ \A i \in 1..m : i + n \in 1..(n + m) /\ c[i + n] = b[i]
  BY <1>1, <1>2, <1>3
<1> HIDE DEF c
<1>5. \A i \in DOMAIN c : c[i] \in S
  BY <1>4
<1>6. c \in [1..(n + m) -> S] /\ n + m \in Nat
  BY <1>1, <1>2, <1>4, <1>5
<1>7. IsList(c)
  BY <1>6, IsListIf
<1>8. Range(c) = S
  <2>1. \A x \in Range(c) : x \in S
    BY <1>5 DEF Range
  <2>2. ASSUME NEW x \in Range(a) PROVE x \in Range(c)
    <3>1. PICK i \in 1..n : a[i] = x
      BY <1>1
    <3>2. i \in DOMAIN c /\ c[i] = x
      BY <1>4, <3>1
    <3> QED
      BY <3>2 DEF Range
  <2>3. ASSUME NEW x \in Range(b) PROVE x \in Range(c)
    <3>1. PICK i \in 1..m : b[i] = x
      BY <1>2
    <3>2. i + n \in DOMAIN c /\ c[i + n] = x
      BY <1>4, <3>1
    <3> QED
      BY <3>2 DEF Range
  <2> QED
    BY <2>1, <2>2, <2>3 DEF S
<1> QED
  BY <1>4, <1>7, <1>8 DEF c, S

\* A longer tidy plan.
LEMMA TidyLonger ==
    ASSUME NEW c, Tidy(c), NEW s, IsList(s),
           \A i, j \in DOMAIN s : s[i].id = s[j].id => i = j,
           \A i \in DOMAIN s : s[i].amount \in Nat
    PROVE  /\ Tidy(Append(c, s))
           /\ FlattenSeq(Append(c, s)) = FlattenSeq(c) \o s
           /\ Len(FlattenSeq(Append(c, s))) = Len(FlattenSeq(c)) + Len(s)
           /\ Range(FlattenSeq(Append(c, s))) = Range(FlattenSeq(c)) \cup Range(s)
<1> DEFINE n == Len(c)
           a == Append(c, s)
<1>1. n \in Nat /\ DOMAIN c = 1..n
  BY ListFacts DEF Tidy
<1>2. /\ IsList(a) /\ DOMAIN a = 1..(n + 1)
      /\ (\A i \in 1..n : a[i] = c[i]) /\ a[n + 1] = s
  BY AppendFacts DEF Tidy
<1> HIDE DEF a, n
<1>3. ASSUME NEW k \in DOMAIN a
      PROVE  /\ IsList(a[k])
             /\ \A i, j \in DOMAIN a[k] : a[k][i].id = a[k][j].id => i = j
             /\ \A i \in DOMAIN a[k] : a[k][i].amount \in Nat
  <2>1. CASE k = n + 1
    BY <1>2, <2>1
  <2>2. CASE k # n + 1
    <3>1. k \in DOMAIN c /\ a[k] = c[k]
      BY <1>1, <1>2, <2>2
    <3> QED
      BY <3>1 DEF Tidy
  <2> QED
    BY <2>1, <2>2
<1>4. Tidy(a)
  BY <1>2, <1>3 DEF Tidy
<1>5. FlattenSeq(a) = FlattenSeq(c) \o s
  BY FlattenLonger DEF Tidy, a
<1>6. IsList(FlattenSeq(c))
  BY TidyCount
<1>7. /\ Len(FlattenSeq(a)) = Len(FlattenSeq(c)) + Len(s)
      /\ Range(FlattenSeq(a)) = Range(FlattenSeq(c)) \cup Range(s)
  BY <1>5, <1>6, ConcatFacts
<1> QED
  BY <1>4, <1>5, <1>7 DEF a

\* The plan so far is what the next request is planned with.
LEMMA GoodPlanFacts ==
    ASSUME WellFormed(input), NEW c, IsGoodPlan(c)
    PROVE  /\ Tidy(c)
           /\ \A d, e \in Range(FlattenSeq(c)) : d.node = e.node
           /\ \A d \in Range(FlattenSeq(c)) :
                /\ d.node # NoNode
                /\ \A name \in DOMAIN d.attributes : IsFiniteSet(d.attributes[name])
<1>1. IsList(c) /\ \A k \in DOMAIN c : IsGood(c[k], Prefix(c, k - 1), input.requests[k])
  BY DEF IsGoodPlan
<1>2. Tidy(c)
  BY <1>1 DEF Tidy, IsGood
<1>3. Range(FlattenSeq(c)) = UNION {Range(c[k]) : k \in DOMAIN c}
  BY <1>2, FlattenLists DEF Tidy
<1>4. ASSUME NEW j \in DOMAIN c, NEW k \in DOMAIN c, j < k, NEW d \in Range(c[j])
      PROVE  d \in Range(FlattenSeq(Prefix(c, k - 1)))
  <2>1. k - 1 \in 0..Len(c) /\ k \in Nat /\ j \in Nat /\ j >= 1
    BY <1>1, PrefixGrows, ListFacts
  <2> DEFINE p == Prefix(c, k - 1)
  <2>2. /\ IsList(p) /\ DOMAIN p = 1..(k - 1)
        /\ \A i \in 1..(k - 1) : p[i] = c[i] /\ i \in DOMAIN c
    BY <1>1, <2>1, PrefixFacts
  <2> HIDE DEF p
  <2>3. \A i \in DOMAIN p : IsList(p[i])
    BY <1>2, <2>2 DEF Tidy
  <2>4. Range(FlattenSeq(p)) = UNION {Range(p[i]) : i \in DOMAIN p}
    BY <2>2, <2>3, FlattenLists
  <2>5. j \in DOMAIN p /\ p[j] = c[j]
    BY <1>4, <2>1, <2>2
  <2> QED
    BY <2>4, <2>5 DEF p
<1>5. ASSUME NEW k \in DOMAIN c
      PROVE  \E node :
                /\ node # NoNode
                /\ \A j \in DOMAIN c : j <= k => \A d \in Range(c[j]) : d.node = node
                /\ \A d \in Range(c[k]) : \A name \in DOMAIN d.attributes :
                        IsFiniteSet(d.attributes[name])
  <2> DEFINE before == Prefix(c, k - 1)
  <2>1. IsGood(c[k], before, input.requests[k])
    BY <1>1
  <2> HIDE DEF before
  <2>2. PICK node :
            /\ node # NoNode
            /\ \A d \in Range(FlattenSeq(before)) : d.node = node
            /\ \A d \in Range(c[k]) :
                /\ d.node = node
                /\ \A name \in DOMAIN d.attributes : IsFiniteSet(d.attributes[name])
    BY <2>1, GoodDevices
  <2>3. ASSUME NEW j \in DOMAIN c, j <= k, NEW d \in Range(c[j]) PROVE d.node = node
    <3>1. CASE j = k
      BY <2>2, <2>3, <3>1
    <3>2. CASE j # k
      <4>1. j < k
        BY <1>1, <2>3, <3>2, ListFacts
      <4>2. d \in Range(FlattenSeq(before))
        BY <1>4, <4>1 DEF before
      <4> QED
        BY <2>2, <4>2
    <3> QED
      BY <3>1, <3>2
  <2> QED
    BY <2>2, <2>3
<1>6. \A j, k \in DOMAIN c : j <= k \/ k <= j
  BY <1>1, ListFacts
<1>7. \A k \in DOMAIN c : k <= k
  BY <1>1, ListFacts
<1>8. ASSUME NEW d \in Range(FlattenSeq(c)), NEW e \in Range(FlattenSeq(c))
      PROVE  d.node = e.node
  <2>1. PICK j \in DOMAIN c : d \in Range(c[j])
    BY <1>3
  <2>2. PICK k \in DOMAIN c : e \in Range(c[k])
    BY <1>3
  <2>3. CASE j <= k
    BY <1>5, <1>7, <2>1, <2>2, <2>3
  <2>4. CASE k <= j
    BY <1>5, <1>7, <2>1, <2>2, <2>4
  <2> QED
    BY <1>6, <2>3, <2>4
<1>9. ASSUME NEW d \in Range(FlattenSeq(c))
      PROVE  /\ d.node # NoNode
             /\ \A name \in DOMAIN d.attributes : IsFiniteSet(d.attributes[name])
  <2>1. PICK k \in DOMAIN c : d \in Range(c[k])
    BY <1>3
  <2> QED
    BY <1>5, <1>7, <2>1
<1> QED
  BY <1>2, <1>8, <1>9

\* Attributes with finitely many fields set.
Finite(devices) ==
    \A d \in devices : \A name \in DOMAIN d.attributes : IsFiniteSet(d.attributes[name])

\* The devices that a constraint binds have one scalar value in common.
HaveInCommon(c, devices) ==
    LET bound == {d \in devices : AppliesTo(c, d.request)}
        values == {Attribute(d, c.attribute) : d \in bound}
    IN  bound # {} => \E f \in UNION values : values = {{f}} /\ f[1] # "list"

\* A constraint found to be satisfied binds devices with one scalar value.
LEMMA SatisfiedIs ==
    ASSUME NEW devices, IsList(devices), Finite(Range(devices)), NEW c,
           matchConstraintSatisfied(c, devices) = "yes"
    PROVE  HaveInCommon(c, Range(devices))
<1> DEFINE I == {i \in DOMAIN devices : AppliesTo(c, devices[i].request)}
           list == AtIndexes(devices, I)
           fields == [i \in DOMAIN list |-> Attribute(list[i], c.attribute)]
           bad == {i \in DOMAIN fields :
                    fields[i] = {} \/ Malformed(fields[i]) \/ fields[i] # fields[1]}
           bound == {d \in Range(devices) : AppliesTo(c, d.request)}
           values == {Attribute(d, c.attribute) : d \in bound}
<1>1. bad = {}
  <2>1. matchConstraintSatisfied(c, devices)
            = CASE bad = {} -> "yes"
                [] OTHER -> IF Malformed(fields[Min(bad)]) THEN "fail" ELSE "no"
    BY DEF matchConstraintSatisfied
  <2> HIDE DEF bad
  <2> QED
    BY <2>1
<1>2. I \in SUBSET DOMAIN devices
  OBVIOUS
<1>3. IsList(list) /\ Range(list) = {devices[i] : i \in I}
  BY <1>2, AtIndexesList
<1>4. Range(list) = bound
  BY <1>3 DEF Range
<1> HIDE DEF I, list
<1>5. \A i \in DOMAIN list :
        /\ Attribute(list[i], c.attribute) # {}
        /\ ~Malformed(Attribute(list[i], c.attribute))
        /\ Attribute(list[i], c.attribute) = fields[1]
  BY <1>1
<1> DEFINE F == fields[1]
<1> HIDE DEF F
<1>6. \A d \in bound : /\ Attribute(d, c.attribute) # {}
                       /\ ~Malformed(Attribute(d, c.attribute))
                       /\ Attribute(d, c.attribute) = F
  <2> TAKE d \in bound
  <2>1. PICK i \in DOMAIN list : list[i] = d
    BY <1>4 DEF Range
  <2> QED
    BY <1>5, <2>1 DEF F
<1>7. \A d \in bound : IsFiniteSet(Attribute(d, c.attribute))
  <2> TAKE d \in bound
  <2>1. \A name \in DOMAIN d.attributes : IsFiniteSet(d.attributes[name])
    BY DEF Finite
  <2>2. IsFiniteSet({})
    BY FS_EmptySet
  <2>3. CASE c.attribute \in DOMAIN d.attributes
    BY <2>1, <2>3 DEF Attribute
  <2>4. CASE c.attribute \notin DOMAIN d.attributes
    BY <2>1, <2>2, <2>4 DEF Attribute
  <2> QED
    BY <2>3, <2>4
<1> HIDE DEF bad, fields, bound
<1> SUFFICES ASSUME bound # {}
             PROVE  \E f \in UNION values : values = {{f}} /\ f[1] # "list"
  BY Zenon DEF bound, HaveInCommon
<1>8. F # {} /\ ~Malformed(F) /\ IsFiniteSet(F) /\ values = {F}
  BY <1>6, <1>7
<1>9. PICK f : F = {f}
  <2>1. Cardinality(F) \in Nat /\ Cardinality(F) # 0 /\ ~(Cardinality(F) > 1)
    BY <1>8, FS_CardinalityType, FS_EmptySet DEF Malformed
  <2>2. Cardinality(F) = 1
    BY <2>1
  <2> QED
    BY <1>8, <2>2, FS_Singleton
<1>10. f[1] # "list"
  BY <1>8, <1>9 DEF Malformed
<1> QED
  BY <1>8, <1>9, <1>10

\* The constraints hold of a plan for which the planner finds them satisfied.
LEMMA ConstraintsAreRight ==
    ASSUME WellFormed(input), NEW c, Tidy(c), Finite(Range(FlattenSeq(c))),
           matchConstraintsSatisfied(FlattenSeq(c)) = "yes"
    PROVE  ConstraintsHold(SetsOf(c))
<1> DEFINE devices == FlattenSeq(c)
           answers == [i \in DOMAIN input.constraints |->
                        matchConstraintSatisfied(input.constraints[i], devices)]
           bad == {i \in DOMAIN answers : answers[i] # "yes"}
<1>1. IsList(input.constraints)
  BY DEF WellFormed
<1>2. bad = {}
  <2> SUFFICES ASSUME bad # {} PROVE FALSE
    OBVIOUS
  <2>1. "yes" = answers[Min(bad)]
    BY DEF matchConstraintsSatisfied
  <2>2. bad \in SUBSET Nat
    BY <1>1, ListFacts
  <2>3. Min(bad) \in bad
    BY <2>2, MinExists
  <2> QED
    BY <2>1, <2>3
<1>3. \A constraint \in Range(input.constraints) :
        matchConstraintSatisfied(constraint, devices) = "yes"
  <2> TAKE constraint \in Range(input.constraints)
  <2>1. PICK i \in DOMAIN input.constraints : input.constraints[i] = constraint
    BY DEF Range
  <2>2. answers[i] = "yes"
    BY <1>2
  <2> QED
    BY <2>1, <2>2
<1>4. IsList(devices) /\ Range(devices) = UNION {Range(c[k]) : k \in DOMAIN c}
  BY FlattenLists DEF Tidy
<1>5. UNION Range(SetsOf(c)) = Range(devices)
  <2>1. Range(SetsOf(c)) = {Range(c[k]) : k \in DOMAIN c}
    BY DEF Range, SetsOf
  <2> QED
    BY <1>4, <2>1
<1> HIDE DEF devices
<1>6. Finite(Range(devices))
  BY DEF devices
<1> SUFFICES ASSUME NEW constraint \in Range(input.constraints)
             PROVE  HaveInCommon(constraint, Range(devices))
  BY <1>5, Zenon DEF ConstraintsHold, HaveInCommon
<1> QED
  BY <1>3, <1>4, <1>6, SatisfiedIs

\* Without constraints they hold.
LEMMA NoConstraintsHold ==
    ASSUME input.constraints = <<>>, NEW plan
    PROVE  ConstraintsHold(plan)
<1>1. Range(input.constraints) = {}
  BY OneSelection
<1> QED
  BY <1>1 DEF ConstraintsHold

\* A good selection that keeps the constraints extends the plan.
LEMMA GoodExtends ==
    ASSUME WellFormed(input), NEW c, Tidy(c), NEW s, NEW request,
           IsGood(s, c, request), ConstraintsHold(SetsOf(Append(c, s)))
    PROVE  Append(SetsOf(c), Range(s)) \in Extensions(SetsOf(c), request)
<1> DEFINE plan == SetsOf(c)
           p == Append(plan, Range(s))
<1>1. PICK alt \in Range(Alternatives(request)), slice \in Range(input.slices) :
        /\ alt.class \in input.classes /\ slice.node # NoNode
        /\ \A d \in Range(FlattenSeq(c)) : d.node = slice.node
        /\ Serves(Range(s), alt, slice.node, plan)
  BY DEF IsGood
<1>2. p = SetsOf(Append(c, s))
  BY SetsOfAppend DEF Tidy
<1>3. /\ IsList(s) /\ s # <<>>
      /\ \A i, j \in DOMAIN s : s[i].id = s[j].id => i = j
      /\ \A i \in DOMAIN s : s[i].amount \in Nat
      /\ Len(s) + Len(FlattenSeq(c)) <= AllocationResultsMaxSize
  BY DEF IsGood
<1> DEFINE more == Append(c, s)
<1>4. /\ Tidy(more)
      /\ Len(FlattenSeq(more)) = Len(FlattenSeq(c)) + Len(s)
      /\ Range(FlattenSeq(more)) = Range(FlattenSeq(c)) \cup Range(s)
  BY <1>3, TidyLonger
<1>5. IsList(c)
  BY DEF Tidy
<1>6. \A d \in Range(s) : <<Len(c) + 1, d>> \in Results(SetsOf(more))
  BY <1>5, ResultsLonger
<1> HIDE DEF more
<1>7. /\ Cardinality(Results(SetsOf(more))) = Len(FlattenSeq(more))
      /\ \A r \in Results(SetsOf(more)) : r[2] \in Range(FlattenSeq(more))
  BY <1>4, TidyCount
<1>8. Cardinality(Results(p)) <= AllocationResultsMaxSize
  <2>1. Len(FlattenSeq(c)) \in Nat /\ Len(s) \in Nat
    BY <1>3, TidyCount, ListFacts
  <2> QED
    BY <1>2, <1>3, <1>4, <1>7, <2>1 DEF more
<1>9. Cardinality({result[2].node : result \in Results(p)}) = 1
  <2>1. \A d \in Range(FlattenSeq(more)) : d.node = slice.node
    BY <1>1, <1>4, ServesDevices
  <2>2. Results(p) # {}
    <3>1. PICK d : d \in Range(s)
      BY <1>3, ListFacts
    <3> QED
      BY <1>2, <1>6, <3>1 DEF more
  <2>3. \A r \in Results(p) : r[2].node = slice.node
    BY <1>2, <1>7, <2>1 DEF more
  <2>4. {result[2].node : result \in Results(p)} = {slice.node}
    BY <2>2, <2>3
  <2> QED
    BY <2>4, FS_Singleton
<1>10. Range(s) \in SUBSET Suitable(alt, slice.node, plan)
  BY <1>1 DEF Serves
<1> HIDE DEF plan, p
<1> DEFINE nodes == {t.node : t \in Range(input.slices)}
           alts == {a \in Range(Alternatives(request)) : a.class \in input.classes}
           Sets(a, n) == {set \in SUBSET Suitable(a, n, plan) : Serves(set, a, n, plan)}
           sets == UNION {UNION {Sets(a, n) : a \in alts} : n \in nodes}
<1>11. Range(s) \in sets
  <2>1. alt \in alts /\ slice.node \in nodes
    BY <1>1
  <2>2. Range(s) \in Sets(alt, slice.node)
    BY <1>1, <1>10 DEF plan
  <2> HIDE DEF alts, nodes, Sets
  <2> QED
    BY <2>1, <2>2
<1> HIDE DEF sets
<1>12. p \in {q \in {Append(plan, set) : set \in sets} :
            /\ Cardinality({result[2].node : result \in Results(q)}) = 1
            /\ Cardinality(Results(q)) <= AllocationResultsMaxSize
            /\ ConstraintsHold(q)}
  BY <1>2, <1>8, <1>9, <1>11 DEF p
<1> QED
  BY <1>12, Zenon DEF Extensions, sets, p, plan

-----------------------------------------------------------------------------
(* The invariant of the search.                                            *)

\* The selections left in the frames are good after those chosen before them.
AreGoodFrames(fs, c) ==
    \A k \in DOMAIN fs :
        /\ IsList(fs[k].selections)
        /\ \A s \in Range(fs[k].selections) :
                IsGood(s, Prefix(c, k - 1), input.requests[k])

\* The input never changes, and what is good stays good.
LEMMA GoodNext ==
    ASSUME input' = input, NEW s, NEW before, NEW request
    PROVE  IsGood(s, before, request)' <=> IsGood(s, before, request)
  BY DEF IsGood, Serves, Suitable, SlicesFor, SlicesOn, ManagedOn, Covered, Fits,
         HeldBefore, HeldAmount, IsShare, AmountOf

\* So do constraints that hold,
LEMMA ConstraintsNext ==
    ASSUME input' = input, NEW plan
    PROVE  ConstraintsHold(plan)' <=> ConstraintsHold(plan)
  BY DEF ConstraintsHold

\* the plan,
LEMMA GoodPlanNext ==
    ASSUME input' = input, NEW c, chosen' = c, IsGoodPlan(c)
    PROVE  IsGoodPlan(chosen)'
  BY GoodNext, ConstraintsNext DEF IsGoodPlan

\* and the selections left.
LEMMA GoodFramesNext ==
    ASSUME input' = input, NEW c, NEW fs, chosen' = c, frames' = fs,
           AreGoodFrames(fs, c)
    PROVE  AreGoodFrames(frames, chosen)'
  BY GoodNext DEF AreGoodFrames

\* What each frame is.
IsFrame(f, request) ==
    /\ f = Frame(f.alternatives, f.selections, f.missing, f.limit, f.failure)
    /\ SupportedRequest(request)
    /\ IsList(f.alternatives)
    /\ Range(f.alternatives) \subseteq Range(Alternatives(request))
    /\ f.failure \in {"none"} \cup Failures

AreFrames(fs) ==
    /\ IsList(fs) /\ Len(fs) <= Len(input.requests)
    /\ \A k \in DOMAIN fs : IsFrame(fs[k], input.requests[k])

Shape ==
    /\ WellFormed(input)
    /\ AreFrames(frames)
    /\ IsList(chosen)
    /\ pc = "greedy" => ~UseBacktrackingPlanner
    /\ outcome = "planned" => Len(chosen) = Len(input.requests)

SearchIInv ==
    /\ TypeOK
    /\ Shape
    /\ StepsAreWhole => IsGoodPlan(chosen) /\ AreGoodFrames(frames, chosen)

\* A step is as good as its new values.
LEMMA KeepsShape ==
    ASSUME Shape, input' = input, NEW fs, frames' = fs, AreFrames(fs),
           NEW c, chosen' = c, IsList(c), Len(c) <= Len(input.requests),
           Len(fs) - Len(c) \in {0, 1},
           pc' \in {"start", "search", "greedy", "done"},
           pc' = "greedy" => ~UseBacktrackingPlanner,
           outcome' \in {"none", "planned"} \cup Reasons,
           outcome' = "planned" => Len(c) = Len(input.requests),
           pc' = "done" <=> outcome' # "none",
           remaining' \in 0..maxConstraintSearchBranches
    PROVE  TypeOK' /\ Shape'
<1>1. AreFrames(frames)'
  BY DEF AreFrames
<1>2. \A f \in Range(fs) : f.failure \in {"none"} \cup Reasons
  BY DEF AreFrames, IsFrame, Range, Failures, Reasons
<1>3. (\A f \in Range(frames) : f.failure \in {"none"} \cup Reasons)'
  BY <1>2
<1>4. UseBacktrackingPlanner' <=> UseBacktrackingPlanner
  BY DEF UseBacktrackingPlanner
<1>5. WellFormed(input)'
  BY DEF Shape
<1>6. Shape'
  BY <1>1, <1>4, <1>5 DEF Shape
<1>7. TypeOK'
  BY <1>3 DEF TypeOK
<1> QED
  BY <1>6, <1>7

\* The alternatives of a request.
LEMMA RequestFacts ==
    ASSUME WellFormed(input), NEW k \in 1..Len(input.requests)
    PROVE  /\ IsList(Alternatives(input.requests[k]))
           /\ \A alt \in Range(Alternatives(input.requests[k])) : IsAlternative(alt)
<1> DEFINE r == input.requests[k]
<1>1. r \in Range(input.requests)
  BY ListFacts DEF WellFormed
<1>2. /\ IsList(r.exactly) /\ IsList(r.firstAvailable)
      /\ \A alt \in Range(r.exactly) \cup Range(r.firstAvailable) : IsAlternative(alt)
  BY <1>1 DEF WellFormed
<1> HIDE DEF r
<1>3. /\ IsList(Alternatives(r))
      /\ Range(Alternatives(r)) = Range(r.exactly) \cup Range(r.firstAvailable)
  BY <1>2, ConcatFacts DEF Alternatives
<1> QED
  BY <1>2, <1>3 DEF r

\* The first element of a list and the others.
LEMMA TailFacts ==
    ASSUME NEW s, IsList(s), s # <<>>
    PROVE  /\ Head(s) \in Range(s)
           /\ IsList(Tail(s)) /\ Range(Tail(s)) \subseteq Range(s)
<1> DEFINE n == Len(s)
           t == Tail(s)
<1>1. n \in Nat /\ n # 0 /\ DOMAIN s = 1..n /\ s \in Seq(Range(s))
  BY ListFacts
<1>2. Head(s) \in Range(s)
  BY <1>1
<1>3. t \in Seq(Range(s)) /\ Len(t) = n - 1
  BY <1>1
<1> HIDE DEF t
<1>4. \A i \in DOMAIN t : t[i] \in Range(s)
  BY <1>3
<1>5. Range(t) \subseteq Range(s)
  BY <1>4 DEF Range
<1>6. IsList(t)
  BY <1>3, <1>4 DEF IsList, Range
<1> QED
  BY <1>2, <1>5, <1>6 DEF t

\* A list with another last element.
LEMMA ReplaceLast ==
    ASSUME NEW fs, IsList(fs), fs # <<>>, NEW f
    PROVE  LET gs == [fs EXCEPT ![Len(fs)] = f] IN
           /\ IsList(gs) /\ Len(gs) = Len(fs) /\ DOMAIN gs = 1..Len(fs)
           /\ Len(fs) \in DOMAIN fs /\ Last(fs) = fs[Len(fs)]
           /\ gs[Len(fs)] = f
           /\ \A k \in DOMAIN gs : k # Len(fs) => gs[k] = fs[k] /\ k \in DOMAIN fs
<1> DEFINE n == Len(fs)
           gs == [fs EXCEPT ![n] = f]
           S == Range(fs) \cup {f}
<1>1. /\ n \in Nat /\ n # 0 /\ DOMAIN fs = 1..n
      /\ \A k \in 1..n : fs[k] \in Range(fs)
  BY ListFacts
<1>2. n \in 1..n
  BY <1>1
<1>3. fs \in [1..n -> Range(fs)]
  <2>1. fs \in Seq(Range(fs))
    BY ListFacts
  <2> QED
    BY <1>1, <2>1
<1> HIDE DEF n
<1>4. /\ DOMAIN gs = 1..n /\ gs[n] = f
      /\ \A k \in 1..n : k # n => gs[k] = fs[k]
      /\ gs \in [1..n -> S]
  BY <1>1, <1>2, <1>3
<1> HIDE DEF gs, S
<1>5. IsList(gs) /\ Len(gs) = n
  BY <1>1, <1>4, IsListIf
<1> QED
  BY <1>1, <1>2, <1>4, <1>5 DEF gs, n, Last

\* Where the search is, in numbers.
LEMMA Places ==
    ASSUME TypeOK, Shape
    PROVE  /\ Len(input.requests) \in Nat /\ Len(frames) \in Nat /\ Len(chosen) \in Nat
           /\ DOMAIN frames = 1..Len(frames) /\ DOMAIN chosen = 1..Len(chosen)
           /\ Len(chosen) <= Len(input.requests) /\ Len(frames) <= Len(input.requests)
           /\ Entering => Len(frames) = Len(chosen)
           /\ Iterating => /\ Len(frames) = Len(chosen) + 1 /\ frames # <<>>
                           /\ Len(frames) \in 1..Len(input.requests)
                           /\ Last(frames) = frames[Len(frames)]
                           /\ Last(frames) \in Range(frames)
                           /\ IsFrame(Last(frames), input.requests[Len(frames)])
                           /\ pc # "done" /\ outcome = "none"
<1>1. IsList(input.requests) /\ IsList(frames) /\ IsList(chosen)
  BY DEF Shape, WellFormed, AreFrames
<1>2. /\ Len(input.requests) \in Nat /\ Len(frames) \in Nat /\ Len(chosen) \in Nat
      /\ DOMAIN frames = 1..Len(frames) /\ DOMAIN chosen = 1..Len(chosen)
      /\ (frames # <<>> <=> Len(frames) # 0)
      /\ \A i \in DOMAIN frames : frames[i] \in Range(frames)
  BY <1>1, ListFacts
<1>3. /\ Len(chosen) <= Len(input.requests) /\ Len(frames) <= Len(input.requests)
      /\ Len(frames) - Len(chosen) \in {0, 1}
  BY DEF TypeOK, Shape, AreFrames
<1>4. ASSUME Iterating
      PROVE  /\ Len(frames) = Len(chosen) + 1 /\ frames # <<>>
             /\ Len(frames) \in 1..Len(input.requests)
             /\ Last(frames) = frames[Len(frames)]
             /\ Last(frames) \in Range(frames)
             /\ IsFrame(Last(frames), input.requests[Len(frames)])
             /\ pc # "done" /\ outcome = "none"
  <2>0. pc \in {"search", "greedy"} /\ Len(frames) > Len(chosen)
    BY <1>4 DEF Iterating
  <2>1. Len(frames) = Len(chosen) + 1 /\ pc # "done" /\ outcome = "none"
    <3>1. pc # "done" /\ outcome = "none"
      BY <2>0 DEF TypeOK
    <3>2. Len(frames) = Len(chosen) + 1
      <4> DEFINE a == Len(frames)
                 b == Len(chosen)
      <4>1. a \in Nat /\ b \in Nat /\ (a - b = 0 \/ a - b = 1) /\ a > b
        BY <1>2, <1>3, <2>0
      <4> HIDE DEF a, b
      <4>2. a = b + 1
        BY <4>1
      <4> QED
        BY <4>2 DEF a, b
    <3> QED
      BY <3>1, <3>2
  <2>2. frames # <<>> /\ Len(frames) \in 1..Len(input.requests)
        /\ Len(frames) \in DOMAIN frames
    BY <1>2, <1>3, <2>1
  <2>3. Last(frames) = frames[Len(frames)]
    BY DEF Last
  <2>4. IsFrame(frames[Len(frames)], input.requests[Len(frames)])
    BY <2>2 DEF Shape, AreFrames
  <2> QED
    BY <1>2, <2>1, <2>2, <2>3, <2>4
<1> QED
  BY <1>2, <1>3, <1>4 DEF Entering

\* Frames with the last one replaced.
LEMMA FramesReplaced ==
    ASSUME NEW fs, AreFrames(fs), fs # <<>>, NEW f, IsFrame(f, input.requests[Len(fs)])
    PROVE  AreFrames([fs EXCEPT ![Len(fs)] = f]) /\ Len([fs EXCEPT ![Len(fs)] = f]) = Len(fs)
<1> DEFINE gs == [fs EXCEPT ![Len(fs)] = f]
<1>1. /\ IsList(gs) /\ Len(gs) = Len(fs) /\ DOMAIN gs = 1..Len(fs)
      /\ gs[Len(fs)] = f
      /\ \A k \in DOMAIN gs : k # Len(fs) => gs[k] = fs[k] /\ k \in DOMAIN fs
  BY ReplaceLast DEF AreFrames
<1> HIDE DEF gs
<1>2. \A k \in DOMAIN gs : IsFrame(gs[k], input.requests[k])
  BY <1>1 DEF AreFrames
<1>3. AreFrames(gs)
  BY <1>1, <1>2 DEF AreFrames
<1> QED
  BY <1>1, <1>3 DEF gs

\* Entering a request adds its frame.
LEMMA EnterRequestShape ==
    ASSUME TypeOK, Shape, EnterRequest
    PROVE  TypeOK' /\ Shape'
<1> DEFINE request == input.requests[Len(chosen) + 1]
           f == Frame(Alternatives(request), <<>>, TRUE, FALSE, "none")
           n == Len(chosen)
<1>1. /\ n \in Nat /\ Len(frames) = n /\ DOMAIN frames = 1..n
      /\ Len(input.requests) \in Nat /\ n < Len(input.requests)
      /\ pc \in {"search", "greedy"} /\ pc # "done"
  BY Places DEF EnterRequest, Entering
<1>2. /\ input' = input /\ chosen' = chosen /\ remaining' = remaining
  BY DEF EnterRequest
<1>3. CASE SupportedRequest(request)
  <2>1. frames' = Append(frames, f) /\ pc' = pc /\ outcome' = outcome
    BY <1>3 DEF EnterRequest
  <2>2. n + 1 \in 1..Len(input.requests)
    BY <1>1
  <2>3. IsList(Alternatives(request))
    BY <2>2, RequestFacts DEF Shape
  <2>4. IsFrame(f, request)
    BY <1>3, <2>3 DEF IsFrame, Frame
  <2> HIDE DEF f
  <2> DEFINE gs == Append(frames, f)
  <2>5. /\ IsList(gs) /\ Len(gs) = n + 1 /\ DOMAIN gs = 1..(n + 1)
        /\ (\A i \in 1..n : gs[i] = frames[i]) /\ gs[n + 1] = f
    BY <1>1, AppendFacts DEF Shape, AreFrames
  <2> HIDE DEF gs
  <2>6. AreFrames(gs)
    <3>1. ASSUME NEW k \in 1..(n + 1) PROVE IsFrame(gs[k], input.requests[k])
      <4>1. CASE k = n + 1
        BY <2>4, <2>5, <4>1
      <4>2. CASE k # n + 1
        <5>1. k \in 1..n
          BY <1>1, <4>2
        <5> QED
          BY <1>1, <2>5, <5>1 DEF Shape, AreFrames
      <4> QED
        BY <4>1, <4>2
    <3> QED
      BY <1>1, <2>5, <3>1 DEF AreFrames
  <2>7. Len(gs) - Len(chosen) \in {0, 1}
    BY <1>1, <2>5
  <2>8. frames' = gs
    BY <2>1 DEF gs
  <2> QED
    BY <1>1, <1>2, <2>1, <2>6, <2>7, <2>8, KeepsShape DEF Shape, TypeOK
<1>4. CASE ~SupportedRequest(request)
  <2>1. frames' = frames /\ pc' = "done" /\ outcome' = "Unsupported"
    BY <1>4 DEF EnterRequest, Finish
  <2> QED
    BY <1>1, <1>2, <2>1, KeepsShape DEF Shape, TypeOK, Reasons
<1> QED
  BY <1>3, <1>4

\* The next alternative changes the last frame only.
LEMMA NextAlternativeShape ==
    ASSUME TypeOK, Shape, NextAlternative
    PROVE  TypeOK' /\ Shape'
<1> DEFINE n == Len(frames)
           f == Last(frames)
           request == input.requests[n]
           out == AlternativeOutcome(Head(f.alternatives))
           g == AfterAlternative(f, out)
           gs == [frames EXCEPT ![n] = g]
<1>1. Iterating /\ f.alternatives # <<>>
  BY DEF NextAlternative
<1>2. /\ n = Len(chosen) + 1 /\ frames # <<>> /\ f = frames[n]
      /\ IsFrame(f, request) /\ n \in 1..Len(input.requests)
  BY <1>1, Places
<1>3. frames' = gs
  BY <1>2 DEF NextAlternative
<1>4. /\ Head(f.alternatives) \in Range(f.alternatives)
      /\ IsList(Tail(f.alternatives))
      /\ Range(Tail(f.alternatives)) \subseteq Range(f.alternatives)
  BY <1>1, <1>2, TailFacts DEF IsFrame
<1>5. SupportedAlternative(Head(f.alternatives))
  BY <1>2, <1>4 DEF IsFrame, SupportedRequest
<1>6. out.failure \in {"none"} \cup Failures
  BY <1>5, OutcomeFailure DEF Shape
<1> HIDE DEF out, f
<1>7. IsFrame(g, request)
  <2>1. /\ g.alternatives = Tail(f.alternatives) /\ g.failure = out.failure
        /\ g = Frame(g.alternatives, g.selections, g.missing, g.limit, g.failure)
    BY DEF AfterAlternative, Frame
  <2> HIDE DEF g
  <2> QED
    BY <1>2, <1>4, <1>6, <2>1 DEF IsFrame
<1> HIDE DEF g
<1>8. AreFrames(gs) /\ Len(gs) = Len(frames)
  BY <1>2, <1>7, FramesReplaced DEF Shape
<1> HIDE DEF gs
<1> QED
  BY <1>2, <1>3, <1>8, KeepsShape DEF NextAlternative, Shape, TypeOK

\* A frame with other selections left.
LEMMA FrameExcept ==
    ASSUME NEW f, NEW t,
           f = Frame(f.alternatives, f.selections, f.missing, f.limit, f.failure)
    PROVE  [f EXCEPT !.selections = t]
            = Frame(f.alternatives, t, f.missing, f.limit, f.failure)
<1>1. DOMAIN f = {"alternatives", "selections", "missing", "limit", "failure"}
  BY DEF Frame
<1> DEFINE g == [f EXCEPT !.selections = t]
           h == Frame(f.alternatives, t, f.missing, f.limit, f.failure)
<1>2. g = [x \in DOMAIN f |-> IF x = "selections" THEN t ELSE f[x]]
  <2>1. DOMAIN g = DOMAIN f /\ g = [x \in DOMAIN g |-> g[x]]
    OBVIOUS
  <2>2. \A x \in DOMAIN f : g[x] = IF x = "selections" THEN t ELSE f[x]
    BY <1>1
  <2> QED
    BY <2>1, <2>2
<1>3. /\ DOMAIN h = DOMAIN f /\ h = [x \in DOMAIN h |-> h[x]]
      /\ \A x \in DOMAIN f : h[x] = IF x = "selections" THEN t ELSE f[x]
  BY <1>1 DEF Frame
<1> HIDE DEF g, h
<1>4. g = h
  BY <1>2, <1>3
<1> QED
  BY <1>4 DEF g, h

\* A branch leaves one selection less and spends one unit of the budget.
LEMMA YieldShape ==
    ASSUME TypeOK, Shape, Yield
    PROVE  TypeOK' /\ Shape'
<1> DEFINE n == Len(frames)
           f == Last(frames)
           selection == Head(f.selections)
           answer == matchConstraintsSatisfied(Taken \o selection)
           request == input.requests[n]
           g == [f EXCEPT !.selections = Tail(f.selections)]
           gs == [frames EXCEPT ![n] = g]
           c == IF answer = "yes" THEN Append(chosen, selection) ELSE chosen
<1>1. Iterating /\ input' = input
  BY DEF Yield
<1>2. /\ n = Len(chosen) + 1 /\ frames # <<>> /\ f = frames[n]
      /\ IsFrame(f, request) /\ n \in 1..Len(input.requests)
      /\ Len(input.requests) \in Nat /\ Len(chosen) \in Nat
      /\ pc # "done" /\ outcome = "none"
  BY <1>1, Places
<1>3. CASE BudgetSpent
  <2>1. /\ frames' = frames /\ chosen' = chosen /\ remaining' = remaining
        /\ pc' = "done" /\ outcome' = "BudgetSpent"
    BY <1>3 DEF Yield, Finish
  <2> QED
    BY <1>1, <1>2, <2>1, KeepsShape DEF Shape, TypeOK, Reasons
<1>4. CASE ~BudgetSpent
  <2>1. /\ remaining' = remaining - 1 /\ frames' = gs /\ chosen' = c
        /\ IF answer = "fail" THEN pc' = "done" /\ outcome' = "Unsupported"
           ELSE pc' = pc /\ outcome' = outcome
    BY <1>2, <1>4 DEF Yield, Finish
  <2>2. IsFrame(g, request)
    <3>1. f = Frame(f.alternatives, f.selections, f.missing, f.limit, f.failure)
      BY <1>2 DEF IsFrame
    <3> HIDE DEF f
    <3>2. g = Frame(f.alternatives, Tail(f.selections), f.missing, f.limit, f.failure)
      BY <3>1, FrameExcept
    <3>3. /\ g.alternatives = f.alternatives /\ g.failure = f.failure
          /\ g = Frame(g.alternatives, g.selections, g.missing, g.limit, g.failure)
      BY <3>2 DEF Frame
    <3> HIDE DEF g
    <3> QED
      BY <1>2, <3>3 DEF IsFrame
  <2> HIDE DEF g
  <2>3. AreFrames(gs) /\ Len(gs) = n
    BY <1>2, <2>2, FramesReplaced DEF Shape
  <2> HIDE DEF gs, f, answer
  <2>4. remaining' \in 0..maxConstraintSearchBranches
    BY <1>4, <2>1, ClaimSearchAssumption DEF BudgetSpent, TypeOK
  <2>5. /\ pc' \in {"start", "search", "greedy", "done"}
        /\ pc' = "greedy" => ~UseBacktrackingPlanner
        /\ outcome' \in {"none", "planned"} \cup Reasons
        /\ outcome' # "planned"
        /\ pc' = "done" <=> outcome' # "none"
    BY <1>2, <2>1 DEF TypeOK, Shape, Reasons
  <2>6. IsList(c) /\ Len(c) <= Len(input.requests) /\ Len(gs) - Len(c) \in {0, 1}
    <3>1. CASE answer = "yes"
      <4>1. IsList(c) /\ Len(c) = Len(chosen) + 1
        BY <3>1, AppendFacts DEF Shape
      <4> QED
        BY <1>2, <2>3, <4>1
    <3>2. CASE answer # "yes"
      BY <1>2, <2>3, <3>2 DEF Shape
    <3> QED
      BY <3>1, <3>2
  <2> HIDE DEF c
  <2> QED
    BY <1>1, <2>1, <2>3, <2>4, <2>5, <2>6, KeepsShape
<1> QED
  BY <1>3, <1>4

\* Going back takes away a frame and a selection.
LEMMA ExhaustedShape ==
    ASSUME TypeOK, Shape, Exhausted
    PROVE  TypeOK' /\ Shape'
<1> DEFINE n == Len(frames)
           f == Last(frames)
           request == input.requests[n]
           failure == IterationFailure(f, request)
<1>1. Iterating /\ input' = input /\ remaining' = remaining
  BY DEF Exhausted, NothingLeft
<1>2. /\ n = Len(chosen) + 1 /\ frames # <<>> /\ n \in 1..Len(input.requests)
      /\ IsFrame(f, request) /\ DOMAIN frames = 1..n
      /\ Len(input.requests) \in Nat /\ Len(chosen) \in Nat
      /\ pc # "done" /\ outcome = "none"
  BY <1>1, Places
<1>3. failure \in {"none"} \cup Reasons
  <2>1. f.failure \in {"none"} \cup Failures
    BY <1>2 DEF IsFrame
  <2> HIDE DEF f
  <2> QED
    BY <2>1 DEF IterationFailure, Reasons, Failures
<1>4. CASE Backtracks(failure)
  <2>1. /\ frames' = Front(frames) /\ chosen' = Front(chosen)
        /\ pc' = pc /\ outcome' = outcome
    BY <1>4 DEF Exhausted
  <2> DEFINE gs == Front(frames)
             c == Front(chosen)
  <2>2. n > 1
    BY <1>4 DEF Backtracks
  <2>3. gs = Prefix(frames, n - 1) /\ c = Prefix(chosen, n - 2)
    BY <1>2 DEF Front, Prefix
  <2>4. n - 1 \in 0..Len(frames) /\ n - 2 \in 0..Len(chosen)
    BY <1>2, <2>2
  <2>5. /\ IsList(gs) /\ Len(gs) = n - 1 /\ DOMAIN gs = 1..(n - 1)
        /\ \A i \in 1..(n - 1) : gs[i] = frames[i] /\ i \in DOMAIN frames
    <3>1. IsList(frames)
      BY DEF Shape, AreFrames
    <3> QED
      BY <2>3, <2>4, <3>1, PrefixFacts
  <2>10. IsList(c) /\ Len(c) = n - 2
    BY <2>3, <2>4, PrefixFacts DEF Shape
  <2> HIDE DEF gs, c, n
  <2>6. AreFrames(gs)
    <3>1. Len(gs) <= Len(input.requests)
      BY <1>2, <2>5
    <3> QED
      BY <2>5, <3>1 DEF Shape, AreFrames
  <2>7. Len(c) <= Len(input.requests) /\ Len(gs) - Len(c) \in {0, 1}
    <3> DEFINE N == Len(input.requests)
    <3>1. n \in Nat /\ N \in Nat /\ n <= N
      BY <1>2
    <3>2. Len(c) = n - 2 /\ Len(gs) = n - 1
      BY <2>5, <2>10
    <3> HIDE DEF N
    <3>3. n - 2 <= N /\ (n - 1) - (n - 2) = 1
      BY <3>1
    <3> QED
      BY <3>2, <3>3 DEF N
  <2>8. frames' = gs /\ chosen' = c
    BY <2>1 DEF gs, c
  <2>9. /\ pc' \in {"start", "search", "greedy", "done"}
        /\ pc' = "greedy" => ~UseBacktrackingPlanner
        /\ outcome' = "none" /\ pc' # "done"
        /\ remaining' \in 0..maxConstraintSearchBranches
    BY <1>1, <1>2, <2>1 DEF TypeOK, Shape
  <2> QED
    BY <1>1, <2>5, <2>6, <2>7, <2>8, <2>9, <2>10, KeepsShape DEF n
<1>5. CASE ~Backtracks(failure)
  <2>1. /\ frames' = frames /\ chosen' = chosen /\ pc' = "done"
        /\ outcome' = IF failure = "none" THEN "NoMatch" ELSE failure
    BY <1>5 DEF Exhausted, Finish
  <2> HIDE DEF failure
  <2>2. outcome' \in Reasons /\ outcome' # "none" /\ outcome' # "planned"
    BY <1>3, <2>1 DEF Reasons
  <2> QED
    BY <1>1, <1>2, <2>1, <2>2, KeepsShape DEF Shape, TypeOK
<1> QED
  BY <1>4, <1>5

\* The search begins with no frame and no choice.
LEMMA SearchInit == Init => SearchIInv
<1> SUFFICES ASSUME Init PROVE SearchIInv
  OBVIOUS
<1>1. WellFormed(input)
  BY ClaimSearchAssumption DEF Init
<1>2. IsList(input.requests) /\ Len(input.requests) \in Nat
  BY <1>1, ListFacts DEF WellFormed
<1>3. /\ IsList(<<>>) /\ Range(<<>>) = {} /\ Len(<<>>) = 0 /\ DOMAIN <<>> = {}
  <2>1. IsList(<<>>) /\ Range(<<>>) = {}
    BY OneSelection
  <2>2. Len(<<>>) = 0 /\ DOMAIN <<>> = {}
    OBVIOUS
  <2> QED
    BY <2>1, <2>2
<1>4. TypeOK
  BY <1>2, <1>3, ClaimSearchAssumption DEF Init, TypeOK
<1>5. Shape
  BY <1>1, <1>2, <1>3 DEF Init, Shape, AreFrames
<1>6. IsGoodPlan(chosen) /\ AreGoodFrames(frames, chosen)
  BY <1>3 DEF Init, IsGoodPlan, AreGoodFrames
<1> QED
  BY <1>4, <1>5, <1>6 DEF SearchIInv

\* Every action keeps the types and the shape of the search.
LEMMA ShapeStep ==
    ASSUME TypeOK, Shape, [Next]_vars
    PROVE  TypeOK' /\ Shape' /\ input' = input
<1>1. CASE planClaimAllocation
  <2>1. /\ pc = "start" /\ input' = input /\ frames' = frames /\ chosen' = chosen
        /\ remaining' = remaining /\ outcome = "none"
    BY <1>1 DEF planClaimAllocation, TypeOK
  <2>2. \/ pc' = "done" /\ outcome' = "Unsupported"
        \/ UseBacktrackingPlanner /\ pc' = "search" /\ outcome' = outcome
        \/ ~UseBacktrackingPlanner /\ pc' = "greedy" /\ outcome' = outcome
    BY <1>1 DEF planClaimAllocation, Finish
  <2>3. /\ pc' \in {"start", "search", "greedy", "done"}
        /\ pc' = "greedy" => ~UseBacktrackingPlanner
        /\ outcome' \in {"none", "planned"} \cup Reasons
        /\ outcome' # "planned"
        /\ pc' = "done" <=> outcome' # "none"
    BY <2>1, <2>2 DEF Reasons
  <2> QED
    BY <2>1, <2>3, KeepsShape DEF TypeOK, Shape
<1>2. CASE EnterRequest
  BY <1>2, EnterRequestShape DEF EnterRequest
<1>3. CASE AllRequestsSelected
  <2>1. /\ input' = input /\ frames' = frames /\ chosen' = chosen
        /\ remaining' = remaining /\ pc' = "done" /\ outcome' = "planned"
        /\ Len(chosen) = Len(input.requests)
    BY <1>3 DEF AllRequestsSelected, Finish
  <2> QED
    BY <2>1, KeepsShape DEF TypeOK, Shape
<1>4. CASE NextAlternative
  BY <1>4, NextAlternativeShape DEF NextAlternative
<1>5. CASE SelectRequest
  <2> DEFINE c == Append(chosen, Head(Last(frames).selections))
  <2>1. /\ Iterating /\ input' = input /\ pc' = pc /\ frames' = frames
        /\ remaining' = remaining /\ outcome' = outcome /\ chosen' = c
    BY <1>5 DEF SelectRequest
  <2>2. IsList(c) /\ Len(c) = Len(chosen) + 1
    BY AppendFacts DEF Shape
  <2> HIDE DEF c
  <2>3. Len(frames) = Len(c) /\ Len(c) \in Nat /\ outcome = "none"
    BY <2>1, <2>2, Places
  <2>4. Len(c) <= Len(input.requests) /\ Len(frames) - Len(c) \in {0, 1}
    <3>1. Len(frames) <= Len(input.requests)
      BY Places
    <3>2. Len(c) - Len(c) = 0
      BY <2>3
    <3> QED
      BY <2>3, <3>1, <3>2
  <2> QED
    BY <2>1, <2>2, <2>3, <2>4, KeepsShape DEF TypeOK, Shape
<1>6. CASE Yield
  BY <1>6, YieldShape DEF Yield
<1>7. CASE Exhausted
  BY <1>7, ExhaustedShape DEF Exhausted
<1>8. CASE Canceled
  <2>1. /\ input' = input /\ frames' = frames /\ chosen' = chosen
        /\ remaining' = remaining /\ pc' = "done" /\ outcome' = "Canceled"
    BY <1>8 DEF Canceled, Finish
  <2> QED
    BY <2>1, KeepsShape DEF TypeOK, Shape, Reasons
<1>9. CASE UNCHANGED vars
  <2>1. /\ input' = input /\ frames' = frames /\ chosen' = chosen
        /\ remaining' = remaining /\ pc' = pc /\ outcome' = outcome
    BY <1>9 DEF vars
  <2> QED
    BY <2>1, KeepsShape DEF TypeOK, Shape
<1> QED
  BY <1>1, <1>2, <1>3, <1>4, <1>5, <1>6, <1>7, <1>8, <1>9 DEF Next, Answered

\* A selection the planner finds is good after what it has chosen.
LEMMA SelectionIsGood ==
    ASSUME Planning, NEW s, NEW alt, IsSelection(s, alt), NEW request,
           alt \in Range(Alternatives(request)), alt.class \in input.classes
    PROVE  IsGood(s, chosen, request)
<1>1. /\ IsList(s) /\ s # <<>>
      /\ \A i, j \in DOMAIN s : s[i].id = s[j].id => i = j
      /\ \A i \in DOMAIN s : s[i].amount \in Nat
      /\ Len(s) <= RemainingResults
  BY DEF IsSelection
<1>2. PICK slice \in Range(input.slices) :
        /\ slice.node # NoNode
        /\ AllocatedNode \in {NoNode, slice.node}
        /\ Serves(Range(s), alt, slice.node, ChosenSets)
  BY DEF IsSelection
<1>3. \A d \in Range(FlattenSeq(chosen)) : d.node = slice.node
  BY <1>2, NodeOfPlan DEF Planning, Taken
<1>4. Len(s) + Len(FlattenSeq(chosen)) <= AllocationResultsMaxSize
  <2> DEFINE n == Len(s)
             m == Len(FlattenSeq(chosen))
  <2>1. n \in Nat /\ m \in Nat
    BY <1>1, TidyCount, ListFacts DEF Planning
  <2>2. n <= AllocationResultsMaxSize - m
    BY <1>1 DEF RemainingResults, Taken
  <2> HIDE DEF n, m
  <2>3. n + m <= AllocationResultsMaxSize
    BY <2>1, <2>2, ClaimSearchAssumption
  <2> QED
    BY <2>3 DEF n, m
<1>5. ChosenSets = SetsOf(chosen)
  BY DEF ChosenSets, SetsOf
<1> QED
  BY <1>1, <1>2, <1>3, <1>4, <1>5 DEF IsGood

\* A good plan, one selection longer or shorter.
LEMMA GoodPlanLonger ==
    ASSUME NEW c, IsGoodPlan(c), NEW s, IsGood(s, c, input.requests[Len(c) + 1]),
           ConstraintsHold(SetsOf(Append(c, s)))
    PROVE  IsGoodPlan(Append(c, s))
<1> DEFINE n == Len(c)
           a == Append(c, s)
<1>0. IsList(c)
  BY DEF IsGoodPlan
<1>1. n \in Nat /\ DOMAIN c = 1..n
  BY <1>0, ListFacts
<1>2. /\ IsList(a) /\ Len(a) = n + 1 /\ DOMAIN a = 1..(n + 1)
      /\ (\A i \in 1..n : a[i] = c[i]) /\ a[n + 1] = s
  BY <1>0, AppendFacts
<1>3. Prefix(a, n + 1) = a
  BY <1>2, PrefixWhole
<1>4. Prefix(c, n) = c
  BY <1>0, PrefixWhole
<1>5. ConstraintsHold(SetsOf(a)) /\ IsGood(s, c, input.requests[n + 1])
  OBVIOUS
<1> HIDE DEF a, n
<1>6. \A k \in 0..n : Prefix(a, k) = Prefix(c, k)
  <2> TAKE k \in 0..n
  <2>1. k \in Nat /\ k <= Len(c) /\ k <= Len(a) /\ \A i \in 1..k : a[i] = c[i]
    BY <1>1, <1>2 DEF n
  <2> QED
    BY <1>0, <1>2, <2>1, PrefixesAgree
<1>7. ASSUME NEW k \in DOMAIN a
      PROVE  /\ IsGood(a[k], Prefix(a, k - 1), input.requests[k])
             /\ ConstraintsHold(SetsOf(Prefix(a, k)))
  <2>1. CASE k = n + 1
    <3>1. k - 1 = n /\ n \in 0..n
      BY <1>1, <2>1
    <3>2. Prefix(a, k - 1) = c /\ Prefix(a, k) = a /\ a[k] = s
      BY <1>2, <1>3, <1>4, <1>6, <2>1, <3>1
    <3> QED
      BY <1>5, <2>1, <3>2
  <2>2. CASE k # n + 1
    <3>1. k \in DOMAIN c /\ k - 1 \in 0..n /\ k \in 0..n /\ a[k] = c[k]
      BY <1>1, <1>2, <2>2
    <3> QED
      BY <1>6, <3>1 DEF IsGoodPlan
  <2> QED
    BY <2>1, <2>2
<1>8. IsGoodPlan(a)
  BY <1>2, <1>7 DEF IsGoodPlan
<1> QED
  BY <1>8 DEF a

\* The first elements of the first elements.
LEMMA PrefixOfPrefix ==
    ASSUME NEW c, IsList(c), NEW n \in 0..Len(c), NEW k \in 0..n
    PROVE  Prefix(Prefix(c, n), k) = Prefix(c, k)
<1>1. Len(c) \in Nat
  BY ListFacts
<1>2. /\ IsList(Prefix(c, n)) /\ Len(Prefix(c, n)) = n
      /\ \A i \in 1..n : Prefix(c, n)[i] = c[i]
  BY PrefixFacts
<1>3. k \in Nat /\ k <= n /\ k <= Len(c) /\ \A i \in 1..k : i \in 1..n
  BY <1>1
<1> QED
  BY <1>2, <1>3, PrefixesAgree

\* A good plan without its last selections.
LEMMA GoodPlanShorter ==
    ASSUME NEW c, IsGoodPlan(c), NEW n \in 0..Len(c)
    PROVE  IsGoodPlan(Prefix(c, n))
<1> DEFINE p == Prefix(c, n)
<1>1. IsList(c) /\ Len(c) \in Nat
  BY ListFacts DEF IsGoodPlan
<1>2. /\ IsList(p) /\ DOMAIN p = 1..n
      /\ \A i \in 1..n : p[i] = c[i] /\ i \in DOMAIN c
  BY <1>1, PrefixFacts
<1>3. \A k \in 0..n : Prefix(p, k) = Prefix(c, k)
  BY <1>1, PrefixOfPrefix
<1> HIDE DEF p
<1>4. ASSUME NEW k \in DOMAIN p
      PROVE  /\ IsGood(p[k], Prefix(p, k - 1), input.requests[k])
             /\ ConstraintsHold(SetsOf(Prefix(p, k)))
  <2>1. k \in 1..n /\ k - 1 \in 0..n /\ k \in 0..n
    BY <1>1, <1>2
  <2> QED
    BY <1>2, <1>3, <2>1 DEF IsGoodPlan
<1>5. IsGoodPlan(p)
  BY <1>2, <1>4 DEF IsGoodPlan
<1> QED
  BY <1>5 DEF p

\* Frames look at the choices before them only.
LEMMA GoodFramesAgree ==
    ASSUME NEW fs, NEW c, AreGoodFrames(fs, c), NEW gs, NEW d,
           \A k \in DOMAIN gs :
                /\ k \in DOMAIN fs /\ Prefix(d, k - 1) = Prefix(c, k - 1)
                /\ IsList(gs[k].selections)
                /\ Range(gs[k].selections) \subseteq Range(fs[k].selections)
    PROVE  AreGoodFrames(gs, d)
  BY DEF AreGoodFrames

Good == StepsAreWhole /\ IsGoodPlan(chosen) /\ AreGoodFrames(frames, chosen)

\* The planner plans the next request with a good plan.
LEMMA GoodIsPlanning ==
    ASSUME Shape, Good
    PROVE  Planning
<1>1. /\ Tidy(chosen)
      /\ \A d, e \in Range(Taken) : d.node = e.node
      /\ \A d \in Range(Taken) : d.node # NoNode
  BY GoodPlanFacts DEF Shape, Good, Taken
<1> QED
  BY <1>1 DEF Shape, Planning

\* The selections of the request under way are good after all that is chosen.
LEMMA LastSelections ==
    ASSUME TypeOK, Shape, Good, Iterating
    PROVE  LET n == Len(frames)
               f == Last(frames)
           IN  /\ IsList(f.selections)
               /\ \A s \in Range(f.selections) :
                    IsGood(s, chosen, input.requests[Len(chosen) + 1])
<1> DEFINE n == Len(frames)
<1>1. /\ n = Len(chosen) + 1 /\ Last(frames) = frames[n]
      /\ Len(chosen) \in Nat /\ DOMAIN frames = 1..n
  BY Places
<1>2. n \in DOMAIN frames /\ n - 1 = Len(chosen)
  BY <1>1
<1>3. Prefix(chosen, n - 1) = chosen
  BY <1>2, PrefixWhole DEF Shape
<1> HIDE DEF n
<1>4. /\ IsList(frames[n].selections)
      /\ \A s \in Range(frames[n].selections) :
            IsGood(s, Prefix(chosen, n - 1), input.requests[n])
  BY <1>2 DEF Good, AreGoodFrames
<1> QED
  BY <1>1, <1>3, <1>4

\* The new values of a step are good.
LEMMA KeepsGood ==
    ASSUME Good, input' = input, NEW c, NEW fs, chosen' = c, frames' = fs,
           IsGoodPlan(c), AreGoodFrames(fs, c)
    PROVE  IsGoodPlan(chosen)' /\ AreGoodFrames(frames, chosen)'
  BY GoodPlanNext, GoodFramesNext

\* One more selection, after which the frames keep looking at the same choices.
LEMMA ChosenLonger ==
    ASSUME TypeOK, Shape, Good, Iterating, NEW s,
           IsGood(s, chosen, input.requests[Len(chosen) + 1]),
           ConstraintsHold(SetsOf(Append(chosen, s)))
    PROVE  /\ IsGoodPlan(Append(chosen, s))
           /\ \A k \in DOMAIN frames :
                Prefix(Append(chosen, s), k - 1) = Prefix(chosen, k - 1)
<1> DEFINE c == chosen
           a == Append(chosen, s)
           m == Len(chosen)
<1>1. IsGoodPlan(a)
  BY GoodPlanLonger DEF Good
<1>2. /\ IsList(c) /\ m \in Nat /\ DOMAIN frames = 1..(m + 1)
  BY Places DEF Shape
<1>3. IsList(a) /\ Len(a) = m + 1 /\ \A i \in 1..m : a[i] = c[i]
  BY <1>2, AppendFacts
<1> HIDE DEF a, c
<1>4. m = Len(c)
  BY DEF c
<1> HIDE DEF m
<1>5. ASSUME NEW k \in DOMAIN frames PROVE Prefix(a, k - 1) = Prefix(c, k - 1)
  <2>1. /\ k - 1 \in Nat /\ k - 1 <= Len(c) /\ k - 1 <= Len(a)
        /\ \A i \in 1..(k - 1) : a[i] = c[i]
    BY <1>2, <1>3, <1>4
  <2> QED
    BY <1>2, <1>3, <2>1, PrefixesAgree
<1> QED
  BY <1>1, <1>5 DEF a, c

\* The greedy planner meets no constraints, and takes a good selection.
LEMMA SelectRequestGood ==
    ASSUME TypeOK, Shape, Good, SelectRequest
    PROVE  IsGoodPlan(chosen)' /\ AreGoodFrames(frames, chosen)'
<1> DEFINE selections == Last(frames).selections
           s == Head(selections)
           a == Append(chosen, s)
<1>1. /\ Iterating /\ pc = "greedy" /\ selections # <<>>
      /\ input' = input /\ frames' = frames /\ chosen' = a
  BY DEF SelectRequest
<1>2. /\ IsList(selections)
      /\ \A t \in Range(selections) : IsGood(t, chosen, input.requests[Len(chosen) + 1])
  BY <1>1, LastSelections
<1> HIDE DEF selections
<1>3. IsGood(s, chosen, input.requests[Len(chosen) + 1])
  BY <1>1, <1>2, TailFacts
<1>4. input.constraints = <<>>
  BY <1>1 DEF Shape, UseBacktrackingPlanner
<1>5. ConstraintsHold(SetsOf(a))
  BY <1>4, NoConstraintsHold
<1> HIDE DEF s
<1>6. IsGoodPlan(a) /\ \A k \in DOMAIN frames : Prefix(a, k - 1) = Prefix(chosen, k - 1)
  BY <1>1, <1>3, <1>5, ChosenLonger
<1> HIDE DEF a
<1>7. AreGoodFrames(frames, a)
  BY <1>6 DEF Good, AreGoodFrames
<1> QED
  BY <1>1, <1>6, <1>7, KeepsGood

\* The selections of the next alternative are good after all that is chosen.
LEMMA NextAlternativeGood ==
    ASSUME TypeOK, Shape, Good, NextAlternative
    PROVE  IsGoodPlan(chosen)' /\ AreGoodFrames(frames, chosen)'
<1> DEFINE n == Len(frames)
           f == Last(frames)
           alt == Head(f.alternatives)
           request == input.requests[n]
           out == AlternativeOutcome(alt)
           g == AfterAlternative(f, out)
           gs == [frames EXCEPT ![n] = g]
<1>1. /\ Iterating /\ f.alternatives # <<>> /\ pc \in {"search", "greedy"}
      /\ input' = input /\ chosen' = chosen
  BY DEF NextAlternative, Iterating
<1>2. /\ n = Len(chosen) + 1 /\ frames # <<>> /\ f = frames[n]
      /\ IsFrame(f, request) /\ n \in 1..Len(input.requests) /\ Len(chosen) \in Nat
  BY <1>1, Places
<1>3. frames' = gs
  BY <1>2 DEF NextAlternative
<1>4. alt \in Range(f.alternatives)
  BY <1>1, <1>2, TailFacts DEF IsFrame
<1>5. alt \in Range(Alternatives(request)) /\ SupportedAlternative(alt)
  BY <1>2, <1>4 DEF IsFrame, SupportedRequest
<1>6. IsAlternative(alt)
  BY <1>2, <1>5, RequestFacts DEF Shape
<1>7. Planning /\ StepsAreWhole
  BY GoodIsPlanning DEF Good
<1> HIDE DEF alt, f
<1>8. /\ AreSelections(out.selections, alt)
      /\ out.selections # <<>> => alt.class \in input.classes
  BY <1>1, <1>5, <1>6, <1>7, OutcomeSelections
<1> HIDE DEF out
<1>9. ASSUME NEW s \in Range(out.selections) PROVE IsGood(s, chosen, request)
  <2>1. IsList(out.selections) /\ IsSelection(s, alt)
    BY <1>8 DEF AreSelections
  <2>2. alt.class \in input.classes
    BY <1>8, <2>1, ListFacts
  <2> QED
    BY <1>5, <1>7, <2>1, <2>2, SelectionIsGood
<1>10. g.selections = out.selections /\ IsList(out.selections)
  BY <1>8 DEF AfterAlternative, Frame, AreSelections
<1> HIDE DEF g
<1>11. Prefix(chosen, n - 1) = chosen
  <2>1. n - 1 = Len(chosen)
    BY <1>2
  <2> QED
    BY <2>1, PrefixWhole DEF Shape
<1>12. /\ DOMAIN gs = 1..n /\ gs[n] = g
       /\ \A k \in DOMAIN gs : k # n => gs[k] = frames[k] /\ k \in DOMAIN frames
  BY <1>2, ReplaceLast DEF Shape, AreFrames
<1> HIDE DEF gs, n
<1>13. ASSUME NEW k \in DOMAIN gs
       PROVE  /\ IsList(gs[k].selections)
              /\ \A s \in Range(gs[k].selections) :
                    IsGood(s, Prefix(chosen, k - 1), input.requests[k])
  <2>1. CASE k = n
    BY <1>9, <1>10, <1>11, <1>12, <2>1
  <2>2. CASE k # n
    BY <1>12, <2>2 DEF Good, AreGoodFrames
  <2> QED
    BY <2>1, <2>2
<1>14. AreGoodFrames(gs, chosen)
  BY <1>13 DEF AreGoodFrames
<1> QED
  BY <1>1, <1>3, <1>14, KeepsGood DEF Good

\* The search takes a good selection that keeps the constraints.
LEMMA YieldGood ==
    ASSUME TypeOK, Shape, Good, Yield
    PROVE  IsGoodPlan(chosen)' /\ AreGoodFrames(frames, chosen)'
<1> DEFINE n == Len(frames)
           f == Last(frames)
           s == Head(f.selections)
           answer == matchConstraintsSatisfied(Taken \o s)
           request == input.requests[n]
           g == [f EXCEPT !.selections = Tail(f.selections)]
           gs == [frames EXCEPT ![n] = g]
           c == IF answer = "yes" THEN Append(chosen, s) ELSE chosen
<1>1. Iterating /\ input' = input /\ f.selections # <<>>
  BY DEF Yield
<1>2. /\ n = Len(chosen) + 1 /\ frames # <<>> /\ f = frames[n]
      /\ IsFrame(f, request) /\ DOMAIN frames = 1..n /\ Len(chosen) \in Nat
  BY <1>1, Places
<1>3. CASE BudgetSpent
  <2>1. frames' = frames /\ chosen' = chosen
    BY <1>3 DEF Yield
  <2> QED
    BY <1>1, <2>1, KeepsGood DEF Good
<1>4. CASE ~BudgetSpent
  <2>1. frames' = gs /\ chosen' = c
    BY <1>2, <1>4 DEF Yield
  <2>2. /\ IsList(f.selections)
        /\ \A t \in Range(f.selections) : IsGood(t, chosen, input.requests[Len(chosen) + 1])
    BY <1>1, LastSelections
  <2>3. /\ s \in Range(f.selections) /\ IsList(Tail(f.selections))
        /\ Range(Tail(f.selections)) \subseteq Range(f.selections)
    BY <1>1, <2>2, TailFacts
  <2>4. IsGood(s, chosen, input.requests[Len(chosen) + 1])
    BY <2>2, <2>3
  <2>5. g.selections = Tail(f.selections)
    <3>1. f = Frame(f.alternatives, f.selections, f.missing, f.limit, f.failure)
      BY <1>2 DEF IsFrame
    <3> HIDE DEF f
    <3>2. g = Frame(f.alternatives, Tail(f.selections), f.missing, f.limit, f.failure)
      BY <3>1, FrameExcept
    <3> QED
      BY <3>2 DEF Frame
  <2> HIDE DEF g
  <2>6. /\ DOMAIN gs = 1..n /\ gs[n] = g
        /\ \A k \in DOMAIN gs : k # n => gs[k] = frames[k] /\ k \in DOMAIN frames
    BY <1>2, ReplaceLast DEF Shape, AreFrames
  <2> HIDE DEF gs, f, s
  <2>7. \A k \in DOMAIN gs :
            /\ k \in DOMAIN frames
            /\ IsList(gs[k].selections)
            /\ Range(gs[k].selections) \subseteq Range(frames[k].selections)
    <3> TAKE k \in DOMAIN gs
    <3>1. CASE k = n
      BY <1>2, <2>3, <2>5, <2>6, <3>1
    <3>2. CASE k # n
      BY <2>6, <3>2 DEF Good, AreGoodFrames
    <3> QED
      BY <3>1, <3>2
  <2>8. IsGoodPlan(c) /\ \A k \in DOMAIN frames : Prefix(c, k - 1) = Prefix(chosen, k - 1)
    <3>1. CASE answer = "yes"
      <4> DEFINE a == Append(chosen, s)
      <4>1. Tidy(chosen) /\ Finite(Range(FlattenSeq(chosen)))
        BY GoodPlanFacts DEF Shape, Good, Finite
      <4>2. /\ IsList(s) /\ \A i, j \in DOMAIN s : s[i].id = s[j].id => i = j
            /\ \A i \in DOMAIN s : s[i].amount \in Nat
        BY <2>4 DEF IsGood
      <4>3. Finite(Range(s))
        BY <2>4, GoodDevices DEF Shape, Finite
      <4>4. /\ Tidy(a) /\ FlattenSeq(a) = Taken \o s
            /\ Range(FlattenSeq(a)) = Range(FlattenSeq(chosen)) \cup Range(s)
        BY <4>1, <4>2, TidyLonger DEF Taken
      <4> HIDE DEF a
      <4>5. Finite(Range(FlattenSeq(a)))
        BY <4>1, <4>3, <4>4 DEF Finite
      <4>6. ConstraintsHold(SetsOf(a))
        BY <3>1, <4>4, <4>5, ConstraintsAreRight DEF Shape
      <4> QED
        BY <1>1, <2>4, <3>1, <4>6, ChosenLonger DEF a
    <3>2. CASE answer # "yes"
      BY <3>2 DEF Good
    <3> QED
      BY <3>1, <3>2
  <2> HIDE DEF c
  <2>9. AreGoodFrames(gs, c)
    <3>1. \A k \in DOMAIN gs :
            /\ k \in DOMAIN frames /\ Prefix(c, k - 1) = Prefix(chosen, k - 1)
            /\ IsList(gs[k].selections)
            /\ Range(gs[k].selections) \subseteq Range(frames[k].selections)
      BY <2>7, <2>8
    <3> QED
      BY <3>1, GoodFramesAgree DEF Good
  <2> QED
    BY <1>1, <2>1, <2>8, <2>9, KeepsGood
<1> QED
  BY <1>3, <1>4

\* Going back leaves the earlier choices as good as they were.
LEMMA ExhaustedGood ==
    ASSUME TypeOK, Shape, Good, Exhausted
    PROVE  IsGoodPlan(chosen)' /\ AreGoodFrames(frames, chosen)'
<1> DEFINE n == Len(frames)
           failure == IterationFailure(Last(frames), input.requests[n])
<1>1. Iterating /\ input' = input
  BY DEF Exhausted, NothingLeft
<1>2. n = Len(chosen) + 1 /\ Len(chosen) \in Nat /\ DOMAIN frames = 1..n
  BY <1>1, Places
<1>3. CASE Backtracks(failure)
  <2> DEFINE gs == Prefix(frames, n - 1)
             c == Prefix(chosen, n - 2)
  <2>1. frames' = gs /\ chosen' = c
    BY <1>2, <1>3 DEF Exhausted, Front, Prefix
  <2>2. n - 1 \in 0..Len(frames) /\ n - 2 \in 0..Len(chosen) /\ n \in Nat
    <3>1. n > 1
      BY <1>3 DEF Backtracks
    <3> QED
      BY <1>2, <3>1
  <2>3. /\ DOMAIN gs = 1..(n - 1)
        /\ \A i \in 1..(n - 1) : gs[i] = frames[i] /\ i \in DOMAIN frames
    BY <2>2, PrefixFacts DEF Shape, AreFrames
  <2>4. IsGoodPlan(c)
    BY <2>2, GoodPlanShorter DEF Good
  <2>5. \A k \in 0..(n - 2) : Prefix(c, k) = Prefix(chosen, k)
    BY <2>2, PrefixOfPrefix DEF Shape
  <2> HIDE DEF gs, c
  <2>6. \A k \in DOMAIN gs :
            /\ k \in DOMAIN frames /\ Prefix(c, k - 1) = Prefix(chosen, k - 1)
            /\ IsList(gs[k].selections)
            /\ Range(gs[k].selections) \subseteq Range(frames[k].selections)
    <3> TAKE k \in DOMAIN gs
    <3>1. k - 1 \in 0..(n - 2)
      BY <2>2, <2>3
    <3> QED
      BY <2>3, <2>5, <3>1 DEF Good, AreGoodFrames
  <2>7. AreGoodFrames(gs, c)
    BY <2>6, GoodFramesAgree DEF Good
  <2> QED
    BY <1>1, <2>1, <2>4, <2>7, KeepsGood
<1>4. CASE ~Backtracks(failure)
  <2>1. frames' = frames /\ chosen' = chosen
    BY <1>4 DEF Exhausted
  <2> QED
    BY <1>1, <2>1, KeepsGood DEF Good
<1> QED
  BY <1>3, <1>4

\* A request is entered with no selection yet.
LEMMA EnterRequestGood ==
    ASSUME TypeOK, Shape, Good, EnterRequest
    PROVE  IsGoodPlan(chosen)' /\ AreGoodFrames(frames, chosen)'
<1> DEFINE request == input.requests[Len(chosen) + 1]
           f == Frame(Alternatives(request), <<>>, TRUE, FALSE, "none")
           gs == Append(frames, f)
<1>1. input' = input /\ chosen' = chosen /\ (frames' = frames \/ frames' = gs)
  BY DEF EnterRequest
<1>2. f.selections = <<>>
  BY DEF Frame
<1> HIDE DEF f
<1> DEFINE n == Len(frames)
<1>3. n \in Nat /\ DOMAIN frames = 1..n /\ IsList(frames)
  BY Places DEF Shape, AreFrames
<1>4. /\ DOMAIN gs = 1..(n + 1) /\ gs[n + 1] = f
      /\ \A k \in 1..n : gs[k] = frames[k]
  BY <1>3, AppendFacts
<1> HIDE DEF gs, n
<1>5. ASSUME NEW k \in DOMAIN gs
      PROVE  /\ IsList(gs[k].selections)
             /\ \A s \in Range(gs[k].selections) :
                    IsGood(s, Prefix(chosen, k - 1), input.requests[k])
  <2>1. CASE k = n + 1
    <3>1. gs[k].selections = <<>>
      BY <1>2, <1>4, <2>1
    <3> QED
      BY <3>1, OneSelection
  <2>2. CASE k # n + 1
    <3>1. k \in DOMAIN frames /\ gs[k] = frames[k]
      BY <1>3, <1>4, <2>2
    <3> QED
      BY <3>1 DEF Good, AreGoodFrames
  <2> QED
    BY <2>1, <2>2
<1>6. AreGoodFrames(gs, chosen)
  BY <1>5 DEF AreGoodFrames
<1> QED
  BY <1>1, <1>6, KeepsGood DEF Good

\* Every action keeps the plan and the selections left good.
LEMMA GoodStep ==
    ASSUME TypeOK, Shape, Good, [Next]_vars
    PROVE  IsGoodPlan(chosen)' /\ AreGoodFrames(frames, chosen)'
<1>1. CASE EnterRequest
  BY <1>1, EnterRequestGood
<1>2. CASE NextAlternative
  BY <1>2, NextAlternativeGood
<1>3. CASE SelectRequest
  BY <1>3, SelectRequestGood
<1>4. CASE Yield
  BY <1>4, YieldGood
<1>5. CASE Exhausted
  BY <1>5, ExhaustedGood
<1>6. ASSUME planClaimAllocation \/ AllRequestsSelected \/ Canceled \/ UNCHANGED vars
      PROVE  IsGoodPlan(chosen)' /\ AreGoodFrames(frames, chosen)'
  <2>1. input' = input /\ frames' = frames /\ chosen' = chosen
    BY <1>6 DEF planClaimAllocation, AllRequestsSelected, Canceled, vars
  <2> QED
    BY <2>1, KeepsGood DEF Good
<1> QED
  BY <1>1, <1>2, <1>3, <1>4, <1>5, <1>6 DEF Next, Answered

\* Every step of the planner keeps the invariant.
LEMMA SearchStep == SearchIInv /\ [Next]_vars => SearchIInv'
<1> SUFFICES ASSUME SearchIInv, [Next]_vars PROVE SearchIInv'
  OBVIOUS
<1>1. TypeOK' /\ Shape' /\ input' = input
  BY ShapeStep DEF SearchIInv
<1>2. StepsAreWhole' <=> StepsAreWhole
  BY <1>1 DEF StepsAreWhole
<1>3. ASSUME StepsAreWhole PROVE IsGoodPlan(chosen)' /\ AreGoodFrames(frames, chosen)'
  BY <1>3, GoodStep DEF SearchIInv, Good
<1> QED
  BY <1>1, <1>2, <1>3 DEF SearchIInv

\* The invariant of planClaimAllocation, both planners: every frame is a frame
\* of its request, every selection chosen or left in a frame is a good one after
\* the choices before it, whatever the search tried and took back.
THEOREM SearchInductiveInvariant == Spec => []SearchIInv
<1> QED
  BY SearchInit, SearchStep, PTL DEF Spec

\* At most one frame and one selection for each request, failures among the
\* reasons, and a branch budget that constraintSearchBudget.consume never takes
\* below zero.
THEOREM SearchTypes == Spec => []TypeOK
<1>1. SearchIInv => TypeOK
  BY DEF SearchIInv
<1> QED
  BY <1>1, SearchInductiveInvariant, PTL

\* A good plan for all requests is a plan.
LEMMA GoodPlanIsPlan ==
    ASSUME WellFormed(input), IsGoodPlan(chosen), Len(chosen) = Len(input.requests)
    PROVE  IsPlan(ChosenSets)
<1> DEFINE c == chosen
           N == Len(chosen)
<1>1. IsList(c) /\ N \in Nat /\ DOMAIN c = 1..N /\ N = Len(c)
  BY ListFacts DEF IsGoodPlan
<1>2. ChosenSets = SetsOf(c)
  BY DEF ChosenSets, SetsOf
<1>3. DOMAIN SetsOf(c) = 1..N /\ Len(SetsOf(c)) = N
  <2>1. SetsOf(c) \in [1..N -> {Range(c[k]) : k \in DOMAIN c}]
    BY <1>1 DEF SetsOf
  <2> QED
    BY <1>1, <2>1, IsListIf
<1>4. IsGoodPlan(c)
  OBVIOUS
<1> HIDE DEF c
<1>5. ASSUME NEW k \in DOMAIN SetsOf(c)
      PROVE  SubSeq(SetsOf(c), 1, k)
                \in Extensions(SubSeq(SetsOf(c), 1, k - 1), input.requests[k])
  <2> DEFINE p == Prefix(c, k - 1)
  <2>1. k \in DOMAIN c
    BY <1>1, <1>3
  <2>2. k - 1 \in 0..Len(c) /\ k \in 0..Len(c) /\ Prefix(c, k) = Append(p, c[k])
    BY <1>1, <2>1, PrefixGrows
  <2>3. IsGood(c[k], p, input.requests[k]) /\ ConstraintsHold(SetsOf(Prefix(c, k)))
    BY <1>4, <2>1 DEF IsGoodPlan
  <2>4. IsGoodPlan(p)
    BY <1>4, <2>2, GoodPlanShorter
  <2>5. Tidy(p) /\ IsList(p)
    BY <2>4, GoodPlanFacts DEF Tidy
  <2>6. /\ SubSeq(SetsOf(c), 1, k) = SetsOf(Prefix(c, k))
        /\ SubSeq(SetsOf(c), 1, k - 1) = SetsOf(p)
    BY <1>1, <2>2, SetsOfPrefix
  <2> HIDE DEF p
  <2>7. SetsOf(Prefix(c, k)) = Append(SetsOf(p), Range(c[k]))
    BY <2>2, <2>5, SetsOfAppend
  <2>8. Append(SetsOf(p), Range(c[k])) \in Extensions(SetsOf(p), input.requests[k])
    BY <2>2, <2>3, <2>5, GoodExtends
  <2> QED
    BY <2>6, <2>7, <2>8
<1> QED
  BY <1>2, <1>3, <1>5 DEF IsPlan

\* Whatever planClaimAllocation answers for a claim is a plan of it, for every
\* input, branch budget and limit on results: one node, healthy matching devices
\* of managed slices in the right number, at most AllocationResultsMaxSize of
\* them, no device used exclusively and again, shares that fit with those of
\* other claims and of earlier requests, each charged the least amount its policy
\* allows, constraints that hold, and All mode only over complete pools.
THEOREM PlanIsValidHolds == Spec => []PlanIsValid
<1>1. SearchIInv => PlanIsValid
  <2> SUFFICES ASSUME SearchIInv, outcome = "planned", StepsAreWhole
               PROVE  IsPlan(ChosenSets)
    BY DEF PlanIsValid
  <2> QED
    BY GoodPlanIsPlan DEF SearchIInv, Shape
<1> QED
  BY <1>1, SearchInductiveInvariant, PTL
-----------------------------------------------------------------------------
(* Nothing is lost.  PlansFrom, which TLC computes level by level, gives    *)
(* plans that extend its argument request by request.                      *)

\* The plans that serve request k after one of plans.
Served(plans, k) == UNION {Extensions(p, input.requests[k]) : p \in plans}

\* reach[k] are the plans of the first k requests that begin as plan does, which
\* serves a of them.
Reaches(reach, plan, a, b) ==
    reach = [k \in a..b |-> IF k = a THEN {plan} ELSE Served(reach[k - 1], k)]

\* The same, level by level.
Levels(reach, plan, a, b) ==
    \A k \in a..b : reach[k] = IF k = a THEN {plan} ELSE Served(reach[k - 1], k)

\* A solution of the recursion, at each of its levels.
LEMMA ReachesAt ==
    ASSUME NEW reach, NEW plan, NEW a \in Nat, NEW b \in Nat, Reaches(reach, plan, a, b)
    PROVE  Levels(reach, plan, a, b)
<1> DEFINE e == [k \in a..b |-> IF k = a THEN {plan} ELSE Served(reach[k - 1], k)]
<1>1. reach = e
  BY DEF Reaches
<1>2. \A k \in a..b : e[k] = IF k = a THEN {plan} ELSE Served(reach[k - 1], k)
  BY Zenon
<1> HIDE DEF e
<1> QED
  BY <1>1, <1>2, Zenon DEF Levels

\* The recursion of PlansFrom has a solution.
LEMMA ReachExists ==
    ASSUME NEW plan, NEW a \in Nat, NEW n \in Nat
    PROVE  \E reach : Reaches(reach, plan, a, a + n)
<1> DEFINE S == {m \in Nat : \E reach : Reaches(reach, plan, a, a + m)}
<1>1. 0 \in S
  <2>0. \A k \in a..(a + 0) : k = a
    OBVIOUS
  <2> DEFINE f == [k \in a..(a + 0) |-> {plan}]
  <2>1. f = [k \in a..(a + 0) |-> IF k = a THEN {plan} ELSE Served(f[k - 1], k)]
    BY <2>0
  <2> HIDE DEF f
  <2>2. Reaches(f, plan, a, a + 0)
    BY <2>1 DEF Reaches
  <2> QED
    BY <2>2
<1>2. ASSUME NEW m \in Nat, m \in S PROVE m + 1 \in S
  <2>1. PICK f : Reaches(f, plan, a, a + m)
    BY <1>2
  <2> DEFINE b == a + m
             g == [k \in a..(b + 1) |-> IF k = a THEN {plan} ELSE Served(f[k - 1], k)]
  <2>0. b \in Nat /\ a + (m + 1) = b + 1
    OBVIOUS
  <2>2. \A k \in a..b : g[k] = f[k]
    <3>1. \A k \in a..b : f[k] = IF k = a THEN {plan} ELSE Served(f[k - 1], k)
      <4> HIDE DEF b
      <4>1. Reaches(f, plan, a, b)
        BY <2>1 DEF b
      <4>2. Levels(f, plan, a, b)
        BY <2>0, <4>1, ReachesAt
      <4> QED
        BY <4>2 DEF Levels
    <3>2. \A k \in a..b : k \in a..(b + 1)
      OBVIOUS
    <3> QED
      BY <3>1, <3>2, Zenon
  <2>3. g = [k \in a..(b + 1) |-> IF k = a THEN {plan} ELSE Served(g[k - 1], k)]
    <3>1. \A k \in a..(b + 1) : k # a => g[k - 1] = f[k - 1]
      <4> TAKE k \in a..(b + 1)
      <4> HAVE k # a
      <4>1. k - 1 \in a..b
        OBVIOUS
      <4> HIDE DEF g
      <4> QED
        BY <4>1, <2>2
    <3>2. \A k \in a..(b + 1) : g[k] = IF k = a THEN {plan} ELSE Served(f[k - 1], k)
      OBVIOUS
    <3>3. g = [k \in a..(b + 1) |-> g[k]]
      OBVIOUS
    <3> HIDE DEF g, b
    <3>4. \A k \in a..(b + 1) : g[k] = IF k = a THEN {plan} ELSE Served(g[k - 1], k)
      BY <3>1, <3>2
    <3> QED
      BY <3>3, <3>4
  <2> HIDE DEF g, b
  <2>4. Reaches(g, plan, a, b + 1)
    BY <2>3 DEF Reaches
  <2> QED
    BY <2>0, <2>4
<1> HIDE DEF S
<1>3. n \in S
  BY <1>1, <1>2, NatSet
<1> QED
  BY <1>3 DEF S

\* q serves n requests and begins as plan does.
LeadsTo(q, plan, n) ==
    /\ IsList(q) /\ Len(q) = n /\ Len(plan) <= n
    /\ Prefix(q, Len(plan)) = plan
    /\ \A i \in (Len(plan) + 1)..n :
        Prefix(q, i) \in Extensions(Prefix(q, i - 1), input.requests[i])

\* One more request.
LEMMA LeadsFurther ==
    ASSUME NEW plan, IsList(plan), NEW p, NEW n \in Nat, LeadsTo(p, plan, n),
           NEW q \in Extensions(p, input.requests[n + 1])
    PROVE  LeadsTo(q, plan, n + 1)
<1>1. PICK set : q = Append(p, set)
  BY DEF Extensions
<1>2. IsList(p) /\ Len(p) = n /\ IsList(q) /\ Len(q) = n + 1
  BY <1>1, AppendFacts DEF LeadsTo
<1> DEFINE a == Len(plan)
<1>3. a \in Nat /\ a <= n
  BY ListFacts DEF LeadsTo
<1>a. Prefix(p, a) = plan
  BY DEF LeadsTo
<1>b. \A i \in (a + 1)..n : Prefix(p, i) \in Extensions(Prefix(p, i - 1), input.requests[i])
  BY DEF LeadsTo
<1>4. \A i \in 1..n : q[i] = p[i]
  BY <1>1, <1>2, AppendFacts
<1>5. \A i \in 0..n : Prefix(q, i) = Prefix(p, i)
  <2> TAKE i \in 0..n
  <2>1. i \in Nat /\ i <= Len(p) /\ i <= Len(q) /\ \A j \in 1..i : q[j] = p[j]
    BY <1>2, <1>4
  <2> QED
    BY <1>2, <2>1, PrefixesAgree
<1>6. Prefix(q, n + 1) = q /\ Prefix(p, n) = p
  BY <1>2, PrefixWhole
<1> HIDE DEF a
<1>7. \A i \in (a + 1)..(n + 1) :
        Prefix(q, i) \in Extensions(Prefix(q, i - 1), input.requests[i])
  <2> TAKE i \in (a + 1)..(n + 1)
  <2>1. CASE i = n + 1
    <3>1. i - 1 = n /\ n \in 0..n
      BY <2>1
    <3>2. Prefix(q, i - 1) = p
      BY <3>1, <1>5, <1>6
    <3> QED
      BY <2>1, <3>2, <1>6
  <2>2. CASE i # n + 1
    <3>1. i \in 0..n /\ i - 1 \in 0..n /\ i \in (a + 1)..n
      BY <2>2, <1>3
    <3> QED
      BY <3>1, <1>5, <1>b
  <2> QED
    BY <2>1, <2>2
<1>8. Prefix(q, a) = plan /\ a <= n + 1
  BY <1>3, <1>5, <1>a
<1> QED
  BY <1>2, <1>7, <1>8 DEF LeadsTo, a

\* What PlansFrom gives.
LEMMA PlansFromAre ==
    ASSUME NEW plan, IsList(plan), Len(input.requests) \in Nat,
           Len(plan) <= Len(input.requests), NEW q \in PlansFrom(plan)
    PROVE  LeadsTo(q, plan, Len(input.requests))
<1> DEFINE a == Len(plan)
           b == Len(input.requests)
           f == CHOOSE reach : Reaches(reach, plan, a, b)
<1>0. a \in Nat /\ b \in Nat /\ a <= b /\ b - a \in Nat /\ a + (b - a) = b
  BY ListFacts
<1>1. PlansFrom(plan) = f[b]
  BY Zenon DEF PlansFrom, Reaches, Served
<1>2. Reaches(f, plan, a, b)
  <2> HIDE DEF a, b
  <2>1. \E reach : Reaches(reach, plan, a, b)
    BY <1>0, ReachExists
  <2> QED
    BY <2>1
<1> HIDE DEF a, b, f
<1>3. \A k \in a..b : f[k] = IF k = a THEN {plan} ELSE Served(f[k - 1], k)
  <2>1. Levels(f, plan, a, b)
    BY <1>0, <1>2, ReachesAt
  <2> QED
    BY <2>1, Zenon DEF Levels
<1> DEFINE T == {m \in Nat : a + m <= b => \A p \in f[a + m] : LeadsTo(p, plan, a + m)}
<1>4. 0 \in T
  <2>1. f[a + 0] = {plan}
    BY <1>0, <1>3
  <2>2. LeadsTo(plan, plan, a)
    <3>1. Prefix(plan, a) = plan
      BY PrefixWhole DEF a
    <3>2. \A i \in (a + 1)..a : FALSE
      BY <1>0
    <3> QED
      BY <3>1, <3>2, <1>0 DEF LeadsTo, a
  <2> QED
    BY <1>0, <2>1, <2>2
<1>5. ASSUME NEW m \in Nat, m \in T PROVE m + 1 \in T
  <2> SUFFICES ASSUME a + (m + 1) <= b, NEW q1 \in f[a + (m + 1)]
               PROVE  LeadsTo(q1, plan, a + (m + 1))
    OBVIOUS
  <2>1. a + m <= b /\ (a + m) + 1 = a + (m + 1) /\ a + (m + 1) \in a..b
        /\ a + (m + 1) # a /\ (a + (m + 1)) - 1 = a + m /\ a + m \in Nat
    BY <1>0
  <2>2. q1 \in Served(f[a + m], a + (m + 1))
    BY <1>3, <2>1
  <2>3. PICK p \in f[a + m] : q1 \in Extensions(p, input.requests[a + (m + 1)])
    BY <2>2 DEF Served
  <2>4. LeadsTo(p, plan, a + m)
    BY <1>5, <2>1, <2>3
  <2> QED
    BY <2>1, <2>3, <2>4, LeadsFurther
<1> HIDE DEF T
<1>6. b - a \in T
  BY <1>0, <1>4, <1>5, NatSet
<1>7. \A p \in f[b] : LeadsTo(p, plan, b)
  BY <1>0, <1>6 DEF T
<1> QED
  BY <1>1, <1>7 DEF b
-----------------------------------------------------------------------------
(* What a set that serves the request is to the planner: a wanted set, made *)
(* of devices the alternative collects, and among the combinations of an    *)
(* ExactCount alternative.                                                  *)

\* A constraint whose devices have one scalar value in common is satisfied.
LEMMA InCommonIsSatisfied ==
    ASSUME NEW devices, IsList(devices), NEW c, HaveInCommon(c, Range(devices))
    PROVE  matchConstraintSatisfied(c, devices) = "yes"
<1> DEFINE I == {i \in DOMAIN devices : AppliesTo(c, devices[i].request)}
           list == AtIndexes(devices, I)
           fields == [i \in DOMAIN list |-> Attribute(list[i], c.attribute)]
           bad == {i \in DOMAIN fields :
                    fields[i] = {} \/ Malformed(fields[i]) \/ fields[i] # fields[1]}
           bound == {d \in Range(devices) : AppliesTo(c, d.request)}
           values == {Attribute(d, c.attribute) : d \in bound}
<1>1. I \in SUBSET DOMAIN devices
  OBVIOUS
<1>2. IsList(list) /\ Range(list) = {devices[i] : i \in I}
  BY <1>1, AtIndexesList
<1>3. Range(list) = bound
  BY <1>2 DEF Range
<1> HIDE DEF I, list
<1>4. bad = {}
  <2>1. CASE DOMAIN list = {}
    BY <2>1
  <2>2. CASE DOMAIN list # {}
    <3>1. bound # {} /\ 1 \in DOMAIN list
      <4>1. Len(list) \in Nat /\ DOMAIN list = 1..Len(list)
        BY <1>2, ListFacts
      <4>2. 1 \in DOMAIN list
        BY <2>2, <4>1
      <4> QED
        BY <1>3, <4>2 DEF Range
    <3>2. PICK f : values = {{f}} /\ f[1] # "list"
      BY <3>1, Zenon DEF HaveInCommon
    <3>3. \A i \in DOMAIN list : Attribute(list[i], c.attribute) = {f}
      <4> TAKE i \in DOMAIN list
      <4>1. list[i] \in bound
        BY <1>3 DEF Range
      <4> HIDE DEF bound
      <4>2. Attribute(list[i], c.attribute) \in values
        BY <4>1
      <4> QED
        BY <3>2, <4>2
    <3>4. ~Malformed({f})
      <4>1. Cardinality({f}) = 1
        BY FS_Singleton
      <4> QED
        BY <3>2, <4>1 DEF Malformed
    <3>5. \A i \in DOMAIN list : fields[i] = {f}
      BY <3>3, Zenon
    <3> HIDE DEF values, bound
    <3>6. DOMAIN fields = DOMAIN list
      OBVIOUS
    <3> HIDE DEF fields
    <3> QED
      BY <3>1, <3>4, <3>5, <3>6
  <2> QED
    BY <2>1, <2>2
<1>5. matchConstraintSatisfied(c, devices)
            = CASE bad = {} -> "yes"
                [] OTHER -> IF Malformed(fields[Min(bad)]) THEN "fail" ELSE "no"
  BY DEF matchConstraintSatisfied, I, list
<1> HIDE DEF bad
<1> QED
  BY <1>4, <1>5

\* The planner finds the constraints satisfied of a plan for which they hold.
LEMMA ConstraintsAreSatisfied ==
    ASSUME WellFormed(input), NEW c, Tidy(c), ConstraintsHold(SetsOf(c))
    PROVE  matchConstraintsSatisfied(FlattenSeq(c)) = "yes"
<1> DEFINE devices == FlattenSeq(c)
           answers == [i \in DOMAIN input.constraints |->
                        matchConstraintSatisfied(input.constraints[i], devices)]
           bad == {i \in DOMAIN answers : answers[i] # "yes"}
<1>1. IsList(devices) /\ Range(devices) = UNION {Range(c[k]) : k \in DOMAIN c}
  BY FlattenLists DEF Tidy
<1>2. UNION Range(SetsOf(c)) = Range(devices)
  <2>1. Range(SetsOf(c)) = {Range(c[k]) : k \in DOMAIN c}
    BY DEF Range, SetsOf
  <2> QED
    BY <1>1, <2>1
<1> HIDE DEF devices
<1>3. \A constraint \in Range(input.constraints) :
        matchConstraintSatisfied(constraint, devices) = "yes"
  <2> TAKE constraint \in Range(input.constraints)
  <2>1. HaveInCommon(constraint, UNION Range(SetsOf(c)))
    BY Zenon DEF ConstraintsHold, HaveInCommon
  <2> QED
    BY <1>1, <1>2, <2>1, InCommonIsSatisfied
<1>4. bad = {}
  BY <1>3 DEF Range
<1> QED
  BY <1>4 DEF matchConstraintsSatisfied, devices

\* Two devices of one identity are one.
LEMMA SameIdentity ==
    ASSUME WellFormed(input), IdentitiesAreDistinct,
           NEW s \in Range(input.slices), NEW d \in Range(s.devices),
           NEW t \in Range(input.slices), NEW e \in Range(t.devices),
           <<s.driver, s.pool, d.name>> = <<t.driver, t.pool, e.name>>
    PROVE  s = t /\ d = e
<1> DEFINE offers == Offers(input.slices, NoNode)
           o == Offer(s, d, NoNode)
           p == Offer(t, e, NoNode)
<1>1. IsList(input.slices) /\ \A r \in Range(input.slices) : IsList(r.devices)
  BY DEF WellFormed, IsSlice
<1>2. \A r : CompatibleNodes(r, NoNode) # {}
  BY DEF CompatibleNodes
<1>3. IsOffer(o, input.slices, NoNode) /\ IsOffer(p, input.slices, NoNode)
  BY <1>2 DEF IsOffer
<1>4. o \in Range(offers) /\ p \in Range(offers)
  BY <1>1, <1>3, OffersList
<1>5. Identity(o) = Identity(p) /\ o.slice = s /\ o.device = d /\ p.slice = t /\ p.device = e
  BY DEF Identity, Offer
<1> HIDE DEF o, p
<1>6. PICK i \in DOMAIN offers : offers[i] = o
  BY <1>4 DEF Range
<1>7. PICK j \in DOMAIN offers : offers[j] = p
  BY <1>4 DEF Range
<1>8. i = j
  BY <1>5, <1>6, <1>7 DEF IdentitiesAreDistinct
<1> QED
  BY <1>5, <1>6, <1>7, <1>8

\* What a list ranges over is finite.
LEMMA RangeFinite ==
    ASSUME NEW s, IsList(s)
    PROVE  IsFiniteSet(Range(s))
<1>1. Len(s) \in Nat /\ DOMAIN s = 1..Len(s) /\ s \in [DOMAIN s -> Range(s)]
  BY ListFacts
<1>2. s \in Surjection(DOMAIN s, Range(s))
  BY <1>1 DEF Surjection, Range
<1>3. IsFiniteSet(DOMAIN s)
  BY <1>1, FS_Interval
<1> QED
  BY <1>2, <1>3, FS_Surjection

\* Finitely many devices are suitable.
LEMMA SuitableFinite ==
    ASSUME WellFormed(input), NEW alt, NEW node, NEW plan
    PROVE  IsFiniteSet(Suitable(alt, node, plan))
<1> DEFINE Fitting(s) == {e \in Range(s.devices) :
                /\ e.verdict[alt.class] = "match"
                /\ Fits(alt, e, AsTaken(alt, s, e), plan)}
           Of(s) == {AsTaken(alt, s, d) : d \in Fitting(s)}
           slices == SlicesFor(alt, node, plan)
<1>1. Suitable(alt, node, plan) = UNION {Of(s) : s \in slices}
  BY DEF Suitable
<1>2. IsList(input.slices) /\ \A r \in Range(input.slices) : IsList(r.devices)
  BY DEF WellFormed, IsSlice
<1>3. slices \in SUBSET Range(input.slices)
  BY DEF SlicesFor
<1>4. IsFiniteSet(slices)
  <2> HIDE DEF slices
  <2> QED
    BY <1>2, <1>3, RangeFinite, FS_Subset
<1>5. ASSUME NEW s \in slices PROVE IsFiniteSet(Of(s))
  <2>1. IsList(s.devices)
    BY <1>2, <1>3
  <2>2. Fitting(s) \in SUBSET Range(s.devices)
    OBVIOUS
  <2>3. IsFiniteSet(Fitting(s))
    <3> HIDE DEF Fitting
    <3> QED
      BY <2>1, <2>2, RangeFinite, FS_Subset
  <2> DEFINE f == [d \in Fitting(s) |-> AsTaken(alt, s, d)]
  <2>4. f \in Surjection(Fitting(s), Of(s))
    <3> HIDE DEF Fitting
    <3> QED
      BY DEF Surjection
  <2> HIDE DEF f, Fitting, Of
  <2> QED
    BY <2>3, <2>4, FS_Surjection
<1> HIDE DEF slices, Of
<1> DEFINE g == [s \in slices |-> Of(s)]
           All == {Of(s) : s \in slices}
<1>6. g \in Surjection(slices, All)
  BY DEF Surjection
<1>7. IsFiniteSet(All)
  <2> HIDE DEF g, All
  <2> QED
    BY <1>4, <1>6, FS_Surjection
<1>8. \A T \in All : IsFiniteSet(T)
  BY <1>5
<1> HIDE DEF All
<1>9. IsFiniteSet(UNION All)
  BY <1>7, <1>8, FS_UNION
<1> QED
  BY <1>1, <1>9 DEF All

\* The results of a plan that serves one more request.
LEMMA ResultsAppended ==
    ASSUME NEW plan, IsList(plan), NEW set
    PROVE  \A r : r \in Results(Append(plan, set)) <=>
                \/ r \in Results(plan)
                \/ \E d \in set : r = <<Len(plan) + 1, d>>
<1> DEFINE more == Append(plan, set)
<1>1. /\ Len(plan) \in Nat /\ DOMAIN plan = 1..Len(plan)
      /\ DOMAIN more = 1..(Len(plan) + 1)
      /\ more[Len(plan) + 1] = set /\ \A k \in 1..Len(plan) : more[k] = plan[k]
  BY ListFacts, AppendFacts
<1> HIDE DEF more
<1>2. \A p, r : r \in Results(p) <=> \E k \in DOMAIN p : \E d \in p[k] : r = <<k, d>>
  BY DEF Results
<1> SUFFICES ASSUME NEW r
             PROVE  r \in Results(more) <=>
                        \/ r \in Results(plan)
                        \/ \E d \in set : r = <<Len(plan) + 1, d>>
  BY DEF more
<1>3. ASSUME r \in Results(more)
      PROVE  \/ r \in Results(plan)
             \/ \E d \in set : r = <<Len(plan) + 1, d>>
  <2>1. PICK k \in DOMAIN more : \E d \in more[k] : r = <<k, d>>
    BY <1>2, <1>3
  <2>2. CASE k = Len(plan) + 1
    BY <1>1, <2>1, <2>2
  <2>3. CASE k # Len(plan) + 1
    <3>1. k \in DOMAIN plan /\ more[k] = plan[k]
      BY <1>1, <2>3
    <3> QED
      BY <1>2, <2>1, <3>1
  <2> QED
    BY <2>2, <2>3
<1>4. ASSUME r \in Results(plan) PROVE r \in Results(more)
  <2>1. PICK k \in DOMAIN plan : \E d \in plan[k] : r = <<k, d>>
    BY <1>2, <1>4
  <2>2. k \in DOMAIN more /\ more[k] = plan[k]
    BY <1>1
  <2> QED
    BY <1>2, <2>1, <2>2
<1>5. ASSUME NEW d \in set, r = <<Len(plan) + 1, d>>
      PROVE  r \in Results(more)
  <2>1. Len(plan) + 1 \in DOMAIN more /\ more[Len(plan) + 1] = set
    BY <1>1
  <2> QED
    BY <1>2, <1>5, <2>1
<1> QED
  BY <1>3, <1>4, <1>5

\* A set the next request could be served with, on a node the plan allows and
\* within the results left.
Wanted(set, alt, node) ==
    /\ Serves(set, alt, node, ChosenSets)
    /\ AllocatedNode \in {NoNode, node}
    /\ IsFiniteSet(set) /\ Cardinality(set) \in Nat
    /\ Cardinality(set) <= RemainingResults

\* A plan as sets is as long as the lists it is made of.
LEMMA ChosenSetsList ==
    ASSUME NEW c, IsList(c)
    PROVE  IsList(SetsOf(c)) /\ Len(SetsOf(c)) = Len(c)
<1>1. Len(c) \in Nat /\ DOMAIN c = 1..Len(c)
  BY ListFacts
<1>2. SetsOf(c) \in [1..Len(c) -> {Range(c[k]) : k \in 1..Len(c)}]
  BY <1>1 DEF SetsOf
<1> QED
  BY <1>1, <1>2, IsListIf

\* Every extension of the plan serves the request with such a set.
LEMMA ExtensionIsWanted ==
    ASSUME Planning, NEW set, NEW alt, NEW node, NEW request,
           Serves(set, alt, node, ChosenSets),
           Append(ChosenSets, set) \in Extensions(ChosenSets, request)
    PROVE  Wanted(set, alt, node)
<1> DEFINE plan == ChosenSets
           more == Append(plan, set)
           nodes == {result[2].node : result \in Results(more)}
           n == Len(plan) + 1
           new == {n} \X set
<1>0. WellFormed(input) /\ Tidy(chosen) /\ IsList(chosen)
  BY DEF Planning, Tidy
<1>1. IsList(plan)
  <2>1. plan = SetsOf(chosen)
    BY DEF ChosenSets, SetsOf
  <2> QED
    BY <1>0, <2>1, ChosenSetsList
<1>2. Cardinality(nodes) = 1 /\ Cardinality(Results(more)) <= AllocationResultsMaxSize
  BY Zenon DEF Extensions
<1>3. set # {} /\ set \subseteq Suitable(alt, node, plan)
  BY Zenon DEF Serves
<1>4. IsFiniteSet(set) /\ Cardinality(set) \in Nat
  <2>1. set \in SUBSET Suitable(alt, node, plan)
    BY <1>3
  <2>2. IsFiniteSet(set)
    BY <1>0, <2>1, SuitableFinite, FS_Subset
  <2> QED
    BY <2>2, FS_CardinalityType
<1>5. /\ IsList(Taken) /\ Len(Taken) \in Nat
      /\ \E b : Enumerates(b, Taken, Results(plan))
      /\ IsFiniteSet(Results(plan)) /\ Cardinality(Results(plan)) = Len(Taken)
  BY <1>0, TakenIsResults, ListFacts
<1> HIDE DEF plan
<1>6. \A r : r \in Results(more) <=> r \in Results(plan) \/ \E d \in set : r = <<n, d>>
  BY <1>1, ResultsAppended
<1>7. n \in Nat /\ n \notin DOMAIN plan
  BY <1>1, ListFacts
<1> HIDE DEF n, more
<1>8. Results(more) = Results(plan) \cup new
  BY <1>6
<1>9. Results(plan) \cap new = {}
  <2>1. \A r \in Results(plan) : r[1] \in DOMAIN plan
    BY DEF Results
  <2> QED
    BY <1>7, <2>1
<1>10. IsFiniteSet(new) /\ Cardinality(new) = Cardinality(set)
  <2>1. IsFiniteSet({n}) /\ Cardinality({n}) = 1
    BY FS_Singleton
  <2>2. IsFiniteSet(new) /\ Cardinality(new) = 1 * Cardinality(set)
    BY <1>4, <2>1, FS_Product
  <2> QED
    BY <1>4, <2>2
<1> HIDE DEF new
<1>11. IsFiniteSet(Results(more))
       /\ Cardinality(Results(more)) = Len(Taken) + Cardinality(set)
  <2>1. Cardinality(Results(plan) \cap new) = 0
    BY <1>9, FS_EmptySet
  <2>2. /\ IsFiniteSet(Results(plan) \cup new)
        /\ Cardinality(Results(plan) \cup new)
            = Cardinality(Results(plan)) + Cardinality(new)
                - Cardinality(Results(plan) \cap new)
    BY <1>5, <1>10, FS_Union
  <2> QED
    BY <1>4, <1>5, <1>8, <1>10, <2>1, <2>2
<1>12. Cardinality(set) <= RemainingResults
  <2>1. AllocationResultsMaxSize \in Nat
    BY ClaimSearchAssumption
  <2>2. Len(Taken) + Cardinality(set) <= AllocationResultsMaxSize
    BY <1>2, <1>11
  <2> QED
    BY <1>4, <1>5, <2>1, <2>2 DEF RemainingResults
<1>13. AllocatedNode \in {NoNode, node}
  <2> SUFFICES ASSUME Taken # <<>> PROVE AllocatedNode = node
    BY DEF AllocatedNode
  <2>1. 1 \in DOMAIN Taken /\ AllocatedNode = Taken[1].node
    BY <1>5, ListFacts DEF AllocatedNode
  <2>2. PICK b : Enumerates(b, Taken, Results(plan))
    BY <1>5
  <2>3. b[1] \in Results(more) /\ b[1][2] = Taken[1]
    BY <1>6, <2>1, <2>2 DEF Enumerates
  <2>4. PICK d \in set : TRUE
    BY <1>3
  <2>5. d.node = node
    BY <1>0, ServesDevices DEF plan
  <2>6. <<n, d>> \in Results(more)
    BY <1>6
  <2>7. Taken[1].node \in nodes
    BY <2>3
  <2>8. node \in nodes
    <3>1. <<n, d>>[2].node = node
      BY <2>5
    <3> QED
      BY <2>6, <3>1
  <2>9. IsFiniteSet(nodes)
    <3> DEFINE f == [r \in Results(more) |-> r[2].node]
    <3>1. f \in Surjection(Results(more), nodes)
      BY DEF Surjection
    <3> HIDE DEF f, nodes
    <3> QED
      BY <1>11, <3>1, FS_Surjection
  <2> HIDE DEF nodes
  <2>10. PICK x : nodes = {x}
    BY <1>2, <2>9, FS_Singleton DEF nodes, more
  <2> QED
    BY <2>1, <2>7, <2>8, <2>10
<1> QED
  BY <1>4, <1>12, <1>13 DEF Wanted

\* A slice that serves a wanted set is compatible with the plan.
LEMMA WantedSlices ==
    ASSUME NEW s, NEW alt, NEW node, NEW set, Wanted(set, alt, node),
           s \in SlicesFor(alt, node, ChosenSets)
    PROVE  /\ s \in Range(input.slices) /\ s.managed /\ s.healthy /\ s.node = node
           /\ CompatibleNodes(s, AllocatedNode) = {node}
<1>1. s \in Range(input.slices) /\ s.managed /\ s.healthy /\ s.node = node
  BY DEF SlicesFor
<1>2. AllocatedNode \in {NoNode, node}
  BY DEF Wanted
<1>3. CASE node = NoNode
  BY <1>1, <1>2, <1>3 DEF CompatibleNodes
<1>4. CASE node # NoNode
  BY <1>1, <1>2, <1>4 DEF CompatibleNodes
<1> QED
  BY <1>1, <1>3, <1>4

\* Where every offer has been looked at and none failed, a suitable device has
\* been collected.
LEMMA SuitableIsCollected ==
    ASSUME Planning, StepsAreWhole, IdentitiesAreDistinct, NEW alt, Acceptable(alt),
           NEW slices, Managed(slices), NEW count, NEW out,
           CollectIs(alt, Offers(slices, AllocatedNode), count, out),
           out.failure = "none", count = 0 \/ out.full = {},
           NEW set, NEW node, Wanted(set, alt, node),
           SlicesFor(alt, node, ChosenSets) \subseteq Range(slices)
    PROVE  Suitable(alt, node, ChosenSets) \subseteq Range(out.devices)
<1> DEFINE a == AllocatedNode
<1> SUFFICES ASSUME NEW d \in Suitable(alt, node, ChosenSets)
             PROVE  d \in Range(out.devices)
  OBVIOUS
<1>1. PICK s \in SlicesFor(alt, node, ChosenSets) :
        \E e \in Range(s.devices) :
            /\ d = AsTaken(alt, s, e) /\ e.verdict[alt.class] = "match"
            /\ Fits(alt, e, AsTaken(alt, s, e), ChosenSets)
  BY DEF Suitable
<1>2. PICK e \in Range(s.devices) :
        /\ d = AsTaken(alt, s, e) /\ e.verdict[alt.class] = "match"
        /\ Fits(alt, e, AsTaken(alt, s, e), ChosenSets)
  BY <1>1
<1>3. s \in Range(slices) /\ CompatibleNodes(s, a) # {}
  BY WantedSlices
<1> DEFINE o == Offer(s, e, a)
<1>4. o \in Range(Offers(slices, a))
  <2>1. IsOffer(o, slices, a)
    BY <1>2, <1>3 DEF IsOffer
  <2> QED
    BY <2>1, ManagedOffers DEF Planning, Acceptable
<1>5. Identity(o) = d.id
  BY <1>2 DEF Identity, Offer, AsTaken
<1>6. \A seen :
        /\ Evaluate(alt, o, seen) = "skip"
        /\ Identity(o) \notin seen /\ e.verdict[alt.class] = "match"
        => ~Fits(alt, e, AsTaken(alt, s, e), ChosenSets)
  BY <1>3, OffersAreRight
<1> HIDE DEF o
<1>7. \A p \in Range(Offers(slices, a)) :
        \/ \E c \in Range(out.devices) : c.id = Identity(p)
        \/ \E seen : Identity(p) \notin seen /\ Evaluate(alt, p, seen) = "skip"
  BY DEF CollectIs
<1>8. PICK c \in Range(out.devices) : c.id = d.id
  BY <1>2, <1>4, <1>5, <1>6, <1>7
<1>9. PICK t \in Range(slices) : \E f \in Range(t.devices) : c = AsTaken(alt, t, f)
  BY CollectedFrom
<1>10. PICK f \in Range(t.devices) : c = AsTaken(alt, t, f)
  BY <1>9
<1>11. <<s.driver, s.pool, e.name>> = <<t.driver, t.pool, f.name>>
  BY <1>2, <1>8, <1>10 DEF AsTaken
<1>12. s \in Range(input.slices) /\ t \in Range(input.slices)
  BY <1>3 DEF Managed
<1>13. s = t /\ e = f
  BY <1>11, <1>12, SameIdentity DEF Planning
<1> QED
  BY <1>2, <1>8, <1>10, <1>13

\* The devices of a node, all of them.
LEMMA OnNodeAll ==
    ASSUME NEW devices, IsList(devices), NEW node
    PROVE  \A d \in Range(devices) : d.node = node => d \in Range(OnNode(devices, node))
<1> DEFINE I == {i \in DOMAIN devices : devices[i].node = node}
<1>1. I \in SUBSET DOMAIN devices
  OBVIOUS
<1>2. Range(OnNode(devices, node)) = {devices[i] : i \in I}
  BY <1>1, AtIndexesList DEF OnNode
<1> QED
  BY <1>2 DEF Range

\* Among the combinations is every set of the right number of devices.
LEMMA CombinationOf ==
    ASSUME NEW devices, IsList(devices),
           \A i, j \in DOMAIN devices : devices[i].id = devices[j].id => i = j,
           NEW set \in SUBSET Range(devices), NEW count \in Nat, Cardinality(set) = count
    PROVE  \E s \in Range(Combinations(devices, count)) : Range(s) = set
<1> DEFINE I == {i \in DOMAIN devices : devices[i] \in set}
           some == AtIndexes(devices, I)
<1>1. I \in SUBSET DOMAIN devices
  OBVIOUS
<1>2. {devices[i] : i \in I} = set
  BY DEF Range
<1> HIDE DEF I
<1>3. /\ IsList(some) /\ Len(some) = Cardinality(I) /\ Range(some) = set
      /\ \A k, m \in DOMAIN some : some[k].id = some[m].id => k = m
  BY <1>1, <1>2, SomeOfDistinct
<1>4. Cardinality(I) = count
  BY <1>3, CountOfDistinct
<1>5. some \in Range(Combinations(devices, count))
  BY <1>1, <1>4, CombinationsAre
<1> QED
  BY <1>3, <1>5

\* What an exact alternative asks for.
LEMMA WantedCount ==
    ASSUME NEW set, NEW alt, SupportedAlternative(alt), alt.mode # "All",
           NEW node, Wanted(set, alt, node)
    PROVE  /\ Cardinality(set) = normalizedCount(alt)
           /\ normalizedCount(alt) \in Nat \ {0}
           /\ normalizedCount(alt) <= RemainingResults
<1>1. Cardinality(set) = normalizedCount(alt) /\ Cardinality(set) <= RemainingResults
  BY Zenon DEF Wanted, Serves
<1>2. alt.mode = "ExactCount" /\ alt.count \in 0..AllocationResultsMaxSize
  BY DEF SupportedAlternative
<1>3. alt.count \in Nat
  BY <1>2, ClaimSearchAssumption
<1> QED
  BY <1>1, <1>3 DEF normalizedCount

\* Fewer than count devices on a node.
FewOn(devices, n, count) ==
    Cardinality({i \in DOMAIN devices : devices[i].node = n}) < count

\* A wanted set of devices, and what is collected from the eligible slices.
LEMMA WantedIsCollected ==
    ASSUME Planning, StepsAreWhole, IdentitiesAreDistinct, NEW alt, Acceptable(alt),
           alt.mode # "All", NEW set, NEW node, Wanted(set, alt, node),
           NEW count \in Nat, NEW out, out = Collect(alt, EligibleOffers, count),
           out.failure = "none", count = 0 \/ out.full = {}
    PROVE  /\ IsList(out.devices)
           /\ \A i, j \in DOMAIN out.devices :
                out.devices[i].id = out.devices[j].id => i = j
           /\ set # {} /\ set \subseteq Range(OnNode(out.devices, node))
           /\ \A d \in set : d \in Range(out.devices) /\ d.node = node
           /\ count # 0 => FewOn(out.devices, node, count)
<1>0. WellFormed(input) /\ alt.class \in input.classes
  BY DEF Planning, Acceptable
<1>1. CollectIs(alt, Offers(Eligible, AllocatedNode), count, out)
  BY <1>0, EligibleCollected
<1>2. Managed(Eligible)
  BY <1>0, EligibleIs
<1>3. SlicesFor(alt, node, ChosenSets) \subseteq Range(Eligible)
  <2> SUFFICES ASSUME NEW s \in SlicesFor(alt, node, ChosenSets)
               PROVE  s \in Range(Eligible)
    OBVIOUS
  <2>1. s \in Range(input.slices) /\ s.managed /\ s.healthy
    BY DEF SlicesFor
  <2> DEFINE I == {i \in DOMAIN input.slices :
                    input.slices[i].managed /\ input.slices[i].healthy}
  <2>2. IsList(input.slices) /\ I \in SUBSET DOMAIN input.slices
    BY <1>0 DEF WellFormed
  <2>3. Range(Eligible) = {input.slices[i] : i \in I}
    BY <2>2, AtIndexesList DEF Eligible
  <2> QED
    BY <2>1, <2>3 DEF Range
<1>4. Suitable(alt, node, ChosenSets) \subseteq Range(out.devices)
  BY <1>1, <1>2, <1>3, SuitableIsCollected
<1>5. set # {} /\ set \subseteq Suitable(alt, node, ChosenSets)
  BY Zenon DEF Wanted, Serves
<1>6. \A d \in set : d.node = node
  BY <1>0, ServesDevices DEF Wanted
<1>7. /\ IsList(out.devices)
      /\ \A i, j \in DOMAIN out.devices :
            out.devices[i].id = out.devices[j].id => i = j
      /\ count # 0 => FewOn(out.devices, node, count)
  BY <1>1 DEF CollectIs, FewOn
<1>8. \A d \in set : d \in Range(OnNode(out.devices, node))
  BY <1>4, <1>5, <1>6, <1>7, OnNodeAll
<1> QED
  BY <1>4, <1>5, <1>6, <1>7, <1>8

\* The search tries every wanted set.
LEMMA ExactFindsAll ==
    ASSUME Planning, StepsAreWhole, IdentitiesAreDistinct, NEW alt, Acceptable(alt),
           alt.mode # "All", NEW set, NEW node, Wanted(set, alt, node),
           NEW out, out = ExactSelections(Collect(alt, EligibleOffers, 0),
                                          normalizedCount(alt))
    PROVE  out.failure # "none" \/ \E s \in Range(out.selections) : Range(s) = set
<1> DEFINE got == Collect(alt, EligibleOffers, 0)
           count == normalizedCount(alt)
           nodes == NodesOf(got.devices)
           by == [i \in DOMAIN nodes |-> Combinations(OnNode(got.devices, nodes[i]), count)]
<1>1. /\ out.failure = got.failure
      /\ got.failure = "none" => out.selections = FlattenSeq(by)
  BY DEF ExactSelections, Nothing
<1> SUFFICES ASSUME got.failure = "none"
             PROVE  \E s \in Range(FlattenSeq(by)) : Range(s) = set
  BY <1>1
<1>2. /\ IsList(got.devices)
      /\ \A i, j \in DOMAIN got.devices :
            got.devices[i].id = got.devices[j].id => i = j
      /\ set # {} /\ set \subseteq Range(OnNode(got.devices, node))
      /\ \A d \in set : d \in Range(got.devices) /\ d.node = node
  BY WantedIsCollected
<1>3. Cardinality(set) = count /\ count \in Nat
  BY WantedCount DEF Acceptable
<1> HIDE DEF got, count
<1>4. IsList(nodes) /\ \E i \in DOMAIN nodes : nodes[i] = node
  <2> DEFINE all == [i \in DOMAIN got.devices |-> got.devices[i].node]
  <2>1. Len(got.devices) \in Nat /\ DOMAIN got.devices = 1..Len(got.devices)
    BY <1>2, ListFacts
  <2>2. all \in [1..Len(got.devices) -> {got.devices[i].node : i \in DOMAIN got.devices}]
    BY <2>1
  <2>3. IsList(all)
    <3> HIDE DEF all
    <3> QED
      BY <2>1, <2>2, IsListIf
  <2>4. node \in Range(all)
    BY <1>2 DEF Range
  <2>5. nodes = Distinct(all)
    BY DEF NodesOf
  <2> HIDE DEF all, nodes
  <2>6. IsList(nodes) /\ node \in Range(nodes)
    BY <2>3, <2>4, <2>5, DistinctIsList
  <2> QED
    BY <2>6 DEF Range
<1>5. PICK i \in DOMAIN nodes : nodes[i] = node
  BY <1>4
<1> HIDE DEF nodes
<1>6. \A n : /\ IsList(OnNode(got.devices, n))
             /\ \A k, m \in DOMAIN OnNode(got.devices, n) :
                OnNode(got.devices, n)[k].id = OnNode(got.devices, n)[m].id => k = m
  BY <1>2, OnNodeIs
<1>7. IsList(by) /\ \A j \in DOMAIN by : IsList(by[j])
  <2>1. \A j \in DOMAIN nodes : IsList(Combinations(OnNode(got.devices, nodes[j]), count))
    BY <1>3, <1>6, CombinationsAre
  <2>2. Len(nodes) \in Nat /\ DOMAIN nodes = 1..Len(nodes)
    BY <1>4, ListFacts
  <2>3. by \in [1..Len(nodes) ->
                {Combinations(OnNode(got.devices, nodes[j]), count) : j \in DOMAIN nodes}]
    BY <2>2
  <2>4. \A j \in DOMAIN by : IsList(by[j])
    BY <2>1
  <2> HIDE DEF by
  <2> QED
    BY <2>2, <2>3, <2>4, IsListIf
<1>8. PICK s \in Range(Combinations(OnNode(got.devices, node), count)) : Range(s) = set
  <2>1. set \in SUBSET Range(OnNode(got.devices, node))
    BY <1>2
  <2> QED
    BY <1>3, <1>6, <2>1, CombinationOf
<1>9. i \in DOMAIN by /\ by[i] = Combinations(OnNode(got.devices, node), count)
  BY <1>5
<1> HIDE DEF by
<1>10. s \in Range(FlattenSeq(by))
  BY <1>7, <1>8, <1>9, FlattenLists
<1> QED
  BY <1>8, <1>10

\* The greedy planner finds one.
LEMMA FirstExactFinds ==
    ASSUME Planning, StepsAreWhole, IdentitiesAreDistinct, NEW alt, Acceptable(alt),
           alt.mode # "All", NEW set, NEW node, Wanted(set, alt, node),
           NEW out, out = FirstExactSelection(
                            Collect(alt, EligibleOffers, normalizedCount(alt)))
    PROVE  out.failure # "none" \/ out.selections # <<>>
<1> DEFINE count == normalizedCount(alt)
           got == Collect(alt, EligibleOffers, count)
<1>1. /\ out.failure = got.failure
      /\ got.full # {} => out.selections # <<>>
  BY DEF FirstExactSelection, Nothing
<1> SUFFICES ASSUME got.failure = "none", got.full = {}
             PROVE  FALSE
  BY <1>1
<1>2. Cardinality(set) = count /\ count \in Nat \ {0} /\ count \in Nat
  BY WantedCount DEF Acceptable
<1>3. /\ IsList(got.devices)
      /\ \A i, j \in DOMAIN got.devices :
            got.devices[i].id = got.devices[j].id => i = j
      /\ set # {} /\ set \subseteq Range(OnNode(got.devices, node))
      /\ Cardinality({i \in DOMAIN got.devices : got.devices[i].node = node}) < count
  <2>1. count # 0 /\ got = Collect(alt, EligibleOffers, count)
    BY <1>2
  <2> HIDE DEF got, count
  <2>2. /\ IsList(got.devices)
        /\ \A i, j \in DOMAIN got.devices :
            got.devices[i].id = got.devices[j].id => i = j
        /\ set # {} /\ set \subseteq Range(OnNode(got.devices, node))
        /\ count # 0 => FewOn(got.devices, node, count)
    BY <1>2, <2>1, WantedIsCollected
  <2> QED
    BY <2>1, <2>2 DEF FewOn
<1> HIDE DEF got, count
<1>4. /\ IsList(OnNode(got.devices, node))
      /\ Len(OnNode(got.devices, node))
            = Cardinality({i \in DOMAIN got.devices : got.devices[i].node = node})
      /\ \A k, m \in DOMAIN OnNode(got.devices, node) :
            OnNode(got.devices, node)[k].id = OnNode(got.devices, node)[m].id => k = m
  BY <1>3, OnNodeIs
<1> DEFINE here == OnNode(got.devices, node)
<1> HIDE DEF here
<1>5. IsFiniteSet(Range(here)) /\ Cardinality(Range(here)) = Len(here)
  BY <1>4, CountOfDistinct DEF here
<1>6. set \in SUBSET Range(here)
  BY <1>3 DEF here
<1>7. Cardinality(set) <= Cardinality(Range(here)) /\ Len(here) < count /\ Len(here) \in Nat
  BY <1>3, <1>4, <1>5, <1>6, FS_Subset, ListFacts DEF here
<1> QED
  BY <1>2, <1>5, <1>7
-----------------------------------------------------------------------------
(* The same for All: the node of a wanted set is collected whole, decided   *)
(* on and not passed over, so its devices are one of the selections.        *)

\* What an All alternative collects from a node.
LEMMA NodeCollected ==
    ASSUME Planning, NEW alt, Acceptable(alt), NEW node, NEW out,
           out = AllDevicesOf(alt, ManagedOn(node, AllocatedNode), AllocatedNode),
           Complete(ManagedOn(node, AllocatedNode))
    PROVE  \E slices :
            /\ Managed(slices)
            /\ CollectIs(alt, Offers(slices, AllocatedNode), 0, out)
            /\ \A t : t \in Range(slices) <=>
                t.healthy /\ \E i \in Current(ManagedOn(node, AllocatedNode), PoolOf(t)) :
                                ManagedOn(node, AllocatedNode)[i] = t
            /\ \A t \in Range(slices) : node \in CompatibleNodes(t, AllocatedNode)
<1> DEFINE a == AllocatedNode
           on == ManagedOn(node, a)
           slices == Healthy(CurrentSlices(on))
<1>1. /\ Managed(on) /\ IsList(on)
      /\ \A t : t \in Range(on) <=> /\ t \in Range(input.slices) /\ t.managed
                                    /\ node \in CompatibleNodes(t, a)
  BY ManagedOnIs DEF Managed, Planning
<1>2. out = Collect(alt, Offers(slices, a), 0)
  BY Zenon DEF AllDevicesOf
<1> HIDE DEF a, on
<1>3. /\ IsList(slices)
      /\ \A t : t \in Range(slices)
                    <=> t.healthy /\ \E i \in Current(on, PoolOf(t)) : on[i] = t
  BY <1>1, CurrentSlicesAre, HealthyAre
<1>4. \A t \in Range(slices) : t \in Range(on)
  BY <1>3 DEF Current, Range
<1> HIDE DEF slices
<1>5. Managed(slices)
  BY <1>1, <1>3, <1>4 DEF Managed
<1>6. CollectIs(alt, Offers(slices, a), 0, out)
  <2>1. /\ IsList(Offers(slices, a))
        /\ \A o \in Range(Offers(slices, a)) : Decidable(alt, o)
    BY <1>5, ManagedOffers DEF Planning, Acceptable
  <2> QED
    BY <1>2, <2>1, CollectFacts
<1>7. \A t \in Range(slices) : node \in CompatibleNodes(t, a)
  BY <1>1, <1>4
<1> QED
  BY <1>3, <1>5, <1>6, <1>7 DEF a, on

\* All devices of a node, where none fails, are the wanted ones.
LEMMA AllIsWanted ==
    ASSUME Planning, StepsAreWhole, IdentitiesAreDistinct, NEW alt, Acceptable(alt),
           alt.mode = "All", NEW set, NEW node, Wanted(set, alt, node), NEW out,
           out = AllDevicesOf(alt, ManagedOn(node, AllocatedNode), AllocatedNode),
           out.failure = "none"
    PROVE  Range(out.devices) = set /\ Len(out.devices) \in 1..RemainingResults
<1> DEFINE a == AllocatedNode
           on == ManagedOn(node, a)
           suitable == Suitable(alt, node, ChosenSets)
<1>1. Complete(on)
  BY DEF AllDevicesOf, NoCandidates
<1>2. PICK slices :
        /\ Managed(slices)
        /\ CollectIs(alt, Offers(slices, AllocatedNode), 0, out)
        /\ \A t : t \in Range(slices) <=>
            t.healthy /\ \E i \in Current(on, PoolOf(t)) : on[i] = t
        /\ \A t \in Range(slices) : node \in CompatibleNodes(t, a)
  BY <1>1, NodeCollected
<1>3. SlicesOn(node, ChosenSets) = on
  BY NodeOfPlan
<1> HIDE DEF a, on
<1>4. \A t : t \in SlicesFor(alt, node, ChosenSets)
            <=> /\ t \in Range(input.slices) /\ t.managed /\ t.node = node
                /\ t \in Range(slices)
  BY <1>2, <1>3 DEF SlicesFor
<1>5. suitable \subseteq Range(out.devices)
  <2>1. SlicesFor(alt, node, ChosenSets) \subseteq Range(slices)
    BY <1>4
  <2> QED
    BY <1>2, <2>1, SuitableIsCollected
<1>6. ASSUME NEW d \in Range(out.devices) PROVE d \in suitable
  <2>1. PICK t \in Range(slices) : \E e \in Range(t.devices) :
            /\ CompatibleNodes(t, AllocatedNode) # {}
            /\ d = AsTaken(alt, t, e) /\ d.node = t.node /\ d.amount \in Nat
            /\ t.node # NoNode /\ AllocatedNode \in {NoNode, t.node}
            /\ e.verdict[alt.class] = "match"
            /\ Fits(alt, e, AsTaken(alt, t, e), ChosenSets)
    BY <1>2, CollectedFrom
  <2>2. t \in Range(input.slices) /\ t.managed
    BY <1>2 DEF Managed
  <2>3. t.node = node
    <3>1. CompatibleNodes(t, a) = {t.node}
      BY <2>1, OfferNode DEF a
    <3> QED
      BY <1>2, <3>1
  <2>4. t \in SlicesFor(alt, node, ChosenSets)
    BY <1>4, <2>2, <2>3
  <2> QED
    BY <2>1, <2>4 DEF Suitable
<1>7. /\ set # {} /\ set \subseteq suitable
      /\ {d.id : d \in set} = {d.id : d \in suitable}
  BY Zenon DEF Wanted, Serves
<1> HIDE DEF suitable
<1>8. /\ IsList(out.devices)
      /\ \A i, j \in DOMAIN out.devices :
            out.devices[i].id = out.devices[j].id => i = j
  BY <1>2 DEF CollectIs
<1>9. \A c, d \in Range(out.devices) : c.id = d.id => c = d
  BY <1>8 DEF Range
<1>10. Range(out.devices) = set
  <2>1. ASSUME NEW d \in Range(out.devices) PROVE d \in set
    <3>1. PICK c \in set : c.id = d.id
      BY <1>6, <1>7
    <3> QED
      BY <1>5, <1>7, <1>9, <3>1
  <2> QED
    BY <1>5, <1>7, <2>1
<1>11. Cardinality(set) = Len(out.devices) /\ Len(out.devices) \in Nat
  BY <1>8, <1>10, CountOfDistinct, ListFacts
<1>12. IsFiniteSet(set) /\ Cardinality(set) <= RemainingResults
  BY DEF Wanted
<1>13. Cardinality(set) # 0
  BY <1>7, <1>12, FS_EmptySet
<1>14. RemainingResults \in Int
  <2>1. Len(Taken) \in Nat
    BY TakenIsResults, ListFacts DEF Planning
  <2> QED
    BY <2>1, ClaimSearchAssumption DEF RemainingResults
<1> QED
  BY <1>10, <1>11, <1>12, <1>13, <1>14

\* The node of a wanted set is one of those asked.
LEMMA WantedNode ==
    ASSUME Planning, NEW alt, NEW set, NEW node, Wanted(set, alt, node)
    PROVE  \E i \in DOMAIN ManagedNodes(AllocatedNode) :
                ManagedNodes(AllocatedNode)[i] = node
<1> DEFINE a == AllocatedNode
           I == {i \in DOMAIN input.slices :
                    /\ input.slices[i].managed
                    /\ CompatibleNodes(input.slices[i], a) # {}}
           slices == AtIndexes(input.slices, I)
           nodes == [i \in DOMAIN slices |-> The(CompatibleNodes(slices[i], a))]
<1>1. PICK s \in SlicesFor(alt, node, ChosenSets) : TRUE
  <2>1. set # {} /\ set \subseteq Suitable(alt, node, ChosenSets)
    BY Zenon DEF Wanted, Serves
  <2> QED
    BY <2>1 DEF Suitable
<1>2. s \in Range(input.slices) /\ s.managed /\ CompatibleNodes(s, a) = {node}
  BY WantedSlices
<1>3. ManagedNodes(a) = Distinct(nodes)
  BY DEF ManagedNodes
<1>4. I \in SUBSET DOMAIN input.slices
  OBVIOUS
<1>5. PICK j \in I : input.slices[j] = s
  BY <1>2 DEF Range
<1> HIDE DEF I
<1>6. IsList(slices) /\ Range(slices) = {input.slices[i] : i \in I}
  BY <1>4, AtIndexesList DEF WellFormed, Planning
<1> HIDE DEF slices
<1>7. Len(slices) \in Nat /\ DOMAIN slices = 1..Len(slices)
  BY <1>6, ListFacts
<1>8. s \in Range(slices)
  BY <1>5, <1>6
<1>9. PICK k \in DOMAIN slices : slices[k] = s
  BY <1>8 DEF Range
<1>10. nodes[k] = node /\ k \in DOMAIN nodes
  <2>1. The({node}) = node
    BY DEF The
  <2> QED
    BY <1>2, <1>9, <2>1
<1>11. nodes \in [1..Len(slices) ->
                    {The(CompatibleNodes(slices[i], a)) : i \in DOMAIN slices}]
  BY <1>7
<1> HIDE DEF nodes
<1>12. IsList(nodes)
  BY <1>7, <1>11, IsListIf
<1>13. node \in Range(Distinct(nodes))
  <2>1. node \in Range(nodes)
    BY <1>10 DEF Range
  <2> QED
    BY <1>12, <2>1, DistinctIsList
<1> QED
  BY <1>3, <1>13 DEF Range, a

\* A finite set of numbers has a greatest one.
LEMMA GreatestExists ==
    ASSUME NEW S \in SUBSET Int, IsFiniteSet(S), S # {}
    PROVE  \E m \in S : \A x \in S : x <= m
<1> DEFINE N == Cardinality(S)
           m == Nth(S, N)
           T == {x \in S : x <= m}
<1>1. N \in Nat /\ N # 0
  BY FS_EmptySet, FS_CardinalityType
<1>2. N \in 1..N
  BY <1>1
<1>3. m \in S /\ Cardinality(T) = N
  BY <1>2, NthEnumerates
<1>4. T \in SUBSET S
  OBVIOUS
<1>5. T = S
  <2> HIDE DEF T
  <2> QED
    BY <1>3, <1>4, FS_Subset
<1> HIDE DEF m
<1> QED
  BY <1>3, <1>5

\* Every pool has a latest generation.
LEMMA CurrentExists ==
    ASSUME NEW on, IsList(on), \A t \in Range(on) : t.generation \in Int,
           NEW s \in Range(on)
    PROVE  Current(on, PoolOf(s)) # {}
<1> DEFINE P == {i \in DOMAIN on : PoolOf(on[i]) = PoolOf(s)}
           G == {on[i].generation : i \in P}
           f == [i \in P |-> on[i].generation]
<1>1. Len(on) \in Nat /\ DOMAIN on = 1..Len(on) /\ \A i \in DOMAIN on : on[i] \in Range(on)
  BY ListFacts
<1>2. PICK k \in DOMAIN on : on[k] = s
  BY DEF Range
<1>3. k \in P /\ IsFiniteSet(P) /\ G # {}
  <2>1. IsFiniteSet(DOMAIN on)
    BY <1>1, FS_Interval
  <2> QED
    BY <1>2, <2>1, FS_Subset
<1>4. G \in SUBSET Int
  BY <1>1
<1>5. f \in Surjection(P, G)
  BY DEF Surjection
<1>6. IsFiniteSet(G)
  <2> HIDE DEF f, P, G
  <2> QED
    BY <1>3, <1>5, FS_Surjection
<1>7. PICK m \in G : \A x \in G : x <= m
  <2> HIDE DEF G
  <2> QED
    BY <1>3, <1>4, <1>6, GreatestExists
<1>8. PICK i \in P : on[i].generation = m
  BY <1>7
<1>9. \A t \in Range(on) : PoolOf(t) = PoolOf(s) => t.generation <= on[i].generation
  <2> TAKE t \in Range(on)
  <2> HAVE PoolOf(t) = PoolOf(s)
  <2>1. PICK j \in DOMAIN on : on[j] = t
    BY DEF Range
  <2>2. j \in P
    BY <2>1
  <2>3. t.generation \in G
    BY <2>1, <2>2
  <2> QED
    BY <1>7, <1>8, <2>3
<1>10. i \in Current(on, PoolOf(s))
  BY <1>8, <1>9 DEF Current
<1> QED
  BY <1>10

\* Where the slices agree on the number of their pool, a covered node is complete.
LEMMA CoveredIsComplete ==
    ASSUME Planning, Decided, NEW node, Covered(node, ChosenSets)
    PROVE  Complete(ManagedOn(node, AllocatedNode))
<1> DEFINE on == ManagedOn(node, AllocatedNode)
<1>1. /\ IsList(on)
      /\ \A t : t \in Range(on) <=> /\ t \in Range(input.slices) /\ t.managed
                                    /\ node \in CompatibleNodes(t, AllocatedNode)
  BY ManagedOnIs DEF Managed, Planning
<1>2. SlicesOn(node, ChosenSets) = on
  BY NodeOfPlan
<1>3. \A s \in Range(on) : \A i \in Current(on, PoolOf(s)) :
        on[i].count = Cardinality(Current(on, PoolOf(s)))
  BY <1>2 DEF Covered
<1> HIDE DEF on
<1>4. \A t \in Range(on) : IsSlice(t, input.classes) /\ t.generation \in Int
  BY <1>1 DEF Planning, WellFormed, IsSlice
<1>5. \A t \in Range(on) : t.managed /\ t \in Range(input.slices) /\ t.node = node
  <2> TAKE t \in Range(on)
  <2>1. t.supported
    BY <1>1 DEF Decided
  <2>2. t.node # NoNode
    BY <1>4, <2>1 DEF IsSlice
  <2> QED
    BY <1>1, <2>2 DEF CompatibleNodes
<1>6. \A s, t \in Range(on) :
        PoolOf(t) = PoolOf(s) /\ t.generation = s.generation => t.count = s.count
  BY <1>5 DEF Decided
<1>7. \A i \in DOMAIN on : on[i] \in Range(on)
  BY <1>1, ListFacts
<1>8. ASSUME NEW s \in Range(on)
      PROVE  LET current == Current(on, PoolOf(s))
             IN  Cardinality(current) = on[Min(current)].count
  <2> DEFINE current == Current(on, PoolOf(s))
  <2>1. current # {}
    BY <1>1, <1>4, CurrentExists
  <2>2. current \in SUBSET DOMAIN on
    BY DEF Current
  <2>3. current \in SUBSET Nat
    BY <1>1, <2>2, IndexesFinite
  <2>4. Min(current) \in current
    <3> HIDE DEF current
    <3> QED
      BY <2>1, <2>3, MinExists
  <2> QED
    BY <1>3, <2>4
<1> QED
  BY <1>6, <1>7, <1>8, Zenon DEF Complete, on

\* A device that can be decided on is taken or not.
LEMMA DecidedVerdict ==
    ASSUME Planning, Decided, NEW alt, Acceptable(alt), NEW slices, Managed(slices),
           NEW allocated, NEW o \in Range(Offers(slices, allocated)), NEW seen
    PROVE  Evaluate(alt, o, seen) \in {"accept", "skip"}
<1>1. IsOffer(o, slices, allocated)
  BY ManagedOffers DEF Planning, Acceptable
<1>2. PICK s \in Range(slices) : \E d \in Range(s.devices) : o = Offer(s, d, allocated)
  BY <1>1 DEF IsOffer
<1>3. PICK d \in Range(s.devices) : o = Offer(s, d, allocated)
  BY <1>2
<1>4. s \in Range(input.slices) /\ s.managed
  BY DEF Managed
<1>5. o.slice = s /\ o.device = d /\ Identity(o) = <<s.driver, s.pool, d.name>>
  BY <1>3 DEF Offer, Identity
<1>6. /\ s.supported /\ d.supported /\ ~d.shareable
      /\ \A c \in d.capacity : c.policy = {} /\ c.value >= 0
      /\ d.verdict[alt.class] # "error"
      /\ ~SharedIn(Identity(o), input.committed)
  BY <1>4, <1>5 DEF Decided, Acceptable
<1>7. /\ d.verdict[alt.class] \in {"match", "other", "error"}
      /\ \A c \in d.capacity : c.value \in Int
  BY <1>4 DEF Planning, WellFormed, IsSlice, IsDevice, IsCapacity, Acceptable
<1>8. ExclusiveVerdict(alt, d) \in {"accept", "skip"}
  <2>1. ~\E c \in d.capacity : c.policy # {} \/ c.value < 0
    BY <1>6, <1>7
  <2> QED
    BY <2>1, Zenon DEF ExclusiveVerdict
<1>9. CASE d.verdict[alt.class] = "other"
  BY <1>5, <1>9 DEF Evaluate, evaluateCandidate, evaluateConstrainedCandidate
<1>10. CASE d.verdict[alt.class] = "match"
  <2>1. evaluateCandidate(alt, o, seen) \in {"accept", "skip"}
    BY <1>5, <1>6, <1>8, <1>10 DEF evaluateCandidate
  <2>2. buildExclusiveCandidate(alt, o) \in {"accept", "skip"}
    BY <1>5, <1>6, <1>8 DEF buildExclusiveCandidate
  <2>3. evaluateConstrainedCandidate(alt, o, seen) \in {"accept", "skip"}
    BY <1>5, <1>6, <1>10, <2>2 DEF evaluateConstrainedCandidate
  <2> QED
    BY <2>1, <2>3 DEF Evaluate
<1> QED
  BY <1>6, <1>7, <1>9, <1>10

\* Then no node fails that a wanted set is on.
LEMMA DecidedNode ==
    ASSUME Planning, Decided, NEW alt, Acceptable(alt), alt.mode = "All",
           NEW set, NEW node, Wanted(set, alt, node)
    PROVE  /\ Complete(ManagedOn(node, AllocatedNode))
           /\ AllDevicesOf(alt, ManagedOn(node, AllocatedNode), AllocatedNode).failure
                = "none"
<1> DEFINE out == AllDevicesOf(alt, ManagedOn(node, AllocatedNode), AllocatedNode)
<1>1. Covered(node, ChosenSets)
  BY Zenon DEF Wanted, Serves
<1>2. Complete(ManagedOn(node, AllocatedNode))
  BY <1>1, CoveredIsComplete
<1>3. PICK slices : /\ Managed(slices)
                    /\ CollectIs(alt, Offers(slices, AllocatedNode), 0, out)
  BY <1>2, NodeCollected
<1> HIDE DEF out
<1>4. ASSUME out.failure # "none" PROVE FALSE
  <2>1. PICK o \in Range(Offers(slices, AllocatedNode)) : \E seen :
            Evaluate(alt, o, seen) = out.failure
    BY <1>3, <1>4 DEF CollectIs
  <2>2. out.failure \in {"accept", "skip"}
    BY <1>3, <2>1, DecidedVerdict
  <2>3. out.failure \in {"none"} \cup Failures
    BY <1>3 DEF CollectIs
  <2> QED
    BY <1>4, <2>2, <2>3 DEF Failures
<1> QED
  BY <1>2, <1>4 DEF out

\* The node of a wanted set fails.
NodeFails(alt, node) ==
    AllDevicesOf(alt, ManagedOn(node, AllocatedNode), AllocatedNode).failure # "none"

\* The search tries every node with a wanted set, unless there is a failure.
LEMMA AllSelectionsFind ==
    ASSUME Planning, StepsAreWhole, IdentitiesAreDistinct, NEW alt, Acceptable(alt),
           alt.mode = "All", NEW set, NEW node, Wanted(set, alt, node), NEW out,
           out = AllSelections(AllDevicesByNode(alt, ManagedNodes(AllocatedNode),
                                                AllocatedNode))
    PROVE  \/ out.failure # "none"
           \/ \E s \in Range(out.selections) : Range(s) = set
           \/ out.limit /\ NodeFails(alt, node)
<1> DEFINE nodes == ManagedNodes(AllocatedNode)
           byNode == AllDevicesByNode(alt, nodes, AllocatedNode)
           failing == {i \in DOMAIN byNode : byNode[i].failure # "none"}
           usable == DOMAIN byNode \ failing
           One(i) == IF i \in usable /\ Len(byNode[i].devices) \in 1..RemainingResults
                     THEN <<byNode[i].devices>> ELSE <<>>
           seqs == [i \in DOMAIN byNode |-> One(i)]
<1>1. /\ DOMAIN byNode = 1..Len(nodes) /\ Len(nodes) \in Nat
      /\ DOMAIN byNode = DOMAIN nodes
      /\ \A i \in DOMAIN byNode :
            byNode[i] = AllDevicesOf(alt, ManagedOn(nodes[i], AllocatedNode), AllocatedNode)
  BY ByNode DEF Planning, Acceptable
<1>2. out.selections = FlattenSeq(seqs)
  BY DEF AllSelections, Nothing
<1>3. /\ out.limit \in BOOLEAN
      /\ ~out.limit /\ failing # {} => out.failure = byNode[Max(failing)].failure
  BY DEF AllSelections, Nothing
<1>4. PICK i \in DOMAIN nodes : nodes[i] = node
  BY WantedNode
<1> HIDE DEF byNode, nodes
<1>5. i \in DOMAIN byNode
      /\ byNode[i] = AllDevicesOf(alt, ManagedOn(node, AllocatedNode), AllocatedNode)
  BY <1>1, <1>4
<1>6. CASE byNode[i].failure # "none"
  <2>1. CASE out.limit
    BY <1>5, <1>6, <2>1 DEF NodeFails
  <2>2. CASE ~out.limit
    <3>1. failing # {} /\ failing \in SUBSET (1..Len(nodes))
      BY <1>1, <1>5, <1>6
    <3>2. Max(failing) \in failing
      <4> HIDE DEF failing
      <4> QED
        BY <1>1, <3>1, MaxExists
    <3>3. byNode[Max(failing)].failure # "none"
      BY <3>2
    <3> QED
      BY <1>3, <2>2, <3>1, <3>3
  <2> QED
    BY <1>3, <2>1, <2>2
<1>7. CASE byNode[i].failure = "none"
  <2>1. /\ Range(byNode[i].devices) = set
        /\ Len(byNode[i].devices) \in 1..RemainingResults
    BY <1>5, <1>7, AllIsWanted
  <2>2. One(i) = <<byNode[i].devices>>
    BY <1>5, <1>7, <2>1
  <2>3. \A j : IsList(One(j))
    BY OneSelection
  <2> HIDE DEF One
  <2>4. /\ IsList(seqs) /\ DOMAIN seqs = DOMAIN byNode
        /\ \A j \in DOMAIN seqs : seqs[j] = One(j)
    <3>1. seqs \in [1..Len(nodes) -> {One(j) : j \in DOMAIN byNode}]
      BY <1>1
    <3>2. IsList(seqs)
      <4> HIDE DEF seqs
      <4> QED
        BY <1>1, <3>1, IsListIf
    <3> QED
      BY <3>2
  <2> HIDE DEF seqs
  <2>5. \A j \in DOMAIN seqs : IsList(seqs[j])
    BY <2>3, <2>4
  <2>6. byNode[i].devices \in Range(seqs[i])
    <3>1. seqs[i] = <<byNode[i].devices>>
      BY <1>5, <2>2, <2>4
    <3> QED
      BY <3>1 DEF Range
  <2>7. byNode[i].devices \in Range(FlattenSeq(seqs))
    BY <1>5, <2>4, <2>5, <2>6, FlattenLists
  <2> QED
    BY <1>2, <2>1, <2>7
<1> QED
  BY <1>6, <1>7

\* The greedy planner finds one of them, unless there is a failure.
LEMMA FirstAllFinds ==
    ASSUME Planning, StepsAreWhole, IdentitiesAreDistinct, NEW alt, Acceptable(alt),
           alt.mode = "All", NEW set, NEW node, Wanted(set, alt, node),
           NEW complete,
           complete = {i \in DOMAIN ManagedNodes(AllocatedNode) :
                        Complete(ManagedOn(ManagedNodes(AllocatedNode)[i], AllocatedNode))},
           NEW out,
           out = FirstAllSelection(AllDevicesByNode(alt, ManagedNodes(AllocatedNode),
                                                    AllocatedNode), complete)
    PROVE  \/ out.failure # "none"
           \/ out.selections # <<>>
           \/ out.limit /\ ~Complete(ManagedOn(node, AllocatedNode))
<1> DEFINE nodes == ManagedNodes(AllocatedNode)
           byNode == AllDevicesByNode(alt, nodes, AllocatedNode)
           large == {i \in complete : Len(byNode[i].devices) > RemainingResults}
           decisive == {i \in complete :
                \/ byNode[i].failure # "none"
                \/ Len(byNode[i].devices) \in 1..RemainingResults}
           first == byNode[Min(decisive)]
<1>1. /\ DOMAIN byNode = DOMAIN nodes
      /\ \A i \in DOMAIN byNode :
            byNode[i] = AllDevicesOf(alt, ManagedOn(nodes[i], AllocatedNode), AllocatedNode)
  BY ByNode DEF Planning, Acceptable
<1>2. /\ decisive # {} /\ first.failure # "none" => out.failure # "none"
      /\ decisive # {} /\ first.failure = "none" => out.selections = <<first.devices>>
      /\ decisive = {} =>
            /\ out.limit = (large # {})
            /\ large = {} /\ complete # DOMAIN byNode => out.failure = "Unsupported"
  BY DEF FirstAllSelection, Nothing
<1>3. PICK i \in DOMAIN nodes : nodes[i] = node
  BY WantedNode
<1>4. i \in complete <=> Complete(ManagedOn(node, AllocatedNode))
  BY <1>3
<1> HIDE DEF byNode, nodes
<1>5. i \in DOMAIN byNode
      /\ byNode[i] = AllDevicesOf(alt, ManagedOn(node, AllocatedNode), AllocatedNode)
  BY <1>1, <1>3
<1>6. CASE decisive # {}
  <2>1. \A x : <<x>> # <<>>
    OBVIOUS
  <2> HIDE DEF decisive, first
  <2>2. out.failure # "none" \/ out.selections = <<first.devices>>
    BY <1>2, <1>6
  <2> QED
    BY <2>1, <2>2, Zenon
<1>7. CASE decisive = {}
  <2>1. ASSUME i \in complete PROVE FALSE
    <3>1. byNode[i].failure = "none"
      BY <1>7, <2>1
    <3>2. Len(byNode[i].devices) \in 1..RemainingResults
      BY <1>5, <3>1, AllIsWanted
    <3> QED
      BY <1>7, <2>1, <3>2
  <2>2. complete # DOMAIN byNode
    BY <1>5, <2>1
  <2>3. CASE large = {}
    BY <1>2, <1>7, <2>2, <2>3
  <2>4. CASE large # {}
    BY <1>2, <1>4, <1>7, <2>1, <2>4
  <2> QED
    BY <2>3, <2>4
<1> QED
  BY <1>6, <1>7

\* A wanted set is found: by the search itself, or by the greedy planner some set.
Found(selections, set) ==
    IF pc = "greedy" THEN selections # <<>>
    ELSE \E s \in Range(selections) : Range(s) = set

\* An alternative that a set is wanted for leads to it, or the request fails.
LEMMA OutcomeFinds ==
    ASSUME Planning, StepsAreWhole, IdentitiesAreDistinct, NoFailureIsMasked,
           NEW request \in Range(input.requests),
           NEW alt \in Range(Alternatives(request)), Acceptable(alt),
           NEW set, NEW node, Wanted(set, alt, node),
           NEW out, out = AlternativeOutcome(alt)
    PROVE  \/ out.failure # "none"
           \/ out.limit /\ Len(Alternatives(request)) = 1
           \/ Found(out.selections, set)
<1> DEFINE nodes == ManagedNodes(AllocatedNode)
           byNode == AllDevicesByNode(alt, nodes, AllocatedNode)
           complete == {i \in DOMAIN nodes : Complete(ManagedOn(nodes[i], AllocatedNode))}
           count == normalizedCount(alt)
<1>1. CASE alt.mode = "All"
  <2>1. out = IF pc = "greedy" THEN FirstAllSelection(byNode, complete)
              ELSE AllSelections(byNode)
    BY <1>1 DEF AlternativeOutcome, AllOutcome, Acceptable
  <2>2. Decided \/ Len(Alternatives(request)) = 1
    BY <1>1 DEF NoFailureIsMasked
  <2>3. Decided => /\ Complete(ManagedOn(node, AllocatedNode))
                   /\ ~NodeFails(alt, node)
    BY <1>1, DecidedNode DEF NodeFails
  <2>4. CASE pc = "greedy"
    <3>1. out = FirstAllSelection(byNode, complete)
      BY <2>1, <2>4
    <3>2. \/ out.failure # "none"
          \/ out.selections # <<>>
          \/ out.limit /\ ~Complete(ManagedOn(node, AllocatedNode))
      BY <1>1, <3>1, FirstAllFinds
    <3> QED
      BY <2>2, <2>3, <2>4, <3>2 DEF Found
  <2>5. CASE pc # "greedy"
    <3>1. out = AllSelections(byNode)
      BY <2>1, <2>5
    <3>2. \/ out.failure # "none"
          \/ \E s \in Range(out.selections) : Range(s) = set
          \/ out.limit /\ NodeFails(alt, node)
      BY <1>1, <3>1, AllSelectionsFind
    <3> QED
      BY <2>2, <2>3, <2>5, <3>2 DEF Found
  <2> QED
    BY <2>4, <2>5
<1>2. CASE alt.mode # "All"
  <2>1. count \in Nat \ {0} /\ count <= RemainingResults
    BY <1>2, WantedCount DEF Acceptable
  <2>2. RemainingResults \in Int
    <3>1. Len(Taken) \in Nat
      BY TakenIsResults, ListFacts DEF Planning
    <3> QED
      BY <3>1, ClaimSearchAssumption DEF RemainingResults
  <2>3. ~(count > RemainingResults)
    BY <2>1, <2>2
  <2>4. out = IF pc = "greedy"
              THEN FirstExactSelection(Collect(alt, EligibleOffers, count))
              ELSE ExactSelections(Collect(alt, EligibleOffers, 0), count)
    BY <1>2, <2>3 DEF AlternativeOutcome, ExactOutcome, Acceptable
  <2>5. CASE pc = "greedy"
    <3>1. out = FirstExactSelection(Collect(alt, EligibleOffers, count))
      BY <2>4, <2>5
    <3>2. out.failure # "none" \/ out.selections # <<>>
      BY <1>2, <3>1, FirstExactFinds
    <3> QED
      BY <2>5, <3>2 DEF Found
  <2>6. CASE pc # "greedy"
    <3>1. out = ExactSelections(Collect(alt, EligibleOffers, 0), count)
      BY <2>4, <2>6
    <3>2. out.failure # "none" \/ \E s \in Range(out.selections) : Range(s) = set
      BY <1>2, <3>1, ExactFindsAll
    <3> QED
      BY <2>6, <3>2 DEF Found
  <2> QED
    BY <2>5, <2>6
<1> QED
  BY <1>1, <1>2
-----------------------------------------------------------------------------
(* The invariant of what is left to try.                                   *)

\* The alternatives of request k.
Alts(k) == Alternatives(input.requests[k])

\* The alternatives of request k that its frame has looked at.
At(f, k) == Len(Alts(k)) - Len(f.alternatives)

\* A set that serves request k after the plan before it and, where the search may
\* come back, leads to a plan of the claim.
Live(set, before, k) ==
    /\ Append(before, set) \in Extensions(before, input.requests[k])
    /\ UseBacktrackingPlanner =>
        \E q : LeadsTo(q, Append(before, set), Len(input.requests))

\* The set is not lost: the request has failed, or the set is still to be tried
\* or on trial.
Kept(set, f, k, c) ==
    \/ f.failure # "none"
    \/ f.limit /\ Len(Alts(k)) = 1
    \/ UseBacktrackingPlanner /\ \E s \in Range(f.selections) : Range(s) = set
    \/ UseBacktrackingPlanner /\ k <= Len(c) /\ Range(c[k]) = set
    \/ ~UseBacktrackingPlanner /\ f.selections # <<>>

\* A live set is one of an alternative to come, or kept.
IsPending(f, k, c) ==
    \A set, node : \A j \in DOMAIN Alts(k) :
        /\ Live(set, SetsOf(Prefix(c, k - 1)), k)
        /\ Alts(k)[j].class \in input.classes
        /\ Serves(set, Alts(k)[j], node, SetsOf(Prefix(c, k - 1)))
        => j > At(f, k) \/ (j = At(f, k) /\ Kept(set, f, k, c))

\* A selection for alternative j of request k.
IsFor(s, j, k) ==
    j \in DOMAIN Alts(k) /\ \A d \in Range(s) : d.request = Alts(k)[j].name

\* The frame has the alternatives to come, and selections of the one before them.
IsPlaced(f, k, c) ==
    /\ Len(f.alternatives) <= Len(Alts(k))
    /\ \A i \in DOMAIN f.alternatives : f.alternatives[i] = Alts(k)[At(f, k) + i]
    /\ \A s \in Range(f.selections) : IsFor(s, At(f, k), k)
    /\ k <= Len(c) => IsFor(c[k], At(f, k), k)

\* Every request the planner has entered has its live sets ahead of it.
NothingIsLost(fs, c) ==
    \A k \in DOMAIN fs : IsPlaced(fs[k], k, c) /\ IsPending(fs[k], k, c)

\* The input never changes, nor does what is live.
LEMMA LiveNext ==
    ASSUME input' = input, NEW set, NEW before, NEW k, NEW alt, NEW node
    PROVE  /\ Live(set, before, k)' <=> Live(set, before, k)
           /\ Serves(set, alt, node, before)' <=> Serves(set, alt, node, before)
<1>1. UseBacktrackingPlanner' <=> UseBacktrackingPlanner
  BY DEF UseBacktrackingPlanner
<1>2. \A plan, a, n : Suitable(a, n, plan)' = Suitable(a, n, plan)
  BY DEF Suitable, SlicesFor, SlicesOn, ManagedOn, Fits, HeldBefore, HeldAmount,
         IsShare, AmountOf
<1>4. \A t, a, n, plan : Serves(t, a, n, plan)' <=> Serves(t, a, n, plan)
  BY DEF Serves, Suitable, SlicesFor, SlicesOn, ManagedOn, Covered, Fits, HeldBefore,
         HeldAmount, IsShare, AmountOf
<1>5. \A plan : ConstraintsHold(plan)' <=> ConstraintsHold(plan)
  BY DEF ConstraintsHold
<1>6. \A plan, request : Extensions(plan, request)' = Extensions(plan, request)
  <2> TAKE plan, request
  <2>1. \A a, n : {t \in SUBSET Suitable(a, n, plan) : Serves(t, a, n, plan)}'
                    = {t \in SUBSET Suitable(a, n, plan) : Serves(t, a, n, plan)}
    BY <1>2, <1>4
  <2> QED
    BY <1>5, <2>1 DEF Extensions
<1>7. \A q, plan, n : LeadsTo(q, plan, n)' <=> LeadsTo(q, plan, n)
  BY <1>6 DEF LeadsTo
<1> QED
  BY <1>1, <1>4, <1>6, <1>7 DEF Live

\* Nor does what is said of one frame.
LEMMA PendingNext ==
    ASSUME input' = input, NEW f, NEW k, NEW c
    PROVE  /\ IsPending(f, k, c) => IsPending(f, k, c)'
           /\ IsPlaced(f, k, c) => IsPlaced(f, k, c)'
<1>1. UseBacktrackingPlanner' <=> UseBacktrackingPlanner
  BY DEF UseBacktrackingPlanner
<1>2. Alts(k)' = Alts(k) /\ At(f, k)' = At(f, k)
  BY DEF Alts, At
<1>3. \A set : Kept(set, f, k, c)' <=> Kept(set, f, k, c)
  BY <1>1, <1>2 DEF Kept
<1>4. IsPending(f, k, c) => IsPending(f, k, c)'
  BY <1>2, <1>3, LiveNext DEF IsPending
<1>5. IsPlaced(f, k, c) => IsPlaced(f, k, c)'
  BY <1>2 DEF IsPlaced, IsFor
<1> QED
  BY <1>4, <1>5

\* What is said of the new values is said of the next state.
LEMMA NothingIsLostNext ==
    ASSUME input' = input, NEW fs, NEW c, frames' = fs, chosen' = c,
           NothingIsLost(fs, c)
    PROVE  NothingIsLost(frames, chosen)'
  BY PendingNext DEF NothingIsLost

\* A plan that begins as another one serves its next request.
LEMMA LeadsOn ==
    ASSUME NEW plan, IsList(plan), NEW N \in Nat, NEW q, LeadsTo(q, plan, N),
           Len(plan) < N
    PROVE  \E set :
            /\ Append(plan, set) \in Extensions(plan, input.requests[Len(plan) + 1])
            /\ LeadsTo(q, Append(plan, set), N)
            /\ q[Len(plan) + 1] = set
<1> DEFINE n == Len(plan)
<1>1. n \in Nat /\ n + 1 \in 1..N /\ (n + 1) - 1 = n
  BY ListFacts
<1>2. /\ IsList(q) /\ Len(q) = N /\ Prefix(q, n) = plan
      /\ \A i \in (n + 1)..N :
            Prefix(q, i) \in Extensions(Prefix(q, i - 1), input.requests[i])
  BY DEF LeadsTo
<1>3. n + 1 \in DOMAIN q
  BY <1>1, <1>2, ListFacts
<1>4. Prefix(q, n + 1) = Append(plan, q[n + 1])
  BY <1>1, <1>2, <1>3, PrefixGrows
<1> DEFINE more == Append(plan, q[n + 1])
<1>5. Len(more) = n + 1
  BY AppendFacts
<1> HIDE DEF n
<1>6. n + 1 \in (n + 1)..N
  BY <1>1
<1>7. more \in Extensions(plan, input.requests[n + 1])
  BY <1>1, <1>2, <1>4, <1>6
<1> HIDE DEF more
<1>8. LeadsTo(q, more, N)
  <2>1. \A i \in ((n + 1) + 1)..N : i \in (n + 1)..N
    BY <1>1
  <2>2. n + 1 <= N
    BY <1>1
  <2>3. Prefix(q, n + 1) = more
    BY <1>4 DEF more
  <2> QED
    BY <1>2, <1>5, <2>1, <2>2, <2>3 DEF LeadsTo
<1> QED
  BY <1>7, <1>8 DEF more, n

\* An extension serves an alternative of the request.
LEMMA ExtensionServes ==
    ASSUME NEW plan, NEW set, IsList(plan), NEW k,
           Append(plan, set) \in Extensions(plan, input.requests[k])
    PROVE  \E j \in DOMAIN Alts(k) : \E node :
            /\ Alts(k)[j].class \in input.classes
            /\ Serves(set, Alts(k)[j], node, plan)
            /\ ConstraintsHold(Append(plan, set))
<1> DEFINE request == input.requests[k]
           nodes == {s.node : s \in Range(input.slices)}
           alts == {a \in Range(Alternatives(request)) : a.class \in input.classes}
           Sets(a, n) == {t \in SUBSET Suitable(a, n, plan) : Serves(t, a, n, plan)}
           sets == UNION {UNION {Sets(a, n) : a \in alts} : n \in nodes}
<1>1. Append(plan, set) \in {p \in {Append(plan, t) : t \in sets} :
            /\ Cardinality({result[2].node : result \in Results(p)}) = 1
            /\ Cardinality(Results(p)) <= AllocationResultsMaxSize
            /\ ConstraintsHold(p)}
  BY Zenon DEF Extensions
<1>2. ConstraintsHold(Append(plan, set))
  BY <1>1, Zenon
<1>3. PICK t \in sets : Append(plan, set) = Append(plan, t)
  BY <1>1, Zenon
<1>4. t = set
  BY <1>3, AppendFacts
<1>5. PICK n \in nodes : t \in UNION {Sets(a, n) : a \in alts}
  BY <1>3, Zenon
<1>6. PICK a \in alts : t \in Sets(a, n)
  BY <1>5, Zenon
<1>7. Serves(set, a, n, plan)
  BY <1>4, <1>6, Zenon
<1>8. PICK j \in DOMAIN Alts(k) : Alts(k)[j] = a
  BY <1>6 DEF Alts, Range
<1> QED
  BY <1>2, <1>6, <1>7, <1>8

\* Where nothing is left and the request has not failed, nothing was live.
LEMMA NothingWasLive ==
    ASSUME NEW f, NEW k, NEW c, IsList(SetsOf(Prefix(c, k - 1))),
           IsList(Alts(k)), IsFrame(f, input.requests[k]),
           IsPlaced(f, k, c), IsPending(f, k, c), ~(k <= Len(c)),
           f.selections = <<>>, f.alternatives = <<>> \/ f.failure # "none",
           IterationFailure(f, input.requests[k]) = "none",
           NEW set, Live(set, SetsOf(Prefix(c, k - 1)), k)
    PROVE  FALSE
<1> DEFINE before == SetsOf(Prefix(c, k - 1))
           N == Len(Alts(k))
<1>1. f.failure = "none" /\ ~(f.limit /\ N = 1)
  <2>0. f.failure \in {"none"} \cup Failures
    BY DEF IsFrame
  <2>1. ASSUME f.failure # "none" PROVE FALSE
    BY <2>1 DEF IterationFailure
  <2>2. ASSUME f.failure = "none", f.limit, N = 1 PROVE FALSE
    BY <2>2 DEF IterationFailure, Alts
  <2> QED
    BY <2>1, <2>2
<1>2. f.alternatives = <<>> /\ At(f, k) = N /\ N \in Nat /\ DOMAIN Alts(k) = 1..N
  <2>1. f.alternatives = <<>>
    BY <1>1
  <2>2. N \in Nat /\ DOMAIN Alts(k) = 1..N
    BY ListFacts
  <2> HIDE DEF N
  <2>3. N - 0 = N
    BY <2>2
  <2>4. Len(<<>>) = 0
    OBVIOUS
  <2>5. At(f, k) = N
    BY <2>1, <2>3, <2>4 DEF At, N
  <2> QED
    BY <2>1, <2>2, <2>5
<1> HIDE DEF N, before
<1>3. Append(before, set) \in Extensions(before, input.requests[k])
  BY DEF Live, before
<1>4. PICK j \in DOMAIN Alts(k) : \E node :
        /\ Alts(k)[j].class \in input.classes
        /\ Serves(set, Alts(k)[j], node, before)
  BY <1>3, ExtensionServes DEF before
<1>5. j > At(f, k) \/ Kept(set, f, k, c)
  BY <1>4 DEF IsPending, before
<1>6. ~(j > At(f, k))
  BY <1>2
<1>7. Range(f.selections) = {}
  BY OneSelection
<1> QED
  BY <1>1, <1>5, <1>6, <1>7 DEF Kept, N
-----------------------------------------------------------------------------
(* Every action keeps what is left to try.                                  *)

\* The inputs of which exhaustiveness is claimed.
InScope == IdentitiesAreDistinct /\ StepsAreWhole /\ NoFailureIsMasked

\* The planner that is chosen is the one that is used.
Chosen == pc = "search" => UseBacktrackingPlanner

\* A frame looks at the choices up to its own.
LEMMA FrameAgrees ==
    ASSUME NEW f, NEW k, NEW c, NEW d, IsPlaced(f, k, c), IsPending(f, k, c),
           Prefix(d, k - 1) = Prefix(c, k - 1),
           k <= Len(d) <=> k <= Len(c), k <= Len(c) => d[k] = c[k]
    PROVE  IsPlaced(f, k, d) /\ IsPending(f, k, d)
<1>1. IsPlaced(f, k, d)
  BY DEF IsPlaced
<1>2. \A set : Kept(set, f, k, c) => Kept(set, f, k, d)
  BY DEF Kept
<1>3. IsPending(f, k, d)
  BY <1>2 DEF IsPending
<1> QED
  BY <1>1, <1>3

\* Where the planner is, for what is left.
LEMMA LastPlace ==
    ASSUME TypeOK, Shape, Iterating
    PROVE  LET n == Len(frames) IN
           /\ n \in Nat /\ Len(chosen) = n - 1 /\ Len(chosen) \in Nat
           /\ n \in DOMAIN frames /\ DOMAIN frames = 1..n /\ Last(frames) = frames[n]
           /\ n \in 1..Len(input.requests)
           /\ IsFrame(frames[n], input.requests[n]) /\ IsList(Alts(n))
           /\ Prefix(chosen, n - 1) = chosen /\ ~(n <= Len(chosen))
           /\ SetsOf(chosen) = ChosenSets /\ IsList(SetsOf(chosen))
           /\ \A k \in 1..n : k # n => k <= Len(chosen) /\ k - 1 \in Nat
                                        /\ k - 1 <= Len(chosen)
<1> DEFINE n == Len(frames)
           m == Len(chosen)
<1>1. /\ m \in Nat /\ n = m + 1 /\ DOMAIN frames = 1..n /\ Last(frames) = frames[n]
      /\ n \in 1..Len(input.requests)
      /\ IsFrame(Last(frames), input.requests[n])
  BY Places
<1>2. IsList(Alts(n))
  BY <1>1, RequestFacts DEF Shape, Alts
<1>3. SetsOf(chosen) = ChosenSets /\ IsList(SetsOf(chosen))
  BY ChosenSetsList DEF ChosenSets, SetsOf, Shape
<1>4. Prefix(chosen, m) = chosen
  BY PrefixWhole DEF Shape
<1> HIDE DEF n, m
<1>5. n \in Nat /\ m = n - 1 /\ n \in 1..n /\ ~(n <= m)
  BY <1>1
<1>6. \A k \in 1..n : k # n => k <= m /\ k - 1 \in Nat /\ k - 1 <= m
  BY <1>1
<1> QED
  BY <1>1, <1>2, <1>3, <1>4, <1>5, <1>6 DEF n, m

\* The devices of a set that serves an alternative are asked for by its name.
LEMMA ServesName ==
    ASSUME NEW set, NEW alt, NEW node, NEW plan, Serves(set, alt, node, plan),
           NEW d \in set
    PROVE  d.request = alt.name
<1>1. d \in Suitable(alt, node, plan)
  BY DEF Serves
<1>2. PICK s \in SlicesFor(alt, node, plan) : \E e \in Range(s.devices) :
            d = AsTaken(alt, s, e)
  BY <1>1 DEF Suitable
<1>3. PICK e \in Range(s.devices) : d = AsTaken(alt, s, e)
  BY <1>2
<1> QED
  BY <1>3 DEF AsTaken

\* The head and the tail of a list, by their places.
LEMMA TailAt ==
    ASSUME NEW s, IsList(s), s # <<>>
    PROVE  /\ Len(Tail(s)) = Len(s) - 1 /\ Len(s) \in Nat \ {0}
           /\ DOMAIN Tail(s) = 1..(Len(s) - 1)
           /\ 1 \in DOMAIN s /\ Head(s) = s[1]
           /\ \A i \in DOMAIN Tail(s) : Tail(s)[i] = s[i + 1] /\ i + 1 \in DOMAIN s
           /\ \A x \in Range(s) : x = Head(s) \/ x \in Range(Tail(s))
<1> DEFINE n == Len(s)
           t == Tail(s)
<1>1. n \in Nat /\ n # 0 /\ DOMAIN s = 1..n /\ s \in Seq(Range(s))
  BY ListFacts
<1>2. t \in Seq(Range(s)) /\ Len(t) = n - 1 /\ Head(s) = s[1]
      /\ \A i \in 1..(n - 1) : t[i] = s[i + 1]
  BY <1>1
<1> HIDE DEF t
<1>3. DOMAIN t = 1..(n - 1)
  BY <1>1, <1>2
<1> HIDE DEF n
<1>4. 1 \in 1..n /\ \A i \in 1..(n - 1) : i + 1 \in 1..n
  BY <1>1
<1>5. \A x \in Range(s) : x = s[1] \/ x \in Range(t)
  <2> TAKE x \in Range(s)
  <2>1. PICK i \in 1..n : s[i] = x
    BY <1>1, ListFacts
  <2>2. CASE i = 1
    BY <2>1, <2>2
  <2>3. CASE i # 1
    <3>1. i - 1 \in 1..(n - 1) /\ (i - 1) + 1 = i
      BY <1>1, <2>3
    <3>2. t[i - 1] = x
      BY <1>2, <2>1, <3>1
    <3> QED
      BY <1>3, <3>1, <3>2 DEF Range
  <2> QED
    BY <2>2, <2>3
<1>6. n \in Nat \ {0}
  BY <1>1
<1> QED
  BY <1>1, <1>2, <1>3, <1>4, <1>5, <1>6 DEF t, n

\* Nothing is lost when a request is entered: all its alternatives are to come.
LEMMA EnterRequestLoses ==
    ASSUME TypeOK, Shape, NothingIsLost(frames, chosen), EnterRequest
    PROVE  NothingIsLost(frames, chosen)'
<1> DEFINE n == Len(chosen) + 1
           f == Frame(Alts(n), <<>>, TRUE, FALSE, "none")
           gs == Append(frames, f)
<1>1. input' = input /\ chosen' = chosen /\ (frames' = frames \/ frames' = gs)
  BY DEF EnterRequest, Alts
<1>2. /\ Len(chosen) \in Nat /\ Len(frames) = Len(chosen) /\ DOMAIN frames = 1..Len(chosen)
      /\ Len(chosen) < Len(input.requests) /\ Len(input.requests) \in Nat
  BY Places DEF EnterRequest
<1>3. n \in 1..Len(input.requests) /\ ~(n <= Len(chosen))
  BY <1>2
<1>4. IsList(Alts(n))
  BY <1>3, RequestFacts DEF Shape, Alts
<1>5. /\ f.alternatives = Alts(n) /\ f.selections = <<>>
  BY DEF Frame
<1> HIDE DEF f
<1>6. /\ DOMAIN gs = 1..n /\ gs[n] = f
      /\ \A k \in 1..Len(chosen) : gs[k] = frames[k]
  BY <1>2, AppendFacts DEF Shape, AreFrames
<1>7. \A k \in 1..n : k # n => k \in DOMAIN frames /\ k \in 1..Len(chosen)
  BY <1>2
<1> HIDE DEF gs, n
<1>8. /\ Len(Alts(n)) \in Nat /\ DOMAIN Alts(n) = 1..Len(Alts(n))
      /\ At(f, n) = Len(Alts(n)) - Len(Alts(n))
  BY <1>4, <1>5, ListFacts DEF At
<1> DEFINE m == Len(Alts(n))
<1>9. At(f, n) = 0 /\ m \in Nat /\ DOMAIN Alts(n) = 1..m /\ Len(f.alternatives) <= m
  <2>1. m \in Nat /\ At(f, n) = m - m
    BY <1>8
  <2> HIDE DEF m
  <2> QED
    BY <1>5, <1>8, <2>1 DEF m
<1>10. IsPlaced(f, n, chosen)
  <2>1. \A i \in 1..m : 0 + i = i
    BY <1>9
  <2>2. \A i \in DOMAIN f.alternatives : f.alternatives[i] = Alts(n)[At(f, n) + i]
    BY <1>5, <1>9, <2>1
  <2>3. Range(f.selections) = {}
    BY <1>5, OneSelection
  <2> QED
    BY <1>3, <1>9, <2>2, <2>3 DEF IsPlaced
<1>11. IsPending(f, n, chosen)
  <2>1. \A j \in DOMAIN Alts(n) : j > At(f, n)
    BY <1>9
  <2> QED
    BY <2>1 DEF IsPending
<1>12. NothingIsLost(gs, chosen)
  <2>1. \A k \in DOMAIN gs : IsPlaced(gs[k], k, chosen) /\ IsPending(gs[k], k, chosen)
    BY <1>6, <1>7, <1>10, <1>11 DEF NothingIsLost
  <2> QED
    BY <2>1 DEF NothingIsLost
<1> QED
  BY <1>1, <1>12, NothingIsLostNext

\* The greedy planner takes a selection of the alternative it has looked at.
LEMMA SelectRequestLoses ==
    ASSUME TypeOK, Shape, NothingIsLost(frames, chosen), SelectRequest,
           IsList(Last(frames).selections)
    PROVE  NothingIsLost(frames, chosen)'
<1> DEFINE n == Len(frames)
           f == frames[n]
           s == Head(f.selections)
           c == Append(chosen, s)
<1>1. Iterating /\ pc = "greedy" /\ Last(frames).selections # <<>>
  BY DEF SelectRequest
<1>2. /\ n \in Nat /\ Len(chosen) = n - 1 /\ Len(chosen) \in Nat
      /\ n \in DOMAIN frames /\ DOMAIN frames = 1..n /\ Last(frames) = f
      /\ Prefix(chosen, n - 1) = chosen
      /\ \A k \in 1..n : k # n => k <= Len(chosen) /\ k - 1 \in Nat
                                   /\ k - 1 <= Len(chosen)
  BY <1>1, LastPlace
<1>3. input' = input /\ frames' = frames /\ chosen' = c
  BY <1>2 DEF SelectRequest
<1>4. s \in Range(f.selections)
  BY <1>1, <1>2, TailFacts
<1>5. ~UseBacktrackingPlanner
  BY <1>1 DEF Shape
<1>6. IsPlaced(f, n, chosen) /\ IsPending(f, n, chosen)
  BY <1>2 DEF NothingIsLost
<1> HIDE DEF s
<1>7. /\ IsList(c) /\ Len(c) = n /\ c[n] = s
      /\ \A i \in 1..Len(chosen) : c[i] = chosen[i]
  <2>1. /\ IsList(c) /\ Len(c) = Len(chosen) + 1 /\ c[Len(chosen) + 1] = s
        /\ \A i \in 1..Len(chosen) : c[i] = chosen[i]
    BY AppendFacts DEF Shape
  <2>2. Len(chosen) + 1 = n
    BY <1>2
  <2> QED
    BY <2>1, <2>2
<1> HIDE DEF c, n, f
<1>8. \A k \in 1..n : Prefix(c, k - 1) = Prefix(chosen, k - 1)
  <2> TAKE k \in 1..n
  <2>1. k - 1 \in Nat /\ k - 1 <= Len(chosen) /\ k - 1 <= Len(c)
        /\ \A i \in 1..(k - 1) : i \in 1..Len(chosen)
    BY <1>2, <1>7
  <2>2. \A i \in 1..(k - 1) : c[i] = chosen[i]
    BY <1>7, <2>1
  <2> QED
    BY <1>7, <2>1, <2>2, PrefixesAgree DEF Shape
<1>9. ASSUME NEW k \in 1..n, k # n
      PROVE  IsPlaced(frames[k], k, c) /\ IsPending(frames[k], k, c)
  <2>1. k <= Len(chosen) /\ k <= Len(c) /\ c[k] = chosen[k]
    BY <1>2, <1>7, <1>9
  <2> QED
    BY <1>2, <1>8, <2>1, FrameAgrees DEF NothingIsLost
<1>10. IsPlaced(f, n, c)
  BY <1>4, <1>6, <1>7 DEF IsPlaced
<1>11. IsPending(f, n, c)
  <2>1. Prefix(c, n - 1) = Prefix(chosen, n - 1)
    BY <1>2, <1>8
  <2>2. \A set : Kept(set, f, n, chosen) => Kept(set, f, n, c)
    BY <1>5 DEF Kept
  <2> QED
    BY <1>6, <2>1, <2>2 DEF IsPending
<1>12. NothingIsLost(frames, c)
  BY <1>2, <1>9, <1>10, <1>11 DEF NothingIsLost, f
<1> QED
  BY <1>3, <1>12, NothingIsLostNext

\* Frames of which only the last one changes.
LEMMA LastReplaced ==
    ASSUME TypeOK, Shape, NothingIsLost(frames, chosen), Iterating,
           NEW g, NEW c, IsPlaced(g, Len(frames), c), IsPending(g, Len(frames), c),
           IsList(c), \/ c = chosen
                      \/ \E s : c = Append(chosen, s)
    PROVE  NothingIsLost([frames EXCEPT ![Len(frames)] = g], c)
<1> DEFINE n == Len(frames)
           gs == [frames EXCEPT ![n] = g]
<1>1. /\ n \in Nat /\ Len(chosen) = n - 1 /\ Len(chosen) \in Nat
      /\ DOMAIN frames = 1..n
      /\ \A k \in 1..n : k # n => k <= Len(chosen) /\ k - 1 \in Nat
                                   /\ k - 1 <= Len(chosen)
  BY LastPlace
<1>2. /\ DOMAIN gs = 1..n /\ gs[n] = g
      /\ \A k \in DOMAIN gs : k # n => gs[k] = frames[k] /\ k \in DOMAIN frames
  BY Places, ReplaceLast DEF Shape, AreFrames
<1>3. IsPlaced(g, n, c) /\ IsPending(g, n, c)
  OBVIOUS
<1>4. Len(c) \in Nat /\ Len(chosen) <= Len(c) /\ \A i \in 1..Len(chosen) : c[i] = chosen[i]
  <2>1. CASE c = chosen
    BY <1>1, <2>1
  <2>2. CASE \E s : c = Append(chosen, s)
    <3>1. PICK s : c = Append(chosen, s)
      BY <2>2
    <3>2. Len(c) = Len(chosen) + 1 /\ \A i \in 1..Len(chosen) : c[i] = chosen[i]
      BY <3>1, AppendFacts DEF Shape
    <3> QED
      BY <1>1, <3>2
  <2> QED
    BY <2>1, <2>2
<1> HIDE DEF n, gs
<1>5. ASSUME NEW k \in 1..n, k # n
      PROVE  IsPlaced(gs[k], k, c) /\ IsPending(gs[k], k, c)
  <2>1. /\ k <= Len(chosen) /\ k <= Len(c) /\ c[k] = chosen[k]
        /\ k - 1 \in Nat /\ k - 1 <= Len(chosen) /\ k - 1 <= Len(c)
        /\ \A i \in 1..(k - 1) : i \in 1..Len(chosen)
    BY <1>1, <1>4, <1>5
  <2>2. \A i \in 1..(k - 1) : c[i] = chosen[i]
    BY <1>4, <2>1
  <2>3. Prefix(c, k - 1) = Prefix(chosen, k - 1)
    BY <2>1, <2>2, PrefixesAgree DEF Shape
  <2>4. gs[k] = frames[k] /\ IsPlaced(frames[k], k, chosen) /\ IsPending(frames[k], k, chosen)
    BY <1>1, <1>2, <1>5 DEF NothingIsLost
  <2> QED
    BY <2>1, <2>3, <2>4, FrameAgrees
<1>6. NothingIsLost(gs, c)
  BY <1>2, <1>3, <1>5 DEF NothingIsLost
<1> QED
  BY <1>6 DEF gs, n

\* The next alternative leads to every live set that serves it.
LEMMA NextAlternativeLoses ==
    ASSUME TypeOK, Shape, Good, Chosen, InScope, NothingIsLost(frames, chosen),
           NextAlternative
    PROVE  NothingIsLost(frames, chosen)'
<1> DEFINE n == Len(frames)
           f == frames[n]
           alt == Head(f.alternatives)
           request == input.requests[n]
           out == AlternativeOutcome(alt)
           g == AfterAlternative(f, out)
           before == SetsOf(Prefix(chosen, n - 1))
           a == At(f, n)
           N == Len(Alts(n))
           L == Len(f.alternatives)
<1>1. /\ Iterating /\ input' = input /\ chosen' = chosen /\ pc \in {"search", "greedy"}
  BY DEF NextAlternative, Iterating
<1>2. /\ n \in Nat /\ n \in DOMAIN frames /\ Last(frames) = f
      /\ n \in 1..Len(input.requests)
      /\ IsFrame(f, request) /\ IsList(Alts(n))
      /\ Prefix(chosen, n - 1) = chosen /\ ~(n <= Len(chosen))
      /\ SetsOf(chosen) = ChosenSets /\ IsList(SetsOf(chosen))
  BY <1>1, LastPlace
<1>3. /\ f.selections = <<>> /\ f.failure = "none" /\ f.alternatives # <<>>
      /\ frames' = [frames EXCEPT ![n] = g]
  BY <1>2 DEF NextAlternative
<1>4. IsPlaced(f, n, chosen) /\ IsPending(f, n, chosen)
  BY <1>2 DEF NothingIsLost
<1>5. IsList(f.alternatives) /\ alt \in Range(f.alternatives)
  BY <1>2, <1>3, TailFacts DEF IsFrame
<1>6. alt \in Range(Alternatives(request)) /\ SupportedAlternative(alt)
  BY <1>2, <1>5 DEF IsFrame, SupportedRequest
<1>7. IsAlternative(alt)
  BY <1>2, <1>6, RequestFacts DEF Shape
<1>8. Planning /\ StepsAreWhole
  BY GoodIsPlanning DEF Good
<1>9. before = ChosenSets /\ request \in Range(input.requests)
  BY <1>2, ListFacts DEF Shape, WellFormed
<1>10. /\ g.alternatives = Tail(f.alternatives) /\ g.selections = out.selections
       /\ g.limit = (f.limit \/ out.limit) /\ g.failure = out.failure
  BY DEF AfterAlternative, Frame
<1>11. /\ L \in Nat \ {0} /\ Len(g.alternatives) = L - 1
       /\ DOMAIN g.alternatives = 1..(L - 1) /\ 1 \in DOMAIN f.alternatives
       /\ alt = f.alternatives[1]
       /\ \A i \in DOMAIN g.alternatives :
            g.alternatives[i] = f.alternatives[i + 1] /\ i + 1 \in DOMAIN f.alternatives
  BY <1>3, <1>5, <1>10, TailAt
<1>12. N \in Nat /\ DOMAIN Alts(n) = 1..N /\ L <= N /\ a = N - L
  BY <1>2, <1>4, ListFacts DEF IsPlaced, At
<1>13. At(g, n) = N - (L - 1)
  BY <1>11 DEF At
<1> HIDE DEF L, N
<1>14. At(g, n) = a + 1 /\ a \in Nat /\ a + 1 \in 1..N /\ Len(g.alternatives) <= N
       /\ (N = 1 => a = 0)
  BY <1>11, <1>12, <1>13
<1>15. alt = Alts(n)[a + 1]
  BY <1>4, <1>11 DEF IsPlaced
<1> HIDE DEF alt, a, g
<1>16. \A s \in Range(out.selections) : IsFor(s, a + 1, n)
  <2>1. AreSelections(out.selections, alt)
    BY <1>1, <1>6, <1>7, <1>8, OutcomeSelections
  <2> HIDE DEF out
  <2> TAKE s \in Range(out.selections)
  <2>2. IsSelection(s, alt)
    BY <2>1 DEF AreSelections
  <2>3. PICK node : Serves(Range(s), alt, node, ChosenSets)
    BY <2>2 DEF IsSelection
  <2>4. \A d \in Range(s) : d.request = alt.name
    BY <2>3, ServesName
  <2> QED
    BY <1>12, <1>14, <1>15, <2>4 DEF IsFor
<1>17. IsPlaced(g, n, chosen)
  <2>1. ASSUME NEW i \in DOMAIN g.alternatives
        PROVE  g.alternatives[i] = Alts(n)[At(g, n) + i]
    <3>1. g.alternatives[i] = f.alternatives[i + 1] /\ i + 1 \in DOMAIN f.alternatives
      BY <1>11
    <3>2. f.alternatives[i + 1] = Alts(n)[a + (i + 1)]
      BY <1>4, <3>1 DEF IsPlaced, a
    <3>3. i \in Nat
      BY <1>11
    <3>4. a + (i + 1) = (a + 1) + i
      BY <1>14, <3>3
    <3> QED
      BY <1>14, <3>1, <3>2, <3>4
  <2> QED
    BY <1>2, <1>10, <1>14, <1>16, <2>1 DEF IsPlaced, N
<1>18. IsPending(g, n, chosen)
  <2> SUFFICES ASSUME NEW set, NEW node, NEW j \in DOMAIN Alts(n),
                      Live(set, before, n), Alts(n)[j].class \in input.classes,
                      Serves(set, Alts(n)[j], node, before)
               PROVE  j > At(g, n) \/ (j = At(g, n) /\ Kept(set, g, n, chosen))
    BY DEF IsPending
  <2>1. j > a \/ (j = a /\ Kept(set, f, n, chosen))
    BY <1>4 DEF IsPending, a
  <2>2. Range(f.selections) = {}
    BY <1>3, OneSelection
  <2>3. CASE j = a /\ Kept(set, f, n, chosen)
    <3>1. N = 1
      BY <1>2, <1>3, <2>2, <2>3 DEF Kept, N
    <3> QED
      BY <1>12, <1>14, <2>3, <3>1
  <2>4. CASE j = a + 1
    <3>1. alt = Alts(n)[j] /\ Acceptable(alt)
      BY <1>6, <1>7, <1>15, <2>4 DEF Acceptable
    <3>2. Wanted(set, alt, node)
      <4>1. Append(ChosenSets, set) \in Extensions(ChosenSets, request)
        BY <1>9 DEF Live
      <4>2. Serves(set, alt, node, ChosenSets)
        BY <1>9, <3>1
      <4> QED
        BY <1>8, <4>1, <4>2, ExtensionIsWanted
    <3>3. \/ out.failure # "none"
          \/ out.limit /\ Len(Alternatives(request)) = 1
          \/ Found(out.selections, set)
      BY <1>6, <1>8, <1>9, <3>1, <3>2, OutcomeFinds DEF InScope
    <3>4. Found(out.selections, set) =>
            \/ UseBacktrackingPlanner /\ \E s \in Range(out.selections) : Range(s) = set
            \/ ~UseBacktrackingPlanner /\ out.selections # <<>>
      BY <1>1 DEF Found, Chosen, Shape
    <3> HIDE DEF out
    <3>5. Kept(set, g, n, chosen)
      BY <1>10, <3>3, <3>4 DEF Kept, Alts
    <3> QED
      BY <1>14, <2>4, <3>5
  <2>5. CASE j > a /\ j # a + 1
    BY <1>12, <1>14, <2>5
  <2> QED
    BY <2>1, <2>3, <2>4, <2>5
<1>19. NothingIsLost([frames EXCEPT ![n] = g], chosen)
  BY <1>1, <1>17, <1>18, LastReplaced DEF Shape
<1> QED
  BY <1>1, <1>3, <1>19, NothingIsLostNext

\* A selection whose branch is left has been tried, or breaks a constraint.
LEMMA YieldLoses ==
    ASSUME TypeOK, Shape, Good, Chosen, NothingIsLost(frames, chosen), Yield
    PROVE  NothingIsLost(frames, chosen)'
<1> DEFINE n == Len(frames)
           f == frames[n]
           s == Head(f.selections)
           answer == matchConstraintsSatisfied(Taken \o s)
           g == [f EXCEPT !.selections = Tail(f.selections)]
           c == IF answer = "yes" THEN Append(chosen, s) ELSE chosen
           before == SetsOf(Prefix(chosen, n - 1))
<1>1. Iterating /\ input' = input /\ Last(frames).selections # <<>> /\ pc = "search"
  BY DEF Yield
<1>2. /\ n \in Nat /\ n \in DOMAIN frames /\ Last(frames) = f
      /\ Len(chosen) = n - 1 /\ Len(chosen) \in Nat
      /\ IsFrame(f, input.requests[n]) /\ IsList(Alts(n))
      /\ Prefix(chosen, n - 1) = chosen /\ ~(n <= Len(chosen))
      /\ SetsOf(chosen) = ChosenSets /\ IsList(SetsOf(chosen))
  BY <1>1, LastPlace
<1>3. CASE BudgetSpent
  <2>1. frames' = frames /\ chosen' = chosen
    BY <1>3 DEF Yield
  <2> QED
    BY <1>1, <2>1, NothingIsLostNext
<1>4. CASE ~BudgetSpent
  <2>1. frames' = [frames EXCEPT ![n] = g] /\ chosen' = c
    BY <1>2, <1>4 DEF Yield
  <2>2. IsPlaced(f, n, chosen) /\ IsPending(f, n, chosen)
    BY <1>2 DEF NothingIsLost
  <2>3. /\ IsList(f.selections) /\ f.selections # <<>>
        /\ \A t \in Range(f.selections) : IsGood(t, chosen, input.requests[Len(chosen) + 1])
    BY <1>1, <1>2, LastSelections
  <2>4. /\ s \in Range(f.selections)
        /\ Range(Tail(f.selections)) \subseteq Range(f.selections)
        /\ \A x \in Range(f.selections) : x = s \/ x \in Range(Tail(f.selections))
    BY <2>3, TailFacts, TailAt
  <2>5. /\ g.alternatives = f.alternatives /\ g.selections = Tail(f.selections)
        /\ g.limit = f.limit /\ g.failure = f.failure
    <3>1. f = Frame(f.alternatives, f.selections, f.missing, f.limit, f.failure)
      BY <1>2 DEF IsFrame
    <3> HIDE DEF f
    <3>2. g = Frame(f.alternatives, Tail(f.selections), f.missing, f.limit, f.failure)
      BY <3>1, FrameExcept
    <3> QED
      BY <3>2 DEF Frame
  <2>6. At(g, n) = At(f, n)
    BY <2>5 DEF At
  <2>7. /\ IsList(Append(chosen, s)) /\ Append(chosen, s)[n] = s
        /\ Len(Append(chosen, s)) = n
        /\ \A i \in 1..Len(chosen) : Append(chosen, s)[i] = chosen[i]
    <3>1. /\ IsList(Append(chosen, s)) /\ Append(chosen, s)[Len(chosen) + 1] = s
          /\ Len(Append(chosen, s)) = Len(chosen) + 1
          /\ \A i \in 1..Len(chosen) : Append(chosen, s)[i] = chosen[i]
      BY AppendFacts DEF Shape
    <3>2. Len(chosen) + 1 = n
      BY <1>2
    <3> QED
      BY <3>1, <3>2
  <2>8. /\ IsList(c) /\ c \in {chosen, Append(chosen, s)}
        /\ answer = "yes" => c = Append(chosen, s)
        /\ answer # "yes" => c = chosen
    BY <2>7 DEF Shape
  <2>9. Prefix(c, n - 1) = Prefix(chosen, n - 1)
    <3>1. CASE c = chosen
      BY <3>1
    <3>2. CASE c = Append(chosen, s)
      <4>1. n - 1 \in Nat /\ n - 1 <= Len(chosen) /\ n - 1 <= Len(c)
        BY <1>2, <2>7, <3>2
      <4>2. \A i \in 1..(n - 1) : c[i] = chosen[i]
        BY <1>2, <2>7, <3>2
      <4> QED
        BY <2>8, <4>1, <4>2, PrefixesAgree DEF Shape
    <3> QED
      BY <2>8, <3>1, <3>2
  <2>10. IsGood(s, chosen, input.requests[Len(chosen) + 1])
    BY <2>3, <2>4
  <2>11. ASSUME answer # "yes", Live(Range(s), before, n) PROVE FALSE
    <3> DEFINE a == Append(chosen, s)
    <3>1. Tidy(chosen)
      BY GoodPlanFacts DEF Shape, Good
    <3>2. /\ IsList(s) /\ \A i, j \in DOMAIN s : s[i].id = s[j].id => i = j
          /\ \A i \in DOMAIN s : s[i].amount \in Nat
      BY <2>10 DEF IsGood
    <3>3. Tidy(a) /\ FlattenSeq(a) = Taken \o s
      BY <3>1, <3>2, TidyLonger DEF Taken
    <3>4. ConstraintsHold(Append(SetsOf(chosen), Range(s)))
      <4>1. Append(SetsOf(chosen), Range(s))
                \in Extensions(SetsOf(chosen), input.requests[n])
        BY <1>2, <2>11 DEF Live
      <4> QED
        BY <1>2, <4>1, ExtensionServes
    <3>5. SetsOf(a) = Append(SetsOf(chosen), Range(s))
      BY SetsOfAppend DEF Shape
    <3> HIDE DEF a
    <3>6. matchConstraintsSatisfied(FlattenSeq(a)) = "yes"
      BY <3>3, <3>4, <3>5, ConstraintsAreSatisfied DEF Shape
    <3> QED
      BY <2>11, <3>3, <3>6
  <2> HIDE DEF c, g, f, s, answer
  <2>12. IsPlaced(g, n, c)
    <3>1. ASSUME n <= Len(c) PROVE IsFor(c[n], At(g, n), n)
      <4>1. c[n] = s
        BY <1>2, <2>7, <2>8, <3>1
      <4> QED
        BY <2>2, <2>4, <2>6, <4>1 DEF IsPlaced
    <3> QED
      BY <2>2, <2>4, <2>5, <2>6, <3>1 DEF IsPlaced
  <2>13. IsPending(g, n, c)
    <3> SUFFICES ASSUME NEW set, NEW node, NEW j \in DOMAIN Alts(n),
                        Live(set, before, n), Alts(n)[j].class \in input.classes,
                        Serves(set, Alts(n)[j], node, before)
                 PROVE  j > At(g, n) \/ (j = At(g, n) /\ Kept(set, g, n, c))
      BY <2>9 DEF IsPending
    <3>1. j > At(f, n) \/ (j = At(f, n) /\ Kept(set, f, n, chosen))
      BY <2>2 DEF IsPending
    <3>2. ASSUME Kept(set, f, n, chosen) PROVE Kept(set, g, n, c)
      <4>1. UseBacktrackingPlanner
        BY <1>1 DEF Chosen
      <4>2. CASE \E t \in Range(f.selections) : Range(t) = set
        <5>1. PICK t \in Range(f.selections) : Range(t) = set
          BY <4>2
        <5>2. CASE t \in Range(Tail(f.selections))
          BY <2>5, <4>1, <5>1, <5>2 DEF Kept
        <5>3. CASE t = s
          <6>1. answer = "yes"
            BY <2>11, <5>1, <5>3
          <6>2. n <= Len(c) /\ c[n] = s
            BY <1>2, <2>7, <2>8, <6>1
          <6> QED
            BY <4>1, <5>1, <5>3, <6>2 DEF Kept
        <5> QED
          BY <2>4, <5>2, <5>3
      <4>3. CASE ~\E t \in Range(f.selections) : Range(t) = set
        BY <1>2, <2>5, <3>2, <4>1, <4>3 DEF Kept
      <4> QED
        BY <4>2, <4>3
    <3> QED
      BY <2>6, <3>1, <3>2
  <2>14. NothingIsLost([frames EXCEPT ![n] = g], c)
    BY <1>1, <2>8, <2>12, <2>13, LastReplaced
  <2> QED
    BY <1>1, <2>1, <2>14, NothingIsLostNext
<1> QED
  BY <1>3, <1>4

\* A request that is left without a failure had nothing live.
LEMMA LeftIsDead ==
    ASSUME TypeOK, Shape, NothingIsLost(frames, chosen), NothingLeft,
           IterationFailure(Last(frames), input.requests[Len(frames)]) = "none"
    PROVE  \A set : ~Live(set, SetsOf(chosen), Len(frames))
<1> DEFINE n == Len(frames)
           f == frames[n]
<1>1. /\ Iterating /\ Last(frames).selections = <<>>
      /\ Last(frames).alternatives = <<>> \/ Last(frames).failure # "none"
  BY DEF NothingLeft
<1>2. /\ n \in DOMAIN frames /\ Last(frames) = f
      /\ IsFrame(f, input.requests[n]) /\ IsList(Alts(n))
      /\ Prefix(chosen, n - 1) = chosen /\ ~(n <= Len(chosen))
      /\ IsList(SetsOf(chosen))
  BY <1>1, LastPlace
<1>3. IsPlaced(f, n, chosen) /\ IsPending(f, n, chosen)
  BY <1>2 DEF NothingIsLost
<1>4. /\ f.selections = <<>> /\ (f.alternatives = <<>> \/ f.failure # "none")
      /\ IterationFailure(f, input.requests[n]) = "none"
  BY <1>1, <1>2
<1> HIDE DEF f, n
<1>5. \A set : Live(set, SetsOf(Prefix(chosen, n - 1)), n) => FALSE
  BY <1>1, <1>2, <1>3, <1>4, NothingWasLive DEF f, n
<1> QED
  BY <1>2, <1>5 DEF n

\* Going back from a request gives up the choice before it, which was not live.
LEMMA ExhaustedLoses ==
    ASSUME TypeOK, Shape, Chosen, NothingIsLost(frames, chosen), Exhausted
    PROVE  NothingIsLost(frames, chosen)'
<1> DEFINE n == Len(frames)
           N == Len(input.requests)
           failure == IterationFailure(Last(frames), input.requests[n])
<1>1. Iterating /\ NothingLeft /\ input' = input
  BY DEF Exhausted, NothingLeft
<1>2. /\ n \in Nat /\ Len(chosen) = n - 1 /\ DOMAIN frames = 1..n
      /\ n \in 1..N /\ IsList(SetsOf(chosen)) /\ N \in Nat
  BY <1>1, LastPlace, Places
<1>3. CASE Backtracks(failure)
  <2> DEFINE gs == Prefix(frames, n - 1)
             c == Prefix(chosen, n - 2)
             m == n - 1
  <2>1. frames' = gs /\ chosen' = c
    BY <1>2, <1>3 DEF Exhausted, Front, Prefix
  <2>2. failure = "none" /\ UseBacktrackingPlanner /\ n > 1
    BY <1>3 DEF Backtracks, Chosen
  <2>3. /\ n - 1 \in 0..Len(frames) /\ n - 2 \in 0..Len(chosen)
        /\ m \in Nat /\ m - 1 = n - 2 /\ Len(chosen) = m
        /\ m \in 1..Len(chosen) /\ m + 1 = n
    BY <1>2, <2>2
  <2>4. /\ DOMAIN gs = 1..m
        /\ \A i \in 1..m : gs[i] = frames[i] /\ i \in DOMAIN frames
    BY <2>3, PrefixFacts DEF Shape, AreFrames
  <2>5. /\ Len(c) = m - 1
        /\ \A i \in 1..(m - 1) : c[i] = chosen[i]
    <3>1. /\ Len(c) = n - 2 /\ \A i \in 1..(n - 2) : c[i] = chosen[i]
      BY <2>3, PrefixFacts DEF Shape
    <3> QED
      BY <2>3, <3>1
  <2>6. \A k \in 0..(n - 2) : Prefix(c, k) = Prefix(chosen, k)
    BY <2>3, PrefixOfPrefix DEF Shape
  <2>7. \A set : ~Live(set, SetsOf(chosen), n)
    BY <1>1, <2>2, LeftIsDead
  <2>8. Len(SetsOf(chosen)) = m
    BY <2>3, ChosenSetsList DEF Shape
  <2>9. SetsOf(chosen) = Append(SetsOf(Prefix(chosen, m - 1)), Range(chosen[m]))
    <3>1. m \in DOMAIN chosen
      BY <2>3, ListFacts DEF Shape
    <3>2. Prefix(chosen, m) = chosen /\ m - 1 \in 0..Len(chosen)
      BY <2>3, PrefixWhole DEF Shape
    <3>3. Prefix(chosen, m) = Append(Prefix(chosen, m - 1), chosen[m])
      BY <3>1, PrefixGrows DEF Shape
    <3>4. IsList(Prefix(chosen, m - 1))
      BY <3>2, PrefixFacts DEF Shape
    <3> QED
      BY <3>2, <3>3, <3>4, SetsOfAppend
  <2> HIDE DEF gs, c, m, N
  <2>10. ~Live(Range(chosen[m]), SetsOf(Prefix(chosen, m - 1)), m)
    <3> SUFFICES ASSUME Live(Range(chosen[m]), SetsOf(Prefix(chosen, m - 1)), m)
                 PROVE  FALSE
      OBVIOUS
    <3>1. PICK q : LeadsTo(q, SetsOf(chosen), N)
      BY <2>2, <2>9 DEF Live, N
    <3>2. Len(SetsOf(chosen)) < N /\ Len(SetsOf(chosen)) + 1 = n
      BY <1>2, <2>3, <2>8
    <3>3. PICK set :
            /\ Append(SetsOf(chosen), set)
                \in Extensions(SetsOf(chosen), input.requests[Len(SetsOf(chosen)) + 1])
            /\ LeadsTo(q, Append(SetsOf(chosen), set), N)
      BY <1>2, <3>1, <3>2, LeadsOn
    <3>4. Live(set, SetsOf(chosen), n)
      BY <3>2, <3>3 DEF Live, N
    <3> QED
      BY <2>7, <3>4
  <2>11. ASSUME NEW k \in 1..m
         PROVE  IsPlaced(gs[k], k, c) /\ IsPending(gs[k], k, c)
    <3>1. gs[k] = frames[k] /\ IsPlaced(frames[k], k, chosen)
          /\ IsPending(frames[k], k, chosen)
      BY <2>4 DEF NothingIsLost
    <3>2. k - 1 \in 0..(n - 2)
      BY <2>3
    <3>3. Prefix(c, k - 1) = Prefix(chosen, k - 1)
      BY <2>6, <3>2
    <3>4. CASE k # m
      <4>1. k <= Len(c) /\ k <= Len(chosen) /\ c[k] = chosen[k]
        BY <2>3, <2>5, <3>4
      <4> QED
        BY <3>1, <3>3, <4>1, FrameAgrees
    <3>5. CASE k = m
      <4>1. ~(k <= Len(c)) /\ k <= Len(chosen)
        BY <2>3, <2>5, <3>5
      <4>2. IsPlaced(frames[k], k, c)
        BY <3>1, <4>1 DEF IsPlaced
      <4>3. \A set : /\ Live(set, SetsOf(Prefix(chosen, k - 1)), k)
                     /\ Kept(set, frames[k], k, chosen)
                     => Kept(set, frames[k], k, c)
        BY <2>10, <3>5 DEF Kept
      <4>4. IsPending(frames[k], k, c)
        BY <3>1, <3>3, <4>3 DEF IsPending
      <4> QED
        BY <3>1, <4>2, <4>4
    <3> QED
      BY <3>4, <3>5
  <2>12. NothingIsLost(gs, c)
    BY <2>4, <2>11 DEF NothingIsLost
  <2> QED
    BY <1>1, <2>1, <2>12, NothingIsLostNext
<1>4. CASE ~Backtracks(failure)
  <2>1. frames' = frames /\ chosen' = chosen
    BY <1>4 DEF Exhausted
  <2> QED
    BY <1>1, <2>1, NothingIsLostNext
<1> QED
  BY <1>3, <1>4

\* Every action leaves nothing behind.
LEMMA NothingLostStep ==
    ASSUME TypeOK, Shape, Good, Chosen, InScope, NothingIsLost(frames, chosen),
           [Next]_vars
    PROVE  NothingIsLost(frames, chosen)'
<1>1. CASE EnterRequest
  BY <1>1, EnterRequestLoses
<1>2. CASE NextAlternative
  BY <1>2, NextAlternativeLoses
<1>3. CASE SelectRequest
  <2>1. IsList(Last(frames).selections)
    BY <1>3, LastSelections DEF SelectRequest
  <2> QED
    BY <1>3, <2>1, SelectRequestLoses
<1>4. CASE Yield
  BY <1>4, YieldLoses
<1>5. CASE Exhausted
  BY <1>5, ExhaustedLoses
<1>6. ASSUME planClaimAllocation \/ AllRequestsSelected \/ Canceled \/ UNCHANGED vars
      PROVE  NothingIsLost(frames, chosen)'
  <2>1. input' = input /\ frames' = frames /\ chosen' = chosen
    BY <1>6 DEF planClaimAllocation, AllRequestsSelected, Canceled, vars
  <2> QED
    BY <2>1, NothingIsLostNext
<1> QED
  BY <1>1, <1>2, <1>3, <1>4, <1>5, <1>6 DEF Next, Answered

\* Where the answer is NoMatch, the first request has nothing live.
NoMatchIsFinal ==
    /\ outcome = "NoMatch" /\ InScope
    /\ UseBacktrackingPlanner \/ Len(input.requests) = 1
    => Len(input.requests) > 0 /\ \A set : ~Live(set, <<>>, 1)

\* Only Exhausted answers NoMatch, when it has come back to the first request.
LEMMA ExhaustedIsFinal ==
    ASSUME TypeOK, Shape, InScope => NothingIsLost(frames, chosen), Exhausted
    PROVE  NoMatchIsFinal'
<1> DEFINE n == Len(frames)
           failure == IterationFailure(Last(frames), input.requests[n])
<1>1. Iterating /\ NothingLeft /\ input' = input
  BY DEF Exhausted, NothingLeft
<1>2. /\ n \in Nat /\ Len(chosen) = n - 1 /\ n \in 1..Len(input.requests)
      /\ IsFrame(Last(frames), input.requests[n])
      /\ Len(input.requests) \in Nat /\ pc \in {"search", "greedy"} /\ outcome = "none"
  BY <1>1, LastPlace, Places DEF Iterating
<1>3. (InScope' <=> InScope) /\ (UseBacktrackingPlanner' <=> UseBacktrackingPlanner)
  BY <1>1 DEF InScope, IdentitiesAreDistinct, StepsAreWhole, NoFailureIsMasked, Decided,
              UseBacktrackingPlanner
<1>4. SUFFICES ASSUME outcome' = "NoMatch", InScope,
                      UseBacktrackingPlanner \/ Len(input.requests) = 1
               PROVE  Len(input.requests) > 0 /\ \A set : ~Live(set, <<>>, 1)
  BY <1>1, <1>3, LiveNext DEF NoMatchIsFinal
<1>5. failure # "NoMatch"
  <2>1. Last(frames).failure \in {"none"} \cup Failures
    BY <1>2 DEF IsFrame
  <2> QED
    BY <2>1 DEF IterationFailure, Failures
<1>6. failure = "none" /\ ~Backtracks(failure)
  BY <1>2, <1>4, <1>5 DEF Exhausted, Finish
<1>7. n = 1
  <2>1. pc # "search" \/ ~(n > 1)
    BY <1>6 DEF Backtracks
  <2>2. UseBacktrackingPlanner => pc = "search"
    BY <1>2 DEF Shape
  <2> QED
    BY <1>2, <1>4, <2>1, <2>2
<1>8. SetsOf(chosen) = <<>>
  <2>1. Len(SetsOf(chosen)) = 0 /\ IsList(SetsOf(chosen))
    BY <1>2, <1>7, ChosenSetsList DEF Shape
  <2> QED
    BY <2>1, ListFacts
<1>9. \A set : ~Live(set, SetsOf(chosen), n)
  BY <1>1, <1>4, <1>6, LeftIsDead
<1> QED
  BY <1>2, <1>7, <1>8, <1>9

\* The inductive invariant: the shape and the good plan of SearchIInv, and for
\* the inputs in scope that no live set is behind the planner.
ExhaustiveIInv ==
    /\ SearchIInv
    /\ Chosen
    /\ InScope => NothingIsLost(frames, chosen)
    /\ NoMatchIsFinal

\* It holds when the planner starts, with no frame.
LEMMA ExhaustiveInit == Init => ExhaustiveIInv
<1> SUFFICES ASSUME Init PROVE ExhaustiveIInv
  OBVIOUS
<1>1. SearchIInv
  BY SearchInit
<1>2. Chosen /\ NoMatchIsFinal
  BY DEF Init, Chosen, NoMatchIsFinal
<1>3. DOMAIN <<>> = {}
  OBVIOUS
<1>4. NothingIsLost(frames, chosen)
  BY <1>3 DEF Init, NothingIsLost
<1> QED
  BY <1>1, <1>2, <1>4 DEF ExhaustiveIInv

\* Every action keeps it.
LEMMA ExhaustiveStep == ExhaustiveIInv /\ [Next]_vars => ExhaustiveIInv'
<1> SUFFICES ASSUME ExhaustiveIInv, [Next]_vars PROVE ExhaustiveIInv'
  OBVIOUS
<1>1. TypeOK /\ Shape /\ SearchIInv /\ Chosen
  BY DEF ExhaustiveIInv, SearchIInv
<1>2. SearchIInv'
  BY <1>1, SearchStep
<1>3. input' = input
  BY <1>1, ShapeStep
<1>4. (InScope' <=> InScope) /\ (UseBacktrackingPlanner' <=> UseBacktrackingPlanner)
  BY <1>3 DEF InScope, IdentitiesAreDistinct, StepsAreWhole, NoFailureIsMasked, Decided,
              UseBacktrackingPlanner
<1>5. Chosen'
  <2>1. pc' = "search" => pc = "search" \/ UseBacktrackingPlanner
    BY DEF Next, planClaimAllocation, EnterRequest, AllRequestsSelected, NextAlternative,
           SelectRequest, Yield, Exhausted, Canceled, Answered, Finish, vars
  <2> QED
    BY <1>1, <1>4, <2>1 DEF Chosen
<1>6. ASSUME InScope PROVE NothingIsLost(frames, chosen)'
  <2>1. Good
    BY <1>1, <1>6 DEF SearchIInv, Good, InScope
  <2> QED
    BY <1>1, <1>6, <2>1, NothingLostStep DEF ExhaustiveIInv
<1>7. NoMatchIsFinal'
  <2>1. CASE Exhausted
    BY <1>1, <2>1, ExhaustedIsFinal DEF ExhaustiveIInv
  <2>2. CASE ~Exhausted
    <3>1. outcome' = "NoMatch" => outcome = "NoMatch"
      BY <2>2 DEF Next, planClaimAllocation, EnterRequest, AllRequestsSelected,
           NextAlternative, SelectRequest, Yield, Canceled, Answered, Finish, vars
    <3> QED
      BY <1>3, <1>4, <3>1, LiveNext DEF NoMatchIsFinal, ExhaustiveIInv
  <2> QED
    BY <2>1, <2>2
<1> QED
  BY <1>2, <1>4, <1>5, <1>6, <1>7 DEF ExhaustiveIInv
-----------------------------------------------------------------------------
(* What the invariant says of the answers.                                  *)

\* The alternatives of a supported request have different names.
LEMMA NamesAreDistinct ==
    ASSUME WellFormed(input), NEW k \in DOMAIN input.requests,
           SupportedRequest(input.requests[k]),
           NEW i \in DOMAIN Alts(k), NEW j \in DOMAIN Alts(k),
           Alts(k)[i].name = Alts(k)[j].name
    PROVE  i = j
<1> DEFINE r == input.requests[k]
<1>1. r \in Range(input.requests)
  BY DEF Range
<1>2. /\ IsList(r.exactly) /\ Len(r.exactly) <= 1 /\ IsList(r.firstAvailable)
      /\ \A a, b \in DOMAIN r.firstAvailable :
            r.firstAvailable[a].name = r.firstAvailable[b].name => a = b
  BY <1>1 DEF WellFormed
<1>3. r.exactly = <<>> \/ r.firstAvailable = <<>>
  BY DEF SupportedRequest
<1>4. CASE r.exactly = <<>>
  <2>1. Alts(k) = r.firstAvailable
    <3>1. r.firstAvailable \in Seq(Range(r.firstAvailable))
      BY <1>2, ListFacts
    <3> HIDE DEF r
    <3>2. <<>> \o r.firstAvailable = r.firstAvailable
      BY <3>1
    <3> QED
      BY <1>4, <3>2 DEF Alts, Alternatives, r
  <2> QED
    BY <1>2, <2>1
<1>5. CASE r.firstAvailable = <<>>
  <2>1. Alts(k) = r.exactly
    <3>1. r.exactly \in Seq(Range(r.exactly))
      BY <1>2, ListFacts
    <3> HIDE DEF r
    <3>2. r.exactly \o <<>> = r.exactly
      BY <3>1
    <3> QED
      BY <1>5, <3>2 DEF Alts, Alternatives, r
  <2>2. Len(Alts(k)) \in Nat /\ Len(Alts(k)) <= 1 /\ DOMAIN Alts(k) = 1..Len(Alts(k))
    BY <1>2, <2>1, ListFacts
  <2> QED
    BY <2>2
<1> QED
  BY <1>3, <1>4, <1>5

\* The rank of a set whose devices are all for one alternative.
LEMMA RankIs ==
    ASSUME WellFormed(input), NEW k \in DOMAIN input.requests,
           SupportedRequest(input.requests[k]),
           NEW j \in DOMAIN Alts(k), NEW set, set # {},
           \A d \in set : d.request = Alts(k)[j].name
    PROVE  Rank(set, input.requests[k]) = j /\ j \in Int
<1> DEFINE S == {i \in DOMAIN Alts(k) : \E d \in set : d.request = Alts(k)[i].name}
<1>1. IsList(Alts(k))
  <2>1. IsList(input.requests)
    BY DEF WellFormed
  <2>2. k \in 1..Len(input.requests)
    BY <2>1, ListFacts
  <2> QED
    BY <2>2, RequestFacts DEF Alts
<1>2. DOMAIN Alts(k) \subseteq Int
  BY <1>1, ListFacts
<1>3. j \in S /\ \A i \in S : i = j
  BY NamesAreDistinct
<1>4. S \in SUBSET Int /\ \A i \in S : j <= i
  BY <1>2, <1>3
<1>5. Min(S) = j
  BY <1>3, <1>4, MinIs
<1> QED
  BY <1>2, <1>5 DEF Rank, Alts

\* What is planned is of the alternative its frame has come to.
LEMMA ChosenRank ==
    ASSUME TypeOK, Shape, IsGoodPlan(chosen), NothingIsLost(frames, chosen),
           NEW k \in DOMAIN chosen, k \in DOMAIN frames, k \in DOMAIN input.requests
    PROVE  /\ Rank(ChosenSets[k], input.requests[k]) = At(frames[k], k)
           /\ At(frames[k], k) \in Int
<1>1. SupportedRequest(input.requests[k]) /\ WellFormed(input)
  BY DEF Shape, AreFrames, IsFrame
<1>2. k <= Len(chosen)
  <2>1. Len(chosen) \in Nat /\ k \in 1..Len(chosen)
    BY Places
  <2> QED
    BY <2>1
<1>3. IsFor(chosen[k], At(frames[k], k), k)
  BY <1>2 DEF NothingIsLost, IsPlaced
<1>4. ChosenSets[k] = Range(chosen[k])
  BY DEF ChosenSets
<1>5. Range(chosen[k]) # {}
  <2>1. IsList(chosen[k]) /\ chosen[k] # <<>>
    BY DEF IsGoodPlan, IsGood
  <2> QED
    BY <2>1, ListFacts
<1> QED
  BY <1>1, <1>3, <1>4, <1>5, RankIs DEF IsFor

\* A live set is not of an alternative before the one its frame has come to.
LEMMA LiveRank ==
    ASSUME TypeOK, Shape, NothingIsLost(frames, chosen),
           NEW k \in DOMAIN frames, k \in DOMAIN input.requests,
           IsList(SetsOf(Prefix(chosen, k - 1))), At(frames[k], k) \in Int,
           NEW set, Live(set, SetsOf(Prefix(chosen, k - 1)), k)
    PROVE  At(frames[k], k) <= Rank(set, input.requests[k])
<1> DEFINE before == SetsOf(Prefix(chosen, k - 1))
<1>1. SupportedRequest(input.requests[k]) /\ WellFormed(input)
  BY DEF Shape, AreFrames, IsFrame
<1>2. PICK j \in DOMAIN Alts(k) : \E node :
            /\ Alts(k)[j].class \in input.classes
            /\ Serves(set, Alts(k)[j], node, before)
  BY ExtensionServes DEF Live
<1>3. PICK node : /\ Alts(k)[j].class \in input.classes
                  /\ Serves(set, Alts(k)[j], node, before)
  BY <1>2
<1>4. j > At(frames[k], k) \/ j = At(frames[k], k)
  BY <1>3 DEF NothingIsLost, IsPending
<1>5. set # {}
  BY <1>3 DEF Serves
<1>6. \A d \in set : d.request = Alts(k)[j].name
  BY <1>3, ServesName
<1>7. Rank(set, input.requests[k]) = j /\ j \in Int
  BY <1>1, <1>5, <1>6, RankIs
<1> QED
  BY <1>4, <1>7

\* In every state of the planner nothing is lost: whatever serves the request of
\* a frame after the choices before it and can still lead to a plan is on trial,
\* among the selections or of an alternative to come (constraintSearch,
\* requestSelectionIterator, simulateDeviceAllocation).
THEOREM ExhaustiveInductiveInvariant == Spec => []ExhaustiveIInv
  BY ExhaustiveInit, ExhaustiveStep, PTL DEF Spec

\* Where the first request has nothing live there is no plan.
LEMMA NoMatchIsExhaustiveFrom == ExhaustiveIInv => NoMatchIsExhaustive
<1> SUFFICES ASSUME ExhaustiveIInv, outcome = "NoMatch", InScope,
                    UseBacktrackingPlanner \/ Len(input.requests) = 1,
                    NEW q \in PlansFrom(<<>>)
             PROVE  FALSE
  BY DEF NoMatchIsExhaustive, InScope
<1> DEFINE N == Len(input.requests)
<1>1. N > 0 /\ \A set : ~Live(set, <<>>, 1)
  BY DEF ExhaustiveIInv, NoMatchIsFinal
<1>2. N \in Nat
  BY Places DEF ExhaustiveIInv, SearchIInv
<1>3. IsList(<<>>) /\ Len(<<>>) = 0
  BY OneSelection
<1>4. LeadsTo(q, <<>>, N)
  <2>1. Len(<<>>) <= N
    BY <1>2, <1>3
  <2> QED
    BY <1>2, <1>3, <2>1, PlansFromAre
<1>5. Len(<<>>) < N /\ Len(<<>>) + 1 = 1
  BY <1>1, <1>2, <1>3
<1> HIDE DEF N
<1>6. PICK set :
        /\ Append(<<>>, set) \in Extensions(<<>>, input.requests[Len(<<>>) + 1])
        /\ LeadsTo(q, Append(<<>>, set), N)
  BY <1>2, <1>3, <1>4, <1>5, LeadsOn
<1>7. Live(set, <<>>, 1)
  BY <1>5, <1>6 DEF Live, N
<1> QED
  BY <1>1, <1>7

\* SimulationNoMatch from planClaimAllocation means that the claim has no plan,
\* for every input, branch budget and limit on results: neither the order of
\* requests, alternatives, nodes and combinations nor a return to an earlier
\* request loses one.  Of the greedy planner it is said for a single request.
THEOREM NoMatchIsExhaustiveHolds == Spec => []NoMatchIsExhaustive
  BY ExhaustiveInductiveInvariant, NoMatchIsExhaustiveFrom, PTL

\* What PreferenceRespected compares a choice with is live.
LEMMA OtherIsLive ==
    ASSUME TypeOK, Shape, NEW k \in DOMAIN chosen,
           NEW before, IsList(before), Len(before) = k - 1, k \in DOMAIN input.requests,
           NEW p, p \in IF UseBacktrackingPlanner THEN PlansFrom(before)
                        ELSE Extensions(before, input.requests[k])
    PROVE  Live(p[k], before, k)
<1> DEFINE N == Len(input.requests)
<1>1. N \in Nat /\ k \in 1..N
  <2>1. IsList(input.requests)
    BY DEF Shape, WellFormed
  <2> QED
    BY <2>1, ListFacts
<1>2. Len(before) < N /\ Len(before) <= N /\ Len(before) + 1 = k
  BY <1>1
<1>3. CASE UseBacktrackingPlanner
  <2>1. LeadsTo(p, before, N)
    BY <1>1, <1>2, <1>3, PlansFromAre
  <2> HIDE DEF N
  <2>2. PICK set :
          /\ Append(before, set) \in Extensions(before, input.requests[Len(before) + 1])
          /\ LeadsTo(p, Append(before, set), N)
          /\ p[Len(before) + 1] = set
    BY <1>1, <1>2, <2>1, LeadsOn
  <2> QED
    BY <1>2, <2>2 DEF Live, N
<1>4. CASE ~UseBacktrackingPlanner
  <2>1. p \in Extensions(before, input.requests[k])
    BY <1>4
  <2>2. PICK set : p = Append(before, set)
    BY <2>1 DEF Extensions
  <2>3. p[k] = set
    BY <1>2, <2>2, AppendFacts
  <2> QED
    BY <1>4, <2>1, <2>2, <2>3 DEF Live
<1> QED
  BY <1>3, <1>4

\* What is planned is of the earliest alternative that was live.
LEMMA PreferenceFrom == ExhaustiveIInv => PreferenceRespected
<1> SUFFICES ASSUME ExhaustiveIInv, outcome = "planned", InScope, NEW k \in DOMAIN chosen,
                    NEW p, p \in IF UseBacktrackingPlanner
                                 THEN PlansFrom(SubSeq(ChosenSets, 1, k - 1))
                                 ELSE Extensions(SubSeq(ChosenSets, 1, k - 1),
                                                 input.requests[k])
             PROVE  Rank(ChosenSets[k], input.requests[k]) <= Rank(p[k], input.requests[k])
  BY Zenon DEF PreferenceRespected, InScope
<1> DEFINE before == SetsOf(Prefix(chosen, k - 1))
<1>1. /\ TypeOK /\ Shape /\ NothingIsLost(frames, chosen) /\ IsGoodPlan(chosen)
      /\ IsList(chosen) /\ IsList(input.requests)
  BY DEF ExhaustiveIInv, SearchIInv, InScope, Shape, WellFormed
<1>2. /\ Len(chosen) \in Nat /\ Len(frames) \in Nat /\ Len(input.requests) \in Nat
      /\ DOMAIN frames = 1..Len(frames) /\ DOMAIN chosen = 1..Len(chosen)
      /\ DOMAIN input.requests = 1..Len(input.requests)
      /\ Len(chosen) = Len(input.requests) /\ Len(frames) <= Len(input.requests)
  BY <1>1, Places, ListFacts DEF Shape
<1>3. Len(frames) - Len(chosen) \in {0, 1}
  BY <1>1 DEF TypeOK
<1>4. k \in DOMAIN frames /\ k \in DOMAIN input.requests /\ k - 1 \in 0..Len(chosen)
  <2> DEFINE a == Len(chosen)
             b == Len(frames)
  <2>1. a \in Nat /\ b \in Nat /\ b - a \in {0, 1} /\ b <= a /\ k \in 1..a
    BY <1>2, <1>3
  <2> HIDE DEF a, b
  <2>2. b = a /\ k \in 1..b /\ k - 1 \in 0..a
    BY <2>1
  <2> QED
    BY <1>2, <2>2 DEF a, b
<1>5. /\ IsList(before) /\ Len(before) = k - 1
      /\ SubSeq(ChosenSets, 1, k - 1) = before
  <2>1. IsList(Prefix(chosen, k - 1)) /\ Len(Prefix(chosen, k - 1)) = k - 1
    BY <1>1, <1>4, PrefixFacts
  <2>2. SubSeq(SetsOf(chosen), 1, k - 1) = before
    BY <1>1, <1>4, SetsOfPrefix
  <2>3. SetsOf(chosen) = ChosenSets
    BY DEF SetsOf, ChosenSets
  <2> QED
    BY <2>1, <2>2, <2>3, ChosenSetsList
<1>6. p \in IF UseBacktrackingPlanner THEN PlansFrom(before)
            ELSE Extensions(before, input.requests[k])
  BY <1>5
<1>7. Live(p[k], before, k)
  <2> HIDE DEF before
  <2> QED
    BY <1>1, <1>4, <1>5, <1>6, OtherIsLive
<1>8. /\ Rank(ChosenSets[k], input.requests[k]) = At(frames[k], k)
      /\ At(frames[k], k) \in Int
  BY <1>1, <1>4, ChosenRank
<1>9. At(frames[k], k) <= Rank(p[k], input.requests[k])
  BY <1>1, <1>4, <1>5, <1>7, <1>8, LiveRank
<1> QED
  BY <1>8, <1>9

\* firstAvailable is an order of preference: no alternative before the planned one
\* leads to a plan of the claim with the same choices before it; the greedy
\* planner looks no further than the request itself.
THEOREM PreferenceRespectedHolds == Spec => []PreferenceRespected
  BY ExhaustiveInductiveInvariant, PreferenceFrom, PTL
=============================================================================
