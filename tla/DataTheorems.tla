---------------------------- MODULE DataTheorems ----------------------------
(***************************************************************************)
(* Facts about data that the proofs of several components rest on.         *)
(*                                                                         *)
(* Induction is by the smallest counterexample: the natural numbers are    *)
(* well founded, so a nonempty set of naturals has a least element.        *)
(***************************************************************************)
EXTENDS Integers, Sequences, FiniteSets, SequencesExt, FiniteSetTheorems, SequenceTheorems,
        WellFoundedInduction, TLAPS

\* A nonempty set of natural numbers has a least element.
LEMMA LeastNatural ==
  ASSUME NEW S \in SUBSET Nat, S # {}
  PROVE  \E n \in S : \A m \in S : n <= m
<1>1. PICK n \in S : \A m \in S : <<m, n>> \notin OpToRel(<, Nat)
  BY NatLessThanWellFounded, WFMin
<1>2. \A m \in S : ~(m < n)
  BY <1>1 DEF OpToRel
<1> QED
  BY <1>2

\* Induction: a set of naturals with 0 that is closed under successor is Nat.
LEMMA ClosedSetIsNat ==
  ASSUME NEW G \in SUBSET Nat, 0 \in G, \A n \in G : n + 1 \in G
  PROVE  G = Nat
<1> DEFINE Bad == Nat \ G
<1> SUFFICES ASSUME Bad # {} PROVE FALSE
  OBVIOUS
<1>1. Bad \in SUBSET Nat
  OBVIOUS
<1>2. PICK n \in Bad : \A m \in Bad : n <= m
  <2> HIDE DEF Bad
  <2> QED
    BY <1>1, LeastNatural
<1>3. n \in Nat /\ n \notin G /\ n # 0
  OBVIOUS
<1>4. n - 1 \in Nat /\ n - 1 \notin Bad
  BY <1>2, <1>3
<1>5. n - 1 \in G /\ (n - 1) + 1 = n
  BY <1>3, <1>4
<1> QED
  BY <1>3, <1>5

\* The same over sequences: a set of sequences with the empty one that is closed under
\* Append has them all.
LEMMA ClosedSetIsSeq ==
  ASSUME NEW S, NEW G \in SUBSET Seq(S), <<>> \in G,
         \A q \in G : \A e \in S : Append(q, e) \in G
  PROVE  G = Seq(S)
<1> DEFINE Lengths == {n \in Nat : \A q \in Seq(S) : Len(q) = n => q \in G}
<1>1. 0 \in Lengths
  <2>1. \A q \in Seq(S) : Len(q) = 0 => q = <<>>
    OBVIOUS
  <2> QED
    BY <2>1
<1>2. ASSUME NEW n \in Lengths PROVE n + 1 \in Lengths
  <2>1. ASSUME NEW q \in Seq(S), Len(q) = n + 1 PROVE q \in G
    <3>1. n \in Nat /\ q # <<>>
      BY <2>1
    <3>2. PICK p \in Seq(S), e \in S : q = Append(p, e)
      BY <3>1, SequenceEmptyOrAppend
    <3>3. Len(p) = n
      BY <2>1, <3>1, <3>2
    <3> QED
      BY <3>2, <3>3
  <2> QED
    BY <2>1
<1>3. Lengths \in SUBSET Nat
  OBVIOUS
<1>4. Lengths = Nat
  <2> HIDE DEF Lengths
  <2> QED
    BY <1>1, <1>2, <1>3, ClosedSetIsNat
<1>5. ASSUME NEW q \in Seq(S) PROVE q \in G
  <2>1. Len(q) \in Lengths
    BY <1>4
  <2> QED
    BY <2>1
<1> QED
  BY <1>5

\* Among subsets of a finite set there is one none of whose proper subsets is among them.
LEMMA SmallestSubset ==
  ASSUME NEW S, IsFiniteSet(S), NEW Bad \in SUBSET (SUBSET S), Bad # {}
  PROVE  \E s \in Bad : \A t \in SUBSET s : t # s => t \notin Bad
<1> DEFINE Sizes == {n \in Nat : \E s \in Bad : Cardinality(s) = n}
<1>1. \A s \in SUBSET S : IsFiniteSet(s) /\ Cardinality(s) \in Nat
  BY FS_Subset, FS_CardinalityType
<1>2. Sizes \in SUBSET Nat /\ Sizes # {}
  BY <1>1
<1>3. PICK n \in Sizes : \A m \in Sizes : n <= m
  <2> HIDE DEF Sizes
  <2> QED
    BY <1>2, LeastNatural
<1>4. PICK s \in Bad : Cardinality(s) = n
  OBVIOUS
<1>5. ASSUME NEW t \in SUBSET s, t # s, t \in Bad
      PROVE  FALSE
  <2>1. Cardinality(t) < Cardinality(s)
    BY <1>1, <1>5, FS_Subset
  <2>2. Cardinality(t) \in Sizes
    BY <1>1, <1>5
  <2>3. Cardinality(t) \in Nat /\ n \in Nat
    BY <1>1, <1>5
  <2> HIDE DEF Sizes
  <2> QED
    BY <1>3, <1>4, <2>1, <2>2, <2>3
<1> QED
  BY <1>4, <1>5

-----------------------------------------------------------------------------
(* Sums.  SumFunction folds over the subsets of the domain; the lemmas say *)
(* that the fold exists, and that it does not depend on the order in which *)
(* CHOOSE takes the elements.                                              *)

One(s) == CHOOSE x \in s : TRUE

IsPartialSum(it, f, S) ==
  it = [s \in SUBSET S |-> IF s = {} THEN 0 ELSE f[One(s)] + it[s \ {One(s)}]]

\* The recursive function in the definition of SumFunction exists.
LEMMA PartialSumExists ==
  ASSUME NEW S, IsFiniteSet(S), NEW f
  PROVE  \E it : IsPartialSum(it, f, S)
<1> DEFINE Small(n) == {s \in SUBSET S : Cardinality(s) <= n}
           Upto(g, n) == g = [s \in Small(n) |->
                               IF s = {} THEN 0 ELSE f[One(s)] + g[s \ {One(s)}]]
           Bad == {n \in Nat : \A g : ~Upto(g, n)}
<1>1. \A s \in SUBSET S : IsFiniteSet(s) /\ Cardinality(s) \in Nat
  BY FS_Subset, FS_CardinalityType
<1>2. Bad = {}
  <2> SUFFICES ASSUME Bad # {} PROVE FALSE
    OBVIOUS
  <2>1. Bad \in SUBSET Nat
    OBVIOUS
  <2>2. PICK n \in Bad : \A m \in Bad : n <= m
    <3> HIDE DEF Bad
    <3> QED
      BY <2>1, LeastNatural
  <2>3. n # 0
    <3>1. \A s \in Small(0) : s = {}
      BY <1>1, FS_EmptySet
    <3>2. Upto([s \in Small(0) |-> 0], 0)
      BY <3>1
    <3> QED
      BY <3>2
  <2>4. PICK g : Upto(g, n - 1)
    <3>1. n - 1 \in Nat /\ n - 1 \notin Bad
      <4> HIDE DEF Bad
      <4> QED
        BY <2>1, <2>2, <2>3
    <3> HIDE DEF Upto
    <3> QED
      BY <3>1
  <2> DEFINE h == [s \in Small(n) |-> IF s = {} THEN 0 ELSE f[One(s)] + g[s \ {One(s)}]]
  <2>5. ASSUME NEW s \in Small(n), s # {}
        PROVE  h[s \ {One(s)}] = g[s \ {One(s)}]
    <3> DEFINE t == s \ {One(s)}
    <3>1. One(s) \in s
      BY <2>5 DEF One
    <3>2. Cardinality(t) = Cardinality(s) - 1 /\ Cardinality(t) \in Nat /\ Cardinality(s) \in Nat
      BY <1>1, <3>1, FS_RemoveElement
    <3>3. t \in Small(n - 1) /\ t \in Small(n)
      BY <3>2
    <3>4. g[t] = IF t = {} THEN 0 ELSE f[One(t)] + g[t \ {One(t)}]
      BY <2>4, <3>3
    <3>5. h[t] = IF t = {} THEN 0 ELSE f[One(t)] + g[t \ {One(t)}]
      BY <3>3
    <3> QED
      BY <3>4, <3>5
  <2>6. Upto(h, n)
    <3>1. h = [s \in Small(n) |-> IF s = {} THEN 0 ELSE f[One(s)] + h[s \ {One(s)}]]
      <4> HIDE DEF Small
      <4>1. \A s \in Small(n) :
              (IF s = {} THEN 0 ELSE f[One(s)] + g[s \ {One(s)}])
                = (IF s = {} THEN 0 ELSE f[One(s)] + h[s \ {One(s)}])
        BY <2>5
      <4> QED
        BY <4>1
    <3> QED
      BY <3>1
  <2> QED
    BY <2>2, <2>6
<1>3. Cardinality(S) \in Nat
  BY <1>1
<1>4. PICK g : Upto(g, Cardinality(S))
  <2> HIDE DEF Upto
  <2> QED
    BY <1>2, <1>3
<1>5. Small(Cardinality(S)) = SUBSET S
  BY <1>1, FS_Subset
<1> QED
  BY <1>4, <1>5 DEF IsPartialSum

\* Two partial sums of functions that agree on a finite set agree on it.
LEMMA PartialSumAgrees ==
  ASSUME NEW S, NEW T, NEW f, NEW g, NEW it, NEW jt,
         IsPartialSum(it, f, S), IsPartialSum(jt, g, T),
         NEW U, IsFiniteSet(U), U \subseteq S, U \subseteq T,
         \A x \in U : f[x] = g[x]
  PROVE  it[U] = jt[U]
<1> DEFINE Bad == {s \in SUBSET U : it[s] # jt[s]}
<1>1. SUFFICES ASSUME it[U] # jt[U] PROVE FALSE
  OBVIOUS
<1>2. Bad \in SUBSET (SUBSET U) /\ Bad # {}
  BY <1>1
<1>3. PICK s \in Bad : \A t \in SUBSET s : t # s => t \notin Bad
  <2> HIDE DEF Bad
  <2> QED
    BY <1>2, SmallestSubset
<1>4. /\ it[s] = IF s = {} THEN 0 ELSE f[One(s)] + it[s \ {One(s)}]
      /\ jt[s] = IF s = {} THEN 0 ELSE g[One(s)] + jt[s \ {One(s)}]
  BY DEF IsPartialSum
<1>5. CASE s = {}
  BY <1>4, <1>5
<1>6. CASE s # {}
  <2>1. One(s) \in s
    BY <1>6 DEF One
  <2>2. it[s \ {One(s)}] = jt[s \ {One(s)}]
    BY <1>3, <2>1
  <2>3. f[One(s)] = g[One(s)]
    BY <2>1
  <2> QED
    BY <1>4, <1>6, <2>2, <2>3
<1> QED
  BY <1>5, <1>6

IsAnyOrderSum(it, f, S) ==
  \A s \in SUBSET S : it[s] \in Int /\ \A x \in s : it[s] = f[x] + it[s \ {x}]

\* A partial sum is a number, and any element may be taken out of it.
LEMMA PartialSumRemove ==
  ASSUME NEW S, IsFiniteSet(S), NEW f \in [S -> Int], NEW it, IsPartialSum(it, f, S)
  PROVE  IsAnyOrderSum(it, f, S)
<1> USE DEF IsAnyOrderSum
<1> DEFINE Fine(s) == it[s] \in Int /\ \A x \in s : it[s] = f[x] + it[s \ {x}]
           Bad == {s \in SUBSET S : ~Fine(s)}
<1>1. SUFFICES ASSUME Bad # {} PROVE FALSE
  OBVIOUS
<1>2. Bad \in SUBSET (SUBSET S)
  OBVIOUS
<1>3. PICK s \in Bad : \A t \in SUBSET s : t # s => t \notin Bad
  <2> HIDE DEF Bad
  <2> QED
    BY <1>1, <1>2, SmallestSubset
<1>4. s \in SUBSET S /\ ~Fine(s) /\ \A t \in SUBSET s : t # s => Fine(t)
  <2>1. \A t \in SUBSET s : t # s => t \in SUBSET S /\ t \notin Bad
    BY <1>3
  <2> HIDE DEF Fine
  <2> QED
    BY <2>1
<1>5. it[s] = IF s = {} THEN 0 ELSE f[One(s)] + it[s \ {One(s)}]
  BY <1>4 DEF IsPartialSum
<1>6. CASE s = {}
  BY <1>4, <1>5, <1>6
<1>7. CASE s # {}
  <2> DEFINE c == One(s)
  <2>1. c \in s /\ f[c] \in Int
    BY <1>4, <1>7 DEF One
  <2> HIDE DEF c
  <2>2. it[s] = f[c] + it[s \ {c}]
    BY <1>5, <1>7 DEF c
  <2>3. Fine(s \ {c})
    <3> HIDE DEF Fine
    <3> QED
      BY <1>4, <2>1
  <2>4. it[s \ {c}] \in Int /\ it[s] \in Int
    BY <2>1, <2>2, <2>3
  <2>5. ASSUME NEW x \in s
        PROVE  it[s] = f[x] + it[s \ {x}]
    <3>1. CASE x = c
      BY <2>2, <3>1
    <3>2. CASE x # c
      <4> DEFINE r == it[(s \ {c}) \ {x}]
      <4>1. it[s \ {c}] = f[x] + r /\ f[x] \in Int
        BY <1>4, <2>3, <3>2
      <4>2. Fine(s \ {x}) /\ Fine((s \ {c}) \ {x})
        <5> HIDE DEF Fine
        <5> QED
          BY <1>4, <2>1
      <4>3. it[s \ {x}] = f[c] + it[(s \ {x}) \ {c}]
        BY <2>1, <3>2, <4>2
      <4>4. (s \ {x}) \ {c} = (s \ {c}) \ {x}
        OBVIOUS
      <4>5. it[s \ {x}] = f[c] + r /\ r \in Int
        BY <4>2, <4>3, <4>4
      <4> HIDE DEF r
      <4> QED
        BY <2>1, <2>2, <4>1, <4>5
    <3> QED
      BY <3>1, <3>2
  <2> QED
    BY <1>4, <2>4, <2>5
<1> QED
  BY <1>6, <1>7

\* SumFunction is the partial sum of the whole domain.
LEMMA SumIsPartialSum ==
  ASSUME NEW S, IsFiniteSet(S), NEW f, DOMAIN f = S
  PROVE  \E it : IsPartialSum(it, f, S) /\ SumFunction(f) = it[S]
<1> DEFINE it == CHOOSE it : IsPartialSum(it, f, S)
<1>1. IsPartialSum(it, f, S)
  BY PartialSumExists
<1>2. SumFunction(f) = it[S]
  BY DEF SumFunction, SumFunctionOnSet, FoldFunctionOnSet, MapThenFoldSet, IsPartialSum, One
<1> QED
  BY <1>1, <1>2

\* The sum of integers is an integer, and one of them may be taken out.
LEMMA SumRemove ==
  ASSUME NEW S, IsFiniteSet(S), NEW f \in [S -> Int], NEW x \in S
  PROVE  /\ SumFunction(f) \in Int
         /\ SumFunction([y \in S \ {x} |-> f[y]]) \in Int
         /\ SumFunction(f) = f[x] + SumFunction([y \in S \ {x} |-> f[y]])
<1> DEFINE T == S \ {x}
           g == [y \in T |-> f[y]]
<1>1. IsFiniteSet(T) /\ T \subseteq S /\ T \in SUBSET S /\ S \in SUBSET S
  BY FS_RemoveElement
<1>2. DOMAIN g = T /\ DOMAIN f = S /\ g \in [T -> Int] /\ \A y \in T : f[y] = g[y]
  OBVIOUS
<1> HIDE DEF T, g
<1>3. PICK it : IsPartialSum(it, f, S) /\ SumFunction(f) = it[S]
  BY <1>2, SumIsPartialSum
<1>4. PICK jt : IsPartialSum(jt, g, T) /\ SumFunction(g) = jt[T]
  BY <1>1, <1>2, SumIsPartialSum
<1>5. it[S] \in Int /\ it[S] = f[x] + it[S \ {x}]
  <2>1. IsAnyOrderSum(it, f, S)
    BY <1>3, PartialSumRemove
  <2> QED
    BY <1>1, <2>1 DEF IsAnyOrderSum
<1>6. jt[T] \in Int
  <2>1. IsAnyOrderSum(jt, g, T)
    BY <1>1, <1>2, <1>4, PartialSumRemove
  <2> QED
    BY <2>1 DEF IsAnyOrderSum
<1>7. it[T] = jt[T]
  BY <1>1, <1>2, <1>3, <1>4, PartialSumAgrees
<1> QED
  BY <1>3, <1>4, <1>5, <1>6, <1>7 DEF T, g

\* A sum over nothing is 0.
LEMMA SumEmpty ==
  ASSUME NEW f, DOMAIN f = {}
  PROVE  SumFunction(f) = 0
<1>1. PICK it : IsPartialSum(it, f, {}) /\ SumFunction(f) = it[{}]
  BY FS_EmptySet, SumIsPartialSum
<1> QED
  BY <1>1 DEF IsPartialSum

\* A sum of integers is an integer.
LEMMA SumInt ==
  ASSUME NEW S, IsFiniteSet(S), NEW f \in [S -> Int]
  PROVE  SumFunction(f) \in Int
<1>1. CASE S = {}
  BY <1>1, SumEmpty
<1>2. CASE S # {}
  BY <1>2, SumRemove
<1> QED
  BY <1>1, <1>2

\* A sum of natural numbers is one, and each of its terms is at most the sum.
LEMMA SumNat ==
  ASSUME NEW S, IsFiniteSet(S), NEW f \in [S -> Nat]
  PROVE  SumFunction(f) \in Nat /\ \A x \in S : f[x] <= SumFunction(f)
<1> DEFINE Part(T) == SumFunction([y \in T |-> f[y]])
           Bad == {T \in SUBSET S : Part(T) \notin Nat}
<1>1. \A T \in SUBSET S : IsFiniteSet(T) /\ [y \in T |-> f[y]] \in [T -> Int]
  BY FS_Subset
<1>2. ASSUME NEW T \in SUBSET S, NEW x \in T
      PROVE  Part(T) = f[x] + Part(T \ {x})
  <2> DEFINE h == [y \in T |-> f[y]]
  <2>1. IsFiniteSet(T) /\ h \in [T -> Int]
    BY <1>1
  <2>2. [y \in T \ {x} |-> h[y]] = [y \in T \ {x} |-> f[y]] /\ h[x] = f[x]
    OBVIOUS
  <2> HIDE DEF h
  <2>3. SumFunction(h) = h[x] + SumFunction([y \in T \ {x} |-> h[y]])
    BY <2>1, SumRemove
  <2> QED
    BY <2>2, <2>3 DEF h
<1>3. Bad = {}
  <2> SUFFICES ASSUME Bad # {} PROVE FALSE
    OBVIOUS
  <2>1. PICK T \in Bad : \A U \in SUBSET T : U # T => U \notin Bad
    <3>1. Bad \in SUBSET (SUBSET S)
      OBVIOUS
    <3> HIDE DEF Bad
    <3> QED
      BY <3>1, SmallestSubset
  <2>2. CASE T = {}
    BY <2>2, SumEmpty
  <2>3. CASE T # {}
    <3>1. PICK x \in T : TRUE
      BY <2>3
    <3>2. T \ {x} \in SUBSET S /\ T \ {x} \notin Bad
      BY <2>1, <3>1
    <3>3. Part(T \ {x}) \in Nat /\ f[x] \in Nat /\ Part(T) = f[x] + Part(T \ {x})
      BY <1>2, <3>1, <3>2
    <3>4. Part(T) \notin Nat
      OBVIOUS
    <3> HIDE DEF Part
    <3> QED
      BY <3>3, <3>4
  <2> QED
    BY <2>2, <2>3
<1>4. \A T \in SUBSET S : Part(T) \in Nat
  BY <1>3
<1>5. [y \in S |-> f[y]] = f
  OBVIOUS
<1>6. ASSUME NEW x \in S
      PROVE  f[x] <= SumFunction(f)
  <2>1. Part(S) = f[x] + Part(S \ {x}) /\ Part(S \ {x}) \in Nat /\ f[x] \in Nat
    BY <1>2, <1>4
  <2>2. Part(S) = SumFunction(f)
    BY <1>5
  <2> HIDE DEF Part
  <2> QED
    BY <2>1, <2>2
<1>7. SumFunction(f) \in Nat
  BY <1>4, <1>5
<1> QED
  BY <1>6, <1>7

\* The sum of a function of which one value changes.
LEMMA SumUpdate ==
  ASSUME NEW S, IsFiniteSet(S), NEW f \in [S -> Int], NEW g \in [S -> Int], NEW x \in S,
         \A y \in S \ {x} : g[y] = f[y]
  PROVE  SumFunction(g) = SumFunction(f) - f[x] + g[x]
<1> DEFINE fr == [y \in S \ {x} |-> f[y]]
           gr == [y \in S \ {x} |-> g[y]]
<1>1. fr = gr
  OBVIOUS
<1>2. /\ SumFunction(f) \in Int /\ SumFunction(fr) \in Int
      /\ SumFunction(f) = f[x] + SumFunction(fr)
  BY SumRemove
<1>3. /\ SumFunction(g) \in Int /\ SumFunction(gr) \in Int
      /\ SumFunction(g) = g[x] + SumFunction(gr)
  BY SumRemove
<1>4. f[x] \in Int /\ g[x] \in Int
  OBVIOUS
<1> HIDE DEF fr, gr
<1> QED
  BY <1>1, <1>2, <1>3, <1>4

\* The sum of a function that is extended by one value.
LEMMA SumInsert ==
  ASSUME NEW S, IsFiniteSet(S), NEW f \in [S -> Int], NEW x, x \notin S,
         NEW T, T = S \cup {x}, NEW g \in [T -> Int], \A y \in S : g[y] = f[y]
  PROVE  SumFunction(g) = SumFunction(f) + g[x]
<1> DEFINE gr == [y \in T \ {x} |-> g[y]]
<1>1. gr = f /\ IsFiniteSet(T) /\ x \in T /\ g[x] \in Int
  BY FS_AddElement
<1>2. SumFunction(gr) \in Int /\ SumFunction(g) = g[x] + SumFunction(gr)
  BY <1>1, SumRemove
<1> HIDE DEF gr
<1> QED
  BY <1>1, <1>2

\* The sum of zeros is 0.
LEMMA SumZero ==
  ASSUME NEW S, IsFiniteSet(S), NEW f \in [S -> Nat], \A x \in S : f[x] = 0
  PROVE  SumFunction(f) = 0
<1>1. PICK it : IsPartialSum(it, f, S) /\ SumFunction(f) = it[S]
  <2>1. DOMAIN f = S
    OBVIOUS
  <2> QED
    BY <2>1, SumIsPartialSum
<1> DEFINE Bad == {s \in SUBSET S : it[s] # 0}
<1>2. SUFFICES ASSUME Bad # {} PROVE FALSE
  <2>1. S \in SUBSET S
    OBVIOUS
  <2> QED
    BY <1>1, <2>1
<1>3. PICK s \in Bad : \A t \in SUBSET s : t # s => t \notin Bad
  <2>1. Bad \in SUBSET (SUBSET S)
    OBVIOUS
  <2> HIDE DEF Bad
  <2> QED
    BY <1>2, <2>1, SmallestSubset
<1>4. it[s] = IF s = {} THEN 0 ELSE f[One(s)] + it[s \ {One(s)}]
  BY <1>1 DEF IsPartialSum
<1>5. CASE s # {}
  <2>1. One(s) \in s
    BY <1>5 DEF One
  <2>2. s \ {One(s)} \in SUBSET S /\ s \ {One(s)} \notin Bad /\ f[One(s)] = 0
    BY <1>3, <2>1
  <2> QED
    BY <1>4, <1>5, <2>2
<1> QED
  BY <1>4, <1>5

-----------------------------------------------------------------------------
(* Sequences.                                                              *)

\* Taking the element at a position out of a sequence.
LEMMA RemoveAtElements ==
  ASSUME NEW S, NEW q \in Seq(S), NEW k \in 1 .. Len(q)
  PROVE  /\ RemoveAt(q, k) \in Seq(S)
         /\ Len(RemoveAt(q, k)) = Len(q) - 1
         /\ \A i \in 1 .. Len(q) - 1 :
              RemoveAt(q, k)[i] = IF i < k THEN q[i] ELSE q[i + 1]
<1> DEFINE a == SubSeq(q, 1, k - 1)
           b == SubSeq(q, k + 1, Len(q))
<1>0. Len(q) \in Nat /\ k \in Nat
  OBVIOUS
<1>1. a \in Seq(S) /\ Len(a) = k - 1 /\ \A i \in 1 .. k - 1 : a[i] = q[i]
  BY <1>0
<1>2. b \in Seq(S) /\ Len(b) = Len(q) - k /\ \A i \in 1 .. Len(q) - k : b[i] = q[k + i]
  BY <1>0, SubSeqProperties
<1>3. RemoveAt(q, k) = a \o b
  BY DEF RemoveAt
<1> HIDE DEF a, b
<1>4. /\ a \o b \in Seq(S) /\ Len(a \o b) = Len(q) - 1
      /\ \A i \in 1 .. Len(q) - 1 : (a \o b)[i] = IF i <= k - 1 THEN a[i] ELSE b[i - (k - 1)]
  <2>1. /\ a \o b \in Seq(S) /\ Len(a \o b) = Len(a) + Len(b)
        /\ \A i \in 1 .. Len(a) + Len(b) :
             (a \o b)[i] = IF i <= Len(a) THEN a[i] ELSE b[i - Len(a)]
    BY <1>1, <1>2, ConcatProperties
  <2>2. Len(a) + Len(b) = Len(q) - 1 /\ Len(a) = k - 1
    BY <1>0, <1>1, <1>2
  <2> QED
    BY <2>1, <2>2
<1>5. ASSUME NEW i \in 1 .. Len(q) - 1
      PROVE  (a \o b)[i] = IF i < k THEN q[i] ELSE q[i + 1]
  <2>1. CASE i < k
    BY <1>0, <1>1, <1>4, <2>1
  <2>2. CASE ~(i < k)
    <3>1. i - (k - 1) \in 1 .. Len(q) - k /\ k + (i - (k - 1)) = i + 1 /\ ~(i <= k - 1)
      BY <1>0, <2>2
    <3>2. (a \o b)[i] = b[i - (k - 1)] /\ b[i - (k - 1)] = q[k + (i - (k - 1))]
      BY <1>2, <1>4, <3>1
    <3> QED
      BY <2>2, <3>1, <3>2
  <2> QED
    BY <2>1, <2>2
<1> QED
  BY <1>3, <1>4, <1>5

\* erase(find(...)): RemoveFirst takes out the first of the elements that are e.
LEMMA RemoveFirstElements ==
  ASSUME NEW S, NEW q \in Seq(S), NEW e
  PROVE  /\ RemoveFirst(q, e) \in Seq(S)
         /\ ToSet(q) \ {e} \subseteq ToSet(RemoveFirst(q, e))
         /\ ToSet(RemoveFirst(q, e)) \subseteq ToSet(q)
         /\ IsInjective(q) => /\ IsInjective(RemoveFirst(q, e))
                             /\ e \notin ToSet(RemoveFirst(q, e))
         /\ ~Contains(q, e) => RemoveFirst(q, e) = q
<1> DEFINE r == RemoveFirst(q, e)
           I == {i \in 1 .. Len(q) : q[i] = e}
<1>1. CASE I = {}
  <2>1. r = q
    BY <1>1 DEF RemoveFirst
  <2>2. e \notin ToSet(q)
    BY <1>1 DEF ToSet
  <2> QED
    BY <2>1, <2>2
<1>2. CASE I # {}
  <2> DEFINE k == Min(I)
  <2>1. I \in SUBSET Nat
    OBVIOUS
  <2>2. \E x \in I : \A y \in I : x <= y
    <3> HIDE DEF I
    <3> QED
      BY <1>2, <2>1, LeastNatural
  <2>3. k \in I
    BY <2>2 DEF Min
  <2>4. k \in 1 .. Len(q) /\ q[k] = e
    BY <2>3
  <2>5. r = RemoveAt(q, k)
    BY <1>2 DEF RemoveFirst, SelectInSeq
  <2> HIDE DEF k, r
  <2>6. /\ r \in Seq(S) /\ Len(r) = Len(q) - 1
        /\ \A i \in 1 .. Len(q) - 1 : r[i] = IF i < k THEN q[i] ELSE q[i + 1]
    BY <2>4, <2>5, RemoveAtElements
  <2>7. Len(q) \in Nat /\ k \in Nat /\ DOMAIN r = 1 .. Len(q) - 1 /\ DOMAIN q = 1 .. Len(q)
    BY <2>4, <2>6
  <2>8. ToSet(r) \subseteq ToSet(q)
    BY <2>4, <2>6, <2>7 DEF ToSet
  <2>9. ASSUME NEW x \in ToSet(q), x # e
        PROVE  x \in ToSet(r)
    <3>1. PICK i \in 1 .. Len(q) : q[i] = x
      BY <2>7 DEF ToSet
    <3>2. i # k
      BY <2>4, <2>9, <3>1
    <3>3. CASE i < k
      <4>1. i \in 1 .. Len(q) - 1 /\ r[i] = x
        BY <2>4, <2>6, <2>7, <3>1, <3>3
      <4> QED
        BY <2>7, <4>1 DEF ToSet
    <3>4. CASE i > k
      <4>1. i - 1 \in 1 .. Len(q) - 1 /\ ~(i - 1 < k) /\ (i - 1) + 1 = i
        BY <2>4, <2>7, <3>4
      <4>2. r[i - 1] = x
        BY <2>6, <3>1, <4>1
      <4> QED
        BY <2>7, <4>1, <4>2 DEF ToSet
    <3> QED
      BY <2>4, <3>2, <3>3, <3>4
  <2>10. ASSUME IsInjective(q)
         PROVE  IsInjective(r) /\ e \notin ToSet(r)
    <3>1. \A i, j \in 1 .. Len(q) : q[i] = q[j] => i = j
      BY <2>7, <2>10 DEF IsInjective
    <3>2. \A i, j \in 1 .. Len(q) - 1 : r[i] = r[j] => i = j
      BY <2>6, <2>7, <3>1
    <3>3. \A i \in 1 .. Len(q) - 1 : r[i] # e
      BY <2>4, <2>6, <2>7, <3>1
    <3> QED
      BY <2>7, <3>2, <3>3 DEF IsInjective, ToSet
  <2>11. Contains(q, e)
    BY <2>4 DEF Contains
  <2> QED
    BY <2>6, <2>8, <2>9, <2>10, <2>11 DEF r
<1> QED
  BY <1>1, <1>2

\* Pushing a new element.
LEMMA AppendElements ==
  ASSUME NEW S, NEW q \in Seq(S), NEW e \in S
  PROVE  /\ Append(q, e) \in Seq(S)
         /\ ToSet(Append(q, e)) = ToSet(q) \cup {e}
         /\ IsInjective(q) /\ e \notin ToSet(q) => IsInjective(Append(q, e))
<1> DEFINE r == Append(q, e)
<1>1. /\ r \in Seq(S) /\ Len(r) = Len(q) + 1 /\ r[Len(q) + 1] = e
      /\ \A i \in 1 .. Len(q) : r[i] = q[i]
  OBVIOUS
<1>2. Len(q) \in Nat /\ DOMAIN q = 1 .. Len(q) /\ DOMAIN r = 1 .. Len(q) + 1
  BY <1>1
<1> HIDE DEF r
<1>3. ToSet(r) = ToSet(q) \cup {e}
  BY <1>1, <1>2 DEF ToSet
<1>4. ASSUME IsInjective(q), e \notin ToSet(q)
      PROVE  IsInjective(r)
  <2>1. \A i \in 1 .. Len(q) : q[i] # e
    BY <1>2, <1>4 DEF ToSet
  <2> QED
    BY <1>1, <1>2, <1>4, <2>1 DEF IsInjective
<1> QED
  BY <1>1, <1>3, <1>4 DEF r

\* x is at one position of q.
Once(q, x) == \E k \in DOMAIN q : \A i \in DOMAIN q : q[i] = x <=> i = k

\* How often an element occurs.
LEMMA OnceCount ==
  ASSUME NEW S, NEW q \in Seq(S), NEW x
  PROVE  /\ Cardinality({i \in DOMAIN q : q[i] = x}) = 1 <=> Once(q, x)
         /\ Cardinality({i \in DOMAIN q : q[i] = x}) = 0 <=> x \notin ToSet(q)
<1> DEFINE I == {i \in DOMAIN q : q[i] = x}
<1>1. IsFiniteSet(I)
  <2>1. DOMAIN q = 1 .. Len(q) /\ Len(q) \in Int /\ 1 \in Int
    OBVIOUS
  <2>2. IsFiniteSet(DOMAIN q)
    BY <2>1, FS_Interval
  <2> QED
    BY <2>2, FS_Subset
<1>2. I = {} <=> x \notin ToSet(q)
  BY DEF ToSet
<1>3. (\E k : I = {k}) <=> Once(q, x)
  <2>1. ASSUME NEW k, I = {k} PROVE Once(q, x)
    <3>1. k \in DOMAIN q /\ \A i \in DOMAIN q : q[i] = x <=> i = k
      BY <2>1
    <3> QED
      BY <3>1 DEF Once
  <2>2. ASSUME Once(q, x) PROVE \E k : I = {k}
    <3>1. PICK k \in DOMAIN q : \A i \in DOMAIN q : q[i] = x <=> i = k
      BY <2>2 DEF Once
    <3>2. I = {k}
      BY <3>1
    <3> QED
      BY <3>2
  <2> QED
    BY <2>1, <2>2
<1> HIDE DEF I
<1>4. (Cardinality(I) = 0 <=> I = {}) /\ (Cardinality(I) = 1 <=> \E k : I = {k})
  BY <1>1, FS_EmptySet, FS_Singleton
<1> QED
  BY <1>2, <1>3, <1>4 DEF I

LEMMA AppendOnce ==
  ASSUME NEW S, NEW q \in Seq(S), NEW e \in S
  PROVE  /\ e \notin ToSet(q) => Once(Append(q, e), e)
         /\ \A x \in S \ {e} : Once(q, x) => Once(Append(q, e), x)
<1> DEFINE r == Append(q, e)
<1>1. /\ r[Len(q) + 1] = e /\ \A i \in 1 .. Len(q) : r[i] = q[i]
      /\ Len(q) \in Nat /\ DOMAIN q = 1 .. Len(q) /\ DOMAIN r = 1 .. Len(q) + 1
  OBVIOUS
<1> HIDE DEF r
<1>2. ASSUME e \notin ToSet(q) PROVE Once(r, e)
  <2>1. \A i \in 1 .. Len(q) : q[i] # e
    BY <1>1, <1>2 DEF ToSet
  <2>2. Len(q) + 1 \in DOMAIN r /\ \A i \in DOMAIN r : r[i] = e <=> i = Len(q) + 1
    BY <1>1, <2>1
  <2> QED
    BY <2>2 DEF Once
<1>3. ASSUME NEW x \in S \ {e}, Once(q, x) PROVE Once(r, x)
  <2>1. PICK k \in DOMAIN q : \A i \in DOMAIN q : q[i] = x <=> i = k
    BY <1>3 DEF Once
  <2>2. k \in DOMAIN r /\ \A i \in DOMAIN r : r[i] = x <=> i = k
    BY <1>1, <2>1
  <2> QED
    BY <2>2 DEF Once
<1> QED
  BY <1>2, <1>3 DEF r

LEMMA RemoveFirstOnce ==
  ASSUME NEW S, NEW q \in Seq(S), NEW e, Contains(q, e)
  PROVE  /\ Once(q, e) => e \notin ToSet(RemoveFirst(q, e))
         /\ \A x \in S \ {e} : Once(q, x) => Once(RemoveFirst(q, e), x)
<1> DEFINE r == RemoveFirst(q, e)
           I == {i \in 1 .. Len(q) : q[i] = e}
           k == Min(I)
<1>1. I \in SUBSET Nat /\ I # {}
  BY DEF Contains
<1>2. \E x \in I : \A y \in I : x <= y
  <2> HIDE DEF I
  <2> QED
    BY <1>1, LeastNatural
<1>3. k \in I
  BY <1>2 DEF Min
<1>4. k \in 1 .. Len(q) /\ q[k] = e
  BY <1>3
<1>5. r = RemoveAt(q, k)
  BY <1>1 DEF RemoveFirst, SelectInSeq
<1> HIDE DEF k, r
<1>6. /\ r \in Seq(S) /\ Len(r) = Len(q) - 1
      /\ \A i \in 1 .. Len(q) - 1 : r[i] = IF i < k THEN q[i] ELSE q[i + 1]
  BY <1>4, <1>5, RemoveAtElements
<1>7. Len(q) \in Nat /\ k \in Nat /\ DOMAIN r = 1 .. Len(q) - 1 /\ DOMAIN q = 1 .. Len(q)
  BY <1>4, <1>6
<1>8. ASSUME Once(q, e) PROVE e \notin ToSet(r)
  <2>1. \A i \in 1 .. Len(q) : q[i] = e => i = k
    BY <1>4, <1>7, <1>8 DEF Once
  <2>2. \A i \in 1 .. Len(q) - 1 : r[i] # e
    BY <1>4, <1>6, <1>7, <2>1
  <2> QED
    BY <1>7, <2>2 DEF ToSet
<1>9. ASSUME NEW x \in S \ {e}, Once(q, x) PROVE Once(r, x)
  <2>1. PICK j \in 1 .. Len(q) : \A i \in 1 .. Len(q) : q[i] = x <=> i = j
    BY SMTT(30), <1>7, <1>9 DEF Once
  <2>2. j # k
    BY <1>4, <2>1
  <2> DEFINE m == IF j < k THEN j ELSE j - 1
  <2>3. m \in 1 .. Len(q) - 1
    BY <1>4, <1>7, <2>2
  <2>4. ASSUME NEW i \in 1 .. Len(q) - 1 PROVE r[i] = x <=> i = m
    <3>1. CASE i < k
      <4>1. i \in 1 .. Len(q) /\ r[i] = q[i]
        BY <1>6, <1>7, <3>1
      <4>2. i = j <=> i = m
        BY <1>4, <1>7, <2>2, <3>1
      <4> QED
        BY <2>1, <4>1, <4>2
    <3>2. CASE ~(i < k)
      <4>1. i + 1 \in 1 .. Len(q) /\ r[i] = q[i + 1]
        BY <1>6, <1>7, <3>2
      <4>2. i + 1 = j <=> i = m
        BY <1>4, <1>7, <2>2, <3>2
      <4> QED
        BY <2>1, <4>1, <4>2
    <3> QED
      BY <3>1, <3>2
  <2> HIDE DEF m
  <2>5. m \in DOMAIN r /\ \A i \in DOMAIN r : r[i] = x <=> i = m
    BY <1>7, <2>3, <2>4
  <2> QED
    BY <2>5 DEF Once
<1> QED
  BY <1>8, <1>9 DEF r

-----------------------------------------------------------------------------
\* run holds the states, in X, that f goes through from b over the elements of s.
RunsThrough(run, f, X, b, s) ==
  /\ run \in [0 .. Len(s) -> X] /\ run[0] = b
  /\ \A n \in 1 .. Len(s) : run[n] = f[<<run[n - 1], s[n]>>]

\* A function of a state and an element runs through every sequence.
LEMMA RunThroughExists ==
  ASSUME NEW X, NEW E, NEW f, f \in [X \X E -> X], NEW b \in X, NEW q \in Seq(E)
  PROVE  \E run : RunsThrough(run, f, X, b, q)
<1> DEFINE Runs(g, s) == RunsThrough(g, f, X, b, s)
           G == {s \in Seq(E) : \E g : Runs(g, s)}
<1> USE DEF RunsThrough
<1>1. <<>> \in G
  <2> DEFINE g == [n \in 0 .. 0 |-> b]
  <2>1. Len(<<>>) = 0 /\ <<>> \in Seq(E)
    OBVIOUS
  <2>2. Runs(g, <<>>)
    BY <2>1
  <2> QED BY <2>1, <2>2
<1>2. ASSUME NEW s \in G, NEW e \in E PROVE Append(s, e) \in G
  <2>1. PICK g : Runs(g, s)
    OBVIOUS
  <2>2. PICK t : t = Append(s, e)
    OBVIOUS
  <2>3. /\ Len(s) \in Nat /\ Len(t) = Len(s) + 1 /\ t \in Seq(E)
        /\ \A n \in 1 .. Len(s) : t[n] = s[n]
        /\ t[Len(s) + 1] = e
    BY <2>2
  <2> DEFINE h == [n \in 0 .. Len(t) |-> IF n <= Len(s) THEN g[n] ELSE f[<<g[Len(s)], e>>]]
  <2>4. g[Len(s)] \in X /\ f[<<g[Len(s)], e>>] \in X
    <3>1. Len(s) \in 0 .. Len(s)
      BY <2>3
    <3>2. g[Len(s)] \in X
      BY <2>1, <3>1
    <3> HIDE DEF Runs, G
    <3> QED BY <3>2
  <2>5. h \in [0 .. Len(t) -> X] /\ h[0] = b
    <3>1. ASSUME NEW n \in 0 .. Len(t) PROVE h[n] \in X
      <4>1. CASE n <= Len(s)
        <5>1. n \in 0 .. Len(s)
          BY <2>3, <4>1
        <5> QED BY <2>1, <4>1, <5>1
      <4>2. CASE ~(n <= Len(s))
        BY <2>4, <4>2
      <4> QED BY <4>1, <4>2
    <3>2. 0 \in 0 .. Len(t) /\ 0 <= Len(s)
      BY <2>3
    <3> QED BY <2>1, <3>1, <3>2
  <2>6. ASSUME NEW n \in 1 .. Len(t) PROVE h[n] = f[<<h[n - 1], t[n]>>]
    <3>1. n \in 0 .. Len(t) /\ n - 1 \in 0 .. Len(t) /\ n - 1 <= Len(s)
      BY <2>3
    <3>2. h[n - 1] = g[n - 1]
      BY <3>1
    <3>3. CASE n <= Len(s)
      <4>1. n \in 1 .. Len(s)
        BY <2>3, <3>3
      <4> QED BY <2>1, <2>3, <3>1, <3>2, <3>3, <4>1
    <3>4. CASE ~(n <= Len(s))
      <4>1. n = Len(s) + 1 /\ n - 1 = Len(s)
        BY <2>3, <3>4
      <4>2. h[n] = f[<<g[Len(s)], e>>]
        BY <3>1, <3>4
      <4> QED BY <2>3, <3>2, <4>1, <4>2
    <3> QED BY <3>3, <3>4
  <2>7. Runs(h, t)
    BY <2>5, <2>6
  <2> HIDE DEF h
  <2> QED BY <2>2, <2>3, <2>7
<1>3. G \in SUBSET Seq(E)
  OBVIOUS
<1>4. G = Seq(E)
  <2> HIDE DEF G
  <2> QED BY <1>1, <1>2, <1>3, ClosedSetIsSeq
<1> QED BY <1>4

-----------------------------------------------------------------------------
(* The order of words, and the enumeration of a finite set in an order.    *)

\* The word v comes before w: it is shorter or smaller at the first difference.
WordBefore(v, w) ==
  \E k \in 1 .. Len(w) :
    /\ k <= Len(v) + 1
    /\ \A l \in 1 .. k - 1 : v[l] = w[l]
    /\ k = Len(v) + 1 \/ v[k] < w[k]

LEMMA WordsCompared ==
  ASSUME NEW v \in Seq(Nat), NEW w \in Seq(Nat), v # w
  PROVE  WordBefore(v, w) \/ WordBefore(w, v)
<1> DEFINE D == {k \in Nat : /\ k >= 1 /\ k <= Len(v) + 1 /\ k <= Len(w) + 1
                             /\ k = Len(v) + 1 \/ k = Len(w) + 1 \/ v[k] # w[k]}
<1>1. Len(v) \in Nat /\ Len(w) \in Nat
  OBVIOUS
<1>2. D \in SUBSET Nat /\ D # {}
  <2>1. CASE Len(v) <= Len(w)
    <3>1. Len(v) + 1 \in D
      BY <1>1, <2>1
    <3> QED BY <3>1
  <2>2. CASE Len(w) <= Len(v)
    <3>1. Len(w) + 1 \in D
      BY <1>1, <2>2
    <3> QED BY <3>1
  <2> QED BY SMTT(30), <1>1, <2>1, <2>2
<1>3. PICK k \in D : \A l \in D : k <= l
  <2> HIDE DEF D
  <2> QED BY <1>2, LeastNatural
<1>4. \A l \in 1 .. k - 1 : v[l] = w[l]
  <2> SUFFICES ASSUME NEW l \in 1 .. k - 1, v[l] # w[l] PROVE FALSE
    OBVIOUS
  <2>1. l \in Nat /\ l >= 1 /\ l < k /\ l <= Len(v) + 1 /\ l <= Len(w) + 1
    BY SMTT(30), <1>1
  <2>2. l \in D
    BY <2>1
  <2> QED BY <1>3, <2>1, <2>2
<1>5. k \in Nat /\ k >= 1 /\ k <= Len(v) + 1 /\ k <= Len(w) + 1
  OBVIOUS
<1>6. k = Len(v) + 1 \/ k = Len(w) + 1 \/ v[k] # w[k]
  OBVIOUS
<1> HIDE DEF D
<1>7. CASE k = Len(v) + 1 /\ k = Len(w) + 1
  <2>1. Len(v) = Len(w) /\ \A l \in 1 .. Len(v) : v[l] = w[l]
    BY <1>1, <1>4, <1>7
  <2>2. v = w
    BY <2>1, SeqEqual
  <2> QED BY <2>2
<1>8. CASE k = Len(v) + 1 /\ k # Len(w) + 1
  <2>1. k \in 1 .. Len(w)
    BY SMTT(30), <1>1, <1>5, <1>8
  <2> QED BY <1>4, <1>5, <1>8, <2>1 DEF WordBefore
<1>9. CASE k # Len(v) + 1 /\ k = Len(w) + 1
  <2>1. k \in 1 .. Len(v) /\ k <= Len(w) + 1
    BY <1>1, <1>5, <1>9
  <2> QED BY <1>4, <1>9, <2>1 DEF WordBefore
<1>10. CASE k # Len(v) + 1 /\ k # Len(w) + 1
  <2>1. /\ k \in 1 .. Len(v) /\ k \in 1 .. Len(w) /\ v[k] # w[k]
        /\ k <= Len(v) + 1 /\ k <= Len(w) + 1
    BY SMTT(30), <1>1, <1>5, <1>6, <1>10
  <2>2. v[k] \in Nat /\ w[k] \in Nat
    BY <2>1
  <2>3. CASE v[k] < w[k]
    BY <1>4, <2>1, <2>3 DEF WordBefore
  <2>4. CASE w[k] < v[k]
    BY <1>4, <2>1, <2>4 DEF WordBefore
  <2> QED BY <2>1, <2>2, <2>3, <2>4
<1> QED BY <1>7, <1>8, <1>9, <1>10

LEMMA WordsChained ==
  ASSUME NEW u \in Seq(Nat), NEW v \in Seq(Nat), NEW w \in Seq(Nat),
         WordBefore(u, v), WordBefore(v, w)
  PROVE  WordBefore(u, w)
<1>1. Len(u) \in Nat /\ Len(v) \in Nat /\ Len(w) \in Nat
  OBVIOUS
<1>2. PICK k \in 1 .. Len(v) : /\ k <= Len(u) + 1 /\ \A i \in 1 .. k - 1 : u[i] = v[i]
                               /\ k = Len(u) + 1 \/ u[k] < v[k]
  BY DEF WordBefore
<1>3. PICK l \in 1 .. Len(w) : /\ l <= Len(v) + 1 /\ \A i \in 1 .. l - 1 : v[i] = w[i]
                               /\ l = Len(v) + 1 \/ v[l] < w[l]
  BY DEF WordBefore
<1>4. CASE k < l
  <2>1. k \in 1 .. Len(w) /\ k \in 1 .. l - 1
    BY <1>1, <1>4
  <2>2. v[k] = w[k] /\ \A i \in 1 .. k - 1 : u[i] = w[i]
    <3>1. \A i \in 1 .. k - 1 : i \in 1 .. l - 1
      BY <1>4
    <3> QED BY <1>2, <1>3, <2>1, <3>1
  <2> QED BY <1>2, <2>1, <2>2 DEF WordBefore
<1>5. CASE k = l
  <2>1. v[k] < w[k]
    BY <1>1, <1>3, <1>5
  <2>2. \A i \in 1 .. k - 1 : u[i] = w[i]
    BY <1>2, <1>3, <1>5
  <2>3. k = Len(u) + 1 \/ u[k] < w[k]
    <3> SUFFICES ASSUME k # Len(u) + 1 PROVE u[k] < w[k]
      OBVIOUS
    <3>1. k \in 1 .. Len(u) /\ k \in 1 .. Len(w)
      BY <1>1, <1>2, <1>5
    <3>2. u[k] \in Nat /\ w[k] \in Nat
      BY SMTT(30), <3>1
    <3>3. v[k] \in Nat /\ u[k] < v[k]
      BY SMTT(30), <1>2
    <3> QED BY SMTT(30), <2>1, <3>2, <3>3
  <2> QED BY <1>2, <1>5, <2>2, <2>3 DEF WordBefore
<1>6. CASE l < k
  <2>1. l \in 1 .. Len(u) /\ l \in 1 .. k - 1 /\ l # Len(v) + 1 /\ l <= Len(u) + 1
    BY SMTT(30), <1>1, <1>2, <1>6
  <2>2. u[l] = v[l] /\ v[l] < w[l]
    BY <1>2, <1>3, <2>1
  <2>3. \A i \in 1 .. l - 1 : u[i] = w[i]
    <3>1. \A i \in 1 .. l - 1 : i \in 1 .. k - 1
      BY <1>6
    <3> QED BY <1>2, <1>3, <3>1
  <2> QED BY <2>1, <2>2, <2>3 DEF WordBefore
<1> QED BY <1>4, <1>5, <1>6

\* An enumeration of T in the order R, a set of pairs.
Enumerates(q, T, R) ==
  /\ q \in [1 .. Cardinality(T) -> T]
  /\ \A e \in T : \E i \in 1 .. Cardinality(T) : q[i] = e
  /\ \A i, j \in 1 .. Cardinality(T) : i < j => q[i] # q[j] /\ <<q[i], q[j]>> \in R

Orders(R, S) ==
  /\ \A a, b \in S : a = b \/ <<a, b>> \in R \/ <<b, a>> \in R
  /\ \A a, b, c \in S : <<a, b>> \in R /\ <<b, c>> \in R => <<a, c>> \in R

LEMMA GreatestExists ==
  ASSUME NEW S, IsFiniteSet(S), NEW R, Orders(R, S), NEW T \in SUBSET S, T # {}
  PROVE  \E m \in T : \A e \in T : e = m \/ <<e, m>> \in R
<1> DEFINE Top(U) == \E m \in U : \A e \in U : e = m \/ <<e, m>> \in R
           Bad == {U \in SUBSET S : U # {} /\ ~Top(U)}
<1>1. SUFFICES ASSUME Bad # {} PROVE FALSE
  OBVIOUS
<1>2. PICK U \in Bad : \A V \in SUBSET U : V # U => V \notin Bad
  <2>1. Bad \in SUBSET (SUBSET S)
    OBVIOUS
  <2> HIDE DEF Bad
  <2> QED BY <1>1, <2>1, SmallestSubset
<1>3. U \subseteq S /\ U # {} /\ ~Top(U)
  OBVIOUS
<1>4. PICK e \in U : TRUE
  BY <1>3
<1>5. U \ {e} \in SUBSET U /\ U \ {e} # U /\ U \ {e} \in SUBSET S
  BY <1>3, <1>4
<1>6. CASE U \ {e} = {}
  <2>1. \A d \in U : d = e
    BY <1>6
  <2>2. Top(U)
    BY <1>4, <2>1
  <2> QED BY <1>3, <2>2
<1>7. CASE U \ {e} # {}
  <2>1. Top(U \ {e})
    BY <1>2, <1>5, <1>7
  <2>2. PICK m \in U \ {e} : \A d \in U \ {e} : d = m \/ <<d, m>> \in R
    BY <2>1
  <2>3. m \in S /\ e \in S /\ m # e
    BY <1>3, <2>2
  <2>4. CASE <<e, m>> \in R
    <3>1. \A d \in U : d = m \/ <<d, m>> \in R
      BY <2>2, <2>4
    <3> QED BY <1>3, <2>2, <3>1
  <2>5. CASE <<m, e>> \in R
    <3>1. \A d \in U : d = e \/ <<d, e>> \in R
      BY <1>3, <2>2, <2>3, <2>5 DEF Orders
    <3> QED BY <1>3, <1>4, <3>1
  <2> QED BY <2>3, <2>4, <2>5 DEF Orders
<1> QED BY <1>6, <1>7

LEMMA EnumerationExists ==
  ASSUME NEW S, IsFiniteSet(S), NEW R, Orders(R, S)
  PROVE  \E q : Enumerates(q, S, R)
<1> DEFINE Bad == {T \in SUBSET S : \A q : ~Enumerates(q, T, R)}
<1>1. SUFFICES ASSUME Bad # {} PROVE FALSE
  OBVIOUS
<1>2. PICK T \in Bad : \A V \in SUBSET T : V # T => V \notin Bad
  <2>1. Bad \in SUBSET (SUBSET S)
    OBVIOUS
  <2> HIDE DEF Bad
  <2> QED BY <1>1, <2>1, SmallestSubset
<1>3. T \in SUBSET S /\ IsFiniteSet(T) /\ \A q : ~Enumerates(q, T, R)
  BY FS_Subset
<1>4. CASE T = {}
  <2>1. Cardinality(T) = 0
    BY <1>4, FS_EmptySet
  <2>2. Enumerates([i \in 1 .. 0 |-> i], T, R)
    BY <1>4, <2>1 DEF Enumerates
  <2> QED BY <1>3, <2>2
<1>5. CASE T # {}
  <2>1. PICK m \in T : \A e \in T : e = m \/ <<e, m>> \in R
    BY <1>3, <1>5, GreatestExists
  <2>2. T \ {m} \in SUBSET T /\ T \ {m} # T /\ T \ {m} \in SUBSET S
    BY <1>3, <2>1
  <2>3. PICK q : Enumerates(q, T \ {m}, R)
    BY <1>2, <2>2
  <2>4. PICK n \in Nat : Cardinality(T) = n + 1 /\ Cardinality(T \ {m}) = n
    <3>1. Cardinality(T \ {m}) = Cardinality(T) - 1 /\ IsFiniteSet(T \ {m})
      BY <1>3, <2>1, FS_RemoveElement
    <3>2. Cardinality(T \ {m}) \in Nat /\ Cardinality(T) \in Nat
      BY <1>3, <3>1, FS_CardinalityType
    <3> QED BY <3>1, <3>2
  <2> DEFINE r == [i \in 1 .. n + 1 |-> IF i = n + 1 THEN m ELSE q[i]]
  <2>5. /\ q \in [1 .. n -> T \ {m}]
        /\ \A e \in T \ {m} : \E i \in 1 .. n : q[i] = e
        /\ \A i, j \in 1 .. n : i < j => q[i] # q[j] /\ <<q[i], q[j]>> \in R
    BY <2>3, <2>4 DEF Enumerates
  <2>6. \A i \in 1 .. n : i \in 1 .. n + 1 /\ r[i] = q[i] /\ r[i] \in T \ {m}
    BY <2>5
  <2>7. n + 1 \in 1 .. n + 1 /\ r[n + 1] = m
    OBVIOUS
  <2>8. \A i \in 1 .. n + 1 : i = n + 1 \/ i \in 1 .. n
    OBVIOUS
  <2> HIDE DEF r
  <2>9. r \in [1 .. n + 1 -> T]
    BY <2>1, <2>5 DEF r
  <2>10. \A e \in T : \E i \in 1 .. n + 1 : r[i] = e
    BY <2>5, <2>6, <2>7
  <2>11. ASSUME NEW i \in 1 .. n + 1, NEW j \in 1 .. n + 1, i < j
         PROVE  r[i] # r[j] /\ <<r[i], r[j]>> \in R
    <3>1. i \in 1 .. n
      BY <2>11
    <3>2. CASE j = n + 1
      BY <2>1, <2>6, <2>7, <3>1, <3>2
    <3>3. CASE j \in 1 .. n
      BY <2>5, <2>6, <2>11, <3>1, <3>3
    <3> QED BY <2>8, <3>2, <3>3
  <2>12. Enumerates(r, T, R)
    BY <2>4, <2>9, <2>10, <2>11 DEF Enumerates
  <2> QED BY <1>3, <2>12
<1> QED BY <1>4, <1>5

=============================================================================
