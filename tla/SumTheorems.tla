---------------------------- MODULE SumTheorems ----------------------------
(***************************************************************************)
(* What the proofs need of SumFunctionOnSet: how a sum changes when a term *)
(* or an index does.  The sum is a recursive function on the subsets of    *)
(* the indices, CHOOSEn without a proof that there is one; SumExists is    *)
(* that proof.  Induction over sets and numbers is stated here with a set  *)
(* for its predicate, and rests on the library's well-founded relations.   *)
(***************************************************************************)
EXTENDS Integers, FiniteSets, Functions, FiniteSetTheorems, WellFoundedInduction, TLAPS

LEMMA NatSetInduction ==
  ASSUME NEW Q, 0 \in Q, \A n \in Nat : n \in Q => n + 1 \in Q
  PROVE  \A n \in Nat : n \in Q
<1> DEFINE Bad == {n \in Nat : n \notin Q}
<1>1. CASE Bad = {}
  BY <1>1
<1>2. CASE Bad # {}
  <2>1. PICK n \in Bad : \A m \in Bad : ~ (<<m, n>> \in OpToRel(<, Nat))
    BY <1>2, NatLessThanWellFounded, WFMin
  <2>2. n \in Nat \ {0} /\ n - 1 \in Nat /\ n - 1 + 1 = n
    OBVIOUS
  <2>3. n - 1 \in Bad
    BY <2>2
  <2>4. <<n - 1, n>> \in OpToRel(<, Nat)
    BY <2>2 DEF OpToRel
  <2>5. QED
    BY <2>1, <2>3, <2>4
<1>3. QED
  BY <1>1, <1>2

LEMMA SetInduction ==
  ASSUME NEW T, IsFiniteSet(T), NEW Q,
         \A s \in SUBSET T : (\A x \in s : s \ {x} \in Q) => s \in Q
  PROVE  \A s \in SUBSET T : s \in Q
<1> DEFINE Bad == {s \in SUBSET T : s \notin Q}
<1>1. CASE Bad = {}
  BY <1>1
<1>2. CASE Bad # {}
  <2>1. IsWellFoundedOn(StrictSubsetOrdering(T), SUBSET T)
    BY FS_StrictSubsetOrderingWellFounded, FS_FiniteSubsetsOfFinite
  <2>2. PICK s \in Bad : \A u \in Bad : ~ (<<u, s>> \in StrictSubsetOrdering(T))
    <3>1. Bad \subseteq SUBSET T
      OBVIOUS
    <3> HIDE DEF Bad
    <3>2. QED
      BY <1>2, <2>1, <3>1, WFMin
  <2>3. s \in SUBSET T /\ s \notin Q
    OBVIOUS
  <2>4. PICK x \in s : s \ {x} \notin Q
    BY <2>3
  <2>5. s \ {x} \in Bad
    BY <2>3, <2>4
  <2>6. <<s \ {x}, s>> \in StrictSubsetOrdering(T)
    BY <2>3 DEF StrictSubsetOrdering
  <2>7. QED
    BY <2>2, <2>5, <2>6
<1>3. QED
  BY <1>1, <1>2
-----------------------------------------------------------------------------
\* The first element of a set, for a fold; and the recursion of a sum, with g for the
\* sums of the smaller sets.
First(s) == CHOOSE x \in s : TRUE
Folded(f, g, s) == IF s = {} THEN 0 ELSE f[First(s)] + g[s \ {First(s)}]
IsSum(f, T, g) == g = [s \in SUBSET T |-> Folded(f, g, s)]

LEMMA FirstIn == \A s : s # {} => First(s) \in s
  BY DEF First

\* The sums of the sets of up to n elements exist, for every n.
LEMMA SumExists ==
  ASSUME NEW f, NEW T, IsFiniteSet(T) PROVE \E g : IsSum(f, T, g)
<1> DEFINE D(n) == {s \in SUBSET T : Cardinality(s) <= n}
           Q == {n \in Nat : \E g : g = [s \in D(n) |-> Folded(f, g, s)]}
<1>0. \A s \in SUBSET T : IsFiniteSet(s) /\ Cardinality(s) \in Nat
  BY FS_Subset, FS_CardinalityType
<1>1. 0 \in Q
  <2>1. D(0) = {{}}
    BY <1>0, FS_EmptySet
  <2> DEFINE g == [s \in D(0) |-> 0]
  <2>2. g = [s \in D(0) |-> Folded(f, g, s)]
    BY <2>1 DEF Folded
  <2>3. QED
    BY <2>2
<1>2. ASSUME NEW n \in Nat, n \in Q PROVE n + 1 \in Q
  <2>1. PICK g : g = [s \in D(n) |-> Folded(f, g, s)]
    BY <1>2
  <2> DEFINE h == [s \in D(n + 1) |-> Folded(f, g, s)]
  <2>2. ASSUME NEW s \in D(n + 1), s # {} PROVE h[s \ {First(s)}] = g[s \ {First(s)}]
    <3> DEFINE u == s \ {First(s)}
    <3>1. u \in SUBSET T /\ Cardinality(u) = Cardinality(s) - 1 /\ Cardinality(s) \in Nat
      BY <1>0, <2>2, FirstIn, FS_RemoveElement
    <3>2. u \in D(n) /\ u \in D(n + 1)
      BY <3>1
    <3> HIDE DEF u
    <3>3. g[u] = Folded(f, g, u) /\ h[u] = Folded(f, g, u)
      BY <2>1, <3>2
    <3>4. QED
      BY <3>3 DEF u
  <2>3. h = [s \in D(n + 1) |-> Folded(f, h, s)]
    <3> HIDE DEF D
    <3>1. \A s \in D(n + 1) : Folded(f, g, s) = Folded(f, h, s)
      BY <2>2 DEF Folded
    <3>2. QED
      BY <3>1
  <2> HIDE DEF h
  <2>4. \E k : k = [s \in D(n + 1) |-> Folded(f, k, s)]
    BY <2>3
  <2>5. n + 1 \in Nat
    OBVIOUS
  <2> HIDE DEF D
  <2>6. QED
    BY <2>4, <2>5
<1> HIDE DEF Q
<1>3. \A n \in Nat : n \in Q
  BY <1>1, <1>2, NatSetInduction
<1> USE DEF Q
<1>4. Cardinality(T) \in Q
  BY <1>3, FS_CardinalityType
<1>5. D(Cardinality(T)) = SUBSET T
  BY FS_Subset
<1>6. QED
  BY <1>4, <1>5 DEF IsSum

\* SumFunctionOnSet is a function that sums.
LEMMA SumIsSum ==
  ASSUME NEW f, NEW T, IsFiniteSet(T)
  PROVE  \E g : IsSum(f, T, g) /\ SumFunctionOnSet(f, T) = g[T]
<1> DEFINE iter == CHOOSE g : IsSum(f, T, g)
<1>1. IsSum(f, T, iter)
  BY SumExists
<1>2. SumFunctionOnSet(f, T) = iter[T]
  BY DEF SumFunctionOnSet, FoldFunctionOnSet, MapThenFoldSet, IsSum, Folded, First
<1>3. QED
  BY <1>1, <1>2

LEMMA SumsAreInt ==
  ASSUME NEW f, NEW T, IsFiniteSet(T), \A x \in T : f[x] \in Int, NEW g, IsSum(f, T, g)
  PROVE  \A s \in SUBSET T : g[s] \in Int
<1> DEFINE Q == {s \in SUBSET T : g[s] \in Int}
<1>0. \A s \in SUBSET T : g[s] = Folded(f, g, s)
  BY DEF IsSum
<1>1. ASSUME NEW s \in SUBSET T, \A x \in s : s \ {x} \in Q PROVE s \in Q
  <2>1. s # {} => First(s) \in s /\ g[s \ {First(s)}] \in Int
    BY <1>1, FirstIn
  <2>2. Folded(f, g, s) \in Int
    BY <2>1 DEF Folded
  <2>3. QED
    BY <1>0, <2>2
<1> HIDE DEF Q
<1>2. \A s \in SUBSET T : s \in Q
  BY <1>1, SetInduction
<1>3. QED
  BY <1>2 DEF Q

\* Any element may be taken first.
LEMMA AnyFirst ==
  ASSUME NEW f, NEW T, IsFiniteSet(T), \A x \in T : f[x] \in Int, NEW g, IsSum(f, T, g)
  PROVE  \A s \in SUBSET T : g[s] \in Int /\ \A c \in s : g[s] = f[c] + g[s \ {c}]
<1> DEFINE Q == {s \in SUBSET T : g[s] \in Int /\ \A c \in s : g[s] = f[c] + g[s \ {c}]}
<1>0. \A s \in SUBSET T : g[s] = Folded(f, g, s)
  BY DEF IsSum
<1>1. ASSUME NEW s \in SUBSET T, \A x \in s : s \ {x} \in Q PROVE s \in Q
  <2>0. g[s] \in Int
    BY SumsAreInt
  <2>1. CASE s = {}
    BY <2>0, <2>1
  <2>2. CASE s # {}
    <3> DEFINE x == First(s)
    <3>1. x \in s /\ s \ {x} \in Q /\ f[x] \in Int
      BY <1>1, <2>2, FirstIn
    <3>2. g[s] = f[x] + g[s \ {x}]
      BY <1>0, <2>2 DEF Folded
    <3> HIDE DEF x
    <3>3. g[s \ {x}] \in Int
      BY <3>1
    <3>4. ASSUME NEW c \in s, c # x PROVE g[s] = f[c] + g[s \ {c}]
      <4>1. s \ {c} \in Q /\ x \in s \ {c} /\ c \in s \ {x} /\ f[c] \in Int
        BY <1>1, <3>1, <3>4
      <4>2. (s \ {x}) \ {c} = (s \ {c}) \ {x}
        OBVIOUS
      <4> DEFINE u == (s \ {c}) \ {x}
      <4>3. g[s \ {x}] = f[c] + g[u]
        BY <3>1, <4>1, <4>2
      <4>4. g[s \ {c}] = f[x] + g[u] /\ g[s \ {c}] \in Int
        BY <4>1
      <4>5. u \in SUBSET T /\ g[u] \in Int
        BY SumsAreInt
      <4> HIDE DEF u
      <4>6. QED
        BY <3>1, <3>2, <3>3, <4>1, <4>3, <4>4, <4>5
    <3>5. \A c \in s : g[s] = f[c] + g[s \ {c}]
      BY <3>2, <3>4
    <3>6. QED
      BY <2>0, <3>5
  <2>3. QED
    BY <2>1, <2>2
<1> HIDE DEF Q
<1>2. \A s \in SUBSET T : s \in Q
  BY <1>1, SetInduction
<1>3. QED
  BY <1>2 DEF Q

\* Sums of functions that agree on a set of indices agree on its subsets.
LEMMA SumsAgree ==
  ASSUME NEW f, NEW h, NEW T, NEW U \in SUBSET T, IsFiniteSet(U), \A x \in U : f[x] = h[x],
         NEW g, IsSum(f, T, g), NEW k, IsSum(h, U, k)
  PROVE  \A s \in SUBSET U : g[s] = k[s]
<1> DEFINE Q == {s \in SUBSET U : g[s] = k[s]}
<1>0. \A s \in SUBSET U : g[s] = Folded(f, g, s) /\ k[s] = Folded(h, k, s)
  BY DEF IsSum
<1>1. ASSUME NEW s \in SUBSET U, \A x \in s : s \ {x} \in Q PROVE s \in Q
  <2>1. s # {} => s \ {First(s)} \in Q /\ f[First(s)] = h[First(s)]
    BY <1>1, FirstIn
  <2>2. Folded(f, g, s) = Folded(h, k, s)
    BY <2>1 DEF Folded
  <2>3. QED
    BY <1>0, <2>2
<1> HIDE DEF Q
<1>2. \A s \in SUBSET U : s \in Q
  BY <1>1, SetInduction
<1>3. QED
  BY <1>2 DEF Q
-----------------------------------------------------------------------------
(***************************************************************************)
(* Sums.                                                                   *)
(***************************************************************************)
LEMMA SumEmpty == ASSUME NEW f PROVE SumFunctionOnSet(f, {}) = 0
<1>1. PICK g : IsSum(f, {}, g) /\ SumFunctionOnSet(f, {}) = g[{}]
  BY SumIsSum, FS_EmptySet
<1>2. QED
  BY <1>1 DEF IsSum, Folded

LEMMA SumSame ==
  ASSUME NEW f, NEW h, NEW T, IsFiniteSet(T), \A x \in T : f[x] = h[x]
  PROVE  SumFunctionOnSet(f, T) = SumFunctionOnSet(h, T)
<1>1. PICK g : IsSum(f, T, g) /\ SumFunctionOnSet(f, T) = g[T]
  BY SumIsSum
<1>2. PICK k : IsSum(h, T, k) /\ SumFunctionOnSet(h, T) = k[T]
  BY SumIsSum
<1>3. T \in SUBSET T
  OBVIOUS
<1>4. \A s \in SUBSET T : g[s] = k[s]
  BY <1>1, <1>2, <1>3, SumsAgree
<1>5. QED
  BY <1>1, <1>2, <1>4

LEMMA SumRemove ==
  ASSUME NEW f, NEW T, IsFiniteSet(T), \A x \in T : f[x] \in Int
  PROVE  /\ SumFunctionOnSet(f, T) \in Int
         /\ \A c \in T : SumFunctionOnSet(f, T) = f[c] + SumFunctionOnSet(f, T \ {c})
<1>1. PICK g : IsSum(f, T, g) /\ SumFunctionOnSet(f, T) = g[T]
  BY SumIsSum
<1>2. g[T] \in Int /\ \A c \in T : g[T] = f[c] + g[T \ {c}]
  BY <1>1, AnyFirst
<1>3. ASSUME NEW c \in T PROVE SumFunctionOnSet(f, T \ {c}) = g[T \ {c}]
  <2> DEFINE U == T \ {c}
  <2>1. IsFiniteSet(U) /\ U \in SUBSET T
    BY FS_RemoveElement
  <2> HIDE DEF U
  <2>2. PICK k : IsSum(f, U, k) /\ SumFunctionOnSet(f, U) = k[U]
    BY <2>1, SumIsSum
  <2>3. g[U] = k[U]
    BY <1>1, <2>1, <2>2, SumsAgree
  <2>4. QED
    BY <2>2, <2>3 DEF U
<1>4. QED
  BY <1>1, <1>2, <1>3

LEMMA SumAdd ==
  ASSUME NEW f, NEW T, IsFiniteSet(T), NEW c, c \notin T, \A x \in T \cup {c} : f[x] \in Int
  PROVE  SumFunctionOnSet(f, T \cup {c}) = f[c] + SumFunctionOnSet(f, T)
<1> DEFINE U == T \cup {c}
<1>1. IsFiniteSet(U) /\ c \in U /\ U \ {c} = T /\ \A x \in U : f[x] \in Int
  BY FS_AddElement
<1> HIDE DEF U
<1>2. SumFunctionOnSet(f, U) = f[c] + SumFunctionOnSet(f, U \ {c})
  BY <1>1, SumRemove
<1>3. QED
  BY <1>1, <1>2 DEF U

\* One term grows by d, and the sum does.
LEMMA SumBump ==
  ASSUME NEW f, NEW h, NEW T, IsFiniteSet(T), NEW c \in T, NEW d \in Int,
         \A x \in T : f[x] \in Int, h[c] = f[c] + d, \A x \in T \ {c} : h[x] = f[x]
  PROVE  SumFunctionOnSet(h, T) = SumFunctionOnSet(f, T) + d
<1>1. IsFiniteSet(T \ {c}) /\ f[c] \in Int /\ \A x \in T : h[x] \in Int
  BY FS_RemoveElement
<1> DEFINE r == SumFunctionOnSet(f, T \ {c})
<1>2. SumFunctionOnSet(f, T) = f[c] + r /\ r \in Int
  BY <1>1, SumRemove
<1>3. SumFunctionOnSet(h, T) = h[c] + SumFunctionOnSet(h, T \ {c})
  BY <1>1, SumRemove
<1>4. SumFunctionOnSet(h, T \ {c}) = r
  BY <1>1, SumSame
<1> HIDE DEF r
<1>5. QED
  BY <1>1, <1>2, <1>3, <1>4

\* Terms that are no greater have a sum that is no greater.
LEMMA SumMono ==
  ASSUME NEW f, NEW h, NEW T, IsFiniteSet(T),
         \A x \in T : f[x] \in Int /\ h[x] \in Int /\ f[x] <= h[x]
  PROVE  SumFunctionOnSet(f, T) <= SumFunctionOnSet(h, T)
<1> DEFINE Q == {s \in SUBSET T : SumFunctionOnSet(f, s) <= SumFunctionOnSet(h, s)}
<1>1. ASSUME NEW s \in SUBSET T, \A x \in s : s \ {x} \in Q PROVE s \in Q
  <2>1. CASE s = {}
    BY <2>1, SumEmpty
  <2>2. CASE s # {}
    <3>1. PICK c \in s : TRUE
      BY <2>2
    <3> DEFINE a == SumFunctionOnSet(f, s \ {c})
               b == SumFunctionOnSet(h, s \ {c})
    <3>2. IsFiniteSet(s) /\ IsFiniteSet(s \ {c})
      BY FS_Subset, FS_RemoveElement
    <3>3. SumFunctionOnSet(f, s) = f[c] + a /\ a \in Int
      BY <3>2, SumRemove
    <3>4. SumFunctionOnSet(h, s) = h[c] + b /\ b \in Int
      BY <3>2, SumRemove
    <3>5. a <= b /\ f[c] \in Int /\ h[c] \in Int /\ f[c] <= h[c]
      BY <1>1
    <3> HIDE DEF a, b
    <3>6. f[c] + a <= h[c] + b
      BY <3>3, <3>4, <3>5
    <3>7. QED
      BY <3>3, <3>4, <3>6
  <2>3. QED
    BY <2>1, <2>2
<1> HIDE DEF Q
<1>2. \A s \in SUBSET T : s \in Q
  BY <1>1, SetInduction
<1>3. QED
  BY <1>2 DEF Q

LEMMA SumMinus ==
  ASSUME NEW f, NEW h, NEW k, NEW T, IsFiniteSet(T),
         \A x \in T : f[x] \in Int /\ h[x] \in Int /\ k[x] = f[x] - h[x]
  PROVE  SumFunctionOnSet(k, T) = SumFunctionOnSet(f, T) - SumFunctionOnSet(h, T)
<1> DEFINE Q == {s \in SUBSET T :
                   SumFunctionOnSet(k, s) = SumFunctionOnSet(f, s) - SumFunctionOnSet(h, s)}
<1>1. ASSUME NEW s \in SUBSET T, \A x \in s : s \ {x} \in Q PROVE s \in Q
  <2>1. CASE s = {}
    BY <2>1, SumEmpty
  <2>2. CASE s # {}
    <3>1. PICK c \in s : TRUE
      BY <2>2
    <3> DEFINE a == SumFunctionOnSet(f, s \ {c})
               b == SumFunctionOnSet(h, s \ {c})
    <3>2. IsFiniteSet(s) /\ IsFiniteSet(s \ {c})
      BY FS_Subset, FS_RemoveElement
    <3>3. SumFunctionOnSet(f, s) = f[c] + a /\ a \in Int
      BY <3>2, SumRemove
    <3>4. SumFunctionOnSet(h, s) = h[c] + b /\ b \in Int
      BY <3>2, SumRemove
    <3>5. f[c] \in Int /\ h[c] \in Int /\ k[c] = f[c] - h[c] /\ \A x \in s : k[x] \in Int
      OBVIOUS
    <3>6. SumFunctionOnSet(k, s) = k[c] + SumFunctionOnSet(k, s \ {c})
      BY <3>2, <3>5, SumRemove
    <3>7. SumFunctionOnSet(k, s \ {c}) = a - b
      BY <1>1
    <3> HIDE DEF a, b
    <3>8. QED
      BY <3>3, <3>4, <3>5, <3>6, <3>7
  <2>3. QED
    BY <2>1, <2>2
<1> HIDE DEF Q
<1>2. \A s \in SUBSET T : s \in Q
  BY <1>1, SetInduction
<1>3. QED
  BY <1>2 DEF Q

LEMMA SumZero ==
  ASSUME NEW f, NEW T, IsFiniteSet(T), \A x \in T : f[x] = 0
  PROVE  SumFunctionOnSet(f, T) = 0
<1> DEFINE Q == {s \in SUBSET T : SumFunctionOnSet(f, s) = 0}
<1>1. ASSUME NEW s \in SUBSET T, \A x \in s : s \ {x} \in Q PROVE s \in Q
  <2>1. CASE s = {}
    BY <2>1, SumEmpty
  <2>2. CASE s # {}
    <3>1. PICK c \in s : TRUE
      BY <2>2
    <3>2. IsFiniteSet(s)
      BY FS_Subset
    <3>3. SumFunctionOnSet(f, s) = f[c] + SumFunctionOnSet(f, s \ {c})
      BY <3>2, SumRemove
    <3>4. QED
      BY <1>1, <3>3
  <2>3. QED
    BY <2>1, <2>2
<1> HIDE DEF Q
<1>2. \A s \in SUBSET T : s \in Q
  BY <1>1, SetInduction
<1>3. QED
  BY <1>2 DEF Q

\* A sum of natural numbers is one, and no less than any of them.
LEMMA SumNat ==
  ASSUME NEW f, NEW T, IsFiniteSet(T), \A x \in T : f[x] \in Nat
  PROVE  SumFunctionOnSet(f, T) \in Nat /\ \A c \in T : f[c] <= SumFunctionOnSet(f, T)
<1> DEFINE z == [x \in T |-> 0]
<1>1. ASSUME NEW s \in SUBSET T PROVE SumFunctionOnSet(f, s) \in Nat
  <2>1. IsFiniteSet(s)
    BY FS_Subset
  <2>2. SumFunctionOnSet(z, s) = 0
    BY <2>1, SumZero
  <2>3. SumFunctionOnSet(z, s) <= SumFunctionOnSet(f, s)
    BY <2>1, SumMono
  <2>4. SumFunctionOnSet(f, s) \in Int
    BY <2>1, SumRemove
  <2>5. QED
    BY <2>2, <2>3, <2>4
<1>2. ASSUME NEW c \in T PROVE f[c] <= SumFunctionOnSet(f, T)
  <2> DEFINE r == SumFunctionOnSet(f, T \ {c})
  <2>1. SumFunctionOnSet(f, T) = f[c] + r
    BY SumRemove
  <2>2. r \in Nat
    BY <1>1
  <2> HIDE DEF r
  <2>3. QED
    BY <2>1, <2>2
<1>3. QED
  BY <1>1, <1>2
=============================================================================
