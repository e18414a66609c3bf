----------------------------- MODULE SumProofs -----------------------------
(***************************************************************************)
(* Sums of integers over finite sets, as MapThenSumSet computes them.      *)
(* MapThenSumSet is a recursive function on the subsets of a set, picking  *)
(* an element of each; that the function exists, and that it does not      *)
(* matter which elements are picked, takes induction.  The library's       *)
(* induction theorems have an operator for the induction hypothesis, and   *)
(* here it is a set.                                                       *)
(***************************************************************************)
EXTENDS FiniteSetsExt, FiniteSetTheorems, WellFoundedInduction, TLAPS

\* The sum of a function's values: f[x] for all x in S.
SumOver(f, S) == MapThenSumSet(LAMBDA x : f[x], S)

-----------------------------------------------------------------------------
(***************************************************************************)
(* Induction.                                                              *)
(***************************************************************************)
\* A non-empty set of natural numbers has a smallest element.
LEMMA Smallest ==
  ASSUME NEW N \in SUBSET Nat, N # {}
  PROVE  \E n \in N : \A m \in N : n <= m
<1> DEFINE R == OpToRel(<, Nat)
<1>1. \A m, n \in Nat : <<m, n>> \in R <=> m < n
  BY DEF OpToRel
<1>2. IsWellFoundedOn(R, Nat)
  BY NatLessThanWellFounded
<1> HIDE DEF R
<1>3. PICK n \in N : \A m \in N : <<m, n>> \notin R
  BY <1>2, WFMin
<1>4. \A m \in N : ~ (m < n)
  BY <1>1, <1>3
<1>5. \A m \in N : m \in Nat /\ n \in Nat
  OBVIOUS
<1> HIDE DEF R
<1> QED BY <1>4, <1>5, SMT

\* Induction on natural numbers.
LEMMA NatInd ==
  ASSUME NEW Q \in SUBSET Nat, 0 \in Q, \A n \in Q : n + 1 \in Q
  PROVE  Q = Nat
<1> SUFFICES ASSUME Nat \ Q # {} PROVE FALSE
  OBVIOUS
<1>1. PICK n \in Nat \ Q : \A m \in Nat \ Q : n <= m
  BY Smallest
<1>2. n # 0
  OBVIOUS
<1>3. n - 1 \in Nat /\ n - 1 \in Q
  BY <1>1, <1>2
<1> QED BY <1>1, <1>3

\* Induction on finite sets: a property of every non-empty set that has it
\* whatever element is taken away.
LEMMA SubsetInd ==
  ASSUME NEW S, IsFiniteSet(S), NEW Q \in SUBSET SUBSET S, {} \in Q,
         \A T \in SUBSET S : T # {} /\ (\A x \in T : T \ {x} \in Q) => T \in Q
  PROVE  Q = SUBSET S
<1> DEFINE N == {n \in Nat : \A T \in SUBSET S : Cardinality(T) = n => T \in Q}
<1>1. \A T \in SUBSET S : IsFiniteSet(T) /\ Cardinality(T) \in Nat
  BY FS_Subset, FS_CardinalityType
<1>2. 0 \in N
  BY <1>1, FS_EmptySet
<1>3. ASSUME NEW n \in N PROVE n + 1 \in N
  <2>1. SUFFICES ASSUME NEW T \in SUBSET S, Cardinality(T) = n + 1 PROVE T \in Q
    OBVIOUS
  <2>2. T # {}
    BY <2>1, FS_EmptySet
  <2>3. \A x \in T : Cardinality(T \ {x}) = n
    BY <1>1, <2>1, FS_RemoveElement
  <2>4. \A x \in T : T \ {x} \in Q
    BY <2>3
  <2> QED BY <2>2, <2>4
<1>4. N = Nat
  BY <1>2, <1>3, NatInd
<1> QED BY <1>1, <1>4

\* The same, adding one element at a time.
LEMMA SetInd ==
  ASSUME NEW S, IsFiniteSet(S), NEW Q \in SUBSET SUBSET S,
         {} \in Q, \A T \in Q, x \in S : x \notin T => T \cup {x} \in Q
  PROVE  Q = SUBSET S
<1>1. ASSUME NEW T \in SUBSET S, T # {}, \A x \in T : T \ {x} \in Q PROVE T \in Q
  <2>1. PICK x \in T : TRUE
    BY <1>1
  <2>2. (T \ {x}) \cup {x} = T /\ T \ {x} \in Q
    BY <1>1, <2>1
  <2> QED BY <2>2
<1> QED BY <1>1, SubsetInd

-----------------------------------------------------------------------------
(***************************************************************************)
(* The function behind MapThenSumSet.                                      *)
(***************************************************************************)
One(s) == CHOOSE x \in s : TRUE

\* The element picked from a set is in it.
LEMMA OneIn == \A s : s # {} => One(s) \in s
BY DEF One

\* What it is for a set, from what it is for the set without the element.
Recursion(g, f, S) ==
  [s \in SUBSET S |-> IF s = {} THEN 0 ELSE f[One(s)] + g[s \ {One(s)}]]

\* g satisfies that, set by set.
Recurs(g, f, S) ==
  \A s \in SUBSET S : g[s] = IF s = {} THEN 0 ELSE f[One(s)] + g[s \ {One(s)}]

\* Some function does: one for the sets of at most n elements gives one for n + 1.
LEMMA RecursExists ==
  ASSUME NEW S, IsFiniteSet(S), NEW f
  PROVE  \E g : g = Recursion(g, f, S)
<1> DEFINE D(n) == {s \in SUBSET S : Cardinality(s) <= n}
           F(g, n) == [s \in D(n) |->
                        IF s = {} THEN 0 ELSE f[One(s)] + g[s \ {One(s)}]]
           N == {n \in Nat : \E g : g = F(g, n)}
<1>1. \A T \in SUBSET S : IsFiniteSet(T) /\ Cardinality(T) \in Nat
  BY FS_Subset, FS_CardinalityType
<1>2. 0 \in N
  <2> DEFINE g == [s \in D(0) |-> 0]
  <2>1. \A s \in D(0) : s = {}
    BY <1>1, FS_EmptySet
  <2>2. g = F(g, 0)
    BY <2>1
  <2> QED BY <2>2
<1>3. ASSUME NEW n \in N PROVE n + 1 \in N
  <2>1. PICK g : g = F(g, n)
    OBVIOUS
  <2> DEFINE h == F(g, n + 1)
  <2>2. ASSUME NEW s \in D(n + 1), s # {} PROVE s \ {One(s)} \in D(n)
    <3>1. Cardinality(s \ {One(s)}) = Cardinality(s) - 1
      BY <1>1, <2>2, OneIn, FS_RemoveElement
    <3> QED BY <1>1, <3>1
  <2>3. \A s \in D(n) : h[s] = g[s]
    <3>1. \A s \in D(n) : s \in D(n + 1)
      BY <1>1
    <3>2. \A s \in D(n) : g[s] = IF s = {} THEN 0 ELSE f[One(s)] + g[s \ {One(s)}]
      BY <2>1
    <3> QED BY <3>1, <3>2
  <2>4. h = F(h, n + 1)
    <3> HIDE DEF D
    <3> QED BY <2>2, <2>3
  <2>5. n + 1 \in Nat
    OBVIOUS
  <2> HIDE DEF h, F
  <2> QED BY <2>4, <2>5
<1>4. Cardinality(S) \in Nat /\ SUBSET S = D(Cardinality(S))
  BY FS_Subset, FS_CardinalityType
<1>5. Cardinality(S) \in N
  <2> HIDE DEF N
  <2> QED BY <1>2, <1>3, <1>4, NatInd DEF N
<1>6. PICK g : g = F(g, Cardinality(S))
  BY <1>5
<1>7. F(g, Cardinality(S)) = Recursion(g, f, S)
  BY <1>4 DEF Recursion
<1> QED BY <1>6, <1>7

\* What the recursion says of the sum of S and of the sums of its parts.
LEMMA SumRecurs ==
  ASSUME NEW S, IsFiniteSet(S), NEW f
  PROVE  \E g : SumOver(f, S) = g[S] /\ Recurs(g, f, S)
<1> DEFINE sums == CHOOSE g : g = Recursion(g, f, S)
<1>1. sums = Recursion(sums, f, S)
  BY RecursExists
<1>2. SumOver(f, S) = sums[S]
  BY DEF SumOver, MapThenSumSet, MapThenFoldSet, Recursion, One
<1>3. Recurs(sums, f, S)
  <2> HIDE DEF sums
  <2> QED BY <1>1 DEF Recurs, Recursion
<1> QED BY <1>2, <1>3

\* Sums of integers are integers.
LEMMA RecursInt ==
  ASSUME NEW S, IsFiniteSet(S), NEW f, \A x \in S : f[x] \in Int,
         NEW g, Recurs(g, f, S)
  PROVE  \A T \in SUBSET S : g[T] \in Int
<1> DEFINE Q == {T \in SUBSET S : g[T] \in Int}
<1>1. {} \in Q
  BY DEF Recurs
<1>2. ASSUME NEW T \in SUBSET S, T # {}, \A x \in T : T \ {x} \in Q PROVE T \in Q
  <2>1. One(T) \in T /\ g[T] = f[One(T)] + g[T \ {One(T)}]
    BY <1>2, OneIn DEF Recurs
  <2>2. g[T \ {One(T)}] \in Int /\ f[One(T)] \in Int
    BY <1>2, <2>1
  <2> QED BY <2>1, <2>2
<1>3. Q \in SUBSET SUBSET S
  OBVIOUS
<1> HIDE DEF Q
<1>4. Q = SUBSET S
  BY <1>1, <1>2, <1>3, SubsetInd
<1> QED BY <1>4 DEF Q

\* Taking out a first and b second leaves what b first and a second leave.
LEMMA Swap ==
  ASSUME NEW a \in Int, NEW b \in Int, NEW m \in Int, NEW x, NEW y, NEW z,
         z = a + x, x = b + m, y = a + m
  PROVE  z = b + y
OBVIOUS

\* Any element may be the one that is picked.
LEMMA RecursAny ==
  ASSUME NEW S, IsFiniteSet(S), NEW f, \A x \in S : f[x] \in Int,
         NEW g, Recurs(g, f, S)
  PROVE  \A T \in SUBSET S : \A x \in T : g[T] = f[x] + g[T \ {x}]
<1> DEFINE Q == {T \in SUBSET S : \A x \in T : g[T] = f[x] + g[T \ {x}]}
<1>1. {} \in Q
  OBVIOUS
<1>2. ASSUME NEW T \in SUBSET S, T # {}, \A x \in T : T \ {x} \in Q PROVE T \in Q
  <2> DEFINE c == One(T)
  <2>1. c \in T /\ g[T] = f[c] + g[T \ {c}]
    BY <1>2, OneIn DEF Recurs
  <2> HIDE DEF c
  <2>2. ASSUME NEW x \in T, x # c PROVE g[T] = f[x] + g[T \ {x}]
    <3> DEFINE M == (T \ {c}) \ {x}
    <3>1. g[T \ {c}] = f[x] + g[M]
      BY <1>2, <2>1, <2>2
    <3>2. g[T \ {x}] = f[c] + g[(T \ {x}) \ {c}]
      BY <1>2, <2>1, <2>2
    <3>3. (T \ {x}) \ {c} = M /\ M \in SUBSET S
      OBVIOUS
    <3> HIDE DEF M
    <3>4. g[M] \in Int
      BY <3>3, RecursInt
    <3>5. f[c] \in Int /\ f[x] \in Int
      BY <2>1
    <3>6. g[T \ {x}] = f[c] + g[M]
      BY <3>2, <3>3
    <3> QED BY <2>1, <3>1, <3>6, <3>4, <3>5, Swap
  <2> QED BY <2>1, <2>2
<1>3. Q \in SUBSET SUBSET S
  OBVIOUS
<1> HIDE DEF Q
<1>4. Q = SUBSET S
  BY <1>1, <1>2, <1>3, SubsetInd
<1> QED BY <1>4 DEF Q

\* One recursion agrees with another on the sets both are about.
LEMMA RecursSame ==
  ASSUME NEW S, IsFiniteSet(S), NEW S2 \in SUBSET S, NEW f,
         NEW g, Recurs(g, f, S), NEW h, Recurs(h, f, S2)
  PROVE  h[S2] = g[S2]
<1> DEFINE Q == {T \in SUBSET S2 : h[T] = g[T]}
<1>1. {} \in Q
  BY DEF Recurs
<1>2. ASSUME NEW T \in SUBSET S2, T # {}, \A x \in T : T \ {x} \in Q PROVE T \in Q
  <2>1. One(T) \in T /\ h[T] = f[One(T)] + h[T \ {One(T)}]
    BY <1>2, OneIn DEF Recurs
  <2>2. g[T] = f[One(T)] + g[T \ {One(T)}]
    BY <1>2, OneIn DEF Recurs
  <2>3. g[T \ {One(T)}] = h[T \ {One(T)}]
    BY <1>2, <2>1
  <2> QED BY <2>1, <2>2, <2>3
<1>3. Q \in SUBSET SUBSET S2 /\ IsFiniteSet(S2)
  BY FS_Subset
<1> HIDE DEF Q
<1>4. Q = SUBSET S2
  BY <1>1, <1>2, <1>3, SubsetInd
<1> QED BY <1>4 DEF Q

-----------------------------------------------------------------------------
(***************************************************************************)
(* Sums.                                                                   *)
(***************************************************************************)
\* The sum over no element is 0.
LEMMA SumEmpty == \A f : SumOver(f, {}) = 0
<1> SUFFICES ASSUME NEW f PROVE SumOver(f, {}) = 0
  OBVIOUS
<1>1. PICK g : SumOver(f, {}) = g[{}] /\ Recurs(g, f, {})
  BY SumRecurs, FS_EmptySet
<1> QED BY <1>1 DEF Recurs

\* A sum is an element's value and the sum over the others.
LEMMA SumElement ==
  ASSUME NEW S, IsFiniteSet(S), NEW f, \A x \in S : f[x] \in Int, NEW x \in S
  PROVE  SumOver(f, S) = f[x] + SumOver(f, S \ {x})
<1>1. PICK g : SumOver(f, S) = g[S] /\ Recurs(g, f, S)
  BY SumRecurs
<1>2. PICK h : SumOver(f, S \ {x}) = h[S \ {x}] /\ Recurs(h, f, S \ {x})
  BY SumRecurs, FS_Subset
<1>3. h[S \ {x}] = g[S \ {x}]
  <2>1. S \ {x} \in SUBSET S
    OBVIOUS
  <2> QED BY <1>1, <1>2, <2>1, RecursSame
<1>4. g[S] = f[x] + g[S \ {x}]
  BY <1>1, RecursAny
<1> QED BY <1>1, <1>2, <1>3, <1>4

\* A sum of integers is an integer.
LEMMA SumInt ==
  ASSUME NEW S, IsFiniteSet(S), NEW f, \A x \in S : f[x] \in Int
  PROVE  SumOver(f, S) \in Int
<1>1. PICK g : SumOver(f, S) = g[S] /\ Recurs(g, f, S)
  BY SumRecurs
<1>2. g[S] \in Int
  BY <1>1, RecursInt
<1> QED BY <1>1, <1>2

\* What an element adds to a sum over more and more of S.
LEMMA SumStep ==
  ASSUME NEW S, IsFiniteSet(S), NEW f, \A x \in S : f[x] \in Int
  PROVE  \A T \in SUBSET S :
           /\ SumOver(f, T) \in Int
           /\ \A x \in T : SumOver(f, T) = f[x] + SumOver(f, T \ {x})
<1> SUFFICES ASSUME NEW T \in SUBSET S
             PROVE  /\ SumOver(f, T) \in Int
                    /\ \A x \in T : SumOver(f, T) = f[x] + SumOver(f, T \ {x})
  OBVIOUS
<1>1. IsFiniteSet(T) /\ \A x \in T : f[x] \in Int
  BY FS_Subset
<1> QED BY <1>1, SumInt, SumElement

\* The sum of a sum.
LEMMA SumPlus ==
  ASSUME NEW S, IsFiniteSet(S), NEW f, NEW a, NEW b,
         \A x \in S : a[x] \in Int /\ b[x] \in Int /\ f[x] = a[x] + b[x]
  PROVE  SumOver(f, S) = SumOver(a, S) + SumOver(b, S)
<1> DEFINE Q == {T \in SUBSET S : SumOver(f, T) = SumOver(a, T) + SumOver(b, T)}
<1>1. {} \in Q
  BY SumEmpty
<1>2. ASSUME NEW T \in SUBSET S, T # {}, \A x \in T : T \ {x} \in Q PROVE T \in Q
  <2>1. PICK x \in T : TRUE
    BY <1>2
  <2> DEFINE U == T \ {x}
  <2>2. SumOver(f, U) = SumOver(a, U) + SumOver(b, U)
    BY <1>2, <2>1
  <2>3. /\ SumOver(f, T) = f[x] + SumOver(f, U)
        /\ SumOver(a, T) = a[x] + SumOver(a, U)
        /\ SumOver(b, T) = b[x] + SumOver(b, U)
    BY SumStep
  <2>4. SumOver(a, U) \in Int /\ SumOver(b, U) \in Int
    BY SumStep
  <2> HIDE DEF U
  <2>5. SumOver(f, T) = SumOver(a, T) + SumOver(b, T)
    BY <2>2, <2>3, <2>4
  <2> QED BY <2>5
<1> HIDE DEF Q
<1>3. Q = SUBSET S
  <2>1. Q \in SUBSET SUBSET S
    BY DEF Q
  <2> QED BY <1>1, <1>2, <2>1, SubsetInd
<1> QED BY <1>3 DEF Q

\* Sums of values that are no greater are no greater.
LEMMA SumAtMost ==
  ASSUME NEW S, IsFiniteSet(S), NEW f, NEW h,
         \A x \in S : f[x] \in Int /\ h[x] \in Int /\ f[x] <= h[x]
  PROVE  SumOver(f, S) <= SumOver(h, S)
<1> DEFINE Q == {T \in SUBSET S : SumOver(f, T) <= SumOver(h, T)}
<1>1. {} \in Q
  BY SumEmpty
<1>2. ASSUME NEW T \in SUBSET S, T # {}, \A x \in T : T \ {x} \in Q PROVE T \in Q
  <2>1. PICK x \in T : TRUE
    BY <1>2
  <2> DEFINE U == T \ {x}
  <2>2. SumOver(f, U) <= SumOver(h, U)
    BY <1>2, <2>1
  <2>3. /\ SumOver(f, T) = f[x] + SumOver(f, U)
        /\ SumOver(h, T) = h[x] + SumOver(h, U)
        /\ f[x] <= h[x]
    BY SumStep
  <2>4. SumOver(f, U) \in Int /\ SumOver(h, U) \in Int
    BY SumStep
  <2> HIDE DEF U
  <2>5. SumOver(f, T) <= SumOver(h, T)
    BY <2>2, <2>3, <2>4
  <2> QED BY <2>5
<1> HIDE DEF Q
<1>3. Q = SUBSET S
  <2>1. Q \in SUBSET SUBSET S
    BY DEF Q
  <2> QED BY <1>1, <1>2, <2>1, SubsetInd
<1> QED BY <1>3 DEF Q

\* Sums of the same values are the same.
LEMMA SumSame ==
  ASSUME NEW S, IsFiniteSet(S), NEW f, NEW h,
         \A x \in S : f[x] \in Int /\ f[x] = h[x]
  PROVE  SumOver(f, S) = SumOver(h, S)
<1>1. SumOver(f, S) <= SumOver(h, S) /\ SumOver(h, S) <= SumOver(f, S)
  BY SumAtMost
<1>2. SumOver(f, S) \in Int /\ SumOver(h, S) \in Int
  BY SumInt
<1> QED BY <1>1, <1>2

\* One value changes by d, the others do not.
LEMMA SumChange ==
  ASSUME NEW S, IsFiniteSet(S), NEW f, NEW h, NEW x \in S, NEW d \in Int,
         \A y \in S : f[y] \in Int,
         h[x] = f[x] + d, \A y \in S \ {x} : h[y] = f[y]
  PROVE  SumOver(h, S) = SumOver(f, S) + d
<1>1. \A y \in S : h[y] \in Int
  OBVIOUS
<1>2. SumOver(f, S) = f[x] + SumOver(f, S \ {x}) /\ SumOver(h, S) = h[x] + SumOver(h, S \ {x})
  BY <1>1, SumElement
<1>3. SumOver(f, S \ {x}) \in Int
  BY SumStep
<1>4. SumOver(f, S \ {x}) = SumOver(h, S \ {x})
  BY FS_Subset, SumSame
<1> QED BY <1>2, <1>3, <1>4

\* The sum of equal values.
LEMMA SumConstant ==
  ASSUME NEW S, IsFiniteSet(S), NEW c \in Int, NEW f, \A x \in S : f[x] = c
  PROVE  SumOver(f, S) = c * Cardinality(S)
<1> DEFINE Q == {T \in SUBSET S : SumOver(f, T) = c * Cardinality(T)}
<1>1. {} \in Q
  BY SumEmpty, FS_EmptySet
<1>2. ASSUME NEW T \in SUBSET S, T # {}, \A x \in T : T \ {x} \in Q PROVE T \in Q
  <2>1. PICK x \in T : TRUE
    BY <1>2
  <2> DEFINE n == Cardinality(T \ {x})
  <2>2. SumOver(f, T \ {x}) = c * n
    BY <1>2, <2>1
  <2>3. SumOver(f, T) = c + SumOver(f, T \ {x})
    BY SumStep
  <2>4. n \in Nat /\ Cardinality(T) = n + 1
    <3>1. IsFiniteSet(T) /\ IsFiniteSet(T \ {x})
      BY FS_Subset
    <3>2. Cardinality(T) \in Nat /\ n \in Nat /\ n = Cardinality(T) - 1
      BY <3>1, FS_RemoveElement, FS_CardinalityType
    <3> HIDE DEF n
    <3> QED BY <3>2
  <2> HIDE DEF n
  <2>5. c * (n + 1) = c + c * n
    BY <2>4
  <2>6. SumOver(f, T) = c * Cardinality(T)
    BY <2>2, <2>3, <2>4, <2>5
  <2> QED BY <2>6
<1> HIDE DEF Q
<1>3. Q = SUBSET S
  <2>1. Q \in SUBSET SUBSET S
    BY DEF Q
  <2> QED BY <1>1, <1>2, <2>1, SubsetInd
<1> QED BY <1>3 DEF Q

\* p maps S onto itself and no two elements to one.
Permutes(p, S) ==
  /\ p \in [S -> S]
  /\ \A x, y \in S : p[x] = p[y] => x = y
  /\ \A y \in S : \E x \in S : p[x] = y

\* The sum does not depend on the order of the values.
LEMMA SumPermuted ==
  ASSUME NEW S, IsFiniteSet(S), NEW p, Permutes(p, S),
         NEW f, \A x \in S : f[x] \in Int,
         NEW h, \A x \in S : h[x] = f[p[x]]
  PROVE  SumOver(h, S) = SumOver(f, S)
<1> DEFINE Image(T) == {p[x] : x \in T}
           Q == {T \in SUBSET S : SumOver(h, T) = SumOver(f, Image(T))}
<1>1. \A x \in S : p[x] \in S /\ h[x] \in Int
  BY DEF Permutes
<1>2. {} \in Q
  BY SumEmpty
<1>3. ASSUME NEW T \in SUBSET S, T # {}, \A x \in T : T \ {x} \in Q PROVE T \in Q
  <2>1. PICK x \in T : TRUE
    BY <1>3
  <2>2. SumOver(h, T \ {x}) = SumOver(f, Image(T \ {x}))
    BY <1>3, <2>1
  <2>3. SumOver(h, T) = h[x] + SumOver(h, T \ {x})
    BY <1>1, SumStep
  <2>4. Image(T \ {x}) = Image(T) \ {p[x]}
    BY DEF Permutes
  <2>5. Image(T) \in SUBSET S /\ p[x] \in Image(T)
    BY <1>1
  <2> HIDE DEF Image
  <2>6. SumOver(f, Image(T)) = f[p[x]] + SumOver(f, Image(T) \ {p[x]})
    BY <2>5, SumStep
  <2>7. SumOver(h, T) = SumOver(f, Image(T))
    BY <2>2, <2>3, <2>4, <2>6
  <2> QED BY <2>7
<1>4. Image(S) = S
  BY DEF Permutes
<1> HIDE DEF Q, Image
<1>5. Q = SUBSET S
  <2>1. Q \in SUBSET SUBSET S
    BY DEF Q
  <2> QED BY <1>2, <1>3, <2>1, SubsetInd
<1> QED BY <1>4, <1>5 DEF Q
=============================================================================
