----------------------------- MODULE Sums_proofs -----------------------------
(***************************************************************************)
(* Facts about sums of functions into the naturals, which the accounts of  *)
(* the reporter and of the proxy are stated with.  The library defines a   *)
(* sum by recursion over the subsets of the domain, taking an arbitrary    *)
(* element at each step; here it is shown that the recursion has exactly   *)
(* one solution over a finite set, that the order does not matter, and     *)
(* what follows.  Induction is over sets of numbers and sets of subsets.   *)
(***************************************************************************)
EXTENDS FiniteSetTheorems, WellFoundedInduction, TLAPS

-----------------------------------------------------------------------------
(* Two forms of induction. *)

LEMMA BelowIsWellFounded == IsWellFoundedOn(OpToRel(<, Nat), Nat)
BY NatLessThanWellFounded

LEMMA BelowAsSet == OpToRel(<, Nat) = {s \in Nat \X Nat : s[1] < s[2]}
BY Zenon DEF OpToRel

\* A non-empty set of numbers has a least one.
LEMMA LeastExists ==
  ASSUME NEW I, I \subseteq Nat, I # {}
  PROVE  \E i \in I : \A j \in I : i <= j
<1> DEFINE R == {s \in Nat \X Nat : s[1] < s[2]}
<1>1. IsWellFoundedOn(R, Nat)
  BY BelowIsWellFounded, BelowAsSet
<1>2. ASSUME NEW i \in I, NEW j \in I, <<j, i>> \notin R PROVE i <= j
  BY <1>2
<1> HIDE DEF R
<1>3. PICK i \in I : \A j \in I : ~(<<j, i>> \in R)
  BY <1>1, WFMin
<1> QED
  BY <1>2, <1>3

\* A set of numbers with 0 and every successor of a member has them all.
LEMMA NumbersByInduction ==
  ASSUME NEW N, 0 \in N, \A n \in Nat : n \in N => n + 1 \in N
  PROVE  Nat \subseteq N
<1> SUFFICES ASSUME Nat \ N # {} PROVE FALSE
  OBVIOUS
<1>1. PICK i \in Nat \ N : \A j \in Nat \ N : i <= j
  BY LeastExists
<1>2. i - 1 \in Nat /\ i - 1 \in N
  BY <1>1
<1> QED
  BY <1>1, <1>2

\* Taking an element out of a subset makes it smaller by one.
LEMMA PartSize ==
  ASSUME NEW S, IsFiniteSet(S), NEW T \in SUBSET S, NEW x \in T
  PROVE  /\ Cardinality(T) \in Nat /\ Cardinality(T \ {x}) \in Nat
         /\ Cardinality(T \ {x}) = Cardinality(T) - 1
<1>1. IsFiniteSet(T)
  BY FS_Subset
<1>2. IsFiniteSet(T \ {x}) /\ Cardinality(T \ {x}) = Cardinality(T) - 1
  BY <1>1, FS_RemoveElement
<1> QED
  BY <1>1, <1>2, FS_CardinalityType

\* A set that has every subset whose direct parts it has, has every subset.
LEMMA SubsetsByInduction ==
  ASSUME NEW S, IsFiniteSet(S), NEW P,
         \A T \in SUBSET S : (\A x \in T : T \ {x} \in P) => T \in P
  PROVE  SUBSET S \subseteq P
<1> SUFFICES ASSUME NEW B \in SUBSET S, B \notin P PROVE FALSE
  OBVIOUS
<1> DEFINE Sizes == {n \in Nat : \E T \in SUBSET S : T \notin P /\ Cardinality(T) = n}
<1>1. Cardinality(B) \in Sizes
  BY FS_Subset, FS_CardinalityType
<1>2. PICK n \in Sizes : \A m \in Sizes : n <= m
  BY <1>1, LeastExists
<1>3. PICK T \in SUBSET S : T \notin P /\ Cardinality(T) = n
  BY <1>2
<1>4. ASSUME NEW x \in T PROVE T \ {x} \in P
  <2>2. Cardinality(T \ {x}) = n - 1 /\ n - 1 \in Nat
    BY <1>3, PartSize
  <2>3. n - 1 \notin Sizes
    BY <1>2, <2>2
  <2> QED
    BY <2>2, <2>3
<1> QED
  BY <1>3, <1>4

-----------------------------------------------------------------------------
(* The recursion of the library's sum. *)

AnyOf(A) == CHOOSE x \in A : TRUE

\* One unfolding of the sum of f over A, with sum for the smaller set.
Unfold(f, sum, A) == IF A = {} THEN 0 ELSE f[AnyOf(A)] + sum[A \ {AnyOf(A)}]

Solves(sum, f, S) == sum = [A \in SUBSET S |-> Unfold(f, sum, A)]

LEMMA AnyOfIn == ASSUME NEW A, A # {} PROVE AnyOf(A) \in A
BY DEF AnyOf

\* Over a finite set the recursion has a solution: after n unfoldings it is
\* right for the sets of at most n elements.
LEMMA SolutionExists ==
  ASSUME NEW S, IsFiniteSet(S), NEW f
  PROVE  \E sum : Solves(sum, f, S)
<1> DEFINE Right(sum, n) ==
             /\ sum = [A \in SUBSET S |-> sum[A]]
             /\ \A A \in SUBSET S : Cardinality(A) <= n => sum[A] = Unfold(f, sum, A)
           N == {n \in Nat : \E sum : Right(sum, n)}
<1>1. 0 \in N
  <2> DEFINE z == [A \in SUBSET S |-> 0]
  <2>1. ASSUME NEW A \in SUBSET S, Cardinality(A) <= 0 PROVE A = {}
    BY <2>1, FS_Subset, FS_CardinalityType, FS_EmptySet
  <2>2. Right(z, 0)
    BY <2>1 DEF Unfold
  <2> QED
    BY <2>2
<1>2. ASSUME NEW n \in Nat, n \in N PROVE n + 1 \in N
  <2>1. PICK sum : Right(sum, n)
    BY <1>2
  <2> DEFINE g == [A \in SUBSET S |-> Unfold(f, sum, A)]
  <2>2. ASSUME NEW A \in SUBSET S, Cardinality(A) <= n + 1
        PROVE  Unfold(f, sum, A) = Unfold(f, g, A)
    <3>1. CASE A = {}
      BY <3>1 DEF Unfold
    <3>2. CASE A # {}
      <4> DEFINE B == A \ {AnyOf(A)}
      <4>1. AnyOf(A) \in A /\ B \in SUBSET S
        BY <3>2, AnyOfIn
      <4>2. Cardinality(B) <= n
        BY <2>2, <4>1, PartSize
      <4>3. g[B] = sum[B]
        BY <2>1, <4>1, <4>2
      <4> QED
        BY <3>2, <4>3 DEF Unfold
    <3> QED
      BY <3>1, <3>2
  <2>3. Right(g, n + 1)
    BY <2>2
  <2>4. n + 1 \in Nat
    OBVIOUS
  <2> HIDE DEF g, Right
  <2> QED
    BY <2>3, <2>4
<1>3. Cardinality(S) \in N
  <2> HIDE DEF N
  <2> QED
    BY <1>1, <1>2, NumbersByInduction, FS_CardinalityType
<1>4. PICK sum : Right(sum, Cardinality(S))
  BY <1>3
<1>5. \A A \in SUBSET S : sum[A] = Unfold(f, sum, A)
  BY <1>4, FS_Subset
<1> QED
  BY <1>4, <1>5 DEF Solves

\* The recursion has no other solution, and none depends on what f is outside
\* the set summed over.
LEMMA SolutionUnique ==
  ASSUME NEW S, NEW U, S \subseteq U, IsFiniteSet(S),
         NEW f, NEW g, \A x \in S : f[x] = g[x],
         NEW sum, Solves(sum, f, S), NEW total, Solves(total, g, U)
  PROVE  sum[S] = total[S]
<1> DEFINE P == {A \in SUBSET S : sum[A] = total[A]}
<1>1. ASSUME NEW T \in SUBSET S, \A x \in T : T \ {x} \in P PROVE T \in P
  <2>1. sum[T] = Unfold(f, sum, T) /\ total[T] = Unfold(g, total, T)
    BY DEF Solves
  <2>2. CASE T = {}
    BY <2>1, <2>2 DEF Unfold
  <2>3. CASE T # {}
    <3>1. AnyOf(T) \in T
      BY <2>3, AnyOfIn
    <3>2. T \ {AnyOf(T)} \in P /\ f[AnyOf(T)] = g[AnyOf(T)]
      BY <1>1, <3>1
    <3> QED
      BY <2>1, <2>3, <3>2 DEF Unfold
  <2> QED
    BY <2>2, <2>3
<1> HIDE DEF P
<1>2. S \in P
  BY <1>1, SubsetsByInduction
<1> QED
  BY <1>2 DEF P

TheSolution(f, S) == CHOOSE sum : Solves(sum, f, S)

\* The library's sum is what the solution says of the whole set.
LEMMA SumIsSolution ==
  ASSUME NEW S, NEW f
  PROVE  SumFunctionOnSet(f, S) = TheSolution(f, S)[S]
BY Zenon DEF SumFunctionOnSet, FoldFunctionOnSet, MapThenFoldSet, TheSolution,
             Solves, Unfold, AnyOf

\* The sum over a part of U, read off a solution over U.
LEMMA SumInSolution ==
  ASSUME NEW S, NEW U, S \subseteq U, IsFiniteSet(S),
         NEW f, NEW g, \A x \in S : f[x] = g[x], NEW total, Solves(total, g, U)
  PROVE  SumFunctionOnSet(f, S) = total[S]
<1>1. Solves(TheSolution(f, S), f, S)
  BY SolutionExists DEF TheSolution
<1> QED
  BY <1>1, SumIsSolution, SolutionUnique

\* A sum depends on nothing but the values summed.
LEMMA SumAgrees ==
  ASSUME NEW S, IsFiniteSet(S), NEW f, NEW g, \A x \in S : f[x] = g[x]
  PROVE  SumFunctionOnSet(f, S) = SumFunctionOnSet(g, S)
<1>1. PICK total : Solves(total, g, S)
  BY SolutionExists
<1> QED
  BY <1>1, SumInSolution

\* The sum over nothing.
LEMMA SumEmpty == ASSUME NEW f PROVE SumFunctionOnSet(f, {}) = 0
<1>1. PICK total : Solves(total, f, {})
  BY SolutionExists, FS_EmptySet
<1>2. SumFunctionOnSet(f, {}) = total[{}]
  BY <1>1, SumInSolution, FS_EmptySet
<1> QED
  BY <1>1, <1>2 DEF Solves, Unfold

\* The sum in the order the library takes the elements.
LEMMA SumUnfolds ==
  ASSUME NEW S, IsFiniteSet(S), S # {}, NEW f
  PROVE  SumFunctionOnSet(f, S)
           = f[AnyOf(S)] + SumFunctionOnSet(f, S \ {AnyOf(S)})
<1>1. PICK total : Solves(total, f, S)
  BY SolutionExists
<1>2. SumFunctionOnSet(f, S) = total[S]
  BY <1>1, SumInSolution
<1>3. SumFunctionOnSet(f, S \ {AnyOf(S)}) = total[S \ {AnyOf(S)}]
  BY <1>1, SumInSolution, FS_RemoveElement
<1> QED
  BY <1>1, <1>2, <1>3 DEF Solves, Unfold

-----------------------------------------------------------------------------
(* Sums of naturals. *)

\* A sum of naturals is a natural.
LEMMA SumType ==
  ASSUME NEW S, IsFiniteSet(S), NEW f, \A x \in S : f[x] \in Nat
  PROVE  SumFunctionOnSet(f, S) \in Nat
<1> DEFINE P == {A \in SUBSET S : SumFunctionOnSet(f, A) \in Nat}
<1>1. ASSUME NEW T \in SUBSET S, \A x \in T : T \ {x} \in P PROVE T \in P
  <2>1. CASE T = {}
    BY <2>1, SumEmpty
  <2>2. CASE T # {}
    <3>1. AnyOf(T) \in T /\ IsFiniteSet(T)
      BY <2>2, AnyOfIn, FS_Subset
    <3>2. SumFunctionOnSet(f, T \ {AnyOf(T)}) \in Nat /\ f[AnyOf(T)] \in Nat
      BY <1>1, <3>1
    <3>3. SumFunctionOnSet(f, T) \in Nat
      BY <2>2, <3>1, <3>2, SumUnfolds
    <3> QED
      BY <3>3
  <2> QED
    BY <2>1, <2>2
<1> HIDE DEF P
<1>2. S \in P
  BY <1>1, SubsetsByInduction
<1> QED
  BY <1>2 DEF P

\* Any element may be taken out of a sum: the order does not matter.
LEMMA SumTakesOut ==
  ASSUME NEW S, IsFiniteSet(S), NEW f, \A x \in S : f[x] \in Nat, NEW x \in S
  PROVE  SumFunctionOnSet(f, S) = f[x] + SumFunctionOnSet(f, S \ {x})
<1> DEFINE Sum(A) == SumFunctionOnSet(f, A)
           P == {A \in SUBSET S : \A y \in A : Sum(A) = f[y] + Sum(A \ {y})}
<1>1. ASSUME NEW T \in SUBSET S, \A y \in T : T \ {y} \in P PROVE T \in P
  <2> SUFFICES ASSUME NEW y \in T PROVE Sum(T) = f[y] + Sum(T \ {y})
    OBVIOUS
  <2> DEFINE z == AnyOf(T)
  <2>1. z \in T /\ IsFiniteSet(T) /\ Sum(T) = f[z] + Sum(T \ {z})
    BY AnyOfIn, FS_Subset, SumUnfolds
  <2>2. CASE y = z
    BY <2>1, <2>2
  <2>3. CASE y # z
    <3> DEFINE R == (T \ {y}) \ {z}
    <3>1. R = (T \ {z}) \ {y} /\ y \in T \ {z} /\ z \in T \ {y}
      BY <2>1, <2>3
    <3>2. Sum(T \ {z}) = f[y] + Sum(R) /\ Sum(T \ {y}) = f[z] + Sum(R)
      BY <1>1, <2>1, <3>1
    <3>3. f[y] \in Nat /\ f[z] \in Nat /\ Sum(R) \in Nat
      <4>1. R \in SUBSET S /\ IsFiniteSet(R)
        BY FS_Subset
      <4> QED
        BY <2>1, <4>1, SumType
    <3> HIDE DEF Sum, R, z
    <3> QED
      BY <2>1, <3>2, <3>3
  <2> QED
    BY <2>2, <2>3
<1> HIDE DEF P
<1>2. S \in P
  BY <1>1, SubsetsByInduction
<1> QED
  BY <1>2 DEF P

\* One element more adds its value.
LEMMA SumWithNew ==
  ASSUME NEW S, IsFiniteSet(S), NEW x, x \notin S,
         NEW f, \A y \in S \cup {x} : f[y] \in Nat
  PROVE  SumFunctionOnSet(f, S \cup {x}) = f[x] + SumFunctionOnSet(f, S)
<1>1. IsFiniteSet(S \cup {x}) /\ (S \cup {x}) \ {x} = S
  BY FS_AddElement
<1> QED
  BY <1>1, SumTakesOut

\* Changing the value at one element changes the sum by as much.
LEMMA SumChangesAt ==
  ASSUME NEW S, IsFiniteSet(S), NEW x \in S,
         NEW f, \A y \in S : f[y] \in Nat, NEW g, \A y \in S : g[y] \in Nat,
         \A y \in S \ {x} : f[y] = g[y]
  PROVE  /\ SumFunctionOnSet(f, S) \in Nat /\ SumFunctionOnSet(g, S) \in Nat
         /\ SumFunctionOnSet(g, S) + f[x] = SumFunctionOnSet(f, S) + g[x]
<1> DEFINE R == S \ {x}
<1>1. IsFiniteSet(R)
  BY FS_RemoveElement
<1>2. SumFunctionOnSet(f, R) = SumFunctionOnSet(g, R) /\ SumFunctionOnSet(f, R) \in Nat
  BY <1>1, SumAgrees, SumType
<1>3. SumFunctionOnSet(f, S) = f[x] + SumFunctionOnSet(f, R)
  BY SumTakesOut
<1>4. SumFunctionOnSet(g, S) = g[x] + SumFunctionOnSet(g, R)
  BY SumTakesOut
<1> HIDE DEF R
<1> QED
  BY <1>2, <1>3, <1>4

\* Sums are added element by element.
LEMMA SumAdds ==
  ASSUME NEW S, IsFiniteSet(S),
         NEW f, \A x \in S : f[x] \in Nat, NEW g, \A x \in S : g[x] \in Nat,
         NEW h, \A x \in S : h[x] = f[x] + g[x]
  PROVE  SumFunctionOnSet(h, S) = SumFunctionOnSet(f, S) + SumFunctionOnSet(g, S)
<1> DEFINE P == {A \in SUBSET S : SumFunctionOnSet(h, A)
                                    = SumFunctionOnSet(f, A) + SumFunctionOnSet(g, A)}
<1>1. ASSUME NEW T \in SUBSET S, \A x \in T : T \ {x} \in P PROVE T \in P
  <2>1. CASE T = {}
    BY <2>1, SumEmpty
  <2>2. CASE T # {}
    <3> DEFINE z == AnyOf(T)
               R == T \ {z}
    <3>1. z \in T /\ IsFiniteSet(T) /\ IsFiniteSet(R)
      BY <2>2, AnyOfIn, FS_Subset, FS_RemoveElement
    <3>2. SumFunctionOnSet(h, R) = SumFunctionOnSet(f, R) + SumFunctionOnSet(g, R)
      BY <1>1, <3>1
    <3>3. SumFunctionOnSet(f, R) \in Nat /\ SumFunctionOnSet(g, R) \in Nat
      BY <3>1, SumType
    <3>4. /\ SumFunctionOnSet(f, T) = f[z] + SumFunctionOnSet(f, R)
          /\ SumFunctionOnSet(g, T) = g[z] + SumFunctionOnSet(g, R)
          /\ SumFunctionOnSet(h, T) = h[z] + SumFunctionOnSet(h, R)
      BY <2>2, <3>1, SumUnfolds
    <3>5. f[z] \in Nat /\ g[z] \in Nat /\ h[z] = f[z] + g[z]
      BY <3>1
    <3> HIDE DEF z, R
    <3> QED
      BY <3>2, <3>3, <3>4, <3>5
  <2> QED
    BY <2>1, <2>2
<1> HIDE DEF P
<1>2. S \in P
  BY <1>1, SubsetsByInduction
<1> QED
  BY <1>2 DEF P

\* A sum of zeros is zero.
LEMMA SumZero ==
  ASSUME NEW S, IsFiniteSet(S), NEW f, \A x \in S : f[x] = 0
  PROVE  SumFunctionOnSet(f, S) = 0
<1>1. SumFunctionOnSet(f, S) \in Nat
  BY SumType
<1>2. SumFunctionOnSet(f, S) = SumFunctionOnSet(f, S) + SumFunctionOnSet(f, S)
  BY SumAdds
<1>3. \A n \in Nat : n = n + n => n = 0
  OBVIOUS
<1> QED
  BY <1>1, <1>2, <1>3

\* Larger values have a larger sum.
LEMMA SumMonotone ==
  ASSUME NEW S, IsFiniteSet(S),
         NEW f, \A x \in S : f[x] \in Nat, NEW g, \A x \in S : g[x] \in Nat,
         \A x \in S : f[x] <= g[x]
  PROVE  SumFunctionOnSet(f, S) <= SumFunctionOnSet(g, S)
<1> DEFINE rest == [x \in S |-> g[x] - f[x]]
<1>1. \A x \in S : rest[x] \in Nat /\ g[x] = f[x] + rest[x]
  OBVIOUS
<1> HIDE DEF rest
<1>2. SumFunctionOnSet(g, S) = SumFunctionOnSet(f, S) + SumFunctionOnSet(rest, S)
  BY <1>1, SumAdds
<1>3. SumFunctionOnSet(f, S) \in Nat /\ SumFunctionOnSet(rest, S) \in Nat
  BY <1>1, SumType
<1> QED
  BY <1>2, <1>3

\* A part has no larger sum than the whole.
LEMMA SumOfPart ==
  ASSUME NEW S, IsFiniteSet(S), NEW R \in SUBSET S, NEW f, \A x \in S : f[x] \in Nat
  PROVE  SumFunctionOnSet(f, R) <= SumFunctionOnSet(f, S)
<1> DEFINE Sum(A) == SumFunctionOnSet(f, A)
           P == {A \in SUBSET S : \A B \in SUBSET A : Sum(B) <= Sum(A)}
<1>1. ASSUME NEW T \in SUBSET S, \A x \in T : T \ {x} \in P PROVE T \in P
  <2> SUFFICES ASSUME NEW B \in SUBSET T PROVE Sum(B) <= Sum(T)
    OBVIOUS
  <2>1. IsFiniteSet(T) /\ IsFiniteSet(B)
    BY FS_Subset
  <2>2. Sum(T) \in Nat /\ Sum(B) \in Nat
    BY <2>1, SumType
  <2>3. CASE B = T
    BY <2>2, <2>3
  <2>4. CASE B # T
    <3>1. PICK x \in T : x \notin B
      BY <2>4
    <3> DEFINE R1 == T \ {x}
    <3>2. R1 \in P /\ B \in SUBSET R1 /\ IsFiniteSet(R1)
      BY <1>1, <2>1, <3>1, FS_RemoveElement
    <3>3. Sum(B) <= Sum(R1) /\ Sum(R1) \in Nat /\ Sum(T) = f[x] + Sum(R1) /\ f[x] \in Nat
      BY <2>1, <3>2, SumTakesOut, SumType
    <3> HIDE DEF Sum, R1
    <3> QED
      BY <2>2, <3>3
  <2> QED
    BY <2>3, <2>4
<1> HIDE DEF P
<1>2. S \in P
  BY <1>1, SubsetsByInduction
<1> QED
  BY <1>2 DEF P

\* Values carried to different elements of T sum to no more than those of T.
LEMMA SumCarried ==
  ASSUME NEW S, IsFiniteSet(S), NEW T, IsFiniteSet(T), NEW b, NEW f, NEW g,
         \A x \in S : b[x] \in T /\ f[x] = g[b[x]],
         \A x, y \in S : b[x] = b[y] => x = y,
         \A y \in T : g[y] \in Nat
  PROVE  SumFunctionOnSet(f, S) <= SumFunctionOnSet(g, T)
<1> DEFINE Image(A) == {b[x] : x \in A}
           P == {A \in SUBSET S : SumFunctionOnSet(f, A) = SumFunctionOnSet(g, Image(A))}
<1>1. ASSUME NEW A \in SUBSET S, \A x \in A : A \ {x} \in P PROVE A \in P
  <2>1. CASE A = {}
    <3>1. Image(A) = {}
      BY <2>1
    <3>2. SumFunctionOnSet(f, A) = 0 /\ SumFunctionOnSet(g, Image(A)) = 0
      BY <2>1, <3>1, SumEmpty
    <3> QED
      BY <3>2
  <2>2. CASE A # {}
    <3> DEFINE z == AnyOf(A)
    <3>1. z \in A /\ IsFiniteSet(A)
      BY <2>2, AnyOfIn, FS_Subset
    <3>2. SumFunctionOnSet(f, A) = f[z] + SumFunctionOnSet(f, A \ {z})
      BY <2>2, <3>1, SumUnfolds
    <3>3. Image(A \ {z}) = Image(A) \ {b[z]}
      BY <3>1
    <3>4. IsFiniteSet(Image(A)) /\ Image(A) \subseteq T /\ b[z] \in Image(A)
      BY <3>1, FS_Subset
    <3>5. SumFunctionOnSet(g, Image(A)) = g[b[z]] + SumFunctionOnSet(g, Image(A) \ {b[z]})
      BY <3>4, SumTakesOut
    <3>6. SumFunctionOnSet(f, A \ {z}) = SumFunctionOnSet(g, Image(A \ {z}))
      BY <1>1, <3>1
    <3>7. f[z] = g[b[z]]
      BY <3>1
    <3>8. SumFunctionOnSet(f, A) = SumFunctionOnSet(g, Image(A))
      BY <3>2, <3>3, <3>5, <3>6, <3>7
    <3> QED
      BY <3>8
  <2> QED
    BY <2>1, <2>2
<1> HIDE DEF P
<1>2. S \in P
  BY <1>1, SubsetsByInduction
<1>3. SumFunctionOnSet(f, S) = SumFunctionOnSet(g, Image(S))
  BY <1>2 DEF P
<1>4. Image(S) \in SUBSET T
  OBVIOUS
<1> HIDE DEF Image
<1> QED
  BY <1>3, <1>4, SumOfPart
=============================================================================
