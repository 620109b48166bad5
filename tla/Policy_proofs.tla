---------------------------- MODULE Policy_proofs ----------------------------
(***************************************************************************)
(* Facts about what a decision reads, for texts of any length over any     *)
(* characters, and about the egress decision, for every policy.            *)
(*                                                                         *)
(* The library defines a fold over a sequence by recursion over the        *)
(* subsets of its positions, taking out the largest.  It is shown here to  *)
(* have a solution; each loop of the model is then characterised by its    *)
(* first value and its step.  Induction is over sets of sequences.         *)
(***************************************************************************)
EXTENDS Policy, Sums_proofs, SequenceTheorems

-----------------------------------------------------------------------------
(* Induction over sequences, and positions. *)

\* A set of sequences with the empty one and every extension of a member has
\* them all.
LEMMA SequencesByInduction ==
  ASSUME NEW C, NEW Q, <<>> \in Q,
         \A s \in Seq(C), c \in C : s \in Q => Append(s, c) \in Q
  PROVE  Seq(C) \subseteq Q
<1> DEFINE N == {n \in Nat : \A s \in Seq(C) : Len(s) = n => s \in Q}
<1>1. 0 \in N
  OBVIOUS
<1>2. ASSUME NEW n \in Nat, n \in N PROVE n + 1 \in N
  <2> SUFFICES ASSUME NEW s \in Seq(C), Len(s) = n + 1 PROVE s \in Q
    OBVIOUS
  <2> DEFINE t == SubSeq(s, 1, n)
  <2>1. t \in Seq(C) /\ Len(t) = n /\ s[n + 1] \in C
    OBVIOUS
  <2>2. s = Append(t, s[n + 1])
    OBVIOUS
  <2> HIDE DEF t
  <2> QED
    BY <1>2, <2>1, <2>2
<1> HIDE DEF N
<1>3. Nat \subseteq N
  BY <1>1, <1>2, NumbersByInduction
<1> QED
  BY <1>3 DEF N

\* The largest number up to k is k.
LEMMA MaxUpTo ==
  ASSUME NEW k \in Nat, k > 0
  PROVE  Max(1..k) = k /\ (1..k) \ {Max(1..k)} = 1..(k - 1)
<1>1. \A x \in 1..k : (\A y \in 1..k : x >= y) => x = k
  OBVIOUS
<1>2. k \in 1..k /\ \A y \in 1..k : k >= y
  OBVIOUS
<1>3. Max(1..k) = k
  BY <1>1, <1>2 DEF Max
<1> QED
  BY <1>3

\* A set of numbers up to n has a largest.
LEMMA MaxIn ==
  ASSUME NEW n \in Nat, NEW T \in SUBSET (1..n), T # {}
  PROVE  Max(T) \in T /\ \A y \in T : Max(T) >= y
<1> DEFINE I == {i \in 0..n : n - i \in T}
<1>1. I # {}
  <2>1. PICK t \in T : TRUE
    OBVIOUS
  <2>2. n - t \in 0..n /\ n - (n - t) = t
    BY <2>1
  <2>3. n - t \in I
    BY <2>1, <2>2
  <2> HIDE DEF I
  <2> QED
    BY <2>3
<1>6. I \subseteq Nat
  OBVIOUS
<1> HIDE DEF I
<1>2. PICK i \in I : \A j \in I : i <= j
  BY <1>1, <1>6, LeastExists
<1>3. n - i \in T /\ \A t \in T : n - t >= i
  <2>1. ASSUME NEW t \in T PROVE n - t >= i
    <3>1. n - t \in 0..n /\ n - (n - t) = t
      OBVIOUS
    <3> QED
      BY <1>2, <3>1 DEF I
  <2> QED
    BY <1>2, <2>1 DEF I
<1>4. \A y \in T : n - i >= y
  BY <1>2, <1>3 DEF I
<1>5. \E x \in T : \A y \in T : x >= y
  BY <1>3, <1>4
<1> QED
  BY <1>5 DEF Max

-----------------------------------------------------------------------------
(* Loops. *)

\* One turn of a loop over positions, G[i] being the body at position i.
Turn(G, b, f, T) == IF T = {} THEN b ELSE G[Max(T)][f[T \ {Max(T)}]]

Body(G, V, n) == G \in [1..n -> [V -> V]]
Solution(f, V, n, b, G) ==
  /\ f \in [SUBSET (1..n) -> V]
  /\ \A T \in SUBSET (1..n) : f[T] = Turn(G, b, f, T)

\* The recursion of the library's fold has a solution.
LEMMA LoopExists ==
  ASSUME NEW V, NEW n \in Nat, NEW b \in V, NEW G, Body(G, V, n)
  PROVE  \E f : Solution(f, V, n, b, G)
<1>s. PICK S : S = 1..n
  OBVIOUS
<1> DEFINE Right(f, m) == \A T \in SUBSET S : Cardinality(T) <= m => f[T] = Turn(G, b, f, T)
           N == {m \in Nat : \E f \in [SUBSET S -> V] : Right(f, m)}
<1>0. IsFiniteSet(S)
  <2>1. 1 \in Int /\ n \in Int
    OBVIOUS
  <2>2. IsFiniteSet(1..n)
    BY <2>1, FS_Interval, Zenon
  <2> QED
    BY <1>s, <2>2
<1>1. 0 \in N
  <2> DEFINE z == [T \in SUBSET S |-> b]
  <2>1. ASSUME NEW T \in SUBSET S, Cardinality(T) <= 0 PROVE T = {}
    BY <1>0, <2>1, FS_Subset, FS_CardinalityType, FS_EmptySet
  <2>2. z \in [SUBSET S -> V] /\ Right(z, 0)
    BY <2>1 DEF Turn
  <2> QED
    BY <2>2
<1>2. ASSUME NEW m \in Nat, m \in N PROVE m + 1 \in N
  <2>1. PICK f \in [SUBSET S -> V] : Right(f, m)
    BY <1>2
  <2> DEFINE g == [T \in SUBSET S |-> Turn(G, b, f, T)]
  <2>2. ASSUME NEW T \in SUBSET S, T # {}
        PROVE  Max(T) \in S /\ T \ {Max(T)} \in SUBSET S
    BY <1>s, <2>2, MaxIn
  <2>3. g \in [SUBSET S -> V]
    BY <1>s, <2>2 DEF Turn, Body
  <2>4. ASSUME NEW T \in SUBSET S, Cardinality(T) <= m + 1
        PROVE  Turn(G, b, f, T) = Turn(G, b, g, T)
    <3>1. CASE T = {}
      BY <3>1 DEF Turn
    <3>2. CASE T # {}
      <4> DEFINE B == T \ {Max(T)}
      <4>1. B \in SUBSET S /\ Max(T) \in T
        BY <1>s, <2>2, <3>2, MaxIn
      <4>2. Cardinality(B) <= m
        BY <1>0, <2>4, <4>1, PartSize
      <4>3. g[B] = f[B]
        BY <2>1, <4>1, <4>2
      <4> QED
        BY <3>2, <4>3 DEF Turn
    <3> QED
      BY <3>1, <3>2
  <2>5. Right(g, m + 1)
    BY <2>4
  <2>6. m + 1 \in Nat
    OBVIOUS
  <2> HIDE DEF g, Right
  <2> QED
    BY <2>3, <2>5, <2>6
<1>3. Cardinality(S) \in N
  <2> HIDE DEF N
  <2> QED
    BY <1>0, <1>1, <1>2, NumbersByInduction, FS_CardinalityType
<1>4. PICK f \in [SUBSET S -> V] : Right(f, Cardinality(S))
  BY <1>3
<1>5. \A T \in SUBSET S : f[T] = Turn(G, b, f, T)
  BY <1>0, <1>4, FS_Subset
<1> QED
  BY <1>s, <1>5 DEF Solution

\* What a solution of the recursion says of b and G, wherever it is typed.
Loops(f, V, n, b, G) ==
  \A T \in SUBSET (1..n) :
    IF T = {} THEN f[T] = b
    ELSE f[T \ {Max(T)}] \in V => f[T] = G[Max(T)][f[T \ {Max(T)}]]

Values(f, V, n, b, G) ==
  /\ f[1..0] = b
  /\ \A k \in 0..n : f[1..k] \in V
  /\ \A k \in 1..n : f[1..k] = G[k][f[1..(k - 1)]]

\* The values along a loop: the first, and each from the one before.
LEMMA LoopValues ==
  ASSUME NEW V, NEW n \in Nat, NEW b \in V, NEW G, Body(G, V, n),
         NEW f, Loops(f, V, n, b, G)
  PROVE  Values(f, V, n, b, G)
<1>1. f[1..0] = b
  <2>1. 1..0 = {} /\ {} \in SUBSET (1..n)
    OBVIOUS
  <2> QED
    BY <2>1 DEF Loops
<1>2. ASSUME NEW k \in 1..n, f[1..(k - 1)] \in V
      PROVE  f[1..k] = G[k][f[1..(k - 1)]] /\ f[1..k] \in V
  <2>1. 1..k \in SUBSET (1..n) /\ 1..k # {}
    <3>1. k \in 1..k /\ 1..k \subseteq 1..n
      OBVIOUS
    <3> QED
      BY <3>1
  <2>2. Max(1..k) = k /\ (1..k) \ {Max(1..k)} = 1..(k - 1)
    BY MaxUpTo
  <2>3. f[1..k] = G[k][f[1..(k - 1)]]
    BY <1>2, <2>1, <2>2 DEF Loops
  <2> QED
    BY <1>2, <2>3 DEF Body
<1> DEFINE N == {k \in Nat : k <= n => f[1..k] \in V}
<1>3. 0 \in N
  BY <1>1
<1>4. ASSUME NEW k \in Nat, k \in N PROVE k + 1 \in N
  <2> SUFFICES ASSUME k + 1 <= n PROVE f[1..(k + 1)] \in V
    OBVIOUS
  <2>1. k + 1 \in 1..n /\ (k + 1) - 1 = k /\ f[1..k] \in V
    BY <1>4
  <2> QED
    BY <1>2, <2>1
<1> HIDE DEF N
<1>5. Nat \subseteq N
  BY <1>3, <1>4, NumbersByInduction
<1>6. \A k \in 0..n : f[1..k] \in V
  BY <1>5 DEF N
<1> QED
  BY <1>1, <1>2, <1>6 DEF Values

\* A loop over one more position takes one more step from where it was.
LEMMA LoopExtends ==
  ASSUME NEW V, NEW n \in Nat, NEW b \in V,
         NEW G, Body(G, V, n), NEW H, Body(H, V, n + 1),
         \A k \in 1..n : H[k] = G[k],
         NEW f, Loops(f, V, n, b, G), NEW h, Loops(h, V, n + 1, b, H)
  PROVE  /\ f[1..n] \in V
         /\ h[1..(n + 1)] = H[n + 1][f[1..n]]
<1>1. /\ f[1..0] = b /\ \A k \in 0..n : f[1..k] \in V
      /\ \A k \in 1..n : f[1..k] = G[k][f[1..(k - 1)]]
  <2>1. Values(f, V, n, b, G)
    BY LoopValues
  <2> QED
    BY <2>1 DEF Values
<1>2. /\ h[1..0] = b
      /\ \A k \in 1..(n + 1) : h[1..k] = H[k][h[1..(k - 1)]]
  <2>1. n + 1 \in Nat
    OBVIOUS
  <2>2. Values(h, V, n + 1, b, H)
    BY <2>1, LoopValues
  <2> QED
    BY <2>2 DEF Values
<1> DEFINE N == {k \in Nat : k <= n => f[1..k] = h[1..k]}
<1>3. 0 \in N
  BY <1>1, <1>2
<1>4. ASSUME NEW k \in Nat, k \in N PROVE k + 1 \in N
  <2> SUFFICES ASSUME k + 1 <= n PROVE f[1..(k + 1)] = h[1..(k + 1)]
    OBVIOUS
  <2>1. k + 1 \in 1..n /\ k + 1 \in 1..(n + 1) /\ (k + 1) - 1 = k /\ f[1..k] = h[1..k]
    BY <1>4
  <2> QED
    BY <1>1, <1>2, <2>1
<1> HIDE DEF N
<1>5. n \in N
  BY <1>3, <1>4, NumbersByInduction
<1>6. f[1..n] = h[1..n] /\ n + 1 \in 1..(n + 1) /\ (n + 1) - 1 = n
  BY <1>5 DEF N
<1> QED
  BY <1>1, <1>2, <1>6

\* The body that takes one step for each element of s.
BodyOf(step, s) == [i \in 1..Len(s) |-> step[s[i]]]

LEMMA BodyType ==
  ASSUME NEW C, NEW V, NEW step \in [C -> [V -> V]], NEW s \in Seq(C)
  PROVE  Body(BodyOf(step, s), V, Len(s)) /\ Len(s) \in Nat
<1>1. \A i \in 1..Len(s) : s[i] \in C
  OBVIOUS
<1> QED
  BY <1>1 DEF BodyOf, Body

Folds(F, C, V, b, step) ==
  \A s \in Seq(C) :
    \E f : Loops(f, V, Len(s), b, BodyOf(step, s)) /\ F[s] = f[1..Len(s)]

Steps(F, C, V, b, step) ==
  /\ F[<<>>] = b
  /\ \A s \in Seq(C) : F[s] \in V
  /\ \A s \in Seq(C), c \in C : F[Append(s, c)] = step[c][F[s]]

\* A fold over sequences, by its first value and its step.
LEMMA FoldSteps ==
  ASSUME NEW C, NEW V, NEW b \in V, NEW step \in [C -> [V -> V]],
         NEW F, Folds(F, C, V, b, step)
  PROVE  Steps(F, C, V, b, step)
<1>1. ASSUME NEW s \in Seq(C), NEW c \in C
      PROVE  F[Append(s, c)] = step[c][F[s]]
  <2> DEFINE t == Append(s, c)
             n == Len(s)
  <2>1. t \in Seq(C) /\ Len(t) = n + 1 /\ t[n + 1] = c /\ \A i \in 1..n : t[i] = s[i]
    OBVIOUS
  <2>2. PICK f : Loops(f, V, n, b, BodyOf(step, s)) /\ F[s] = f[1..n]
    BY DEF Folds
  <2>3. PICK h : Loops(h, V, n + 1, b, BodyOf(step, t)) /\ F[t] = h[1..(n + 1)]
    BY <2>1 DEF Folds
  <2>4. \A k \in 1..n : BodyOf(step, t)[k] = BodyOf(step, s)[k]
    BY <2>1 DEF BodyOf
  <2> HIDE DEF t
  <2>5. h[1..(n + 1)] = BodyOf(step, t)[n + 1][f[1..n]]
    <3>1. Body(BodyOf(step, t), V, n + 1) /\ Body(BodyOf(step, s), V, n) /\ n \in Nat
      BY <2>1, BodyType
    <3> QED
      BY <2>2, <2>3, <2>4, <3>1, LoopExtends
  <2>6. BodyOf(step, t)[n + 1] = step[c]
    BY <2>1 DEF BodyOf
  <2> QED
    BY <2>2, <2>3, <2>5, <2>6 DEF t
<1>2. ASSUME NEW s \in Seq(C)
      PROVE  F[s] \in V /\ (s = <<>> => F[s] = b)
  <2>1. PICK f : Loops(f, V, Len(s), b, BodyOf(step, s)) /\ F[s] = f[1..Len(s)]
    BY DEF Folds
  <2>2. Values(f, V, Len(s), b, BodyOf(step, s))
    BY <2>1, BodyType, LoopValues
  <2>3. Len(s) \in 0..Len(s) /\ (s = <<>> => Len(s) = 0)
    OBVIOUS
  <2> QED
    BY <2>1, <2>2, <2>3 DEF Values
<1> QED
  <2>1. <<>> \in Seq(C)
    OBVIOUS
  <2> QED
    BY <1>1, <1>2, <2>1 DEF Steps

\* A function that takes the step wherever it is typed loops over the body.
LEMMA StepLoops ==
  ASSUME NEW C, NEW V, NEW b \in V, NEW step \in [C -> [V -> V]], NEW s \in Seq(C), NEW f,
         f[{}] = b,
         \A T \in SUBSET (1..Len(s)), i \in 1..Len(s) :
           T # {} /\ i = Max(T) /\ f[T \ {i}] \in V => f[T] = step[s[i]][f[T \ {i}]]
  PROVE  Loops(f, V, Len(s), b, BodyOf(step, s))
<1>1. ASSUME NEW T \in SUBSET (1..Len(s)), T # {}, f[T \ {Max(T)}] \in V
      PROVE  f[T] = BodyOf(step, s)[Max(T)][f[T \ {Max(T)}]]
  <2>1. Max(T) \in 1..Len(s)
    BY <1>1, MaxIn, BodyType
  <2>2. f[T] = step[s[Max(T)]][f[T \ {Max(T)}]]
    BY <1>1, <2>1
  <2> QED
    BY <2>1, <2>2 DEF BodyOf
<1> QED
  BY <1>1 DEF Loops

Taken(g, C, V, b, step, s) ==
  /\ g = [T \in SUBSET DOMAIN s |-> g[T]]
  /\ g[{}] = b
  /\ \A T \in SUBSET DOMAIN s : T # {} =>
       /\ s[Max(T)] \in C /\ g[T \ {Max(T)}] \in V
       /\ g[T] = step[s[Max(T)]][g[T \ {Max(T)}]]

\* There is a function that takes the step.
LEMMA StepSolution ==
  ASSUME NEW C, NEW V, NEW b \in V, NEW step \in [C -> [V -> V]], NEW s \in Seq(C)
  PROVE  \E g : Taken(g, C, V, b, step, s)
<1>1. PICK g : Solution(g, V, Len(s), b, BodyOf(step, s))
  BY BodyType, LoopExists
<1>2. Len(s) \in Nat /\ DOMAIN s = 1..Len(s) /\ \A i \in DOMAIN s : s[i] \in C
  OBVIOUS
<1>3. ASSUME NEW T \in SUBSET DOMAIN s, T # {}
      PROVE  /\ Max(T) \in DOMAIN s
             /\ s[Max(T)] \in C /\ g[T \ {Max(T)}] \in V
             /\ g[T] = step[s[Max(T)]][g[T \ {Max(T)}]]
  <2>1. Max(T) \in DOMAIN s
    BY <1>2, <1>3, MaxIn
  <2>2. g[T \ {Max(T)}] \in V
    BY <1>1, <1>2 DEF Solution
  <2>3. g[T] = BodyOf(step, s)[Max(T)][g[T \ {Max(T)}]]
    BY <1>1, <1>2, <1>3 DEF Solution, Turn
  <2> QED
    BY <1>2, <2>1, <2>2, <2>3 DEF BodyOf
<1>4. g = [T \in SUBSET DOMAIN s |-> g[T]] /\ g[{}] = b
  BY <1>1, <1>2 DEF Solution, Turn
<1> QED
  BY <1>3, <1>4 DEF Taken

-----------------------------------------------------------------------------
(* strings.Split. *)

SplitStep(pieces, c, separator) ==
  IF c = separator THEN Append(pieces, <<>>)
  ELSE [pieces EXCEPT ![Len(pieces)] = Append(@, c)]

Pieces(C) == Seq(Seq(C)) \ {<<>>}

\* A step of Split keeps at least one piece.
LEMMA SplitStepType ==
  ASSUME NEW C, NEW c \in C, NEW p \in Pieces(C), NEW separator
  PROVE  SplitStep(p, c, separator) \in Pieces(C)
BY DEF SplitStep, Pieces

SplitSolves(f, s, separator) ==
  f = [T \in SUBSET DOMAIN s |->
         IF T = {} THEN <<<<>>>> ELSE SplitStep(f[T \ {Max(T)}], s[Max(T)], separator)]

\* Split is a solution of its recursion, at all the positions.
LEMMA SplitIsSolution ==
  ASSUME NEW s, NEW separator
  PROVE  Split(s, separator) = (CHOOSE f : SplitSolves(f, s, separator))[DOMAIN s]
BY Zenon DEF Split, SplitStep, FoldLeft, MapThenFoldSet, SplitSolves

\* Split, by its first value and its step.
LEMMA SplitSteps ==
  ASSUME NEW C, NEW separator
  PROVE  /\ Split(<<>>, separator) = <<<<>>>>
         /\ \A s \in Seq(C) : Split(s, separator) \in Pieces(C)
         /\ \A s \in Seq(C), c \in C :
              Split(Append(s, c), separator) = SplitStep(Split(s, separator), c, separator)
<1> DEFINE V == Pieces(C)
           D == C
           step == [c \in D |-> [a \in V |-> SplitStep(a, c, separator)]]
           F == [s \in Seq(D) |-> Split(s, separator)]
<1>1. step \in [D -> [V -> V]] /\ <<<<>>>> \in V
  BY SplitStepType DEF Pieces
<1>2. \A c \in D, a \in V : step[c][a] = SplitStep(a, c, separator)
  OBVIOUS
<1> HIDE DEF V, D, step
<1>3. ASSUME NEW s \in Seq(D)
      PROVE  \E f : /\ Loops(f, V, Len(s), <<<<>>>>, BodyOf(step, s))
                   /\ Split(s, separator) = f[1..Len(s)]
  <2>1. DOMAIN s = 1..Len(s) /\ \A i \in 1..Len(s) : s[i] \in D
    OBVIOUS
  <2>2. \E g : SplitSolves(g, s, separator)
    <3>1. PICK g : Taken(g, D, V, <<<<>>>>, step, s)
      BY <1>1, StepSolution
    <3>2. SplitSolves(g, s, separator)
      BY <1>2, <3>1 DEF SplitSolves, Taken
    <3> QED
      BY <3>2
  <2>3. PICK f : SplitSolves(f, s, separator) /\ Split(s, separator) = f[DOMAIN s]
    BY <2>2, SplitIsSolution
  <2>4. Loops(f, V, Len(s), <<<<>>>>, BodyOf(step, s))
    <3>1. f[{}] = <<<<>>>>
      BY <2>3 DEF SplitSolves
    <3>2. ASSUME NEW T \in SUBSET (1..Len(s)), NEW i \in 1..Len(s),
                 T # {}, i = Max(T), f[T \ {i}] \in V
          PROVE  f[T] = step[s[i]][f[T \ {i}]]
      <4>1. f[T] = SplitStep(f[T \ {i}], s[i], separator)
        BY <2>1, <2>3, <3>2 DEF SplitSolves
      <4> QED
        BY <1>2, <2>1, <3>2, <4>1
    <3> QED
      BY <1>1, <3>1, <3>2, StepLoops
  <2> QED
    BY <2>1, <2>3, <2>4
<1>4. Steps(F, D, V, <<<<>>>>, step)
  <2>1. Folds(F, D, V, <<<<>>>>, step)
    BY <1>3 DEF Folds
  <2> HIDE DEF F
  <2> QED
    BY <1>1, <2>1, FoldSteps
<1>5. <<>> \in Seq(D) /\ \A s \in Seq(D), c \in D : Append(s, c) \in Seq(D)
  OBVIOUS
<1> QED
  BY <1>2, <1>4, <1>5 DEF V, D, Steps

-----------------------------------------------------------------------------
(* Cutting what was joined. *)

Without(C, d) == Seq(C \ {d})

\* Words without a separator are texts, and grow by a character.
LEMMA WithoutType ==
  ASSUME NEW C, NEW d
  PROVE  /\ Without(C, d) \subseteq Seq(C) /\ <<>> \in Without(C, d)
         /\ \A w \in Without(C, d), c \in C : c # d => Append(w, c) \in Without(C, d)
BY DEF Without

\* Pieces of characters other than the separator are pieces.
LEMMA WithoutPieces ==
  ASSUME NEW C, NEW d, NEW ps \in Seq(Without(C, d))
  PROVE  ps \in Seq(Seq(C)) /\ (ps # <<>> => ps \in Pieces(C))
<1>1. PICK A, B : A = Without(C, d) /\ B = Seq(C)
  OBVIOUS
<1>2. A \subseteq B
  BY <1>1, WithoutType
<1>3. ps \in Seq(B)
  BY <1>1, <1>2
<1> QED
  BY <1>1, <1>3 DEF Pieces

\* Appending to a concatenation.
LEMMA AppendConcat ==
  ASSUME NEW C, NEW s \in Seq(C), NEW t \in Seq(C), NEW c \in C
  PROVE  Append(s \o t, c) = s \o Append(t, c) /\ Append(s, c) = s \o <<c>>
<1>1. s \o t \in Seq(C) /\ <<c>> \in Seq(C)
  OBVIOUS
<1>2. Append(s \o t, c) = (s \o t) \o <<c>> /\ Append(t, c) = t \o <<c>> /\ Append(s, c) = s \o <<c>>
  BY <1>1, AppendIsConcat
<1> QED
  BY <1>1, <1>2, ConcatAssociative

Concatenates(S) == \A x, y \in S : x \o y \in S
Associates(S) == \A x, y, z \in S : (x \o y) \o z = x \o (y \o z)

\* Concatenation, over a set of texts.
LEMMA Concats ==
  ASSUME NEW C
  PROVE  Concatenates(Seq(C)) /\ Associates(Seq(C))
<1>s. PICK S : S = Seq(C)
  OBVIOUS
<1>1. \A x, y \in S : x \o y \in S
  BY <1>s
<1>2. \A x, y, z \in S : (x \o y) \o z = x \o (y \o z)
  BY <1>s, ConcatAssociative
<1>4. Concatenates(S)
  BY <1>1 DEF Concatenates
<1>5. Associates(S)
  BY <1>2, Zenon DEF Associates
<1> QED
  BY <1>s, <1>4, <1>5

Cat(x, y) == x \o y

\* Four texts, in two ways.
LEMMA ConcatFour ==
  ASSUME NEW S, Concatenates(S), Associates(S),
         NEW x \in S, NEW y \in S, NEW z \in S, NEW u \in S
  PROVE  Cat(Cat(Cat(x, y), z), u) = Cat(x, Cat(Cat(y, z), u))
<1>1. PICK v : v = y \o z
  OBVIOUS
<1>3. v \in S
  BY <1>1 DEF Concatenates
<1>4. (x \o y) \o z = x \o v
  BY <1>1 DEF Associates
<1>5. (x \o v) \o u = x \o (v \o u)
  BY <1>3 DEF Associates
<1> QED
  BY <1>1, <1>4, <1>5 DEF Cat

\* Two characters.
LEMMA AppendTwo ==
  ASSUME NEW k, NEW m
  PROVE  Append(<<k>>, m) = <<k, m>>
<1>1. PICK S : S = {k, m}
  OBVIOUS
<1>2. PICK a, b : a = Append(<<k>>, m) /\ b = <<k, m>>
  OBVIOUS
<1>3. a \in Seq(S) /\ Len(a) = 2 /\ a[1] = k /\ a[2] = m
  BY <1>1, <1>2
<1>4. b \in Seq(S) /\ Len(b) = 2 /\ b[1] = k /\ b[2] = m
  BY <1>1, <1>2
<1>5. \A i \in 1..2 : i = 1 \/ i = 2
  OBVIOUS
<1>6. a = b
  BY <1>3, <1>4, <1>5, SeqEqual
<1> QED
  BY <1>2, <1>6

\* The pieces with more in the last one.
Grown(p, w) == [p EXCEPT ![Len(p)] = @ \o w]

\* What becomes of the last piece.
LEMMA GrownFacts ==
  ASSUME NEW C, NEW p \in Pieces(C), NEW w \in Seq(C)
  PROVE  /\ Grown(p, w) \in Pieces(C) /\ Grown(p, <<>>) = p
         /\ Grown(<<<<>>>>, w) = <<w>>
         /\ Grown(Append(p, <<>>), w) = Append(p, w)
         /\ \A d : \A c \in C : c # d => SplitStep(Grown(p, w), c, d) = Grown(p, Append(w, c))
<1>s. PICK S : S = Seq(C)
  OBVIOUS
<1>n. PICK n, x : n = Len(p) /\ x = p[n]
  OBVIOUS
<1>1. p \in Seq(S) /\ p # <<>> /\ <<>> \in S /\ w \in S
  BY <1>s DEF Pieces
<1>2. n \in Nat \ {0} /\ p \in [1..n -> S]
  BY <1>n, <1>1
<1>3. x \in S
  BY <1>n, <1>2
<1>4. x \o w \in S /\ x \o <<>> = x /\ <<>> \o w = w
  BY <1>s, <1>3, ConcatEmptySeq, ConcatProperties
<1>5. \A v : Grown(p, v) = [p EXCEPT ![n] = x \o v]
  BY <1>n DEF Grown
<1>6. Grown(p, w) \in Seq(S) /\ Grown(p, w) # <<>> /\ Len(Grown(p, w)) = n
  <2>1. n \in 1..Len(p)
    BY <1>n, <1>2
  <2>2. [p EXCEPT ![n] = x \o w] \in Seq(S) /\ Len([p EXCEPT ![n] = x \o w]) = n
    BY <1>n, <1>1, <1>4, <2>1, ExceptSeq
  <2>3. PICK g : g = [p EXCEPT ![n] = x \o w]
    OBVIOUS
  <2>4. Grown(p, w) = g
    BY <1>5, <2>3
  <2>5. g \in Seq(S) /\ Len(g) = n /\ n > 0
    BY <1>2, <2>2, <2>3
  <2> QED
    BY <2>4, <2>5
<1>7. Grown(p, <<>>) = p
  <2>1. [p EXCEPT ![n] = x] = p
    BY <1>2, <1>n
  <2> QED
    BY <1>4, <1>5, <2>1
<1>8. Grown(<<<<>>>>, w) = <<w>>
  <2>1. Len(<<<<>>>>) = 1 /\ <<<<>>>>[1] = <<>>
    OBVIOUS
  <2>2. Grown(<<<<>>>>, w) = [<<<<>>>> EXCEPT ![1] = w]
    BY <1>4, <2>1 DEF Grown
  <2> QED
    BY <2>2
<1>9. Grown(Append(p, <<>>), w) = Append(p, w)
  <2> DEFINE q == Append(p, <<>>)
  <2>1. q \in Seq(S) /\ Len(q) = n + 1 /\ q[n + 1] = <<>> /\ \A i \in 1..n : q[i] = p[i]
    BY <1>1, <1>n, AppendProperties
  <2>2. Grown(q, w) = [q EXCEPT ![n + 1] = w]
    <3> HIDE DEF q
    <3> QED
      BY <1>4, <2>1 DEF Grown
  <2>3. Append(p, w) \in Seq(S) /\ Len(Append(p, w)) = n + 1 /\ Append(p, w)[n + 1] = w
        /\ \A i \in 1..n : Append(p, w)[i] = p[i]
    BY <1>1, <1>n, AppendProperties
  <2> HIDE DEF q
  <2>4. /\ [q EXCEPT ![n + 1] = w] \in Seq(S) /\ Len([q EXCEPT ![n + 1] = w]) = n + 1
        /\ [q EXCEPT ![n + 1] = w][n + 1] = w
        /\ \A i \in 1..n : [q EXCEPT ![n + 1] = w][i] = p[i]
    BY <1>1, <1>2, <2>1
  <2>5. [q EXCEPT ![n + 1] = w] = Append(p, w)
    <3>1. \A i \in 1..(n + 1) : i = n + 1 \/ i \in 1..n
      BY <1>2
    <3> QED
      <4>1. PICK l, r : l = [q EXCEPT ![n + 1] = w] /\ r = Append(p, w)
        OBVIOUS
      <4>2. /\ l \in Seq(S) /\ r \in Seq(S) /\ Len(l) = Len(r)
            /\ \A i \in 1..Len(l) : l[i] = r[i]
        BY <2>3, <2>4, <3>1, <4>1
      <4>3. l = r
        BY <4>2, SeqEqual
      <4> QED
        BY <4>1, <4>3
  <2> QED
    BY <2>2, <2>5 DEF q
<1>10. ASSUME NEW c \in C, NEW d, c # d
       PROVE  SplitStep(Grown(p, w), c, d) = Grown(p, Append(w, c))
  <2>1. SplitStep(Grown(p, w), c, d) = [Grown(p, w) EXCEPT ![n] = Append(@, c)]
    BY <1>6, <1>10 DEF SplitStep
  <2>2. SplitStep(Grown(p, w), c, d) = [p EXCEPT ![n] = Append(x \o w, c)]
    BY <1>2, <1>5, <2>1
  <2>3. Append(x \o w, c) = x \o Append(w, c)
    <3>1. PICK y, u : y = x /\ u = <<c>>
      OBVIOUS
    <3>2. y \in Seq(C) /\ u \in Seq(C) /\ w \in Seq(C)
      BY <1>s, <1>3, <1>10, <3>1
    <3>3. y \o w \in Seq(C)
      BY <3>2
    <3>4. Append(y \o w, c) = (y \o w) \o u
      BY <1>10, <3>1, <3>3, AppendIsConcat
    <3>5. Append(w, c) = w \o u
      BY <1>10, <3>1, AppendIsConcat
    <3>6. (y \o w) \o u = y \o (w \o u)
      BY <3>2, ConcatAssociative
    <3> QED
      BY <3>1, <3>4, <3>5, <3>6
  <2> QED
    BY <1>5, <2>2, <2>3
<1> QED
  BY <1>s, <1>6, <1>7, <1>8, <1>9, <1>10 DEF Pieces

\* A piece of characters other than the separator stays in one piece.
LEMMA SplitWord ==
  ASSUME NEW C, NEW d, NEW a \in Seq(C), NEW w \in Without(C, d)
  PROVE  Split(a \o w, d) = Grown(Split(a, d), w)
<1> DEFINE Q == {v \in Without(C, d) : Split(a \o v, d) = Grown(Split(a, d), v)}
<1>1. Split(a, d) \in Pieces(C)
  BY SplitSteps
<1>2. \A v \in Without(C, d) : v \in Seq(C) /\ a \o v \in Seq(C)
  <2>1. \A v \in Seq(C) : a \o v \in Seq(C)
    OBVIOUS
  <2> QED
    BY <2>1, WithoutType
<1>3. <<>> \in Q
  <2>1. <<>> \in Without(C, d)
    BY WithoutType
  <2>2. a \o <<>> = a
    BY ConcatEmptySeq
  <2>3. Grown(Split(a, d), <<>>) = Split(a, d)
    BY <1>1, <1>2, <2>1, GrownFacts
  <2> QED
    BY <2>1, <2>2, <2>3
<1>4. ASSUME NEW v \in Without(C, d), NEW c \in C \ {d}, v \in Q PROVE Append(v, c) \in Q
  <2>1. v \in Seq(C) /\ c \in C /\ c # d /\ a \o v \in Seq(C)
    BY <1>2
  <2>2. Split(a \o v, d) = Grown(Split(a, d), v)
    BY <1>4
  <2>3. a \o Append(v, c) = Append(a \o v, c)
    BY <2>1, AppendConcat
  <2>4. Split(Append(a \o v, c), d) = SplitStep(Split(a \o v, d), c, d)
    BY <2>1, SplitSteps
  <2>5. SplitStep(Grown(Split(a, d), v), c, d) = Grown(Split(a, d), Append(v, c))
    BY <1>1, <2>1, GrownFacts
  <2>6. Append(v, c) \in Without(C, d)
    BY <2>1, WithoutType
  <2>7. Split(a \o Append(v, c), d) = Grown(Split(a, d), Append(v, c))
    BY <2>2, <2>3, <2>4, <2>5
  <2> QED
    BY <2>6, <2>7
<1> HIDE DEF Q
<1>5. w \in Q
  <2>1. Seq(C \ {d}) \subseteq Q
    BY <1>3, <1>4, SequencesByInduction DEF Without
  <2> QED
    BY <2>1 DEF Without
<1> QED
  BY <1>5 DEF Q

\* A piece after a separator is one more piece.
LEMMA SplitAppends ==
  ASSUME NEW C, NEW d \in C, NEW a \in Seq(C), NEW w \in Without(C, d)
  PROVE  /\ Split(a \o <<d>> \o w, d) = Append(Split(a, d), w)
         /\ a \o <<d>> \o w \in Seq(C)
<1>1. Split(a, d) \in Pieces(C)
  BY SplitSteps
<1>2. Append(a, d) = a \o <<d>> /\ Append(a, d) \in Seq(C) /\ w \in Seq(C)
  <2>1. w \in Seq(C)
    BY WithoutType
  <2>2. Append(a, d) = a \o <<d>>
    BY AppendIsConcat
  <2> QED
    BY <2>1, <2>2
<1>3. Split(Append(a, d), d) = Append(Split(a, d), <<>>)
  BY SplitSteps DEF SplitStep
<1>4. Split(Append(a, d) \o w, d) = Grown(Append(Split(a, d), <<>>), w)
  <2>1. Append(a, d) \in Seq(C)
    BY <1>2
  <2>2. Split(Append(a, d) \o w, d) = Grown(Split(Append(a, d), d), w)
    BY <2>1, SplitWord, Zenon
  <2> QED
    BY <1>3, <2>2
<1>5. Grown(Append(Split(a, d), <<>>), w) = Append(Split(a, d), w)
  BY <1>1, <1>2, GrownFacts
<1> QED
  BY <1>2, <1>4, <1>5

\* A word has one piece.
LEMMA SplitOne ==
  ASSUME NEW C, NEW d, NEW w \in Without(C, d)
  PROVE  Split(w, d) = <<w>>
<1>1. <<>> \o w = w /\ <<>> \in Seq(C) /\ w \in Seq(C)
  <2>1. w \in Seq(C) /\ <<>> \in Seq(C)
    BY WithoutType
  <2> QED
    BY <2>1, ConcatEmptySeq
<1>2. Split(<<>>, d) = <<<<>>>> /\ <<<<>>>> \in Pieces(C)
  BY <1>1, SplitSteps
<1>3. Split(<<>> \o w, d) = Grown(<<<<>>>>, w)
  <2>1. \A e \in Seq(C) : Split(e \o w, d) = Grown(Split(e, d), w)
    BY SplitWord
  <2> QED
    BY <1>1, <1>2, <2>1
<1> QED
  BY <1>1, <1>2, <1>3, GrownFacts

\* Prefixing pieces gives a text.
LEMMA PrefixedStepType ==
  ASSUME NEW C, NEW d \in C
  PROVE  /\ <<>> \in Seq(C)
         /\ \A a \in Seq(C), c \in Seq(C) : a \o <<d>> \o c \in Seq(C)
OBVIOUS

PrefixedSolves(f, s, d) ==
  f = [T \in SUBSET DOMAIN s |->
         IF T = {} THEN <<>> ELSE f[T \ {Max(T)}] \o <<d>> \o s[Max(T)]]

\* Prefixing is a solution of its recursion, at all the positions.
LEMMA PrefixedIsSolution ==
  ASSUME NEW s, NEW d
  PROVE  Prefixed(s, d) = (CHOOSE f : PrefixedSolves(f, s, d))[DOMAIN s]
BY Zenon DEF Prefixed, FoldLeft, MapThenFoldSet, PrefixedSolves

\* Prefixing, by its first value and its step.
LEMMA PrefixedSteps ==
  ASSUME NEW C, NEW d \in C
  PROVE  /\ Prefixed(<<>>, d) = <<>>
         /\ \A s \in Seq(Seq(C)) : Prefixed(s, d) \in Seq(C)
         /\ \A s \in Seq(Seq(C)), c \in Seq(C) :
              Prefixed(Append(s, c), d) = Prefixed(s, d) \o <<d>> \o c
<1> DEFINE V == Seq(C)
           D == Seq(C)
           step == [c \in D |-> [a \in V |-> a \o <<d>> \o c]]
           F == [s \in Seq(D) |-> Prefixed(s, d)]
<1>1. step \in [D -> [V -> V]] /\ <<>> \in V
  BY PrefixedStepType
<1>2. \A c \in D, a \in V : step[c][a] = a \o <<d>> \o c
  OBVIOUS
<1> HIDE DEF V, D, step
<1>3. ASSUME NEW s \in Seq(D)
      PROVE  \E f : /\ Loops(f, V, Len(s), <<>>, BodyOf(step, s))
                   /\ Prefixed(s, d) = f[1..Len(s)]
  <2>1. DOMAIN s = 1..Len(s) /\ \A i \in 1..Len(s) : s[i] \in D
    OBVIOUS
  <2>2. \E g : PrefixedSolves(g, s, d)
    <3>1. PICK g : Taken(g, D, V, <<>>, step, s)
      BY <1>1, StepSolution
    <3>2. PrefixedSolves(g, s, d)
      BY <1>2, <3>1 DEF PrefixedSolves, Taken
    <3> QED
      BY <3>2
  <2>3. PICK f : PrefixedSolves(f, s, d) /\ Prefixed(s, d) = f[DOMAIN s]
    BY <2>2, PrefixedIsSolution
  <2>4. Loops(f, V, Len(s), <<>>, BodyOf(step, s))
    <3>1. f[{}] = <<>>
      BY <2>3 DEF PrefixedSolves
    <3>2. ASSUME NEW T \in SUBSET (1..Len(s)), NEW i \in 1..Len(s),
                 T # {}, i = Max(T), f[T \ {i}] \in V
          PROVE  f[T] = step[s[i]][f[T \ {i}]]
      <4>1. f[T] = f[T \ {i}] \o <<d>> \o s[i]
        BY <2>1, <2>3, <3>2 DEF PrefixedSolves
      <4> QED
        BY <1>2, <2>1, <3>2, <4>1
    <3> QED
      BY <1>1, <3>1, <3>2, StepLoops
  <2> QED
    BY <2>1, <2>3, <2>4
<1>4. Steps(F, D, V, <<>>, step)
  <2>1. Folds(F, D, V, <<>>, step)
    BY <1>3 DEF Folds
  <2> HIDE DEF F
  <2> QED
    BY <1>1, <2>1, FoldSteps
<1>5. <<>> \in Seq(D) /\ \A s \in Seq(D), c \in D : Append(s, c) \in Seq(D)
  OBVIOUS
<1> QED
  BY <1>2, <1>4, <1>5 DEF V, D, Steps

\* Cut at the separator, pieces that have none come back.
LEMMA SplitPrefixed ==
  ASSUME NEW C, NEW d \in C, NEW ps \in Seq(Without(C, d))
  PROVE  Split(Prefixed(ps, d), d) = <<<<>>>> \o ps
<1> DEFINE Q == {s \in Seq(Without(C, d)) : Split(Prefixed(s, d), d) = <<<<>>>> \o s}
<1>0. \A s \in Seq(Without(C, d)) : s \in Seq(Seq(C)) /\ Prefixed(s, d) \in Seq(C)
  <2>1. Without(C, d) \subseteq Seq(C)
    BY WithoutType
  <2>2. \A s \in Seq(Without(C, d)) : s \in Seq(Seq(C))
    BY <2>1
  <2> QED
    BY <2>2, PrefixedSteps
<1>1. <<>> \in Q
  <2>1. Split(Prefixed(<<>>, d), d) = <<<<>>>>
    BY PrefixedSteps, SplitSteps
  <2> QED
    BY <2>1
<1>2. ASSUME NEW s \in Seq(Without(C, d)), NEW w \in Without(C, d), s \in Q
      PROVE  Append(s, w) \in Q
  <2>1. w \in Seq(C) /\ Append(s, w) \in Seq(Without(C, d))
    BY WithoutType
  <2>2. Prefixed(Append(s, w), d) = Prefixed(s, d) \o <<d>> \o w
    BY <1>0, <2>1, PrefixedSteps
  <2>3. Split(Prefixed(Append(s, w), d), d) = Append(<<<<>>>> \o s, w)
    BY <1>0, <1>2, <2>2, SplitAppends
  <2>4. Append(<<<<>>>> \o s, w) = <<<<>>>> \o Append(s, w)
    OBVIOUS
  <2> QED
    BY <2>1, <2>3, <2>4
<1> HIDE DEF Q
<1>3. ps \in Q
  BY <1>1, <1>2, SequencesByInduction
<1> QED
  BY <1>3 DEF Q

-----------------------------------------------------------------------------
(* Globs: the greedy walk decides what the glob means, for every pattern and   *)
(* every path.                                                                 *)

\* The piece w stands in s right before position j + 1.
EndsAt(s, w, j) == Len(w) <= j /\ \A i \in 1..Len(w) : s[j - Len(w) + i] = w[i]

Stops(s) == {NoMatch} \cup 0..Len(s)

\* Every non-empty set of positions has a leftmost one.
LEMMA LeftmostExists ==
  ASSUME NEW I, I \subseteq Nat, I # {}
  PROVE  Leftmost(I) \in I /\ \A j \in I : Leftmost(I) <= j
BY LeastExists DEF Leftmost

\* Where a search can end, and that it ends at the first place where the piece does.
LEMMA SearchEnds ==
  ASSUME NEW C, NEW t \in Seq(C), NEW at \in Stops(t), NEW w \in Seq(C)
  PROVE  /\ Search(t, w, at) \in Stops(t)
         /\ \A j \in 0..Len(t) :
              /\ Search(t, w, at) # NoMatch
              /\ Search(t, w, at) <= j
              <=> /\ at # NoMatch
                  /\ \E k \in 0..Len(t) : at + Len(w) <= k /\ EndsAt(t, w, k) /\ k <= j
<1> DEFINE n == Len(t)
           m == Len(w)
           I == Occurrences(t, w, at)
<1>1. n \in Nat /\ m \in Nat /\ DOMAIN w = 1..m
  OBVIOUS
<1>2. CASE at = NoMatch
  BY <1>2 DEF Search, Stops
<1>3. CASE at # NoMatch
  <2>1. at \in 0..n
    BY <1>3 DEF Stops
  <2>2. \A k \in 0..n : at + m <= k /\ EndsAt(t, w, k) <=> k - m \in I
    <3> SUFFICES ASSUME NEW k \in 0..n
                 PROVE  at + m <= k /\ EndsAt(t, w, k) <=> k - m \in I
      OBVIOUS
    <3>1. k - m \in at..(n - m) <=> at + m <= k
      BY <1>1, <2>1
    <3>2. at + m <= k => m <= k
      BY <1>1, <2>1
    <3> QED
      BY <1>1, <3>1, <3>2 DEF EndsAt, Occurrences
  <2>3. I \subseteq Nat /\ \A i \in I : i + m \in 0..n
    BY <1>1, <2>1 DEF Occurrences
  <2> HIDE DEF I, n, m
  <2>4. CASE I = {}
    <3>1. Search(t, w, at) = NoMatch
      BY <1>3, <2>4 DEF Search, I
    <3> QED
      BY <2>2, <2>4, <3>1 DEF Stops, n, m
  <2>5. CASE I # {}
    <3>1. PICK l : l = Leftmost(I)
      OBVIOUS
    <3>2. l \in I /\ \A i \in I : l <= i
      BY <2>3, <2>5, <3>1, LeftmostExists
    <3>3. Search(t, w, at) = l + m
      BY <1>3, <2>5, <3>1 DEF Search, I, m
    <3>4. l \in Nat /\ l + m \in 0..n /\ l + m # NoMatch
      BY <1>1, <2>3, <3>2 DEF NoMatch
    <3>5. at + m <= l + m /\ EndsAt(t, w, l + m)
      <4>1. PICK k : k = l + m
        OBVIOUS
      <4>2. k \in 0..n /\ k - m = l
        BY <1>1, <3>4, <4>1
      <4>3. at + m <= k /\ EndsAt(t, w, k)
        BY <2>2, <3>2, <4>2
      <4> QED
        BY <4>1, <4>3
    <3>6. ASSUME NEW k \in 0..n, at + m <= k, EndsAt(t, w, k)
          PROVE  l + m <= k
      <4>1. k - m \in I
        BY <2>2, <3>6
      <4>2. l <= k - m
        BY <3>2, <4>1
      <4> QED
        BY <1>1, <3>4, <4>2
    <3>7. ASSUME NEW j \in 0..n
          PROVE  l + m <= j <=> \E k \in 0..n : at + m <= k /\ EndsAt(t, w, k) /\ k <= j
      <4>1. l + m <= j => \E k \in 0..n : at + m <= k /\ EndsAt(t, w, k) /\ k <= j
        BY <3>4, <3>5
      <4>2. ASSUME NEW k \in 0..n, at + m <= k, EndsAt(t, w, k), k <= j PROVE l + m <= j
        <5>1. l + m <= k
          BY <3>6, <4>2
        <5> QED
          BY <1>1, <3>4, <4>2, <5>1
      <4> QED
        BY <4>1, <4>2
    <3> QED
      BY <1>3, <3>3, <3>4, <3>7 DEF Stops, n, m
  <2> QED
    BY <2>4, <2>5
<1> QED
  BY <1>2, <1>3

Searches(s, w, b) == FoldLeft(LAMBDA at, piece : Search(w, piece, at), b, s)

SearchesSolves(f, s, w, b) ==
  f = [T \in SUBSET DOMAIN s |->
         IF T = {} THEN b ELSE Search(w, s[Max(T)], f[T \ {Max(T)}])]

\* The walk over the middle pieces is a solution of its recursion, at all the positions.
LEMMA SearchesIsSolution ==
  ASSUME NEW s, NEW w, NEW b
  PROVE  Searches(s, w, b) = (CHOOSE f : SearchesSolves(f, s, w, b))[DOMAIN s]
BY Zenon DEF Searches, FoldLeft, MapThenFoldSet, SearchesSolves

\* The walk over the middle pieces, by its first value and its step.
LEMMA SearchesSteps ==
  ASSUME NEW C, NEW w \in Seq(C), NEW b \in Stops(w)
  PROVE  /\ Searches(<<>>, w, b) = b
         /\ \A s \in Seq(Seq(C)) : Searches(s, w, b) \in Stops(w)
         /\ \A s \in Seq(Seq(C)), c \in Seq(C) :
              Searches(Append(s, c), w, b) = Search(w, c, Searches(s, w, b))
<1> DEFINE V == Stops(w)
           D == Seq(C)
           step == [c \in D |-> [a \in V |-> Search(w, c, a)]]
           F == [s \in Seq(D) |-> Searches(s, w, b)]
<1>1. step \in [D -> [V -> V]] /\ b \in V
  BY SearchEnds
<1>2. \A c \in D, a \in V : step[c][a] = Search(w, c, a)
  OBVIOUS
<1> HIDE DEF V, D, step
<1>3. ASSUME NEW s \in Seq(D)
      PROVE  \E f : /\ Loops(f, V, Len(s), b, BodyOf(step, s))
                   /\ Searches(s, w, b) = f[1..Len(s)]
  <2>1. DOMAIN s = 1..Len(s) /\ \A i \in 1..Len(s) : s[i] \in D
    OBVIOUS
  <2>2. \E g : SearchesSolves(g, s, w, b)
    <3>1. PICK g : Taken(g, D, V, b, step, s)
      BY <1>1, StepSolution
    <3>2. SearchesSolves(g, s, w, b)
      BY <1>2, <3>1 DEF SearchesSolves, Taken
    <3> QED
      BY <3>2
  <2>3. PICK f : SearchesSolves(f, s, w, b) /\ Searches(s, w, b) = f[DOMAIN s]
    BY <2>2, SearchesIsSolution
  <2>4. Loops(f, V, Len(s), b, BodyOf(step, s))
    <3>1. f[{}] = b
      BY <2>3 DEF SearchesSolves
    <3>2. ASSUME NEW T \in SUBSET (1..Len(s)), NEW i \in 1..Len(s),
                 T # {}, i = Max(T), f[T \ {i}] \in V
          PROVE  f[T] = step[s[i]][f[T \ {i}]]
      <4>1. f[T] = Search(w, s[i], f[T \ {i}])
        BY <2>1, <2>3, <3>2 DEF SearchesSolves
      <4> QED
        BY <1>2, <2>1, <3>2, <4>1
    <3> QED
      BY <1>1, <3>1, <3>2, StepLoops
  <2> QED
    BY <2>1, <2>3, <2>4
<1>4. Steps(F, D, V, b, step)
  <2>1. Folds(F, D, V, b, step)
    BY <1>3 DEF Folds
  <2> HIDE DEF F
  <2> QED
    BY <1>1, <2>1, FoldSteps
<1>5. <<>> \in Seq(D) /\ \A s \in Seq(D), c \in D : Append(s, c) \in Seq(D)
  OBVIOUS
<1> QED
  BY <1>2, <1>4, <1>5 DEF V, D, Steps

ReachStep(t, ends, c) ==
  IF c = Star THEN {j \in 0..Len(t) : \E i \in ends : i <= j}
  ELSE {j \in 1..Len(t) : j - 1 \in ends /\ t[j] = c}

ReachSolves(f, s, w) ==
  f = [T \in SUBSET DOMAIN s |->
         IF T = {} THEN {0} ELSE ReachStep(w, f[T \ {Max(T)}], s[Max(T)])]

\* What a glob reaches is a solution of its recursion, at all the positions.
LEMMA ReachIsSolution ==
  ASSUME NEW s, NEW w
  PROVE  Reach(s, w) = (CHOOSE f : ReachSolves(f, s, w))[DOMAIN s]
BY Zenon DEF Reach, ReachStep, FoldLeft, MapThenFoldSet, ReachSolves

\* What a glob reaches, by its first value and its step.
LEMMA ReachSteps ==
  ASSUME NEW C, NEW w, Len(w) \in Nat
  PROVE  /\ Reach(<<>>, w) = {0}
         /\ \A s \in Seq(C) : Reach(s, w) \in SUBSET (0..Len(w))
         /\ \A s \in Seq(C), c \in C :
              Reach(Append(s, c), w) = ReachStep(w, Reach(s, w), c)
<1> DEFINE V == SUBSET (0..Len(w))
           D == C
           step == [c \in D |-> [a \in V |-> ReachStep(w, a, c)]]
           F == [s \in Seq(D) |-> Reach(s, w)]
<1>1. step \in [D -> [V -> V]] /\ {0} \in V
  BY DEF ReachStep
<1>2. \A c \in D, a \in V : step[c][a] = ReachStep(w, a, c)
  OBVIOUS
<1> HIDE DEF V, D, step
<1>3. ASSUME NEW s \in Seq(D)
      PROVE  \E f : /\ Loops(f, V, Len(s), {0}, BodyOf(step, s))
                   /\ Reach(s, w) = f[1..Len(s)]
  <2>1. DOMAIN s = 1..Len(s) /\ \A i \in 1..Len(s) : s[i] \in D
    OBVIOUS
  <2>2. \E g : ReachSolves(g, s, w)
    <3>1. PICK g : Taken(g, D, V, {0}, step, s)
      BY <1>1, StepSolution
    <3>2. ReachSolves(g, s, w)
      BY <1>2, <3>1 DEF ReachSolves, Taken
    <3> QED
      BY <3>2
  <2>3. PICK f : ReachSolves(f, s, w) /\ Reach(s, w) = f[DOMAIN s]
    BY <2>2, ReachIsSolution
  <2>4. Loops(f, V, Len(s), {0}, BodyOf(step, s))
    <3>1. f[{}] = {0}
      BY <2>3 DEF ReachSolves
    <3>2. ASSUME NEW T \in SUBSET (1..Len(s)), NEW i \in 1..Len(s),
                 T # {}, i = Max(T), f[T \ {i}] \in V
          PROVE  f[T] = step[s[i]][f[T \ {i}]]
      <4>1. f[T] = ReachStep(w, f[T \ {i}], s[i])
        BY <2>1, <2>3, <3>2 DEF ReachSolves
      <4> QED
        BY <1>2, <2>1, <3>2, <4>1
    <3> QED
      BY <1>1, <3>1, <3>2, StepLoops
  <2> QED
    BY <2>1, <2>3, <2>4
<1>4. Steps(F, D, V, {0}, step)
  <2>1. Folds(F, D, V, {0}, step)
    BY <1>3 DEF Folds
  <2> HIDE DEF F
  <2> QED
    BY <1>1, <2>1, FoldSteps
<1>5. <<>> \in Seq(D) /\ \A s \in Seq(D), c \in D : Append(s, c) \in Seq(D)
  OBVIOUS
<1> QED
  BY <1>2, <1>4, <1>5 DEF V, D, Steps

\* One character more.
LEMMA EndsAppend ==
  ASSUME NEW C, NEW t \in Seq(C), NEW w \in Seq(C), NEW c \in C, NEW j \in 0..Len(t)
  PROVE  EndsAt(t, Append(w, c), j) <=> j \in 1..Len(t) /\ EndsAt(t, w, j - 1) /\ t[j] = c
<1> DEFINE m == Len(w)
           v == Append(w, c)
<1>1. m \in Nat /\ Len(t) \in Nat /\ Len(v) = m + 1 /\ v[m + 1] = c
      /\ \A i \in 1..m : v[i] = w[i]
  OBVIOUS
<1> HIDE DEF v, m
<1>2. ASSUME m + 1 <= j
      PROVE  (\A i \in 1..(m + 1) : t[j - (m + 1) + i] = v[i])
               <=> (\A i \in 1..m : t[j - 1 - m + i] = w[i]) /\ t[j] = c
  <2>1. \A i \in 1..(m + 1) : j - (m + 1) + i = j - 1 - m + i
    BY <1>1
  <2>2. j - 1 - m + (m + 1) = j
    BY <1>1
  <2>3. \A i : i \in 1..(m + 1) <=> i \in 1..m \/ i = m + 1
    BY <1>1
  <2> QED
    BY <1>1, <2>1, <2>2, <2>3
<1>3. m + 1 <= j <=> j \in 1..Len(t) /\ m <= j - 1
  BY <1>1
<1> QED
  BY <1>1, <1>2, <1>3 DEF EndsAt, v, m

\* A beginning, by its characters.
LEMMA PrefixEnds ==
  ASSUME NEW C, NEW t \in Seq(C), NEW w \in Seq(C)
  PROVE  IsPrefix(w, t) <=> Len(w) <= Len(t) /\ EndsAt(t, w, Len(w))
<1> DEFINE m == Len(w)
<1>1. m \in Nat /\ Len(t) \in Nat
  OBVIOUS
<1>2. ASSUME m <= Len(t)
      PROVE  SubSeq(w, 1, m) = SubSeq(t, 1, m) <=> \A i \in 1..m : t[i] = w[i]
  <2>1. PICK a, b : a = SubSeq(w, 1, m) /\ b = SubSeq(t, 1, m)
    OBVIOUS
  <2>2. /\ a \in Seq(C) /\ Len(a) = m /\ \A i \in 1..m : a[i] = w[i]
        /\ b \in Seq(C) /\ Len(b) = m /\ \A i \in 1..m : b[i] = t[i]
    BY <1>1, <1>2, <2>1
  <2>3. a = b <=> \A i \in 1..m : a[i] = b[i]
    BY <2>2, SeqEqual
  <2> QED
    BY <2>1, <2>2, <2>3
<1>3. \A i \in 1..m : m - m + i = i
  BY <1>1
<1> QED
  BY <1>1, <1>2, <1>3 DEF IsPrefix, EndsAt

\* An ending of what is left, by its characters.
LEMMA SuffixEnds ==
  ASSUME NEW C, NEW t \in Seq(C), NEW w \in Seq(C), NEW at \in 0..Len(t)
  PROVE  IsSuffix(w, From(t, at)) <=> at + Len(w) <= Len(t) /\ EndsAt(t, w, Len(t))
<1> DEFINE m == Len(w)
           n == Len(t)
           u == From(t, at)
           k == n - at
           x == Reverse(w)
           y == Reverse(u)
<1>1. m \in Nat /\ n \in Nat /\ k \in Nat
  OBVIOUS
<1>2. u \in Seq(C) /\ Len(u) = k /\ \A i \in 1..k : u[i] = t[at + i]
  BY <1>1 DEF From
<1> HIDE DEF u
<1>3. x \in Seq(C) /\ Len(x) = m /\ \A i \in 1..m : x[i] = w[m - i + 1]
  BY <1>1 DEF Reverse
<1>4. y \in Seq(C) /\ Len(y) = k /\ \A i \in 1..k : y[i] = u[k - i + 1]
  BY <1>1, <1>2 DEF Reverse
<1>5. IsPrefix(x, y) <=> m <= k /\ EndsAt(y, x, m)
  BY <1>3, <1>4, PrefixEnds
<1>6. IsSuffix(w, u) <=> IsPrefix(x, y)
  BY DEF IsSuffix
<1> HIDE DEF x, y
<1>7. ASSUME m <= k
      PROVE  (\A i \in 1..m : y[i] = x[i]) <=> \A i \in 1..m : t[n - m + i] = w[i]
  <2>1. ASSUME NEW i \in 1..m PROVE x[i] = w[m - i + 1] /\ y[i] = t[n - i + 1]
    <3>1. k - i + 1 \in 1..k /\ at + (k - i + 1) = n - i + 1 /\ i \in 1..k
      BY <1>1, <1>7
    <3> QED
      BY <1>2, <1>3, <1>4, <3>1
  <2>2. \A i \in 1..m : m - i + 1 \in 1..m /\ m - (m - i + 1) + 1 = i
    BY <1>1
  <2>3. ASSUME NEW i \in 1..m, \A q \in 1..m : y[q] = x[q] PROVE t[n - m + i] = w[i]
    <3>1. PICK q : q = m - i + 1
      OBVIOUS
    <3>2. q \in 1..m /\ m - q + 1 = i /\ n - q + 1 = n - m + i
      BY <1>1, <3>1
    <3> QED
      BY <2>1, <2>3, <3>2
  <2>4. ASSUME NEW i \in 1..m, \A q \in 1..m : t[n - m + q] = w[q] PROVE y[i] = x[i]
    <3>1. PICK q : q = m - i + 1
      OBVIOUS
    <3>2. q \in 1..m /\ n - m + q = n - i + 1
      BY <1>1, <3>1
    <3> QED
      BY <2>1, <2>4, <3>1, <3>2
  <2> QED
    BY <2>3, <2>4
<1>8. \A i \in 1..m : m - m + i = i
  BY <1>1
<1>9. m <= k <=> at + m <= n
  BY <1>1
<1>10. m <= k => m <= n
  BY <1>1
<1>11. EndsAt(y, x, m) <=> \A i \in 1..m : y[i] = x[i]
  BY <1>1, <1>3, <1>8 DEF EndsAt
<1> QED
  BY <1>5, <1>6, <1>7, <1>9, <1>10, <1>11 DEF EndsAt, u, n, m

\* The pieces but the last, of what a character more makes of them.
LEMMA FrontFacts ==
  ASSUME NEW D, NEW ps \in Seq(D) \ {<<>>}, NEW w \in D
  PROVE  /\ Head(ps) \in D /\ Last(ps) \in D /\ Tail(Front(ps)) \in Seq(D)
         /\ /\ Front(Append(ps, w)) = ps /\ Last(Append(ps, w)) = w
            /\ Head(Append(ps, w)) = Head(ps) /\ Len(Append(ps, w)) = Len(ps) + 1
         /\ /\ Last([ps EXCEPT ![Len(ps)] = w]) = w
            /\ Front([ps EXCEPT ![Len(ps)] = w]) = Front(ps)
            /\ Len([ps EXCEPT ![Len(ps)] = w]) = Len(ps)
            /\ Len(ps) > 1 => Head([ps EXCEPT ![Len(ps)] = w]) = Head(ps)
         /\ Len(ps) = 1 => Tail(ps) = <<>>
         /\ Len(ps) > 1 => Tail(ps) = Append(Tail(Front(ps)), Last(ps))
<1> DEFINE n == Len(ps)
           g == Front(ps)
           q == Append(ps, w)
           r == [ps EXCEPT ![n] = w]
<1>1. n \in Nat \ {0} /\ \A i \in 1..n : ps[i] \in D
  OBVIOUS
<1>2. g \in Seq(D) /\ Len(g) = n - 1 /\ \A i \in 1..(n - 1) : g[i] = ps[i]
  <2>1. PICK k : k = n - 1
    OBVIOUS
  <2>2. k \in Nat /\ k <= n
    BY <1>1, <2>1
  <2>3. g = SubSeq(ps, 1, k)
    BY <2>1 DEF Front
  <2>4. SubSeq(ps, 1, k) \in Seq(D) /\ Len(SubSeq(ps, 1, k)) = k
        /\ \A i \in 1..k : SubSeq(ps, 1, k)[i] = ps[i]
    BY <1>1, <2>2
  <2> HIDE DEF g, n
  <2> QED
    BY <2>1, <2>3, <2>4
<1>3. /\ q \in Seq(D) /\ Len(q) = n + 1 /\ q[n + 1] = w /\ \A i \in 1..n : q[i] = ps[i]
      /\ r \in Seq(D) /\ Len(r) = n /\ r[n] = w /\ \A i \in 1..(n - 1) : r[i] = ps[i]
  BY <1>1
<1>4. Head(ps) = ps[1] /\ Head(q) = q[1] /\ Head(r) = r[1]
  OBVIOUS
<1> HIDE DEF q, r, n
<1>5. Front(q) = ps
  <2>1. PICK b : b = Front(q)
    OBVIOUS
  <2>2. b \in Seq(D) /\ Len(b) = n /\ \A i \in 1..n : b[i] = ps[i]
    <3>1. PICK k : k = Len(q) - 1
      OBVIOUS
    <3>2. b = SubSeq(q, 1, n)
      <4>1. k = n
        BY <1>1, <1>3, <3>1
      <4>2. b = SubSeq(q, 1, k)
        BY <2>1, <3>1 DEF Front
      <4> QED
        BY <4>1, <4>2
    <3> QED
      BY <1>1, <1>3, <3>2
  <2>3. b = ps
    BY <2>2, SeqEqual DEF n
  <2> QED
    BY <2>1, <2>3
<1>6. Front(r) = g
  <2>1. PICK a, b : a = g /\ b = Front(r)
    OBVIOUS
  <2>2. b \in Seq(D) /\ Len(b) = n - 1 /\ \A i \in 1..(n - 1) : b[i] = ps[i]
    BY <1>1, <1>3, <2>1 DEF Front
  <2>3. a \in Seq(D) /\ Len(a) = n - 1 /\ \A i \in 1..(n - 1) : a[i] = ps[i]
    BY <1>2, <2>1
  <2>4. a = b
    BY <2>2, <2>3, SeqEqual
  <2> QED
    BY <2>1, <2>4
<1>7. ASSUME n = 1 PROVE Tail(ps) = <<>>
  <2>1. PICK h : h = Tail(ps)
    OBVIOUS
  <2>2. h \in Seq(D) /\ Len(h) = 0
    BY <1>7, <2>1, HeadTailProperties DEF n
  <2>3. h = <<>>
    BY <2>2
  <2> QED
    BY <2>1, <2>3
<1> HIDE DEF g
<1>8. Tail(g) \in Seq(D) /\ Len(Tail(g)) = (IF n = 1 THEN 0 ELSE n - 2)
      /\ \A i \in 1..(n - 2) : Tail(g)[i] = ps[i + 1]
  <2>1. CASE n = 1
    <3>1. g = <<>>
      BY <1>2, <2>1
    <3>2. Tail(<<>>) \in Seq(D) /\ Len(Tail(<<>>)) = 0
      OBVIOUS
    <3> QED
      BY <2>1, <3>1, <3>2
  <2>2. CASE n > 1
    <3>1. g # <<>>
      BY <1>1, <1>2, <2>2
    <3>2. Tail(g) \in Seq(D) /\ Len(Tail(g)) = n - 2 /\ \A i \in 1..(n - 2) : Tail(g)[i] = g[i + 1]
      BY <1>1, <1>2, <2>2, <3>1, HeadTailProperties
    <3> QED
      BY <1>1, <1>2, <2>2, <3>2
  <2> QED
    BY <1>1, <2>1, <2>2
<1>9. ASSUME n > 1 PROVE Tail(ps) = Append(Tail(g), ps[n])
  <2>1. PICK a, b, h : a = Tail(ps) /\ h = Tail(g) /\ b = Append(h, ps[n])
    OBVIOUS
  <2>2. a \in Seq(D) /\ Len(a) = n - 1 /\ \A i \in 1..(n - 1) : a[i] = ps[i + 1]
    BY <1>1, <1>9, <2>1 DEF n
  <2>3. h \in Seq(D) /\ Len(h) = n - 2 /\ \A i \in 1..(n - 2) : h[i] = ps[i + 1]
    BY <1>8, <1>9, <2>1
  <2>4. b \in Seq(D) /\ Len(b) = n - 1 /\ b[n - 1] = ps[n] /\ \A i \in 1..(n - 2) : b[i] = h[i]
    BY <1>1, <1>9, <2>1, <2>3, AppendProperties
  <2>5. \A i \in 1..(n - 1) : a[i] = b[i]
    <3>1. \A i \in 1..(n - 1) : i \in 1..(n - 2) \/ i = n - 1
      BY <1>1, <1>9
    <3>2. n - 1 + 1 = n
      BY <1>1
    <3> QED
      BY <2>2, <2>3, <2>4, <3>1, <3>2
  <2>6. a = b
    BY <2>2, <2>4, <2>5, SeqEqual
  <2> QED
    BY <2>1, <2>6
<1>10. Last(ps) = ps[n] /\ Last(q) = w /\ Last(r) = w
  BY <1>3 DEF Last, n
<1>11. Head(ps) \in D /\ Last(ps) \in D /\ Tail(Front(ps)) \in Seq(D)
  BY <1>1, <1>4, <1>8, <1>10 DEF g
<1>12. Head(q) = Head(ps) /\ Len(q) = n + 1
  BY <1>1, <1>3, <1>4
<1>13. Len(r) = n /\ (n > 1 => Head(r) = Head(ps))
  BY <1>1, <1>3, <1>4
<1>14. n > 1 => Tail(ps) = Append(Tail(g), Last(ps))
  BY <1>9, <1>10
<1> QED
  BY <1>5, <1>6, <1>7, <1>10, <1>11, <1>12, <1>13, <1>14 DEF g, q, r, n

Ending(ps, w) == [ps EXCEPT ![Len(ps)] = w]

\* The last piece, and another in its place.
LEMMA EndingFacts ==
  ASSUME NEW C, NEW ps \in Pieces(C), NEW w \in Seq(C)
  PROVE  /\ Last(ps) \in Seq(C) /\ Len(ps) \in Nat \ {0} /\ Len(Last(ps)) \in Nat
         /\ Last(Append(ps, w)) = w /\ Len(Append(ps, w)) = Len(ps) + 1
         /\ Last(Ending(ps, w)) = w /\ Len(Ending(ps, w)) = Len(ps)
<1>s. PICK D : D = Seq(C)
  OBVIOUS
<1>1. ps \in Seq(D) \ {<<>>} /\ w \in D
  BY <1>s DEF Pieces
<1>2. Last(ps) \in D
  BY <1>1, FrontFacts
<1>3. Last(Append(ps, w)) = w /\ Len(Append(ps, w)) = Len(ps) + 1
  BY <1>1 DEF Last
<1>4. Last([ps EXCEPT ![Len(ps)] = w]) = w /\ Len([ps EXCEPT ![Len(ps)] = w]) = Len(ps)
  BY <1>1, FrontFacts
<1>5. Len(ps) \in Nat \ {0}
  BY <1>1
<1>6. \A v \in D : Len(v) \in Nat
  BY <1>s
<1> QED
  BY <1>s, <1>2, <1>3, <1>4, <1>5, <1>6 DEF Ending

FirstEnd(ps, t) == IF IsPrefix(Head(ps), t) THEN Len(Head(ps)) ELSE NoMatch

\* How much of t the pieces before the last consume.
Consumed(ps, t) == Searches(Tail(Front(ps)), t, FirstEnd(ps, t))

\* What is consumed, one character of the glob later.
LEMMA ConsumedSteps ==
  ASSUME NEW C, NEW t \in Seq(C), NEW ps \in Pieces(C), NEW w \in Seq(C)
  PROVE  /\ Consumed(ps, t) \in Stops(t)
         /\ Len(ps) = 1 => Consumed(Append(ps, w), t) = FirstEnd(ps, t)
         /\ Len(ps) > 1 => /\ Consumed(Append(ps, w), t) = Search(t, Last(ps), Consumed(ps, t))
                           /\ Consumed(Ending(ps, w), t) = Consumed(ps, t)
<1> DEFINE D == Seq(C)
           b == FirstEnd(ps, t)
           F(s) == Searches(s, t, b)
<1>0. D = Seq(C)
  OBVIOUS
<1> HIDE DEF D
<1>1. ps \in Seq(D) \ {<<>>} /\ w \in D
  BY <1>0 DEF Pieces
<1>2. /\ Head(ps) \in D /\ Last(ps) \in D /\ Tail(Front(ps)) \in Seq(D)
      /\ /\ Front(Append(ps, w)) = ps /\ Head(Append(ps, w)) = Head(ps)
      /\ /\ Front([ps EXCEPT ![Len(ps)] = w]) = Front(ps)
         /\ Len(ps) > 1 => Head([ps EXCEPT ![Len(ps)] = w]) = Head(ps)
      /\ Len(ps) = 1 => Tail(ps) = <<>>
      /\ Len(ps) > 1 => Tail(ps) = Append(Tail(Front(ps)), Last(ps))
  BY <1>1, FrontFacts
<1>3. b \in Stops(t)
  <2>1. Len(t) \in Nat /\ Len(Head(ps)) \in Nat
    BY <1>0, <1>2
  <2>2. IsPrefix(Head(ps), t) => Len(Head(ps)) <= Len(t)
    BY DEF IsPrefix
  <2> QED
    BY <2>1, <2>2 DEF FirstEnd, Stops
<1> HIDE DEF b
<1>4. /\ F(<<>>) = b /\ \A s \in Seq(Seq(C)) : F(s) \in Stops(t)
      /\ \A s \in Seq(Seq(C)), c \in Seq(C) : F(Append(s, c)) = Search(t, c, F(s))
  BY <1>3, SearchesSteps
<1>5. Consumed(ps, t) = F(Tail(Front(ps))) /\ Consumed(Append(ps, w), t) = F(Tail(ps))
  BY <1>2 DEF Consumed, FirstEnd, b
<1>6. Len(ps) > 1 => Consumed(Ending(ps, w), t) = F(Tail(Front(ps)))
  BY <1>2 DEF Ending, Consumed, FirstEnd, b
<1> HIDE DEF F
<1>7. Len(ps) > 1 => F(Tail(ps)) = Search(t, Last(ps), F(Tail(Front(ps))))
  BY <1>0, <1>2, <1>4
<1>8. Len(ps) = 1 => F(Tail(ps)) = b
  BY <1>2, <1>4
<1> QED
  BY <1>0, <1>2, <1>4, <1>5, <1>6, <1>7, <1>8 DEF b

\* What of t the glob reaches, said of the walk.
Walked(p, t) ==
  LET ps == Split(p, Star)
  IN /\ Len(ps) = 1 => /\ ps[1] = p
                       /\ \A j \in 0..Len(t) :
                            j \in Reach(p, t) <=> j = Len(p) /\ EndsAt(t, p, j)
     /\ Len(ps) > 1 => \A j \in 0..Len(t) :
                         j \in Reach(p, t) <=>
                           /\ Consumed(ps, t) # NoMatch
                           /\ Consumed(ps, t) + Len(Last(ps)) <= j
                           /\ EndsAt(t, Last(ps), j)

\* What a glob reaches, by its first value and its step, within the path.
LEMMA ReachFacts ==
  ASSUME NEW C, NEW t \in Seq(C)
  PROVE  /\ Reach(<<>>, t) = {0}
         /\ \A p \in Seq(C) : Reach(p, t) \subseteq 0..Len(t)
         /\ \A p \in Seq(C), c \in C : \A j \in 0..Len(t) :
              j \in Reach(Append(p, c), t) <=>
                IF c = Star THEN \E i \in 0..Len(t) : i \in Reach(p, t) /\ i <= j
                ELSE j \in 1..Len(t) /\ j - 1 \in Reach(p, t) /\ t[j] = c
<1>1. Len(t) \in Nat
  OBVIOUS
<1>2. /\ Reach(<<>>, t) = {0}
      /\ \A p \in Seq(C) : Reach(p, t) \in SUBSET (0..Len(t))
      /\ \A p \in Seq(C), c \in C : Reach(Append(p, c), t) = ReachStep(t, Reach(p, t), c)
  BY <1>1, ReachSteps
<1> QED
  BY <1>2 DEF ReachStep

\* One character of the glob more that is no star.
LEMMA WalkedCharacter ==
  ASSUME NEW C, NEW t \in Seq(C), NEW p \in Seq(C), NEW c \in C, c # Star, Walked(p, t)
  PROVE  Walked(Append(p, c), t)
<1>1. PICK ps, l, w, qs : /\ ps = Split(p, Star) /\ l = Last(ps) /\ w = Append(l, c)
                          /\ qs = Split(Append(p, c), Star)
  OBVIOUS
<1>2. ps \in Pieces(C) /\ qs = SplitStep(ps, c, Star)
  BY <1>1, SplitSteps
<1>s. PICK D : D = Seq(C)
  OBVIOUS
<1>3. ps \in Seq(D) \ {<<>>} /\ l \in D /\ Len(ps) \in Nat \ {0}
  <2>1. ps \in Seq(D) \ {<<>>}
    BY <1>2, <1>s DEF Pieces
  <2>2. Last(ps) \in Seq(C) /\ Len(ps) \in Nat \ {0}
    <3>1. <<>> \in Seq(C)
      OBVIOUS
    <3> QED
      BY <1>2, <3>1, EndingFacts
  <2> QED
    BY <1>1, <1>s, <2>1, <2>2
<1>4. w \in D /\ l \in Seq(C) /\ w \in Seq(C) /\ Len(w) = Len(l) + 1 /\ Len(l) \in Nat
  BY <1>1, <1>3, <1>s
<1>5. qs = Ending(ps, w)
  BY <1>1, <1>2 DEF SplitStep, Last, Ending
<1>6. Len(qs) = Len(ps) /\ Last(qs) = w
  BY <1>2, <1>4, <1>5, EndingFacts
<1>7. \A j \in 0..Len(t) :
        j \in Reach(Append(p, c), t) <=> j \in 1..Len(t) /\ j - 1 \in Reach(p, t) /\ t[j] = c
  BY ReachFacts
<1>8. \A v \in Seq(C), j \in 0..Len(t) :
        EndsAt(t, Append(v, c), j) <=> j \in 1..Len(t) /\ EndsAt(t, v, j - 1) /\ t[j] = c
  BY EndsAppend
<1>9. \A j \in 1..Len(t) : j - 1 \in 0..Len(t)
  OBVIOUS
<1>10. ASSUME Len(ps) = 1
       PROVE  /\ qs[1] = Append(p, c)
              /\ \A j \in 0..Len(t) :
                   j \in Reach(Append(p, c), t) <=> j = Len(Append(p, c)) /\ EndsAt(t, Append(p, c), j)
  <2>1. ps[1] = p /\ \A j \in 0..Len(t) : j \in Reach(p, t) <=> j = Len(p) /\ EndsAt(t, p, j)
    BY <1>1, <1>10 DEF Walked
  <2>2. l = p /\ w = Append(p, c) /\ qs[1] = w
    <3>1. l = ps[1]
      BY <1>1, <1>10 DEF Last
    <3>2. qs[1] = Last(qs)
      BY <1>6, <1>10 DEF Last
    <3> QED
      BY <1>1, <1>6, <2>1, <3>1, <3>2
  <2>3. ASSUME NEW j \in 0..Len(t)
        PROVE  j \in Reach(Append(p, c), t) <=> j = Len(p) + 1 /\ EndsAt(t, Append(p, c), j)
    <3>1. CASE j = 0
      BY <1>7, <1>8, <3>1
    <3>2. CASE j \in 1..Len(t)
      <4>1. j - 1 \in Reach(p, t) <=> j - 1 = Len(p) /\ EndsAt(t, p, j - 1)
        BY <1>9, <2>1, <3>2
      <4>2. j \in Reach(Append(p, c), t) <=> j - 1 \in Reach(p, t) /\ t[j] = c
        BY <1>7, <3>2
      <4>3. EndsAt(t, Append(p, c), j) <=> EndsAt(t, p, j - 1) /\ t[j] = c
        BY <1>8, <3>2
      <4>4. j - 1 = Len(p) <=> j = Len(p) + 1
        OBVIOUS
      <4> QED
        BY <4>1, <4>2, <4>3, <4>4
    <3> QED
      BY <3>1, <3>2
  <2>4. Len(Append(p, c)) = Len(p) + 1
    OBVIOUS
  <2> QED
    BY <2>2, <2>3, <2>4
<1>11. ASSUME Len(ps) > 1
       PROVE  \A j \in 0..Len(t) :
                j \in Reach(Append(p, c), t) <=>
                  /\ Consumed(qs, t) # NoMatch
                  /\ Consumed(qs, t) + Len(Last(qs)) <= j
                  /\ EndsAt(t, Last(qs), j)
  <2>1. PICK k : k = Consumed(ps, t)
    OBVIOUS
  <2>2. k \in Stops(t) /\ Consumed(qs, t) = k
    BY <1>2, <1>4, <1>5, <1>11, <2>1, ConsumedSteps
  <2>3. \A j \in 0..Len(t) :
          j \in Reach(p, t) <=> k # NoMatch /\ k + Len(l) <= j /\ EndsAt(t, l, j)
    BY <1>1, <1>11, <2>1 DEF Walked
  <2>4. ASSUME NEW j \in 0..Len(t)
        PROVE  j \in Reach(Append(p, c), t) <=> k # NoMatch /\ k + Len(w) <= j /\ EndsAt(t, w, j)
    <3>1. CASE j = 0
      BY <1>1, <1>4, <1>7, <1>8, <3>1
    <3>2. CASE j \in 1..Len(t)
      <4>1. j - 1 \in Reach(p, t) <=> k # NoMatch /\ k + Len(l) <= j - 1 /\ EndsAt(t, l, j - 1)
        BY <1>9, <2>3, <3>2
      <4>2. j \in Reach(Append(p, c), t) <=> j - 1 \in Reach(p, t) /\ t[j] = c
        BY <1>7, <3>2
      <4>3. EndsAt(t, w, j) <=> EndsAt(t, l, j - 1) /\ t[j] = c
        BY <1>1, <1>4, <1>8, <3>2
      <4>4. k # NoMatch => (k + Len(l) <= j - 1 <=> k + Len(w) <= j)
        BY <1>4, <2>2 DEF Stops
      <4> QED
        BY <4>1, <4>2, <4>3, <4>4
    <3> QED
      BY <3>1, <3>2
  <2> QED
    BY <1>6, <2>2, <2>4
<1> QED
  BY <1>1, <1>6, <1>10, <1>11 DEF Walked

\* A star more.
LEMMA WalkedStar ==
  ASSUME NEW C, Star \in C, NEW t \in Seq(C), NEW p \in Seq(C), Walked(p, t)
  PROVE  Walked(Append(p, Star), t)
<1>1. PICK ps, l, qs : /\ ps = Split(p, Star) /\ l = Last(ps)
                       /\ qs = Split(Append(p, Star), Star)
  OBVIOUS
<1>2. ps \in Pieces(C) /\ qs = Append(ps, <<>>)
  <2>1. Split(p, Star) \in Pieces(C)
    BY SplitSteps, Zenon
  <2>2. Split(Append(p, Star), Star) = SplitStep(Split(p, Star), Star, Star)
    BY SplitSteps, Zenon
  <2>3. SplitStep(Split(p, Star), Star, Star) = Append(Split(p, Star), <<>>)
    BY DEF SplitStep
  <2> QED
    BY <1>1, <2>1, <2>2, <2>3
<1>s. PICK D : D = Seq(C)
  OBVIOUS
<1>3. ps \in Seq(D) \ {<<>>} /\ <<>> \in D /\ <<>> \in Seq(C)
  BY <1>2, <1>s DEF Pieces
<1>4. l \in Seq(C) /\ Len(l) \in Nat /\ Len(qs) = Len(ps) + 1 /\ Last(qs) = <<>>
      /\ Len(ps) \in Nat \ {0}
  <2>1. PICK e : e = <<>>
    OBVIOUS
  <2>2. e \in Seq(C)
    BY <1>3, <2>1
  <2>3. /\ Last(ps) \in Seq(C) /\ Len(ps) \in Nat \ {0} /\ Len(Last(ps)) \in Nat
        /\ Last(Append(ps, e)) = e /\ Len(Append(ps, e)) = Len(ps) + 1
    BY <1>2, <2>2, EndingFacts
  <2> QED
    BY <1>1, <1>2, <2>1, <2>3
<1>5. \A j \in 0..Len(t) :
        j \in Reach(Append(p, Star), t) <=> \E i \in 0..Len(t) : i \in Reach(p, t) /\ i <= j
  BY ReachFacts
<1>6. \A j \in 0..Len(t) : EndsAt(t, <<>>, j)
  BY DEF EndsAt
<1>7. PICK k : k = Consumed(qs, t)
  OBVIOUS
<1>8. ASSUME Len(ps) = 1, NEW j \in 0..Len(t)
      PROVE  j \in Reach(Append(p, Star), t) <=> k # NoMatch /\ k <= j
  <2>1. ps[1] = p /\ \A i \in 0..Len(t) : i \in Reach(p, t) <=> i = Len(p) /\ EndsAt(t, p, i)
    BY <1>1, <1>8 DEF Walked
  <2>2. k = FirstEnd(ps, t)
    BY <1>2, <1>3, <1>7, <1>8, ConsumedSteps
  <2>3. Head(ps) = p
    BY <1>3, <2>1
  <2>4. IsPrefix(p, t) <=> Len(p) <= Len(t) /\ EndsAt(t, p, Len(p))
    BY PrefixEnds
  <2>5. Len(p) \in Nat /\ Len(p) # NoMatch
    BY DEF NoMatch
  <2>6. k = IF Len(p) <= Len(t) /\ EndsAt(t, p, Len(p)) THEN Len(p) ELSE NoMatch
    BY <2>2, <2>3, <2>4 DEF FirstEnd
  <2>7. CASE Len(p) <= Len(t) /\ EndsAt(t, p, Len(p))
    <3>1. Len(p) \in 0..Len(t) /\ k = Len(p)
      BY <2>5, <2>6, <2>7
    <3>2. (\E i \in 0..Len(t) : i \in Reach(p, t) /\ i <= j) <=> Len(p) <= j
      BY <2>1, <2>7, <3>1
    <3> QED
      BY <1>5, <2>5, <3>1, <3>2
  <2>8. CASE ~(Len(p) <= Len(t) /\ EndsAt(t, p, Len(p)))
    <3>1. ~\E i \in 0..Len(t) : i \in Reach(p, t)
      BY <2>1, <2>8
    <3>2. k = NoMatch
      BY <2>6, <2>8
    <3> QED
      BY <1>5, <3>1, <3>2
  <2> QED
    BY <2>7, <2>8
<1>9. ASSUME Len(ps) > 1, NEW j \in 0..Len(t)
      PROVE  j \in Reach(Append(p, Star), t) <=> k # NoMatch /\ k <= j
  <2>1. PICK b : b = Consumed(ps, t)
    OBVIOUS
  <2>2. b \in Stops(t) /\ k = Search(t, l, b)
    <3>1. Consumed(ps, t) \in Stops(t)
      BY <1>2, <1>3, ConsumedSteps
    <3>2. Consumed(Append(ps, <<>>), t) = Search(t, Last(ps), Consumed(ps, t))
      BY <1>2, <1>3, <1>9, ConsumedSteps
    <3> QED
      BY <1>1, <1>2, <1>7, <2>1, <3>1, <3>2
  <2>3. \A i \in 0..Len(t) :
          i \in Reach(p, t) <=> b # NoMatch /\ b + Len(l) <= i /\ EndsAt(t, l, i)
    BY <1>1, <1>9, <2>1 DEF Walked
  <2>4. k # NoMatch /\ k <= j
          <=> /\ b # NoMatch
              /\ \E i \in 0..Len(t) : b + Len(l) <= i /\ EndsAt(t, l, i) /\ i <= j
    BY <1>4, <2>2, SearchEnds
  <2> QED
    BY <1>5, <2>3, <2>4
<1>10. k \in Stops(t)
  <2>1. qs \in Pieces(C)
    <3>1. Append(p, Star) \in Seq(C)
      OBVIOUS
    <3>2. \A q \in Seq(C) : Split(q, Star) \in Pieces(C)
      BY SplitSteps
    <3> QED
      BY <1>1, <3>1, <3>2
  <2> QED
    BY <1>3, <1>7, <2>1, ConsumedSteps
<1>11. \A j \in 0..Len(t) :
         j \in Reach(Append(p, Star), t) <=>
           k # NoMatch /\ k + Len(Last(qs)) <= j /\ EndsAt(t, Last(qs), j)
  <2>1. k # NoMatch => k + Len(<<>>) = k
    BY <1>10 DEF Stops
  <2>2. Len(ps) = 1 \/ Len(ps) > 1
    <3>1. PICK n : n = Len(ps)
      OBVIOUS
    <3>2. n \in Nat \ {0}
      BY <1>4, <3>1
    <3> QED
      BY <3>1, <3>2
  <2>3. \A j \in 0..Len(t) : j \in Reach(Append(p, Star), t) <=> k # NoMatch /\ k <= j
    BY <1>8, <1>9, <2>2
  <2>4. PICK e : e = Last(qs)
    OBVIOUS
  <2>5. (k # NoMatch => k + Len(e) = k) /\ \A j \in 0..Len(t) : EndsAt(t, e, j)
    BY <1>4, <1>6, <2>1, <2>4
  <2> QED
    BY <2>3, <2>4, <2>5
<1>12. Len(qs) # 1
  BY <1>4
<1> QED
  BY <1>1, <1>7, <1>11, <1>12 DEF Walked

\* The walk and what a glob reaches agree, for every glob.
LEMMA WalkedAlways ==
  ASSUME NEW C, NEW t \in Seq(C), NEW p \in Seq(C)
  PROVE  Walked(p, t)
<1> DEFINE Q == {q \in Seq(C) : Walked(q, t)}
<1>1. <<>> \in Q
  <2>1. Split(<<>>, Star) = <<<<>>>> /\ Reach(<<>>, t) = {0}
    BY SplitSteps, ReachFacts
  <2>2. Len(<<<<>>>>) = 1 /\ <<<<>>>>[1] = <<>> /\ Len(<<>>) = 0
    OBVIOUS
  <2>3. \A j \in 0..Len(t) : EndsAt(t, <<>>, j)
    BY DEF EndsAt
  <2>4. Walked(<<>>, t)
    <3>1. PICK ps, e : ps = Split(<<>>, Star) /\ e = <<>>
      OBVIOUS
    <3>2. Len(ps) = 1 /\ ps[1] = e
      BY <2>1, <2>2, <3>1
    <3>3. \A j \in 0..Len(t) : j \in Reach(e, t) <=> j = Len(e) /\ EndsAt(t, e, j)
      BY <2>1, <2>2, <2>3, <3>1
    <3>4. ~(Len(ps) > 1)
      BY <3>2
    <3>5. ps = Split(e, Star)
      BY <3>1
    <3>6. Walked(e, t)
      BY <3>2, <3>3, <3>4, <3>5 DEF Walked
    <3> QED
      BY <3>1, <3>6
  <2> QED
    BY <2>4
<1>2. ASSUME NEW q \in Seq(C), NEW c \in C, q \in Q PROVE Append(q, c) \in Q
  <2>1. Append(q, c) \in Seq(C)
    OBVIOUS
  <2>2. Walked(Append(q, c), t)
    BY <1>2, WalkedCharacter, WalkedStar
  <2> QED
    BY <2>1, <2>2
<1> HIDE DEF Q
<1>3. p \in Q
  BY <1>1, <1>2, SequencesByInduction
<1> QED
  BY <1>3 DEF Q

\* policy.go:119: the greedy walk decides exactly the paths that a glob means, for
\* every glob and every path.
THEOREM GreedyExact ==
  ASSUME NEW C, NEW t \in Seq(C), NEW p \in Seq(C)
  PROVE  globMatches(p, t) <=> Means(p, t)
<1>1. PICK ps, l, k : ps = Split(p, Star) /\ l = Last(ps) /\ k = Consumed(ps, t)
  OBVIOUS
<1>2. Walked(p, t)
  BY WalkedAlways
<1>s. PICK D : D = Seq(C)
  OBVIOUS
<1>3. ps \in Pieces(C) /\ ps \in Seq(D) \ {<<>>}
  <2>1. ps \in Pieces(C)
    BY <1>1, SplitSteps
  <2> QED
    BY <1>s, <2>1 DEF Pieces
<1>4. l \in Seq(C) /\ Len(ps) \in Nat \ {0} /\ k \in Stops(t) /\ Len(t) \in 0..Len(t)
  <2>1. l \in Seq(C)
    BY <1>1, <1>3, <1>s, FrontFacts
  <2>2. k \in Stops(t)
    <3>1. <<>> \in Seq(C)
      OBVIOUS
    <3> QED
      BY <1>1, <1>3, <3>1, ConsumedSteps
  <2> QED
    BY <1>3, <2>1, <2>2
<1>5. globMatches(p, t) <=> /\ p # <<>>
                            /\ IF Len(ps) = 1 THEN p = t
                               ELSE k # NoMatch /\ IsSuffix(l, From(t, k))
  BY <1>1 DEF globMatches, Consumed, Searches, FirstEnd
<1>6. ASSUME Len(ps) = 1 PROVE p = t <=> Len(t) \in Reach(p, t)
  <2>1. Len(t) \in Reach(p, t) <=> Len(t) = Len(p) /\ EndsAt(t, p, Len(t))
    BY <1>1, <1>2, <1>4, <1>6 DEF Walked
  <2>2. Len(t) = Len(p) => (EndsAt(t, p, Len(t)) <=> \A i \in 1..Len(p) : t[i] = p[i])
    BY DEF EndsAt
  <2>3. p = t <=> Len(t) = Len(p) /\ \A i \in 1..Len(p) : t[i] = p[i]
    BY SeqEqual
  <2> QED
    BY <2>1, <2>2, <2>3
<1>7. ASSUME Len(ps) # 1
      PROVE  k # NoMatch /\ IsSuffix(l, From(t, k)) <=> Len(t) \in Reach(p, t)
  <2>1. Len(t) \in Reach(p, t)
          <=> k # NoMatch /\ k + Len(l) <= Len(t) /\ EndsAt(t, l, Len(t))
    <3>1. Len(ps) > 1
      <4>1. PICK n : n = Len(ps)
        OBVIOUS
      <4>2. n \in Nat \ {0} /\ n # 1
        BY <1>4, <1>7, <4>1
      <4> QED
        BY <4>1, <4>2
    <3> QED
      BY <1>1, <1>2, <1>4, <3>1 DEF Walked
  <2>2. k # NoMatch => (IsSuffix(l, From(t, k)) <=> k + Len(l) <= Len(t) /\ EndsAt(t, l, Len(t)))
    BY <1>4, SuffixEnds DEF Stops
  <2> QED
    BY <2>1, <2>2
<1> QED
  BY <1>5, <1>6, <1>7 DEF Means

-----------------------------------------------------------------------------
(* The egress decision, for every policy, host, method and path.  Nothing    *)
(* here depends on what a host pattern or a glob matches.                    *)

\* blocked finds a block exactly when one hits, and then one that hits.
LEMMA BlockedFindsHit ==
  ASSUME NEW p, NEW host, NEW path, DOMAIN p.blocked \subseteq Nat \ {0}
  PROVE  LET i == blocked(p, host, path)
         IN /\ i # 0 => i \in DOMAIN p.blocked /\ Hits(p.blocked[i], host, path)
            /\ i = 0 => \A j \in DOMAIN p.blocked : ~Hits(p.blocked[j], host, path)
<1> DEFINE I == {i \in DOMAIN p.blocked : Hits(p.blocked[i], host, path)}
<1>1. CASE I = {}
  BY <1>1 DEF blocked
<1>2. CASE I # {}
  <2>1. blocked(p, host, path) = Leftmost(I)
    BY <1>2 DEF blocked
  <2>2. Leftmost(I) \in I
    BY <1>2, LeftmostExists
  <2> QED
    BY <2>1, <2>2
<1> QED
  BY <1>1, <1>2

\* policy.go:157: a request that any block hits is refused, whatever is permitted
\* and wherever in the list the block stands.
THEOREM BlockOverridesPermit ==
  ASSUME NEW p, NEW host, NEW method, NEW path,
         DOMAIN p.blocked \subseteq Nat \ {0},
         NEW i \in DOMAIN p.blocked, Hits(p.blocked[i], host, path)
  PROVE  ~Check(p, host, method, path).allow
<1>1. blocked(p, host, path) # 0
  BY BlockedFindsHit
<1> QED
  BY <1>1 DEF Check, Decide

\* policy.go:15: default deny.  What is let through, some enabled rule permits and
\* no block hits.
THEOREM AllowedIsPermitted ==
  ASSUME NEW p, NEW host, NEW method, NEW path,
         DOMAIN p.blocked \subseteq Nat \ {0},
         Check(p, host, method, path).allow
  PROVE  /\ \E r \in p.rules : enabled(r) /\ hostMatches(r.host, host)
         /\ \A i \in DOMAIN p.blocked : ~Hits(p.blocked[i], host, path)
<1>1. isHostname(host) /\ blocked(p, host, path) = 0
      /\ permits(p, host, method, path)
  BY DEF Check, Decide
<1> QED
  BY <1>1, BlockedFindsHit DEF permits

\* policy.go:230: a refused CONNECT hides no request that the check inside the
\* tunnel would have let through.
THEOREM TunnelRefusalSound ==
  ASSUME NEW p, NEW host, NEW method, NEW path,
         DOMAIN p.blocked \subseteq Nat \ {0},
         ~CheckTunnel(p, host).allow
  PROVE  ~Check(p, host, method, path).allow
<1> SUFFICES ASSUME Check(p, host, method, path).allow PROVE FALSE
  OBVIOUS
<1>1. /\ \E r \in p.rules : enabled(r) /\ hostMatches(r.host, host)
      /\ \A i \in DOMAIN p.blocked : ~Hits(p.blocked[i], host, path)
  BY AllowedIsPermitted
<1>2. isHostname(host)
  BY DEF Check, Decide
<1> DEFINE b == blocked(p, host, <<>>)
<1>3. b # 0 /\ Whole(p.blocked[b])
  BY <1>1, <1>2 DEF CheckTunnel, Decide
<1>4. b \in DOMAIN p.blocked /\ Hits(p.blocked[b], host, <<>>)
  BY <1>3, BlockedFindsHit
<1>5. Hits(p.blocked[b], host, path)
  BY <1>3, <1>4 DEF Hits
<1> QED
  BY <1>1, <1>4, <1>5

=============================================================================
