-------------------------- MODULE Decisions_proofs --------------------------
(***************************************************************************)
(* Proofs about the decisions, for inputs of every size over any hosts,    *)
(* characters, versions and lines that keep the assumptions of Decisions.  *)
(***************************************************************************)
EXTENDS Decisions, Policy_proofs

-----------------------------------------------------------------------------
(* The egress policy. *)

BlocksInv == policy.blocked \in Seq(Blocks)

\* The list of blocks grows at its end.
LEMMA BlocksInvariance == Spec => []BlocksInv
<1>1. Init => BlocksInv
  BY DEF Init, NoPolicy, BlocksInv
<1>2. BlocksInv /\ [Next]_vars => BlocksInv'
  <2> SUFFICES ASSUME BlocksInv, [Next]_vars PROVE BlocksInv'
    OBVIOUS
  <2>1. CASE Edit
    <3>1. CASE AddRule
      BY <3>1 DEF AddRule, BlocksInv
    <3>2. CASE AddBlock
      BY <3>2 DEF AddBlock, BlocksInv
    <3> QED
      BY <2>1, <3>1, <3>2 DEF Edit
  <2>2. CASE UNCHANGED policy
    BY <2>2 DEF BlocksInv
  <2> QED
    BY <2>1, <2>2 DEF Next, vars
<1> QED
  BY <1>1, <1>2, PTL DEF Spec

\* policy.go:230: a refused tunnel hides no request the per-request check would
\* have let through, whatever the policy has become and whoever asks.
THEOREM TunnelRefusalAlwaysFinal == Spec => []TunnelRefusalIsFinal
<1>1. BlocksInv => TunnelRefusalIsFinal
  <2> SUFFICES ASSUME BlocksInv PROVE TunnelRefusalIsFinal
    OBVIOUS
  <2>1. DOMAIN policy.blocked \subseteq Nat \ {0}
    BY DEF BlocksInv
  <2> QED
    BY <2>1, TunnelRefusalSound DEF TunnelRefusalIsFinal
<1> QED
  BY <1>1, BlocksInvariance, PTL

-----------------------------------------------------------------------------
(* The order of versions. *)

\* What cmpInt says.
LEMMA CmpIntSigns ==
  ASSUME NEW m \in Int, NEW n \in Int
  PROVE  /\ cmpInt(m, n) \in {-1, 0, 1} /\ cmpInt(n, m) = -cmpInt(m, n)
         /\ cmpInt(m, n) < 0 <=> m < n
         /\ cmpInt(m, n) = 0 <=> m = n
BY DEF cmpInt

\* Identifiers are ordered linearly: numbers, then words.
LEMMA IdentifiersOrdered ==
  ASSUME NEW x \in Identifiers, NEW y \in Identifiers
  PROVE  /\ compareIdentifier(x, y) \in {-1, 0, 1}
         /\ compareIdentifier(y, x) = -compareIdentifier(x, y)
         /\ compareIdentifier(x, y) = 0 <=> x = y
         /\ \A z \in Identifiers :
              compareIdentifier(x, y) < 0 /\ compareIdentifier(y, z) < 0
                => compareIdentifier(x, z) < 0
BY DEF Identifiers, compareIdentifier, cmpInt

\* How the first difference decides.
Below(a, b) ==
  \E i \in DOMAIN a \cap DOMAIN b :
    /\ compareIdentifier(a[i], b[i]) < 0
    /\ \A j \in 1..(i - 1) : a[j] = b[j]
Starts(a, b) == Len(a) <= Len(b) /\ \A j \in 1..Len(a) : a[j] = b[j]

\* What comparePre says of two prereleases.
LEMMA PreFirstDifference ==
  ASSUME NEW a \in Seq(Identifiers), NEW b \in Seq(Identifiers), a # <<>>, b # <<>>
  PROVE  /\ comparePre(a, b) \in {-1, 0, 1}
         /\ comparePre(b, a) = -comparePre(a, b)
         /\ comparePre(a, b) < 0 <=> Below(a, b) \/ (Starts(a, b) /\ Len(a) < Len(b))
         /\ comparePre(a, b) = 0 <=> Starts(a, b) /\ Len(a) = Len(b)
<1>0. /\ DOMAIN a = 1..Len(a) /\ DOMAIN b = 1..Len(b) /\ Len(a) \in Nat /\ Len(b) \in Nat
      /\ \A i \in DOMAIN a : a[i] \in Identifiers
      /\ \A i \in DOMAIN b : b[i] \in Identifiers
  OBVIOUS
<1>1. Differ(a, b) = {i \in DOMAIN a \cap DOMAIN b : a[i] # b[i]}
  BY <1>0, IdentifiersOrdered DEF Differ
<1>2. Differ(b, a) = Differ(a, b)
  BY <1>0, IdentifiersOrdered DEF Differ
<1>3. CASE Differ(a, b) = {}
  <2>1. ~Below(a, b) /\ (Starts(a, b) <=> Len(a) <= Len(b))
    BY <1>0, <1>1, <1>3, IdentifiersOrdered DEF Below, Starts
  <2>2. comparePre(a, b) = cmpInt(Len(a), Len(b)) /\ comparePre(b, a) = cmpInt(Len(b), Len(a))
    BY <1>2, <1>3 DEF comparePre
  <2> QED
    <3>1. PICK m, n : m = Len(a) /\ n = Len(b)
      OBVIOUS
    <3>2. m \in Int /\ n \in Int
      BY <1>0, <3>1
    <3>3. comparePre(a, b) = cmpInt(m, n) /\ comparePre(b, a) = cmpInt(n, m)
      BY <2>2, <3>1
    <3>4. comparePre(a, b) \in {-1, 0, 1} /\ comparePre(b, a) = -comparePre(a, b)
      BY <3>2, <3>3, CmpIntSigns
    <3>5. comparePre(a, b) < 0 <=> m < n
      BY <3>2, <3>3, CmpIntSigns
    <3>6. comparePre(a, b) = 0 <=> m = n
      BY <3>2, <3>3, CmpIntSigns
    <3>7. Starts(a, b) <=> m <= n
      BY <2>1, <3>1
    <3>8. comparePre(a, b) < 0 <=> Below(a, b) \/ (Starts(a, b) /\ m < n)
      BY <2>1, <3>2, <3>5, <3>7
    <3>9. comparePre(a, b) = 0 <=> Starts(a, b) /\ m = n
      BY <3>2, <3>6, <3>7
    <3> QED
      BY <3>1, <3>4, <3>8, <3>9
<1>4. CASE Differ(a, b) # {}
  <2> DEFINE i == Least(Differ(a, b))
  <2>1. i \in Differ(a, b) /\ \A j \in Differ(a, b) : i <= j
    <3>1. Differ(a, b) \subseteq Nat
      BY <1>0, <1>1
    <3> QED
      BY <1>4, <3>1, LeastExists DEF Least
  <2>2. comparePre(a, b) = compareIdentifier(a[i], b[i])
        /\ comparePre(b, a) = compareIdentifier(b[i], a[i])
    BY <1>2, <1>4 DEF comparePre
  <2> HIDE DEF i
  <2>3. /\ i \in 1..Len(a) /\ i \in 1..Len(b) /\ a[i] # b[i]
        /\ \A j \in 1..(i - 1) : a[j] = b[j]
    BY <1>0, <1>1, <2>1
  <2>4. compareIdentifier(a[i], b[i]) # 0
    BY <1>0, <2>3, IdentifiersOrdered
  <2>5. ~Starts(a, b)
    BY <2>3 DEF Starts
  <2>6. Below(a, b) <=> compareIdentifier(a[i], b[i]) < 0
    <3>1. ASSUME compareIdentifier(a[i], b[i]) < 0 PROVE Below(a, b)
      BY <1>0, <2>3, <3>1 DEF Below
    <3>2. ASSUME Below(a, b) PROVE compareIdentifier(a[i], b[i]) < 0
      <4>1. PICK k \in DOMAIN a \cap DOMAIN b :
              compareIdentifier(a[k], b[k]) < 0 /\ \A j \in 1..(k - 1) : a[j] = b[j]
        BY <3>2 DEF Below
      <4>2. a[k] # b[k]
        BY <1>0, <4>1, IdentifiersOrdered
      <4>3. k = i
        BY <1>0, <2>3, <4>1, <4>2
      <4> QED
        BY <4>1, <4>3
    <3> QED
      BY <3>1, <3>2
  <2>7. PICK c, d : c = compareIdentifier(a[i], b[i]) /\ d = compareIdentifier(b[i], a[i])
    OBVIOUS
  <2>8. a[i] \in Identifiers /\ b[i] \in Identifiers
    BY <1>0, <2>3
  <2>9. c \in {-1, 0, 1} /\ d = -c
    BY <2>7, <2>8, IdentifiersOrdered
  <2> QED
    BY <2>2, <2>4, <2>5, <2>6, <2>7, <2>9
<1> QED
  BY <1>3, <1>4

\* Prereleases below others are below what those are below.
LEMMA BelowTransitive ==
  ASSUME NEW a \in Seq(Identifiers), NEW b \in Seq(Identifiers), NEW c \in Seq(Identifiers),
         Below(a, b) \/ Starts(a, b), Below(b, c) \/ Starts(b, c)
  PROVE  Below(a, c) \/ Starts(a, c)
<1>0. /\ DOMAIN a = 1..Len(a) /\ DOMAIN b = 1..Len(b) /\ DOMAIN c = 1..Len(c)
      /\ Len(a) \in Nat /\ Len(b) \in Nat /\ Len(c) \in Nat
      /\ \A i \in DOMAIN a : a[i] \in Identifiers
      /\ \A i \in DOMAIN b : b[i] \in Identifiers
      /\ \A i \in DOMAIN c : c[i] \in Identifiers
  OBVIOUS
<1>1. CASE Below(a, b) /\ Below(b, c)
  <2>1. PICK i \in DOMAIN a \cap DOMAIN b :
          compareIdentifier(a[i], b[i]) < 0 /\ \A j \in 1..(i - 1) : a[j] = b[j]
    BY <1>1 DEF Below
  <2>2. PICK k \in DOMAIN b \cap DOMAIN c :
          compareIdentifier(b[k], c[k]) < 0 /\ \A j \in 1..(k - 1) : b[j] = c[j]
    BY <1>1 DEF Below
  <2>3. CASE i < k
    <3>1. c[i] = b[i] /\ i \in DOMAIN c /\ \A j \in 1..(i - 1) : a[j] = c[j]
      BY <1>0, <2>1, <2>2, <2>3
    <3> QED
      BY <2>1, <3>1 DEF Below
  <2>4. CASE k < i
    <3>1. a[k] = b[k] /\ k \in DOMAIN a /\ \A j \in 1..(k - 1) : a[j] = c[j]
      BY <1>0, <2>1, <2>2, <2>4
    <3> QED
      BY <2>2, <3>1 DEF Below
  <2>5. CASE i = k
    <3>1. compareIdentifier(a[i], c[i]) < 0 /\ \A j \in 1..(i - 1) : a[j] = c[j]
      BY <1>0, <2>1, <2>2, <2>5, IdentifiersOrdered
    <3> QED
      BY <2>1, <2>2, <2>5, <3>1 DEF Below
  <2> QED
    BY <1>0, <2>1, <2>2, <2>3, <2>4, <2>5
<1>2. CASE Below(a, b) /\ Starts(b, c)
  <2>1. PICK i \in DOMAIN a \cap DOMAIN b :
          compareIdentifier(a[i], b[i]) < 0 /\ \A j \in 1..(i - 1) : a[j] = b[j]
    BY <1>2 DEF Below
  <2>2. c[i] = b[i] /\ i \in DOMAIN c /\ \A j \in 1..(i - 1) : a[j] = c[j]
    BY <1>0, <1>2, <2>1 DEF Starts
  <2> QED
    BY <2>1, <2>2 DEF Below
<1>3. CASE Starts(a, b) /\ Below(b, c)
  <2>1. PICK k \in DOMAIN b \cap DOMAIN c :
          compareIdentifier(b[k], c[k]) < 0 /\ \A j \in 1..(k - 1) : b[j] = c[j]
    BY <1>3 DEF Below
  <2>2. CASE k <= Len(a)
    <3>1. a[k] = b[k] /\ k \in DOMAIN a /\ \A j \in 1..(k - 1) : a[j] = c[j]
      BY <1>0, <1>3, <2>1, <2>2 DEF Starts
    <3> QED
      BY <2>1, <3>1 DEF Below
  <2>3. CASE k > Len(a)
    BY <1>0, <1>3, <2>1, <2>3 DEF Starts
  <2> QED
    BY <1>0, <2>1, <2>2, <2>3
<1>4. CASE Starts(a, b) /\ Starts(b, c)
  BY <1>0, <1>4 DEF Starts
<1> QED
  BY <1>1, <1>2, <1>3, <1>4

\* Prerelease lists are ordered: a total preorder, the release on top.
LEMMA PresOrdered ==
  ASSUME NEW a \in Seq(Identifiers), NEW b \in Seq(Identifiers)
  PROVE  /\ comparePre(a, b) \in {-1, 0, 1}
         /\ comparePre(b, a) = -comparePre(a, b)
         /\ \A c \in Seq(Identifiers) :
              comparePre(a, b) <= 0 /\ comparePre(b, c) <= 0 => comparePre(a, c) <= 0
<1>1. \A s \in Seq(Identifiers) : Len(s) \in Nat /\ (s = <<>> <=> Len(s) = 0)
  OBVIOUS
<1>2. ASSUME NEW s \in Seq(Identifiers), NEW t \in Seq(Identifiers)
      PROVE  /\ comparePre(s, t) \in {-1, 0, 1} /\ comparePre(t, s) = -comparePre(s, t)
             /\ comparePre(s, t) <= 0 <=>
                  t = <<>> \/ (s # <<>> /\ (Below(s, t) \/ Starts(s, t)))
  <2>1. CASE s = <<>> \/ t = <<>>
    BY <1>1, <2>1 DEF comparePre, cmpInt
  <2>2. CASE s # <<>> /\ t # <<>>
    <3>1. Starts(s, t) <=> (Starts(s, t) /\ Len(s) < Len(t)) \/ (Starts(s, t) /\ Len(s) = Len(t))
      BY <1>1 DEF Starts
    <3> QED
      BY <2>2, <3>1, PreFirstDifference
  <2> QED
    BY <2>1, <2>2
<1>3. ASSUME NEW c \in Seq(Identifiers), comparePre(a, b) <= 0, comparePre(b, c) <= 0
      PROVE  comparePre(a, c) <= 0
  BY <1>2, <1>3, BelowTransitive
<1> QED
  BY <1>2, <1>3

\* Versions are ordered: a total preorder.
LEMMA SemversOrdered ==
  ASSUME NEW a \in Semvers, NEW b \in Semvers
  PROVE  /\ compareSemver(a, b) \in {-1, 0, 1}
         /\ compareSemver(b, a) = -compareSemver(a, b)
         /\ \A c \in Semvers :
              compareSemver(a, b) <= 0 /\ compareSemver(b, c) <= 0 => compareSemver(a, c) <= 0
<1>1. \A s \in Semvers : /\ s.major \in Int /\ s.minor \in Int /\ s.patch \in Int
                         /\ s.pre \in Seq(Identifiers)
  BY DEF Semvers
<1>2. ASSUME NEW s \in Semvers, NEW t \in Semvers
      PROVE  /\ compareSemver(s, t) \in {-1, 0, 1} /\ compareSemver(t, s) = -compareSemver(s, t)
             /\ compareSemver(s, t) <= 0 <=>
                  \/ s.major < t.major
                  \/ s.major = t.major /\ s.minor < t.minor
                  \/ s.major = t.major /\ s.minor = t.minor /\ s.patch < t.patch
                  \/ /\ s.major = t.major /\ s.minor = t.minor /\ s.patch = t.patch
                     /\ comparePre(s.pre, t.pre) <= 0
  <2>1. CASE s.major # t.major
    BY <1>1, <2>1 DEF compareSemver, cmpInt
  <2>2. CASE s.major = t.major /\ s.minor # t.minor
    BY <1>1, <2>2 DEF compareSemver, cmpInt
  <2>3. CASE s.major = t.major /\ s.minor = t.minor /\ s.patch # t.patch
    BY <1>1, <2>3 DEF compareSemver, cmpInt
  <2>4. CASE s.major = t.major /\ s.minor = t.minor /\ s.patch = t.patch
    BY <1>1, <2>4, PresOrdered DEF compareSemver
  <2> QED
    BY <2>1, <2>2, <2>3, <2>4
<1>3. ASSUME NEW c \in Semvers, compareSemver(a, b) <= 0, compareSemver(b, c) <= 0
      PROVE  compareSemver(a, c) <= 0
  <2>1. comparePre(a.pre, b.pre) <= 0 /\ comparePre(b.pre, c.pre) <= 0
          => comparePre(a.pre, c.pre) <= 0
    BY <1>1, PresOrdered
  <2>2. compareSemver(a, c) <= 0 <=>
          \/ a.major < c.major
          \/ a.major = c.major /\ a.minor < c.minor
          \/ a.major = c.major /\ a.minor = c.minor /\ a.patch < c.patch
          \/ /\ a.major = c.major /\ a.minor = c.minor /\ a.patch = c.patch
             /\ comparePre(a.pre, c.pre) <= 0
    BY <1>2
  <2>3. \/ a.major < b.major
        \/ a.major = b.major /\ a.minor < b.minor
        \/ a.major = b.major /\ a.minor = b.minor /\ a.patch < b.patch
        \/ /\ a.major = b.major /\ a.minor = b.minor /\ a.patch = b.patch
           /\ comparePre(a.pre, b.pre) <= 0
    BY <1>2, <1>3
  <2>4. \/ b.major < c.major
        \/ b.major = c.major /\ b.minor < c.minor
        \/ b.major = c.major /\ b.minor = c.minor /\ b.patch < c.patch
        \/ /\ b.major = c.major /\ b.minor = c.minor /\ b.patch = c.patch
           /\ comparePre(b.pre, c.pre) <= 0
    BY <1>2, <1>3
  <2>5. PICK a1, a2, a3, b1, b2, b3, c1, c2, c3 :
          /\ a1 = a.major /\ a2 = a.minor /\ a3 = a.patch
          /\ b1 = b.major /\ b2 = b.minor /\ b3 = b.patch
          /\ c1 = c.major /\ c2 = c.minor /\ c3 = c.patch
    OBVIOUS
  <2>6. {a1, a2, a3, b1, b2, b3, c1, c2, c3} \subseteq Int
    BY <1>1, <2>5
  <2> QED
    BY <2>1, <2>2, <2>3, <2>4, <2>5, <2>6
<1> QED
  BY <1>2, <1>3

\* What the regular expression matches is read as a version.
LEMMA parseSemverType ==
  /\ Absent \in Texts /\ Zero \in Semvers
  /\ \A t \in Texts : parseSemver(t) \in Semvers
<1>1. Absent \in Texts
  BY DEF Absent, Texts
<1>2. \A t \in Texts : parseSemver(t) \in Semvers
  BY DEF parseSemver, Texts, Semvers
<1> QED
  BY <1>1, <1>2 DEF Zero

\* supplychain.go:680: what lies between two versions in a span is in it.
THEOREM SpanIsInterval ==
  ASSUME NEW v, v.introduced \in Texts, v.fixed \in Texts, v.lastAffected \in Texts,
         NEW s \in Semvers, NEW t \in Semvers, NEW u \in Semvers,
         inSpan(v, s), inSpan(v, t), compareSemver(s, u) <= 0, compareSemver(u, t) <= 0
  PROVE  inSpan(v, u)
<1> DEFINE lo == IF Readable(v.introduced) THEN parseSemver(v.introduced) ELSE Zero
<1>1. /\ lo \in Semvers /\ parseSemver(v.fixed) \in Semvers
      /\ parseSemver(v.lastAffected) \in Semvers
  BY parseSemverType
<1>2. compareSemver(u, lo) >= 0
  <2>1. compareSemver(s, lo) >= 0
    BY DEF inSpan
  <2> HIDE DEF lo
  <2>2. compareSemver(lo, s) <= 0
    BY <1>1, <2>1, SemversOrdered
  <2>3. compareSemver(lo, u) <= 0
    BY <1>1, <2>2, SemversOrdered
  <2> QED
    BY <1>1, <2>3, SemversOrdered
<1>3. ASSUME NEW w \in Semvers, compareSemver(t, w) <= 0 PROVE compareSemver(u, w) <= 0
  BY <1>3, SemversOrdered
<1>4. ASSUME NEW w \in Semvers, compareSemver(t, w) < 0 PROVE compareSemver(u, w) < 0
  <2>1. CASE compareSemver(u, w) < 0
    BY <2>1
  <2>2. CASE ~(compareSemver(u, w) < 0)
    <3>1. compareSemver(w, u) <= 0
      BY <2>2, SemversOrdered
    <3>2. compareSemver(w, t) <= 0
      BY <3>1, SemversOrdered
    <3> QED
      BY <1>4, <3>2, SemversOrdered
  <2> QED
    BY <2>1, <2>2
<1> QED
  BY <1>1, <1>2, <1>3, <1>4 DEF inSpan

-----------------------------------------------------------------------------
(* The lines of a document, and the index they become. *)

\* Where a text is cut.
LEMMA OccurrencesOfOne ==
  ASSUME NEW C, NEW s \in Seq(C), NEW c
  PROVE  Occurrences(s, <<c>>, 0) = {i \in 0..(Len(s) - 1) : s[i + 1] = c}
BY DEF Occurrences

\* Cut parts a text into texts.
LEMMA CutType ==
  ASSUME NEW C, NEW s \in Seq(C), NEW c
  PROVE  /\ Cut(s, c).before \in Seq(C) /\ Cut(s, c).after \in Seq(C)
         /\ Cut(s, c).found \in BOOLEAN
<1> DEFINE I == Occurrences(s, <<c>>, 0)
<1>1. CASE I = {}
  BY <1>1 DEF Cut, Uncut
<1>2. CASE I # {}
  <2>1. I \subseteq Nat /\ \A i \in I : i \in 0..(Len(s) - 1)
    BY OccurrencesOfOne
  <2>2. Leftmost(I) \in 0..(Len(s) - 1)
    BY <1>2, <2>1, LeftmostExists
  <2>3. Cut(s, c) = CutAt(s, Leftmost(I))
    BY <1>2 DEF Cut
  <2> HIDE DEF I
  <2> QED
    BY <2>2, <2>3 DEF CutAt, From
<1> QED
  BY <1>1, <1>2

CutsAround(C, d) ==
  /\ \A a \in Without(C, d), b \in Seq(C) :
       Cut(a \o <<d>> \o b, d) = [before |-> a, after |-> b, found |-> TRUE]
  /\ \A a \in Without(C, d) : Cut(a, d) = [before |-> a, after |-> <<>>, found |-> FALSE]

\* A text is cut around the first separator.
LEMMA CutAround ==
  ASSUME NEW C, NEW d
  PROVE  CutsAround(C, d)
<1> SUFFICES ASSUME NEW a \in Without(C, d), NEW b \in Seq(C)
             PROVE  /\ Cut(a \o <<d>> \o b, d) = [before |-> a, after |-> b, found |-> TRUE]
                    /\ Cut(a, d) = [before |-> a, after |-> <<>>, found |-> FALSE]
  <2>1. <<>> \in Seq(C)
    OBVIOUS
  <2> QED
    BY <2>1 DEF CutsAround
<1> DEFINE E == C \cup {d}
           s == a \o <<d>> \o b
           n == Len(a)
<1>1. a \in Seq(E) /\ b \in Seq(E) /\ <<d>> \in Seq(E) /\ a \in Seq(C \ {d})
  <2>1. a \in Seq(C \ {d})
    BY DEF Without
  <2> QED
    BY <2>1
<1>2. /\ s \in Seq(E) /\ Len(s) = n + 1 + Len(b) /\ n \in Nat /\ Len(b) \in Nat
      /\ \A i \in 1..n : s[i] = a[i] /\ a[i] # d
      /\ s[n + 1] = d
      /\ \A i \in 1..Len(b) : s[n + 1 + i] = b[i]
  <2> HIDE DEF E
  <2>1. n \in Nat /\ Len(b) \in Nat /\ \A i \in 1..n : a[i] # d
    BY <1>1
  <2> QED
    BY <1>1, <2>1
<1> HIDE DEF s, E
<1>3. Occurrences(s, <<d>>, 0) = {i \in 0..(Len(s) - 1) : s[i + 1] = d}
  BY <1>2, OccurrencesOfOne
<1>4. Cut(s, d) = [before |-> a, after |-> b, found |-> TRUE]
  <2> DEFINE I == Occurrences(s, <<d>>, 0)
  <2>1. n \in I
    BY <1>2, <1>3
  <2>2. \A i \in I : n <= i
    <3> SUFFICES ASSUME NEW i \in I, i < n PROVE FALSE
      BY <1>2, <1>3
    <3>1. i + 1 \in 1..n /\ s[i + 1] = d
      BY <1>2, <1>3
    <3> QED
      BY <1>2, <3>1
  <2>3. I \subseteq Nat
    BY <1>3
  <2> HIDE DEF I
  <2>4. Leftmost(I) = n
    <3>1. Leftmost(I) \in I /\ \A j \in I : Leftmost(I) <= j
      BY <2>1, <2>3, LeftmostExists
    <3>2. PICK x, y : x = Leftmost(I) /\ y = n
      OBVIOUS
    <3>3. x \in Nat /\ y \in Nat /\ x <= y /\ y <= x
      BY <1>2, <2>1, <2>2, <2>3, <3>1, <3>2
    <3> QED
      BY <3>2, <3>3
  <2>5. Cut(s, d) = CutAt(s, n)
    BY <2>1, <2>4 DEF Cut, I
  <2>6. SubSeq(s, 1, n) = a
    <3>1. SubSeq(s, 1, n) \in Seq(E) /\ Len(SubSeq(s, 1, n)) = n
          /\ \A i \in 1..n : SubSeq(s, 1, n)[i] = a[i]
      BY <1>2
    <3> QED
      BY <1>1, <3>1, SeqEqual
  <2>7. From(s, n + 1) = b
    <3>1. PICK m, k : m = n + 2 /\ k = Len(s)
      OBVIOUS
    <3>2. From(s, n + 1) = SubSeq(s, m, k) /\ m \in 1..(k + 1) /\ k \in Nat /\ k - m + 1 = Len(b)
      BY <1>2, <3>1 DEF From
    <3>3. /\ SubSeq(s, m, k) \in Seq(E) /\ Len(SubSeq(s, m, k)) = Len(b)
          /\ \A i \in 1..Len(b) : SubSeq(s, m, k)[i] = s[m + i - 1]
      BY <1>2, <3>1, <3>2
    <3>4. \A i \in 1..Len(b) : m + i - 1 = n + 1 + i
      BY <1>2, <3>1
    <3>5. /\ From(s, n + 1) \in Seq(E) /\ Len(From(s, n + 1)) = Len(b)
          /\ \A i \in 1..Len(b) : From(s, n + 1)[i] = b[i]
      BY <1>2, <3>2, <3>3, <3>4
    <3> QED
      BY <1>1, <3>5, SeqEqual
  <2> QED
    BY <2>5, <2>6, <2>7 DEF CutAt
<1>5. Cut(a, d) = [before |-> a, after |-> <<>>, found |-> FALSE]
  <2>1. Occurrences(a, <<d>>, 0) = {i \in 0..(Len(a) - 1) : a[i + 1] = d}
    BY <1>1, OccurrencesOfOne
  <2>2. \A i \in 0..(Len(a) - 1) : i + 1 \in 1..n
    BY <1>2
  <2>3. Occurrences(a, <<d>>, 0) = {}
    BY <1>2, <2>1, <2>2
  <2> QED
    BY <2>3 DEF Cut, Uncut
<1> QED
  BY <1>4, <1>5 DEF s

\* A set of positions has a last one.
LEMMA LastPosition ==
  ASSUME NEW n \in Nat, NEW I, I \subseteq 1..n, I # {}
  PROVE  \E k \in 0..n : k + 1 \in I /\ \A i \in I : i <= k + 1
<1>1. Max(I) \in I /\ \A i \in I : Max(I) >= i
  BY MaxIn
<1>2. Max(I) - 1 \in 0..n /\ (Max(I) - 1) + 1 = Max(I)
  <2>1. \A k \in 1..n : k - 1 \in 0..n /\ (k - 1) + 1 = k
    OBVIOUS
  <2>2. Max(I) \in 1..n
    BY <1>1
  <2> QED
    BY <2>1, <2>2
<1> QED
  BY <1>1, <1>2

\* So does the cut at the last "@".
LEMMA CutLastType ==
  ASSUME NEW C, NEW s \in Seq(C)
  PROVE  /\ cutLast(s).before \in Seq(C) /\ cutLast(s).after \in Seq(C)
         /\ cutLast(s).found \in BOOLEAN
<1> DEFINE at == {i \in DOMAIN s : s[i] = "@"}
           n == CHOOSE k \in 0..Len(s) : k + 1 \in at /\ \A i \in at : i <= k + 1
<1>1. CASE at = {}
  BY <1>1 DEF cutLast, Uncut
<1>2. CASE at # {}
  <2>1. at \subseteq 1..Len(s) /\ Len(s) \in Nat
    OBVIOUS
  <2>2. n \in 0..Len(s)
    <3> HIDE DEF at
    <3> QED
      BY <1>2, <2>1, LastPosition
  <2>3. cutLast(s) = CutAt(s, n)
    BY <1>2 DEF cutLast
  <2> HIDE DEF n
  <2> QED
    BY <2>2, <2>3 DEF CutAt, From
<1> QED
  BY <1>1, <1>2

CuttingSolves(f, s) ==
  f = [T \in SUBSET DOMAIN s |->
         IF T = {} THEN 0 ELSE f[T \ {Max(T)}] + Len(s[Max(T)]) + 1]

\* The length of the first pieces is a solution of its recursion, at all the positions.
LEMMA CuttingIsSolution ==
  ASSUME NEW s
  PROVE  FoldLeft(LAMBDA k, piece : k + Len(piece) + 1, 0, s) = (CHOOSE f : CuttingSolves(f, s))[DOMAIN s]
BY Zenon DEF FoldLeft, MapThenFoldSet, CuttingSolves

\* The length of the first pieces, by its first value and its step.
LEMMA CuttingSteps ==
  ASSUME NEW C
  PROVE  /\ FoldLeft(LAMBDA k, piece : k + Len(piece) + 1, 0, <<>>) = 0
         /\ \A s \in Seq(Seq(C)) : FoldLeft(LAMBDA k, piece : k + Len(piece) + 1, 0, s) \in Nat
         /\ \A s \in Seq(Seq(C)), c \in Seq(C) :
              FoldLeft(LAMBDA k, piece : k + Len(piece) + 1, 0, Append(s, c)) = FoldLeft(LAMBDA k, piece : k + Len(piece) + 1, 0, s) + Len(c) + 1
<1> DEFINE V == Nat
           D == Seq(C)
           step == [c \in D |-> [a \in V |-> a + Len(c) + 1]]
           F == [s \in Seq(D) |-> FoldLeft(LAMBDA k, piece : k + Len(piece) + 1, 0, s)]
<1>1. step \in [D -> [V -> V]] /\ 0 \in V
  <2>1. \A c \in D : Len(c) \in Nat
    OBVIOUS
  <2> HIDE DEF D
  <2>2. \A c \in D, a \in Nat : a + Len(c) + 1 \in Nat
    BY <2>1
  <2> QED
    BY <2>2
<1>2. \A c \in D, a \in V : step[c][a] = a + Len(c) + 1
  OBVIOUS
<1> HIDE DEF V, D, step
<1>3. ASSUME NEW s \in Seq(D)
      PROVE  \E f : /\ Loops(f, V, Len(s), 0, BodyOf(step, s))
                   /\ FoldLeft(LAMBDA k, piece : k + Len(piece) + 1, 0, s) = f[1..Len(s)]
  <2>1. DOMAIN s = 1..Len(s) /\ \A i \in 1..Len(s) : s[i] \in D
    OBVIOUS
  <2>2. \E g : CuttingSolves(g, s)
    <3>1. PICK g : Taken(g, D, V, 0, step, s)
      BY <1>1, StepSolution
    <3>2. CuttingSolves(g, s)
      BY <1>2, <3>1 DEF CuttingSolves, Taken
    <3> QED
      BY <3>2
  <2>3. PICK f : CuttingSolves(f, s) /\ FoldLeft(LAMBDA k, piece : k + Len(piece) + 1, 0, s) = f[DOMAIN s]
    BY <2>2, CuttingIsSolution
  <2>4. Loops(f, V, Len(s), 0, BodyOf(step, s))
    <3>1. f[{}] = 0
      BY <2>3 DEF CuttingSolves
    <3>2. ASSUME NEW T \in SUBSET (1..Len(s)), NEW i \in 1..Len(s),
                 T # {}, i = Max(T), f[T \ {i}] \in V
          PROVE  f[T] = step[s[i]][f[T \ {i}]]
      <4>1. f[T] = f[T \ {i}] + Len(s[i]) + 1
        BY <2>1, <2>3, <3>2 DEF CuttingSolves
      <4> QED
        BY <1>2, <2>1, <3>2, <4>1
    <3> QED
      BY <1>1, <3>1, <3>2, StepLoops
  <2> QED
    BY <2>1, <2>3, <2>4
<1>4. Steps(F, D, V, 0, step)
  <2>1. Folds(F, D, V, 0, step)
    BY <1>3 DEF Folds
  <2> HIDE DEF F
  <2> QED
    BY <1>1, <2>1, FoldSteps
<1>5. <<>> \in Seq(D) /\ \A s \in Seq(D), c \in D : Append(s, c) \in Seq(D)
  OBVIOUS
<1> QED
  BY <1>2, <1>4, <1>5 DEF V, D, Steps

\* SplitN gives texts, at least one.
LEMMA SplitNType ==
  ASSUME NEW C, NEW s \in Seq(C), NEW c, NEW n \in Nat, n > 0
  PROVE  SplitN(s, c, n) \in Pieces(C)
<1> DEFINE pieces == Split(s, c)
           cut == FoldLeft(LAMBDA k, piece : k + Len(piece) + 1, 0, SubSeq(pieces, 1, n - 1))
<1>1. pieces \in Seq(Seq(C)) /\ pieces # <<>>
  BY SplitSteps DEF Pieces
<1>2. CASE Len(pieces) <= n
  BY <1>1, <1>2 DEF SplitN, Pieces
<1>3. CASE ~(Len(pieces) <= n)
  <2>1. SubSeq(pieces, 1, n - 1) \in Seq(Seq(C))
    BY <1>1, <1>3
  <2>2. cut \in Nat
    BY <2>1, CuttingSteps
  <2>3. SplitN(s, c, n) = Append(SubSeq(pieces, 1, n - 1), From(s, cut))
    BY <1>3 DEF SplitN
  <2> HIDE DEF cut, pieces
  <2>4. From(s, cut) \in Seq(C)
    BY <2>2 DEF From
  <2>5. PICK front, last : front = SubSeq(pieces, 1, n - 1) /\ last = From(s, cut)
    OBVIOUS
  <2>6. front \in Seq(Seq(C)) /\ last \in Seq(C)
    BY <2>1, <2>4, <2>5
  <2>7. Append(front, last) \in Seq(Seq(C)) /\ Append(front, last) # <<>>
    BY <2>6
  <2> QED
    BY <2>3, <2>5, <2>7 DEF Pieces
<1> QED
  BY <1>2, <1>3

Bands == {"critical", "high", "moderate", "low", "unknown"}

Vulns(C) ==
  [key : Seq(C), version : Seq(C), introduced : Texts, fixed : Texts, lastAffected : Texts,
   severity : Bands, kev : BOOLEAN, nofix : BOOLEAN, fixedIn : Seq(C), epss : Int]

Indexes(C) ==
  [tail : SUBSET Seq(C), pinned : SUBSET Seq(C), vulns : Seq(Vulns(C)),
   dropped : Nat, skipped : Nat]

\* What is read is a version's text.
LEMMA ReadType == ASSUME NEW t PROVE Read(t) \in Texts
BY SupplyChainAssumption, parseSemverType DEF Read

\* A flag changes neither the bounds of an entry nor its type.
LEMMA applyFlagType ==
  ASSUME NEW C, NEW v \in Vulns(C), NEW flag \in Seq(C)
  PROVE  applyFlag(v, flag) \in Vulns(C)
<1> DEFINE f == Cut(flag, "=")
<1>1. f.after \in Seq(C)
  BY CutType
<1>2. f.after \in DOMAIN Percent => Percent[f.after] \in Int
  BY SupplyChainAssumption
<1> HIDE DEF f
<1>3. /\ [v EXCEPT !.kev = TRUE] \in Vulns(C) /\ [v EXCEPT !.nofix = TRUE] \in Vulns(C)
      /\ [v EXCEPT !.fixedIn = f.after] \in Vulns(C)
      /\ f.after \in DOMAIN Percent => [v EXCEPT !.epss = Percent[f.after]] \in Vulns(C)
  BY <1>1, <1>2 DEF Vulns
<1>4. applyFlag(v, flag) \in
        {[v EXCEPT !.kev = TRUE], [v EXCEPT !.nofix = TRUE], [v EXCEPT !.fixedIn = f.after], v}
        \cup (IF f.after \in DOMAIN Percent THEN {[v EXCEPT !.epss = Percent[f.after]]} ELSE {})
  BY DEF applyFlag, f
<1> QED
  BY <1>3, <1>4

Applied(v, flags) == FoldLeft(applyFlag, v, flags)

FlagsSolves(f, s, v) ==
  f = [T \in SUBSET DOMAIN s |->
         IF T = {} THEN v ELSE applyFlag(f[T \ {Max(T)}], s[Max(T)])]

\* The loop over the flags is a solution of its recursion, at all the positions.
LEMMA FlagsIsSolution ==
  ASSUME NEW s, NEW v
  PROVE  Applied(v, s) = (CHOOSE f : FlagsSolves(f, s, v))[DOMAIN s]
BY Zenon DEF Applied, FoldLeft, MapThenFoldSet, FlagsSolves

\* The loop over the flags, by its first value and its step.
LEMMA FlagsSteps ==
  ASSUME NEW C, NEW v \in Vulns(C)
  PROVE  /\ Applied(v, <<>>) = v
         /\ \A s \in Seq(Seq(C)) : Applied(v, s) \in Vulns(C)
         /\ \A s \in Seq(Seq(C)), c \in Seq(C) :
              Applied(v, Append(s, c)) = applyFlag(Applied(v, s), c)
<1> DEFINE V == Vulns(C)
           D == Seq(C)
           step == [c \in D |-> [a \in V |-> applyFlag(a, c)]]
           F == [s \in Seq(D) |-> Applied(v, s)]
<1>1. step \in [D -> [V -> V]] /\ v \in V
  BY applyFlagType
<1>2. \A c \in D, a \in V : step[c][a] = applyFlag(a, c)
  OBVIOUS
<1> HIDE DEF V, D, step
<1>3. ASSUME NEW s \in Seq(D)
      PROVE  \E f : /\ Loops(f, V, Len(s), v, BodyOf(step, s))
                   /\ Applied(v, s) = f[1..Len(s)]
  <2>1. DOMAIN s = 1..Len(s) /\ \A i \in 1..Len(s) : s[i] \in D
    OBVIOUS
  <2>2. \E g : FlagsSolves(g, s, v)
    <3>1. PICK g : Taken(g, D, V, v, step, s)
      BY <1>1, StepSolution
    <3>2. FlagsSolves(g, s, v)
      BY <1>2, <3>1 DEF FlagsSolves, Taken
    <3> QED
      BY <3>2
  <2>3. PICK f : FlagsSolves(f, s, v) /\ Applied(v, s) = f[DOMAIN s]
    BY <2>2, FlagsIsSolution
  <2>4. Loops(f, V, Len(s), v, BodyOf(step, s))
    <3>1. f[{}] = v
      BY <2>3 DEF FlagsSolves
    <3>2. ASSUME NEW T \in SUBSET (1..Len(s)), NEW i \in 1..Len(s),
                 T # {}, i = Max(T), f[T \ {i}] \in V
          PROVE  f[T] = step[s[i]][f[T \ {i}]]
      <4>1. f[T] = applyFlag(f[T \ {i}], s[i])
        BY <2>1, <2>3, <3>2 DEF FlagsSolves
      <4> QED
        BY <1>2, <2>1, <3>2, <4>1
    <3> QED
      BY <1>1, <3>1, <3>2, StepLoops
  <2> QED
    BY <2>1, <2>3, <2>4
<1>4. Steps(F, D, V, v, step)
  <2>1. Folds(F, D, V, v, step)
    BY <1>3 DEF Folds
  <2> HIDE DEF F
  <2> QED
    BY <1>1, <2>1, FoldSteps
<1>5. <<>> \in Seq(D) /\ \A s \in Seq(D), c \in D : Append(s, c) \in Seq(D)
  OBVIOUS
<1> QED
  BY <1>2, <1>4, <1>5 DEF V, D, Steps

\* The flags of an entry leave its type.
LEMMA applyFlagsType ==
  ASSUME NEW C, NEW v \in Vulns(C), NEW flags \in Seq(C)
  PROVE  applyFlags(v, flags) \in Vulns(C)
<1>1. Split(flags, ",") \in Seq(Seq(C))
  BY SplitSteps DEF Pieces
<1> QED
  BY <1>1, FlagsSteps DEF applyFlags, Applied

\* An entry is made from the plain one, a field at a time.
LEMMA VulnsFields ==
  ASSUME NEW C
  PROVE  /\ Plain \in Vulns(C)
         /\ \A v \in Vulns(C) :
              /\ \A k \in Seq(C) : /\ [v EXCEPT !.key = k] \in Vulns(C)
                                   /\ [v EXCEPT !.version = k] \in Vulns(C)
                                   /\ [v EXCEPT !.fixedIn = k] \in Vulns(C)
              /\ \A t \in Texts : /\ [v EXCEPT !.introduced = t] \in Vulns(C)
                                  /\ [v EXCEPT !.fixed = t] \in Vulns(C)
                                  /\ [v EXCEPT !.lastAffected = t] \in Vulns(C)
              /\ \A b \in Bands : [v EXCEPT !.severity = b] \in Vulns(C)
<1>1. <<>> \in Seq(C) /\ "unknown" \in Bands /\ -1 \in Int
  BY DEF Bands
<1>2. Plain \in Vulns(C)
  BY <1>1, parseSemverType DEF Plain, Vulns, Off
<1>3. \A v \in Vulns(C), k \in Seq(C) :
        /\ [v EXCEPT !.key = k] \in Vulns(C) /\ [v EXCEPT !.version = k] \in Vulns(C)
        /\ [v EXCEPT !.fixedIn = k] \in Vulns(C)
  BY DEF Vulns
<1>4. \A v \in Vulns(C), t \in Texts :
        /\ [v EXCEPT !.introduced = t] \in Vulns(C) /\ [v EXCEPT !.fixed = t] \in Vulns(C)
        /\ [v EXCEPT !.lastAffected = t] \in Vulns(C)
  BY DEF Vulns
<1>5. \A v \in Vulns(C), b \in Bands : [v EXCEPT !.severity = b] \in Vulns(C)
  BY DEF Vulns
<1> QED
  BY <1>2, <1>3, <1>4, <1>5

\* The entry of a range is typed.
LEMMA rangeEntryType ==
  ASSUME NEW C, NEW parts \in Seq(Seq(C)), Len(parts) >= 6
  PROVE  rangeEntry(parts) \in Vulns(C)
<1> DEFINE v == [Plain EXCEPT !.key = parts[1], !.introduced = Read(parts[2]),
                   !.fixed = Read(parts[3]), !.lastAffected = Read(parts[4]),
                   !.severity = parseBandChar(parts[5]), !.fixedIn = parts[3]]
<1>1. \A i \in 1..Len(parts) : parts[i] \in Seq(C)
  OBVIOUS
<1>2. parts[1] \in Seq(C) /\ parts[3] \in Seq(C) /\ (Len(parts) = 7 => parts[7] \in Seq(C))
  <2>1. Len(parts) \in Nat
    OBVIOUS
  <2>2. \A n \in Nat : n >= 6 => 1 \in 1..n /\ 3 \in 1..n /\ (n = 7 => 7 \in 1..n)
    OBVIOUS
  <2>3. 1 \in 1..Len(parts) /\ 3 \in 1..Len(parts) /\ (Len(parts) = 7 => 7 \in 1..Len(parts))
    BY <2>1, <2>2
  <2> QED
    BY <1>1, <2>3
<1>3. /\ Read(parts[2]) \in Texts /\ Read(parts[3]) \in Texts /\ Read(parts[4]) \in Texts
      /\ parseBandChar(parts[5]) \in Bands
  BY ReadType DEF parseBandChar, Bands
<1>4. v \in Vulns(C)
  <2> DEFINE v1 == [Plain EXCEPT !.key = parts[1]]
             v2 == [v1 EXCEPT !.introduced = Read(parts[2])]
             v3 == [v2 EXCEPT !.fixed = Read(parts[3])]
             v4 == [v3 EXCEPT !.lastAffected = Read(parts[4])]
             v5 == [v4 EXCEPT !.severity = parseBandChar(parts[5])]
  <2>1. v1 \in Vulns(C)
    BY <1>2, VulnsFields
  <2>2. v2 \in Vulns(C)
    <3> HIDE DEF v1
    <3> QED
      BY <1>3, <2>1, VulnsFields
  <2>3. v3 \in Vulns(C)
    <3> HIDE DEF v2
    <3> QED
      BY <1>3, <2>2, VulnsFields
  <2>4. v4 \in Vulns(C)
    <3> HIDE DEF v3
    <3> QED
      BY <1>3, <2>3, VulnsFields
  <2>5. v5 \in Vulns(C)
    <3> HIDE DEF v4
    <3> QED
      BY <1>3, <2>4, VulnsFields
  <2>6. v = [v5 EXCEPT !.fixedIn = parts[3]]
    BY Zenon
  <2> HIDE DEF v, v5
  <2> QED
    BY <1>2, <2>5, <2>6, VulnsFields
<1> HIDE DEF v
<1>5. rangeEntry(parts) = IF Len(parts) = 7 THEN applyFlags(v, parts[7]) ELSE v
  BY DEF rangeEntry, v
<1> QED
  BY <1>2, <1>4, <1>5, applyFlagsType

\* So is the one of an enumerated version.
LEMMA versionEntryType ==
  ASSUME NEW C, NEW parts \in Seq(Seq(C)),
         NEW key, key.before \in Seq(C), key.after \in Seq(C)
  PROVE  versionEntry(key, parts) \in Vulns(C)
<1> DEFINE v == [Plain EXCEPT !.key = key.before, !.version = key.after,
                              !.severity = parseBandChar(parts[2])]
<1>1. ASSUME Len(parts) = 4 PROVE parts[4] \in Seq(C)
  <2>1. 4 \in 1..Len(parts)
    BY <1>1
  <2> QED
    BY <2>1
<1>2. parseBandChar(parts[2]) \in Bands
  BY DEF parseBandChar, Bands
<1>3. v \in Vulns(C)
  <2> DEFINE v1 == [Plain EXCEPT !.key = key.before]
             v2 == [v1 EXCEPT !.version = key.after]
  <2>1. v1 \in Vulns(C)
    BY VulnsFields
  <2>2. v2 \in Vulns(C)
    <3> HIDE DEF v1
    <3> QED
      BY <2>1, VulnsFields
  <2>3. v = [v2 EXCEPT !.severity = parseBandChar(parts[2])]
    BY Zenon
  <2> HIDE DEF v, v2
  <2> QED
    BY <1>2, <2>2, <2>3, VulnsFields
<1> HIDE DEF v
<1>4. versionEntry(key, parts) = IF Len(parts) = 4 THEN applyFlags(v, parts[4]) ELSE v
  BY DEF versionEntry, v
<1> QED
  BY <1>1, <1>3, <1>4, applyFlagsType

IndexesOf(T, W) ==
  [tail : SUBSET T, pinned : SUBSET T, vulns : Seq(W), dropped : Nat, skipped : Nat]

\* An index is made from the empty one, a part at a time.
LEMMA IndexesParts ==
  ASSUME NEW C
  PROVE  /\ NoEntries \in Indexes(C)
         /\ \A t \in Seq(C) : /\ [NoEntries EXCEPT !.tail = {t}] \in Indexes(C)
                              /\ [NoEntries EXCEPT !.pinned = {t}] \in Indexes(C)
         /\ \A v \in Vulns(C) : [NoEntries EXCEPT !.vulns = <<v>>] \in Indexes(C)
         /\ [NoEntries EXCEPT !.dropped = 1] \in Indexes(C)
         /\ \A sc \in Indexes(C) : /\ [sc EXCEPT !.dropped = @ + 1] \in Indexes(C)
                                   /\ [sc EXCEPT !.skipped = @ + 1] \in Indexes(C)
<1> DEFINE T == Seq(C)
           W == Vulns(C)
<1>1. Indexes(C) = IndexesOf(T, W)
  BY DEF Indexes, IndexesOf
<1> HIDE DEF T, W
<1>2. NoEntries \in IndexesOf(T, W)
  BY DEF NoEntries, IndexesOf
<1>3. \A t \in T : /\ [NoEntries EXCEPT !.tail = {t}] \in IndexesOf(T, W)
                   /\ [NoEntries EXCEPT !.pinned = {t}] \in IndexesOf(T, W)
  <2>1. \A sc \in IndexesOf(T, W), Q \in SUBSET T : /\ [sc EXCEPT !.tail = Q] \in IndexesOf(T, W)
                                                    /\ [sc EXCEPT !.pinned = Q] \in IndexesOf(T, W)
    BY Zenon DEF IndexesOf
  <2>2. \A t \in T : {t} \in SUBSET T
    OBVIOUS
  <2> QED
    BY <1>2, <2>1, <2>2
<1>4. \A q \in Seq(W) : [NoEntries EXCEPT !.vulns = q] \in IndexesOf(T, W)
  BY <1>2 DEF IndexesOf
<1>5. \A v \in W : <<v>> \in Seq(W)
  OBVIOUS
<1>6. \A k \in Nat : [NoEntries EXCEPT !.dropped = k] \in IndexesOf(T, W)
  <2>1. <<>> \in Seq(W) /\ {} \in SUBSET T /\ 0 \in Nat
    OBVIOUS
  <2> QED
    BY <2>1 DEF NoEntries, IndexesOf
<1>7. ASSUME NEW sc \in IndexesOf(T, W)
      PROVE  /\ [sc EXCEPT !.dropped = @ + 1] \in IndexesOf(T, W)
             /\ [sc EXCEPT !.skipped = @ + 1] \in IndexesOf(T, W)
  <2>1. \A k \in Nat : /\ [sc EXCEPT !.dropped = k] \in IndexesOf(T, W)
                       /\ [sc EXCEPT !.skipped = k] \in IndexesOf(T, W)
    BY Zenon DEF IndexesOf
  <2>2. sc.dropped \in Nat /\ sc.skipped \in Nat
    BY DEF IndexesOf
  <2>3. sc.dropped + 1 \in Nat /\ sc.skipped + 1 \in Nat
    BY <2>2
  <2> QED
    BY <2>1, <2>3, Zenon
<1>8. 1 \in Nat
  OBVIOUS
<1> QED
  BY <1>1, <1>2, <1>3, <1>4, <1>5, <1>6, <1>7, <1>8 DEF T, W

\* What two indexes hold together is an index.
LEMMA WithType ==
  ASSUME NEW C, NEW sc \in Indexes(C), NEW e \in Indexes(C)
  PROVE  With(sc, e) \in Indexes(C)
<1> DEFINE T == Seq(C)
           W == Vulns(C)
<1>1. Indexes(C) = IndexesOf(T, W)
  BY DEF Indexes, IndexesOf
<1> HIDE DEF T, W
<1>2. With(sc, e) \in IndexesOf(T, W)
  BY <1>1 DEF With, IndexesOf
<1> QED
  BY <1>1, <1>2

\* A line that has none of the shapes adds to the count of those dropped.
LEMMA EntriesType ==
  ASSUME NEW C, NEW mark, NEW body \in Seq(C)
  PROVE  Entries(mark, body) \in Indexes(C)
<1> DEFINE pin == Cut(body, "|")
           range == SplitN(body, "|", 7)
           listed == SplitN(body, "|", 4)
           key == cutLast(listed[1])
<1>1. pin.before \in Seq(C)
  BY CutType
<1>2. range \in Seq(Seq(C)) /\ listed \in Seq(Seq(C)) /\ Len(listed) > 0
  <2>1. range \in Pieces(C) /\ listed \in Pieces(C)
    BY SplitNType
  <2> HIDE DEF range, listed
  <2> QED
    BY <2>1 DEF Pieces
<1>3. key.before \in Seq(C) /\ key.after \in Seq(C)
  <2> HIDE DEF listed
  <2>1. listed[1] \in Seq(C)
    BY <1>2
  <2> QED
    BY <2>1, CutLastType
<1> HIDE DEF pin, range, listed, key
<1>4. Len(range) >= 6 => rangeEntry(range) \in Vulns(C)
  BY <1>2, rangeEntryType
<1>5. versionEntry(key, listed) \in Vulns(C)
  BY <1>2, <1>3, versionEntryType
<1>6. /\ [NoEntries EXCEPT !.tail = {body}] \in Indexes(C)
      /\ [NoEntries EXCEPT !.pinned = {pin.before}] \in Indexes(C)
      /\ \A v \in Vulns(C) : [NoEntries EXCEPT !.vulns = <<v>>] \in Indexes(C)
      /\ [NoEntries EXCEPT !.dropped = 1] \in Indexes(C)
  BY <1>1, IndexesParts
<1>7. Entries(mark, body) =
        CASE mark = "!" -> [NoEntries EXCEPT !.tail = {body}]
          [] mark = "=" /\ pin.found -> [NoEntries EXCEPT !.pinned = {pin.before}]
          [] mark = "~" /\ Len(range) >= 6 ->
               [NoEntries EXCEPT !.vulns = <<rangeEntry(range)>>]
          [] mark = "+" /\ Len(listed) >= 3 /\ key.found
                        /\ key.before # <<>> /\ key.after # <<>> ->
               [NoEntries EXCEPT !.vulns = <<versionEntry(key, listed)>>]
          [] OTHER -> [NoEntries EXCEPT !.dropped = 1]
  BY DEF Entries, pin, range, listed, key
<1> QED
  BY <1>4, <1>5, <1>6, <1>7

\* Every line leaves an index.
LEMMA addEntryType ==
  ASSUME NEW C
  PROVE  /\ NoEntries \in Indexes(C)
         /\ \A sc \in Indexes(C), line \in Seq(C) \ {<<>>} : addEntry(sc, line) \in Indexes(C)
<1>1. NoEntries \in Indexes(C)
  BY IndexesParts
<1>2. ASSUME NEW sc \in Indexes(C), NEW line \in Seq(C) \ {<<>>}
      PROVE  addEntry(sc, line) \in Indexes(C)
  <2>1. Tail(line) \in Seq(C)
    OBVIOUS
  <2>2. PICK e : e = Entries(Head(line), Tail(line))
    OBVIOUS
  <2>3. e \in Indexes(C)
    BY <2>1, <2>2, EntriesType
  <2>4. With(sc, e) \in Indexes(C)
    BY <2>3, WithType
  <2>5. /\ [sc EXCEPT !.dropped = @ + 1] \in Indexes(C)
        /\ [sc EXCEPT !.skipped = @ + 1] \in Indexes(C)
    BY IndexesParts
  <2>6. addEntry(sc, line) \in {[sc EXCEPT !.dropped = @ + 1],
                                [sc EXCEPT !.skipped = @ + 1], With(sc, e)}
    BY <2>2 DEF addEntry
  <2> QED
    BY <2>4, <2>5, <2>6
<1> QED
  BY <1>1, <1>2

IndexSolves(f, s) ==
  f = [T \in SUBSET DOMAIN s |->
         IF T = {} THEN NoEntries ELSE addEntry(f[T \ {Max(T)}], s[Max(T)])]

\* The loop over the lines is a solution of its recursion, at all the positions.
LEMMA IndexIsSolution ==
  ASSUME NEW s
  PROVE  FoldLeft(addEntry, NoEntries, s) = (CHOOSE f : IndexSolves(f, s))[DOMAIN s]
BY Zenon DEF FoldLeft, MapThenFoldSet, IndexSolves

\* The loop over the lines, by its first value and its step.
LEMMA IndexSteps ==
  ASSUME NEW C
  PROVE  /\ FoldLeft(addEntry, NoEntries, <<>>) = NoEntries
         /\ \A s \in Seq(Seq(C) \ {<<>>}) : FoldLeft(addEntry, NoEntries, s) \in Indexes(C)
         /\ \A s \in Seq(Seq(C) \ {<<>>}), c \in Seq(C) \ {<<>>} :
              FoldLeft(addEntry, NoEntries, Append(s, c)) = addEntry(FoldLeft(addEntry, NoEntries, s), c)
<1> DEFINE V == Indexes(C)
           D == Seq(C) \ {<<>>}
           step == [c \in D |-> [a \in V |-> addEntry(a, c)]]
           F == [s \in Seq(D) |-> FoldLeft(addEntry, NoEntries, s)]
<1>1. step \in [D -> [V -> V]] /\ NoEntries \in V
  BY addEntryType
<1>2. \A c \in D, a \in V : step[c][a] = addEntry(a, c)
  OBVIOUS
<1> HIDE DEF V, D, step
<1>3. ASSUME NEW s \in Seq(D)
      PROVE  \E f : /\ Loops(f, V, Len(s), NoEntries, BodyOf(step, s))
                   /\ FoldLeft(addEntry, NoEntries, s) = f[1..Len(s)]
  <2>1. DOMAIN s = 1..Len(s) /\ \A i \in 1..Len(s) : s[i] \in D
    OBVIOUS
  <2>2. \E g : IndexSolves(g, s)
    <3>1. PICK g : Taken(g, D, V, NoEntries, step, s)
      BY <1>1, StepSolution
    <3>2. IndexSolves(g, s)
      BY <1>2, <3>1 DEF IndexSolves, Taken
    <3> QED
      BY <3>2
  <2>3. PICK f : IndexSolves(f, s) /\ FoldLeft(addEntry, NoEntries, s) = f[DOMAIN s]
    BY <2>2, IndexIsSolution
  <2>4. Loops(f, V, Len(s), NoEntries, BodyOf(step, s))
    <3>1. f[{}] = NoEntries
      BY <2>3 DEF IndexSolves
    <3>2. ASSUME NEW T \in SUBSET (1..Len(s)), NEW i \in 1..Len(s),
                 T # {}, i = Max(T), f[T \ {i}] \in V
          PROVE  f[T] = step[s[i]][f[T \ {i}]]
      <4>1. f[T] = addEntry(f[T \ {i}], s[i])
        BY <2>1, <2>3, <3>2 DEF IndexSolves
      <4> QED
        BY <1>2, <2>1, <3>2, <4>1
    <3> QED
      BY <1>1, <3>1, <3>2, StepLoops
  <2> QED
    BY <2>1, <2>3, <2>4
<1>4. Steps(F, D, V, NoEntries, step)
  <2>1. Folds(F, D, V, NoEntries, step)
    BY <1>3 DEF Folds
  <2> HIDE DEF F
  <2> QED
    BY <1>1, <2>1, FoldSteps
<1>5. <<>> \in Seq(D) /\ \A s \in Seq(D), c \in D : Append(s, c) \in Seq(D)
  OBVIOUS
<1> QED
  BY <1>2, <1>4, <1>5 DEF V, D, Steps

-----------------------------------------------------------------------------
(* What the console writes, and how it is cut again. *)

\* What joining one more piece gives.
LEMMA JoinedGrows ==
  ASSUME NEW C, NEW d \in C
  PROVE  /\ \A w \in Seq(C) : Joined(<<w>>, d) = w
         /\ \A ps \in Pieces(C), w \in Seq(C) :
              Joined(Append(ps, w), d) = Joined(ps, d) \o <<d>> \o w
         /\ \A ps \in Pieces(C) : Joined(ps, d) \in Seq(C)
<1>s. PICK S : S = Seq(C)
  OBVIOUS
<1>0. <<d>> \in Seq(C) /\ <<>> \in Seq(C)
  OBVIOUS
<1>p. \A ps \in Pieces(C) : ps \in Seq(S) /\ ps # <<>>
  BY <1>s DEF Pieces
<1>1. Prefixed(<<>>, d) = <<>>
  BY PrefixedSteps
<1>2. ASSUME NEW ps \in Seq(S), NEW w \in S
      PROVE  /\ Prefixed(ps, d) \in S
             /\ Prefixed(Append(ps, w), d) = Prefixed(ps, d) \o (<<d>> \o w)
             /\ Prefixed(ps, d) \o (<<d>> \o w) # <<>>
  <2>1. /\ Prefixed(ps, d) \in Seq(C)
        /\ Prefixed(Append(ps, w), d) = Prefixed(ps, d) \o <<d>> \o w
    BY <1>s, <1>2, PrefixedSteps
  <2>2. PICK q : q = Prefixed(ps, d)
    OBVIOUS
  <2>3. q \in Seq(C) /\ w \in Seq(C)
    BY <1>s, <2>1, <2>2
  <2>4. (q \o <<d>>) \o w = q \o (<<d>> \o w) /\ q \o (<<d>> \o w) # <<>>
    BY <1>0, <2>3, ConcatAssociative
  <2> QED
    BY <1>s, <2>1, <2>2, <2>4
<1>3. ASSUME NEW ps \in Pieces(C)
      PROVE  Prefixed(ps, d) # <<>> /\ Prefixed(ps, d) \in Seq(C)
  <2>1. PICK q \in Seq(S), w \in S : ps = Append(q, w)
    BY <1>p, SequenceEmptyOrAppend
  <2> QED
    BY <1>s, <1>2, <1>p, <2>1
<1>4. ASSUME NEW w \in S PROVE Joined(<<w>>, d) = w
  <2>1. Append(<<>>, w) = <<w>> /\ <<>> \in Seq(S)
    OBVIOUS
  <2>2. Prefixed(<<w>>, d) = <<>> \o (<<d>> \o w)
    BY <1>1, <1>2, <2>1
  <2>3. w \in Seq(C)
    BY <1>s
  <2>4. Tail(<<>> \o (<<d>> \o w)) = w
    BY <2>3
  <2> QED
    BY <2>2, <2>4 DEF Joined
<1>5. ASSUME NEW ps \in Pieces(C), NEW w \in S
      PROVE  Joined(Append(ps, w), d) = Joined(ps, d) \o <<d>> \o w
  <2>1. PICK q : q = Prefixed(ps, d)
    OBVIOUS
  <2>2. Joined(Append(ps, w), d) = Tail(q \o (<<d>> \o w)) /\ Joined(ps, d) = Tail(q)
    BY <1>2, <1>p, <2>1 DEF Joined
  <2>3. q \in Seq(C) /\ q # <<>> /\ w \in Seq(C) /\ <<d>> \o w \in Seq(C)
    BY <1>0, <1>3, <1>s, <2>1
  <2>4. \A t \in Seq(C) : Tail(q \o t) = Tail(q) \o t /\ Tail(q) \in Seq(C)
    BY <2>3
  <2>5. (Tail(q) \o <<d>>) \o w = Tail(q) \o (<<d>> \o w)
    BY <1>0, <2>3, <2>4, ConcatAssociative
  <2> QED
    BY <2>2, <2>3, <2>4, <2>5
<1>6. ASSUME NEW ps \in Pieces(C) PROVE Joined(ps, d) \in Seq(C)
  BY <1>3 DEF Joined
<1> QED
  BY <1>s, <1>4, <1>5, <1>6

\* What is joined begins with the first piece.
LEMMA JoinedHead ==
  ASSUME NEW C, NEW d \in C, NEW ps \in Pieces(C)
  PROVE  \E r \in Seq(C) : Joined(ps, d) = Head(ps) \o r
<1>s. PICK S : S = Seq(C)
  OBVIOUS
<1> DEFINE Q == {s \in Seq(S) : s # <<>> => \E r \in S : Joined(s, d) = Head(s) \o r}
<1>1. <<>> \in Q
  OBVIOUS
<1>2. ASSUME NEW s \in Seq(S), NEW w \in S, s \in Q PROVE Append(s, w) \in Q
  <2>1. CASE s = <<>>
    <3>1. Append(s, w) = <<w>> /\ Head(Append(s, w)) = w /\ Append(s, w) \in Seq(S)
      BY <2>1
    <3>2. Joined(<<w>>, d) = w
      BY <1>s, JoinedGrows
    <3>3. w \o <<>> = w /\ <<>> \in S
      BY <1>s, ConcatEmptySeq
    <3> QED
      BY <3>1, <3>2, <3>3
  <2>2. CASE s # <<>>
    <3>1. PICK r \in S : Joined(s, d) = Head(s) \o r
      BY <1>2, <2>2
    <3>2. Append(s, w) \in Seq(S) /\ Head(Append(s, w)) = Head(s) /\ Head(s) \in S
      BY <2>2
    <3>3. Joined(Append(s, w), d) = Joined(s, d) \o <<d>> \o w
      <4>1. s \in Pieces(C) /\ w \in Seq(C)
        BY <1>s, <2>2 DEF Pieces
      <4>2. \A p \in Pieces(C), v \in Seq(C) : Joined(Append(p, v), d) = Joined(p, d) \o <<d>> \o v
        BY JoinedGrows
      <4> QED
        BY <4>1, <4>2
    <3>4. PICK x, y : x = Head(s) /\ y = <<d>>
      OBVIOUS
    <3>5. x \in S /\ y \in S
      BY <1>s, <3>2, <3>4
    <3>6. ((x \o r) \o y) \o w = x \o ((r \o y) \o w) /\ (r \o y) \o w \in S
      <4>1. Concatenates(S) /\ Associates(S)
        BY <1>s, Concats
      <4>2. ((x \o r) \o y) \o w = x \o ((r \o y) \o w)
        <5>1. Cat(Cat(Cat(x, r), y), w) = Cat(x, Cat(Cat(r, y), w))
          BY <3>5, <4>1, ConcatFour
        <5> QED
          BY <5>1 DEF Cat
      <4>3. r \o y \in S
        BY <3>5, <4>1 DEF Concatenates
      <4>4. (r \o y) \o w \in S
        BY <4>1, <4>3 DEF Concatenates
      <4> QED
        BY <4>2, <4>4
    <3>7. Joined(Append(s, w), d) = Head(s) \o ((r \o y) \o w)
      BY <3>1, <3>3, <3>4, <3>6
    <3>8. (r \o y) \o w \in S
      BY <3>6
    <3> QED
      BY <3>2, <3>7, <3>8
  <2> QED
    BY <2>1, <2>2
<1> HIDE DEF Q
<1>3. Seq(S) \subseteq Q
  BY <1>1, <1>2, SequencesByInduction
<1>4. ps \in Seq(S) /\ ps # <<>>
  BY <1>s DEF Pieces
<1>5. \E r \in S : Joined(ps, d) = Head(ps) \o r
  BY <1>3, <1>4 DEF Q
<1> QED
  BY <1>s, <1>5

\* Fields without the separator are the fields of what they are joined to.
LEMMA SplitJoined ==
  ASSUME NEW C, NEW d \in C, NEW ps \in Seq(Without(C, d)), ps # <<>>
  PROVE  Split(Joined(ps, d), d) = ps
<1>s. PICK W : W = Without(C, d)
  OBVIOUS
<1>0. \A s \in Seq(W) : s \in Seq(Seq(C))
  <2>1. W \subseteq Seq(C)
    BY <1>s, WithoutType
  <2> QED
    BY <2>1
<1> DEFINE Q == {s \in Seq(W) : s # <<>> => Split(Joined(s, d), d) = s}
<1>1. <<>> \in Q
  OBVIOUS
<1>2. ASSUME NEW s \in Seq(W), NEW w \in W, s \in Q PROVE Append(s, w) \in Q
  <2>1. Append(s, w) \in Seq(W) /\ w \in Seq(C) /\ w \in Without(C, d)
    BY <1>s, WithoutType
  <2>2. CASE s = <<>>
    <3>1. Append(s, w) = <<w>>
      BY <2>2
    <3>2. Split(Joined(<<w>>, d), d) = <<w>>
      <4>1. Joined(<<w>>, d) = w
        BY <2>1, JoinedGrows
      <4> QED
        BY <2>1, <4>1, SplitOne
    <3> QED
      BY <2>1, <3>1, <3>2
  <2>3. CASE s # <<>>
    <3>1. s \in Pieces(C)
      BY <1>0, <2>3 DEF Pieces
    <3>2. Joined(Append(s, w), d) = Joined(s, d) \o <<d>> \o w /\ Joined(s, d) \in Seq(C)
      <4>1. \A q \in Pieces(C), v \in Seq(C) : Joined(Append(q, v), d) = Joined(q, d) \o <<d>> \o v
        BY JoinedGrows
      <4>2. \A q \in Pieces(C) : Joined(q, d) \in Seq(C)
        BY JoinedGrows
      <4> QED
        BY <2>1, <3>1, <4>1, <4>2
    <3>3. Split(Joined(s, d), d) = s
      BY <1>2, <2>3
    <3>4. Split(Joined(Append(s, w), d), d) = Append(s, w)
      BY <2>1, <3>2, <3>3, SplitAppends
    <3> QED
      BY <2>1, <3>4
  <2> QED
    BY <2>2, <2>3
<1> HIDE DEF Q
<1>3. ps \in Q
  BY <1>s, <1>1, <1>2, SequencesByInduction
<1> QED
  BY <1>3 DEF Q

\* A finite set listed: each member once.
LEMMA SetListed ==
  ASSUME NEW S, IsFiniteSet(S)
  PROVE  /\ SetToSeq(S) \in Seq(S)
         /\ \A x \in S : \E i \in DOMAIN SetToSeq(S) : SetToSeq(S)[i] = x
         /\ SetToSeq(S) = <<>> <=> S = {}
<1>s. PICK D : D = 1..Cardinality(S)
  OBVIOUS
<1>1. Cardinality(S) \in Nat /\ ExistsBijection(D, S)
  BY <1>s, FS_CardinalityType
<1>2. \E f \in [D -> S] : IsInjective(f)
  BY <1>1 DEF ExistsBijection, Bijection, Injection
<1>3. PICK f : f = SetToSeq(S)
  OBVIOUS
<1>4. f \in [D -> S] /\ IsInjective(f)
  BY <1>2, <1>3, <1>s DEF SetToSeq
<1>5. IsFiniteSet(D) /\ Cardinality(D) = Cardinality(S)
  <2>1. 1 \in Int /\ Cardinality(S) \in Int /\ Cardinality(S) - 1 + 1 = Cardinality(S)
    BY <1>1
  <2>2. IsFiniteSet(1..Cardinality(S))
    BY <2>1, FS_Interval, Zenon
  <2>3. ExistsBijection(1..Cardinality(S), S)
    BY <1>1, <1>s
  <2> QED
    BY <1>s, <2>2, <2>3, FS_Bijection
<1>6. f \in Surjection(D, S)
  <2>1. f \in Injection(D, S)
    BY <1>4 DEF Injection
  <2> QED
    BY <1>5, <2>1, FS_Injection
<1>7. \A x \in S : \E i \in D : f[i] = x
  BY <1>6 DEF Surjection
<1>8. f \in Seq(S) /\ DOMAIN f = D /\ Len(f) = Cardinality(S)
  BY <1>1, <1>4, <1>s
<1>9. f = <<>> <=> S = {}
  BY <1>7, <1>8
<1> QED
  BY <1>3, <1>7, <1>8, <1>9

Field == Without(Characters, "|")

\* The flags of a line are one field at most.
LEMMA FlaggedType ==
  ASSUME NEW l \in Lines
  PROVE  /\ Flagged(l) \in Seq(Field)
         /\ l.v.flags = {} => Flagged(l) = <<>>
         /\ l.v.flags # {} => /\ SetToSeq(l.v.flags) \in Seq(Without(Characters \ {"|"}, ","))
                              /\ SetToSeq(l.v.flags) # <<>>
                              /\ Joined(SetToSeq(l.v.flags), ",") \in Field
                              /\ Flagged(l) = <<Joined(SetToSeq(l.v.flags), ",")>>
<1>1. l.v.flags \subseteq Without(Characters \ {"|"}, ",") /\ IsFiniteSet(l.v.flags)
  <2>1. Characters \ {"|", ","} = (Characters \ {"|"}) \ {","}
    OBVIOUS
  <2>2. Words({"|", ","}) = Without(Characters \ {"|"}, ",")
    BY <2>1 DEF Words, Without
  <2> QED
    BY <2>2, LinesAssumption
<1>2. SetToSeq(l.v.flags) \in Seq(l.v.flags) /\ (SetToSeq(l.v.flags) = <<>> <=> l.v.flags = {})
  BY <1>1, SetListed
<1>3. PICK q : q = SetToSeq(l.v.flags)
  OBVIOUS
<1>4. q \in Seq(Without(Characters \ {"|"}, ","))
  BY <1>1, <1>2, <1>3, SeqMonotonic
<1>5. ASSUME l.v.flags # {} PROVE Joined(q, ",") \in Field
  <2>1. "," \in Characters \ {"|"}
    BY LinesAssumption
  <2>2. q \in Pieces(Characters \ {"|"})
    <3>1. q # <<>>
      BY <1>2, <1>3, <1>5
    <3> QED
      BY <1>4, <3>1, WithoutPieces
  <2>3. Joined(q, ",") \in Seq(Characters \ {"|"})
    BY <2>1, <2>2, JoinedGrows
  <2> QED
    BY <2>3 DEF Field, Without
<1>6. /\ l.v.flags = {} => Flagged(l) = <<>>
      /\ l.v.flags # {} => Flagged(l) = <<Joined(q, ",")>>
  BY <1>3 DEF Flagged
<1>7. Flagged(l) \in Seq(Field)
  <2>1. \A x \in Field : <<x>> \in Seq(Field)
    OBVIOUS
  <2>2. <<>> \in Seq(Field)
    OBVIOUS
  <2> QED
    BY <1>5, <1>6, <2>1, <2>2
<1> QED
  BY <1>2, <1>3, <1>4, <1>5, <1>6, <1>7

\* No field holds what fields are separated with.
LEMMA ColumnsType ==
  ASSUME NEW l \in Lines
  PROVE  /\ Key(l) \in Field /\ Key(l) \o <<"@">> \o l.version \in Field
         /\ Columns(l) \in Seq(Field) /\ Columns(l) # <<>>
<1>s. PICK F : F = Field
  OBVIOUS
<1>1. /\ {l.name, l.v.introduced, l.v.fixed, l.v.lastAffected, l.version} \subseteq F
      /\ <<"M">> \in F /\ <<"G">> \in F /\ <<l.v.band>> \in F
  <2>1. Words({"|"}) = Field /\ Words({"|", "@"}) \subseteq Field
    BY DEF Words, Field, Without
  <2>2. \A c \in Characters : c # "|" => <<c>> \in Field
    BY DEF Field, Without
  <2>3. {l.name, l.v.introduced, l.v.fixed, l.v.lastAffected, l.version} \subseteq Field
    BY <2>1, LinesAssumption
  <2>4. "M" \in Characters /\ "G" \in Characters /\ l.v.band \in Characters \ {"|"}
    BY LinesAssumption
  <2> QED
    BY <1>s, <2>2, <2>3, <2>4
<1>2. <<l.ecosystem, "/">> \in F /\ <<"@">> \in F
  <2>1. {l.ecosystem, "/", "@"} \subseteq Characters \ {"|"}
    BY LinesAssumption
  <2> QED
    BY <1>s, <2>1 DEF Field, Without
<1>3. \A x \in F, y \in F : x \o y \in F
  BY <1>s DEF Field, Without
<1>4. Key(l) \in F /\ Key(l) \o <<"@">> \o l.version \in F
  BY <1>1, <1>2, <1>3 DEF Key
<1>5. Flagged(l) \in Seq(F)
  BY <1>s, FlaggedType
<1>6. PICK k, p, x : k = Key(l) /\ p = Key(l) \o <<"@">> \o l.version /\ x = Flagged(l)
  OBVIOUS
<1>7. PICK a, b, c, d, m, g :
        /\ a = l.v.introduced /\ b = l.v.fixed /\ c = l.v.lastAffected /\ d = <<l.v.band>>
        /\ m = <<"M">> /\ g = <<"G">>
  OBVIOUS
<1>8. {k, p, a, b, c, d, m, g} \subseteq F /\ x \in Seq(F)
  BY <1>1, <1>4, <1>5, <1>6, <1>7
<1>9. /\ <<k>> \in Seq(F) /\ <<p, m>> \in Seq(F) /\ <<p, d, g>> \in Seq(F)
      /\ <<k, a, b, c, d, g>> \in Seq(F)
  BY <1>8
<1>10. <<p, d, g>> \o x \in Seq(F) /\ <<k, a, b, c, d, g>> \o x \in Seq(F)
  BY <1>8, <1>9, ConcatProperties
<1>11. <<p, d, g>> \o x # <<>> /\ <<k, a, b, c, d, g>> \o x # <<>>
  BY <1>8, <1>9, ConcatEqualIffEmpty
<1>12. Columns(l) \in {<<k>>, <<p, m>>, <<p, d, g>> \o x, <<k, a, b, c, d, g>> \o x}
  <2>1. l.mark \in {"!", "?", "=", "+", "~"}
    BY LinesAssumption
  <2> QED
    BY <1>6, <1>7, <2>1 DEF Columns
<1>13. <<k>> # <<>> /\ <<p, m>> # <<>>
  OBVIOUS
<1> QED
  BY <1>4, <1>6, <1>s, <1>9, <1>10, <1>11, <1>12, <1>13

\* A line is its mark and its fields.
LEMMA WrittenType ==
  ASSUME NEW l \in Lines
  PROVE  /\ Written(l) \in Seq(Characters) \ {<<>>}
         /\ Head(Written(l)) = l.mark /\ Tail(Written(l)) = Joined(Columns(l), l.separator)
         /\ Joined(Columns(l), l.separator) \in Seq(Characters)
<1>1. l.mark \in Characters /\ l.separator \in Characters
  BY LinesAssumption
<1>2. Columns(l) \in Pieces(Characters)
  <2>1. Field \subseteq Seq(Characters)
    BY WithoutType DEF Field
  <2> QED
    BY <2>1, ColumnsType DEF Pieces
<1>3. Joined(Columns(l), l.separator) \in Seq(Characters)
  BY <1>1, <1>2, JoinedGrows
<1>4. \A t \in Seq(Characters) : /\ <<l.mark>> \o t \in Seq(Characters) \ {<<>>}
                                 /\ Head(<<l.mark>> \o t) = l.mark
                                 /\ Tail(<<l.mark>> \o t) = t
  BY <1>1
<1> QED
  BY <1>3, <1>4 DEF Written

\* The document is made of lines.
LEMMA AllWrittenType ==
  /\ AllWritten(<<>>) = <<>>
  /\ \A s \in Seq(Lines) : AllWritten(s) \in Seq(Seq(Characters) \ {<<>>})
  /\ \A s \in Seq(Lines), l \in Lines :
       AllWritten(Append(s, l)) = Append(AllWritten(s), Written(l))
<1>s. PICK D : D = Seq(Characters) \ {<<>>}
  OBVIOUS
<1>1. \A l \in Lines : Written(l) \in D
  BY <1>s, WrittenType
<1>2. AllWritten(<<>>) = <<>>
  BY DEF AllWritten
<1>3. \A s \in Seq(Lines) : AllWritten(s) \in Seq(D) /\ Len(AllWritten(s)) = Len(s)
  BY <1>1 DEF AllWritten
<1>4. ASSUME NEW s \in Seq(Lines), NEW l \in Lines
      PROVE  AllWritten(Append(s, l)) = Append(AllWritten(s), Written(l))
  BY <1>1 DEF AllWritten
<1> QED
  BY <1>s, <1>2, <1>3, <1>4

-----------------------------------------------------------------------------
(* The documents the console writes. *)

LinesInv == lines \in Seq(Lines)

\* The lines of the document grow at its end.
LEMMA LinesInvariance == Spec => []LinesInv
<1>1. Init => LinesInv
  BY DEF Init, LinesInv
<1>2. LinesInv /\ [Next]_vars => LinesInv'
  <2> SUFFICES ASSUME LinesInv, [Next]_vars PROVE LinesInv'
    OBVIOUS
  <2>1. CASE AddLine
    BY <2>1 DEF AddLine, LinesInv
  <2>2. CASE UNCHANGED lines
    BY <2>2 DEF LinesInv
  <2>3. SetField => UNCHANGED lines
    BY DEF SetField
  <2> QED
    BY <2>1, <2>2, <2>3 DEF Next, vars, written
<1> QED
  BY <1>1, <1>2, PTL DEF Spec

\* supplychain.go:680: a range is an interval, in every document of every length
\* that the console may write.
THEOREM SpansAlwaysIntervals == Spec => []SpansAreIntervals
<1>1. LinesInv => SpansAreIntervals
  <2> SUFFICES ASSUME LinesInv, NEW v \in ToSet(document.index.vulns),
                      NEW s \in Numbered, NEW t \in Numbered, NEW u \in Numbered,
                      inSpan(v, parseSemver(Read(s))), inSpan(v, parseSemver(Read(t))),
                      compareSemver(parseSemver(Read(s)), parseSemver(Read(u))) <= 0,
                      compareSemver(parseSemver(Read(u)), parseSemver(Read(t))) <= 0
               PROVE  inSpan(v, parseSemver(Read(u)))
    BY DEF SpansAreIntervals
  <2>1. document.index = FoldLeft(addEntry, NoEntries, AllWritten(lines))
    BY DEF document, parseSupplyChainDoc
  <2>2. document.index \in Indexes(Characters)
    BY <2>1, AllWrittenType, IndexSteps DEF LinesInv
  <2>3. v \in Vulns(Characters)
    <3>1. document.index.vulns \in Seq(Vulns(Characters))
      BY <2>2 DEF Indexes
    <3> QED
      BY <3>1 DEF ToSet
  <2>4. v.introduced \in Texts /\ v.fixed \in Texts /\ v.lastAffected \in Texts
    BY <2>3 DEF Vulns
  <2>5. \A x : parseSemver(Read(x)) \in Semvers
    BY ReadType, parseSemverType
  <2> QED
    BY <2>4, <2>5, SpanIsInterval
<1> QED
  BY <1>1, LinesInvariance, PTL

-----------------------------------------------------------------------------
(* What is read of a line. *)

\* The ecosystem of a line is what it was written with.
LEMMA EcosystemRead ==
  ASSUME NEW l \in Lines
  PROVE  /\ Cut(Tail(Written(l)), "/").found
         /\ Cut(Tail(Written(l)), "/").before = <<l.ecosystem>>
<1>1. Columns(l) \in Pieces(Characters) /\ l.separator \in Characters
  <2>1. Columns(l) \in Seq(Field) /\ Columns(l) # <<>>
    BY ColumnsType
  <2> QED
    BY <2>1, LinesAssumption, WithoutPieces DEF Field
<1>2. PICK r \in Seq(Characters) : Tail(Written(l)) = Head(Columns(l)) \o r
  <2>1. \A d \in Characters, ps \in Pieces(Characters) :
          \E r \in Seq(Characters) : Joined(ps, d) = Head(ps) \o r
    BY JoinedHead
  <2>2. Tail(Written(l)) = Joined(Columns(l), l.separator)
    BY WrittenType
  <2> QED
    BY <1>1, <2>1, <2>2
<1>s. PICK S : S = Seq(Characters)
  OBVIOUS
<1>c. Concatenates(S) /\ Associates(S)
  BY <1>s, Concats
<1>3. /\ l.name \in Seq(Characters) /\ l.version \in Seq(Characters)
      /\ <<"@">> \in Seq(Characters) /\ <<"/">> \in Seq(Characters)
      /\ <<l.ecosystem>> \in Seq(Characters) /\ <<l.ecosystem>> \in Without(Characters, "/")
  <2>1. {l.ecosystem, "@", "/"} \subseteq Characters /\ l.ecosystem # "/"
    BY LinesAssumption
  <2>2. \A Q : Words(Q) \subseteq Seq(Characters)
    BY DEF Words
  <2>3. l.name \in Seq(Characters) /\ l.version \in Seq(Characters)
    BY <2>2, LinesAssumption
  <2> QED
    BY <2>1, <2>3 DEF Without
<1>4. \E q \in Seq(Characters) : Head(Columns(l)) = <<l.ecosystem>> \o <<"/">> \o q
  <2>1. PICK e, n, v, h : /\ e = <<l.ecosystem>> /\ n = l.name /\ v = l.version
                          /\ h = <<l.ecosystem>> \o <<"/">>
    OBVIOUS
  <2>2. <<l.ecosystem, "/">> = h
    BY <2>1
  <2>3. Head(Columns(l)) \in {Key(l), Key(l) \o <<"@">> \o l.version}
    <3>1. l.mark \in {"!", "?", "=", "+", "~"}
      BY LinesAssumption
    <3>2. PICK x : x = Flagged(l)
      OBVIOUS
    <3>3. x \in Seq(Field)
      BY <3>2, FlaggedType
    <3>4. /\ \A a, b : Head(<<a>>) = a /\ Head(<<a, b>>) = a
          /\ \A a, b, c : Head(<<a, b, c>> \o x) = a
          /\ \A a, b, c, d, f, g : Head(<<a, b, c, d, f, g>> \o x) = a
      BY <3>3
    <3>5. CASE l.mark \in {"!", "?"}
      BY <3>4, <3>5 DEF Columns
    <3>6. CASE l.mark = "="
      BY <3>4, <3>6 DEF Columns
    <3>7. CASE l.mark = "+"
      <4>1. Columns(l) = <<Key(l) \o <<"@">> \o l.version, <<l.v.band>>, <<"G">>>> \o x
        BY <3>2, <3>7 DEF Columns
      <4>2. PICK k : k = Key(l) \o <<"@">> \o l.version
        OBVIOUS
      <4>3. PICK b, g : b = <<l.v.band>> /\ g = <<"G">>
        OBVIOUS
      <4>4. Columns(l) = <<k, b, g>> \o x
        BY <4>1, <4>2, <4>3
      <4>5. Head(Columns(l)) = k
        BY <3>4, <4>4
      <4> QED
        BY <4>2, <4>5
    <3>8. CASE l.mark = "~"
      <4>1. Columns(l) = <<Key(l), l.v.introduced, l.v.fixed, l.v.lastAffected,
                           <<l.v.band>>, <<"G">>>> \o x
        BY <3>2, <3>8 DEF Columns
      <4> QED
        BY <3>4, <4>1
    <3> QED
      BY <3>1, <3>5, <3>6, <3>7, <3>8
  <2>4. Key(l) = h \o n
    BY <2>1, <2>2 DEF Key
  <2>5. h \in S /\ n \in S /\ v \in S /\ <<"@">> \in S
    BY <1>3, <1>s, <1>c, <2>1 DEF Concatenates
  <2>6. ((h \o n) \o <<"@">>) \o v = h \o ((n \o <<"@">>) \o v) /\ (n \o <<"@">>) \o v \in S
    <3>1. PICK y : y = <<"@">>
      OBVIOUS
    <3>2. y \in S
      BY <2>5, <3>1
    <3>3. ((h \o n) \o y) \o v = h \o ((n \o y) \o v) /\ (n \o y) \o v \in S
      <4>1. ((h \o n) \o y) \o v = h \o ((n \o y) \o v)
        <5>1. Cat(Cat(Cat(h, n), y), v) = Cat(h, Cat(Cat(n, y), v))
          BY <1>c, <2>5, <3>2, ConcatFour
        <5> QED
          BY <5>1 DEF Cat
      <4>2. n \o y \in S
        BY <1>c, <2>5, <3>2 DEF Concatenates
      <4>3. (n \o y) \o v \in S
        BY <1>c, <2>5, <4>2 DEF Concatenates
      <4> QED
        BY <4>1, <4>3
    <3> QED
      BY <3>1, <3>3
  <2> QED
    BY <1>s, <2>1, <2>3, <2>4, <2>5, <2>6
<1>5. PICK q \in Seq(Characters) : Head(Columns(l)) = <<l.ecosystem>> \o <<"/">> \o q
  BY <1>4
<1>6. PICK e, h : e = <<l.ecosystem>> /\ h = <<l.ecosystem>> \o <<"/">>
  OBVIOUS
<1>7. (h \o q) \o r = h \o (q \o r) /\ q \o r \in Seq(Characters)
  <2>1. h \in S /\ q \in S /\ r \in S
    BY <1>3, <1>6, <1>c, <1>s DEF Concatenates
  <2>2. (h \o q) \o r = h \o (q \o r)
    BY <1>c, <2>1 DEF Associates
  <2>3. q \o r \in S
    BY <1>c, <2>1 DEF Concatenates
  <2> QED
    BY <1>s, <2>2, <2>3
<1>8. Tail(Written(l)) = e \o <<"/">> \o (q \o r) /\ e \in Without(Characters, "/")
  BY <1>2, <1>3, <1>5, <1>6, <1>7
<1>9. CutsAround(Characters, "/")
  BY CutAround
<1>10. Cut(Tail(Written(l)), "/") = [before |-> e, after |-> q \o r, found |-> TRUE]
  BY <1>7, <1>8, <1>9 DEF CutsAround
<1> QED
  BY <1>6, <1>10

EntryOf(l) == Entries(l.mark, Tail(Written(l)))
Pin(l) == Key(l) \o <<"@">> \o l.version

\* A line is dropped, skipped, or adds its entry.
LEMMA LineEntered ==
  ASSUME NEW sc, NEW l \in Lines
  PROVE  addEntry(sc, Written(l)) =
           IF l.mark = "?" THEN [sc EXCEPT !.dropped = @ + 1]
           ELSE IF l.ecosystem # "npm" THEN [sc EXCEPT !.skipped = @ + 1]
           ELSE With(sc, EntryOf(l))
<1>1. PICK body, e : body = Tail(Written(l)) /\ e = <<l.ecosystem>>
  OBVIOUS
<1>2. Cut(body, "/").found /\ Cut(body, "/").before = e /\ Head(Written(l)) = l.mark
  BY <1>1, EcosystemRead, WrittenType
<1>3. l.mark \in {"!", "?", "=", "+", "~"}
  BY LinesAssumption
<1>4. e # <<>> /\ (e \in Enforceable <=> l.ecosystem = "npm")
  BY <1>1 DEF Enforceable
<1> QED
  BY <1>1, <1>2, <1>3, <1>4 DEF addEntry, EntryOf

\* What is read of malware: the whole line, or what stands before the separator.
LEMMA MalwareLine ==
  ASSUME NEW l \in Lines
  PROVE  /\ l.mark = "!" => EntryOf(l) = [NoEntries EXCEPT !.tail = {Key(l)}]
         /\ l.mark = "=" => EntryOf(l) = IF l.separator = "|"
                                         THEN [NoEntries EXCEPT !.pinned = {Pin(l)}]
                                         ELSE [NoEntries EXCEPT !.dropped = 1]
<1>1. PICK body : body = Tail(Written(l))
  OBVIOUS
<1>2. body = Joined(Columns(l), l.separator) /\ l.separator \in Characters
  BY <1>1, WrittenType, LinesAssumption
<1>3. CutsAround(Characters, "|")
  BY CutAround
<1>4. ASSUME NEW k \in Field
      PROVE  /\ k \in Without(Characters, "|") /\ k \in Seq(Characters)
             /\ Joined(<<k>>, l.separator) = k
  <2>1. k \in Without(Characters, "|") /\ k \in Seq(Characters)
    BY WithoutType DEF Field
  <2> QED
    BY <1>2, <2>1, JoinedGrows
<1>5. ASSUME l.mark = "!" PROVE EntryOf(l) = [NoEntries EXCEPT !.tail = {Key(l)}]
  <2>1. Columns(l) = <<Key(l)>> /\ Key(l) \in Field
    BY <1>5, ColumnsType DEF Columns
  <2>2. body = Key(l)
    BY <1>2, <1>4, <2>1
  <2> QED
    BY <1>1, <1>5, <2>2 DEF EntryOf, Entries
<1>6. ASSUME l.mark = "="
      PROVE  EntryOf(l) = IF l.separator = "|" THEN [NoEntries EXCEPT !.pinned = {Pin(l)}]
                          ELSE [NoEntries EXCEPT !.dropped = 1]
  <2>1. PICK k, m, d : k = Pin(l) /\ m = <<"M">> /\ d = l.separator
    OBVIOUS
  <2>2. Columns(l) = <<k, m>> /\ k \in Field /\ m \in Seq(Characters)
    <3>1. k \in Field /\ Columns(l) = <<k, m>>
      BY <1>6, <2>1, ColumnsType DEF Pin, Columns
    <3>2. "M" \in Characters
      BY LinesAssumption
    <3> QED
      BY <2>1, <3>1, <3>2
  <2>3. k \in Seq(Characters) /\ k \in Without(Characters, "|") /\ Joined(<<k>>, d) = k
    BY <1>4, <2>1, <2>2
  <2>4. Append(<<k>>, m) = <<k, m>> /\ <<k>> \in Pieces(Characters)
    <3>1. PICK S : S = Seq(Characters)
      OBVIOUS
    <3>2. <<k>> \in Seq(S) /\ <<k>> # <<>>
      BY <2>3, <3>1
    <3>3. <<k>> \in Pieces(Characters)
      BY <3>1, <3>2 DEF Pieces
    <3> QED
      BY <3>3, AppendTwo
  <2>5. body = k \o <<d>> \o m
    <3>0. d \in Characters
      BY <1>2, <2>1
    <3>1. \A p \in Pieces(Characters), w \in Seq(Characters) :
            Joined(Append(p, w), d) = Joined(p, d) \o <<d>> \o w
      BY <3>0, JoinedGrows
    <3>2. Joined(<<k, m>>, d) = k \o <<d>> \o m
      BY <2>2, <2>3, <2>4, <3>1
    <3> QED
      BY <1>2, <2>1, <2>2, <3>2
  <2>6. CASE d = "|"
    <3>1. Cut(body, "|").found /\ Cut(body, "|").before = k
      <4>1. Cut(body, "|") = [before |-> k, after |-> m, found |-> TRUE]
        BY <1>3, <2>2, <2>3, <2>5, <2>6 DEF CutsAround
      <4> QED
        BY <4>1
    <3>2. EntryOf(l) = [NoEntries EXCEPT !.pinned = {k}]
      BY <1>1, <1>6, <3>1 DEF EntryOf, Entries
    <3> QED
      BY <2>1, <2>6, <3>2
  <2>7. CASE d # "|"
    <3>1. body \in Without(Characters, "|")
      <4>1. PICK D : D = Characters \ {"|"}
        OBVIOUS
      <4>2. d \in D /\ k \in Seq(D) /\ m \in Seq(D)
        <5>1. "M" \in Characters /\ k \in Seq(D)
          BY <2>3, <4>1, LinesAssumption DEF Without
        <5> QED
          BY <1>2, <2>1, <2>7, <4>1, <5>1
      <4>3. k \o <<d>> \o m \in Seq(D)
        BY <4>2
      <4> QED
        BY <2>5, <4>1, <4>3 DEF Without
    <3>2. ~Cut(body, "|").found
      <4>1. <<>> \in Seq(Characters)
        OBVIOUS
      <4> QED
        BY <1>3, <3>1, <4>1 DEF CutsAround
    <3> QED
      BY <1>1, <1>6, <2>1, <2>7, <3>2 DEF EntryOf, Entries
  <2> QED
    BY <2>6, <2>7
<1> QED
  BY <1>5, <1>6

IndexOf(s) == FoldLeft(addEntry, NoEntries, AllWritten(s))

\* The index of one line more.
LEMMA IndexGrows ==
  /\ IndexOf(<<>>) = NoEntries
  /\ \A s \in Seq(Lines) : IndexOf(s) \in Indexes(Characters)
  /\ \A s \in Seq(Lines), l \in Lines :
       IndexOf(Append(s, l)) = addEntry(IndexOf(s), Written(l))
<1>s. PICK D : D = Seq(Characters) \ {<<>>}
  OBVIOUS
<1>1. /\ FoldLeft(addEntry, NoEntries, <<>>) = NoEntries
      /\ \A s \in Seq(D) : FoldLeft(addEntry, NoEntries, s) \in Indexes(Characters)
      /\ \A s \in Seq(D), c \in D :
           FoldLeft(addEntry, NoEntries, Append(s, c)) = addEntry(FoldLeft(addEntry, NoEntries, s), c)
  BY <1>s, IndexSteps
<1>2. /\ AllWritten(<<>>) = <<>>
      /\ \A s \in Seq(Lines) : AllWritten(s) \in Seq(D)
      /\ \A s \in Seq(Lines), l \in Lines :
           AllWritten(Append(s, l)) = Append(AllWritten(s), Written(l))
  BY <1>s, AllWrittenType
<1>3. \A l \in Lines : Written(l) \in D
  BY <1>s, WrittenType
<1> QED
  BY <1>1, <1>2, <1>3 DEF IndexOf

-----------------------------------------------------------------------------
(* Globs. *)

GlobInv == pattern \in Seq(Chars \cup {Star}) /\ path \in Seq(Chars \cup {Star})

\* Globs and paths are texts.
LEMMA GlobInvariance == Spec => []GlobInv
<1>1. Init => GlobInv
  BY DEF Init, GlobInv
<1>2. GlobInv /\ [Next]_vars => GlobInv'
  <2> SUFFICES ASSUME GlobInv, [Next]_vars PROVE GlobInv'
    OBVIOUS
  <2>1. CASE LongerPattern
    BY <2>1 DEF LongerPattern, GlobInv
  <2>2. CASE LongerPath
    BY <2>2 DEF LongerPath, GlobInv
  <2>3. CASE UNCHANGED glob
    BY <2>3 DEF GlobInv, glob
  <2> QED
    BY <2>1, <2>2, <2>3 DEF Next, Write, vars
<1> QED
  BY <1>1, <1>2, PTL DEF Spec

\* policy.go:119: the greedy walk is exact, for every glob and every path that is
\* written, of every length.
THEOREM GreedyWalkIsAlwaysExact == Spec => []GreedyWalkIsExact
<1>1. GlobInv => GreedyWalkIsExact
  BY GreedyExact DEF GlobInv, GreedyWalkIsExact
<1> QED
  BY <1>1, GlobInvariance, PTL

-----------------------------------------------------------------------------
(* Targets: what is sent is what was decided on. *)

Decoded(e) == CASE e = "%2e" -> "." [] e = "%2f" -> "/" [] OTHER -> e
Texted(C) == C \cup {".", "/"}

\* Unescaping takes a text character by character.
LEMMA UnescapeFacts ==
  ASSUME NEW C
  PROVE  /\ \A s \in Seq(C) : /\ Unescape(s) \in Seq(Texted(C)) /\ Len(Unescape(s)) = Len(s)
                              /\ \A i \in 1..Len(s) : Unescape(s)[i] = Decoded(s[i])
         /\ \A s, t \in Seq(C) : Unescape(s \o t) = Unescape(s) \o Unescape(t)
         /\ Unescape(<<>>) = <<>> /\ Unescape(<<"/">>) = <<"/">>
<1>1. \A c \in C : Decoded(c) \in Texted(C)
  BY DEF Decoded, Texted
<1>2. ASSUME NEW s \in Seq(C)
      PROVE  /\ Unescape(s) \in Seq(Texted(C)) /\ Len(Unescape(s)) = Len(s)
             /\ \A i \in 1..Len(s) : Unescape(s)[i] = Decoded(s[i])
  <2>1. Unescape(s) = [i \in 1..Len(s) |-> Decoded(s[i])]
    BY DEF Unescape, Decoded
  <2> QED
    BY <1>1, <2>1
<1>3. ASSUME NEW s \in Seq(C), NEW t \in Seq(C)
      PROVE  Unescape(s \o t) = Unescape(s) \o Unescape(t)
  <2>1. PICK u, x, y, m, n : /\ u = s \o t /\ x = Unescape(s) /\ y = Unescape(t)
                             /\ m = Len(s) /\ n = Len(t)
    OBVIOUS
  <2>2. u \in Seq(C) /\ Len(u) = m + n /\ m \in Nat /\ n \in Nat
        /\ (\A i \in 1..m : u[i] = s[i]) /\ \A i \in 1..n : u[m + i] = t[i]
    BY <2>1
  <2>3. /\ x \in Seq(Texted(C)) /\ Len(x) = m /\ \A i \in 1..m : x[i] = Decoded(s[i])
        /\ y \in Seq(Texted(C)) /\ Len(y) = n /\ \A i \in 1..n : y[i] = Decoded(t[i])
    BY <1>2, <2>1
  <2>4. PICK a, b : a = Unescape(u) /\ b = x \o y
    OBVIOUS
  <2>5. a \in Seq(Texted(C)) /\ Len(a) = m + n /\ \A i \in 1..(m + n) : a[i] = Decoded(u[i])
    BY <1>2, <2>2, <2>4
  <2>6. b \in Seq(Texted(C)) /\ Len(b) = m + n
        /\ (\A i \in 1..m : b[i] = x[i]) /\ \A i \in 1..n : b[m + i] = y[i]
    <3>1. PICK E : E = Texted(C)
      OBVIOUS
    <3>2. x \in Seq(E) /\ y \in Seq(E) /\ b = x \o y
      BY <2>3, <2>4, <3>1
    <3>3. b \in Seq(E)
      BY <3>2
    <3>4. Len(b) = Len(x) + Len(y)
      BY <3>2
    <3>5. (\A i \in 1..Len(x) : b[i] = x[i]) /\ \A i \in 1..Len(y) : b[Len(x) + i] = y[i]
      BY <3>2
    <3> QED
      BY <2>3, <3>1, <3>3, <3>4, <3>5
  <2>7. ASSUME NEW i \in 1..(m + n) PROVE a[i] = b[i]
    <3>1. CASE i \in 1..m
      BY <2>2, <2>3, <2>5, <2>6, <3>1
    <3>2. CASE i \notin 1..m
      <4>1. PICK j : j = i - m
        OBVIOUS
      <4>2. j \in 1..n /\ m + j = i
        BY <2>2, <3>2, <4>1
      <4>3. b[m + j] = y[j] /\ u[m + j] = t[j]
        BY <2>2, <2>6, <4>2
      <4>4. y[j] = Decoded(t[j])
        BY <2>3, <4>2
      <4>5. a[i] = Decoded(u[i])
        BY <2>5
      <4> QED
        BY <4>2, <4>3, <4>4, <4>5
    <3> QED
      BY <3>1, <3>2
  <2>8. a = b
    BY <2>5, <2>6, <2>7, SeqEqual
  <2> QED
    BY <2>1, <2>4, <2>8
<1>4. Unescape(<<>>) = <<>>
  BY DEF Unescape
<1>5. Unescape(<<"/">>) = <<"/">>
  BY DEF Unescape
<1> QED
  BY <1>2, <1>3, <1>4, <1>5

\* The segments that the walk keeps.
Kept(C) == {w \in Without(C, "/") : Unescape(w) \notin {<<>>, <<".">>, <<".", ".">>}}

AllDecoded(raw) == [i \in DOMAIN raw |-> Unescape(raw[i])]
Kepts(C) == {[raw |-> r, dec |-> AllDecoded(r)] : r \in Seq(Kept(C))}

WalkStep(acc, seg) ==
  LET d == Unescape(seg)
  IN IF d \in {<<>>, <<".">>} THEN acc
     ELSE IF d # <<".", ".">>
     THEN [raw |-> Append(acc.raw, seg), dec |-> Append(acc.dec, d)]
     ELSE IF acc.raw = <<>> THEN acc
     ELSE [raw |-> Front(acc.raw), dec |-> Front(acc.dec)]

\* What is kept and what it decodes to grow and shrink together.
LEMMA AllDecodedFacts ==
  ASSUME NEW K, NEW r \in Seq(K)
  PROVE  /\ AllDecoded(<<>>) = <<>>
         /\ \A w \in K : AllDecoded(Append(r, w)) = Append(AllDecoded(r), Unescape(w))
         /\ r # <<>> => Front(r) \in Seq(K) /\ AllDecoded(Front(r)) = Front(AllDecoded(r))
<1> DEFINE E == {Unescape(w) : w \in K}
           n == Len(r)
<1>1. n \in Nat /\ \A i \in 1..n : r[i] \in K
  OBVIOUS
<1>2. \A q \in Seq(K) : AllDecoded(q) \in Seq(E) /\ Len(AllDecoded(q)) = Len(q)
                        /\ \A i \in 1..Len(q) : AllDecoded(q)[i] = Unescape(q[i])
  BY DEF AllDecoded
<1>3. AllDecoded(<<>>) = <<>>
  BY DEF AllDecoded
<1> HIDE DEF E, n
<1>4. ASSUME NEW w \in K PROVE AllDecoded(Append(r, w)) = Append(AllDecoded(r), Unescape(w))
  <2>1. PICK q, a, x, b, u : /\ q = Append(r, w) /\ a = AllDecoded(q) /\ x = AllDecoded(r)
                             /\ u = Unescape(w) /\ b = Append(x, u)
    OBVIOUS
  <2>2. q \in Seq(K) /\ Len(q) = n + 1 /\ q[n + 1] = w /\ \A i \in 1..n : q[i] = r[i]
    BY <1>1, <2>1 DEF n
  <2>3. a \in Seq(E) /\ Len(a) = n + 1 /\ \A i \in 1..(n + 1) : a[i] = Unescape(q[i])
    BY <1>2, <2>1, <2>2
  <2>4. x \in Seq(E) /\ Len(x) = n /\ \A i \in 1..n : x[i] = Unescape(r[i])
    BY <1>2, <2>1 DEF n
  <2>5. u \in E
    BY <2>1 DEF E
  <2>6. b \in Seq(E) /\ Len(b) = n + 1 /\ b[n + 1] = u /\ \A i \in 1..n : b[i] = x[i]
    BY <1>1, <2>1, <2>4, <2>5
  <2>7. \A i \in 1..(n + 1) : i \in 1..n \/ i = n + 1
    BY <1>1
  <2>8. \A i \in 1..(n + 1) : a[i] = b[i]
    BY <1>1, <2>1, <2>2, <2>3, <2>4, <2>6, <2>7
  <2>9. a = b
    BY <2>3, <2>6, <2>8, SeqEqual
  <2> QED
    BY <2>1, <2>9
<1>5. ASSUME r # <<>> PROVE Front(r) \in Seq(K) /\ AllDecoded(Front(r)) = Front(AllDecoded(r))
  <2>1. PICK q, a, x, b, m : /\ q = Front(r) /\ a = AllDecoded(q) /\ x = AllDecoded(r)
                             /\ b = Front(x) /\ m = n - 1
    OBVIOUS
  <2>2. m \in Nat /\ m <= n /\ n = Len(r)
    BY <1>1, <1>5, <2>1 DEF n
  <2>3. q = SubSeq(r, 1, m) /\ q \in Seq(K) /\ Len(q) = m /\ \A i \in 1..m : q[i] = r[i]
    BY <1>1, <2>1, <2>2 DEF Front
  <2>4. x \in Seq(E) /\ Len(x) = n /\ \A i \in 1..n : x[i] = Unescape(r[i])
    BY <1>2, <2>1, <2>2
  <2>5. b \in Seq(E) /\ Len(b) = m /\ \A i \in 1..m : b[i] = x[i]
    <3>1. b = SubSeq(x, 1, m)
      BY <2>1, <2>2, <2>4 DEF Front
    <3> QED
      BY <2>2, <2>4, <3>1
  <2>6. a \in Seq(E) /\ Len(a) = m /\ \A i \in 1..m : a[i] = Unescape(q[i])
    BY <1>2, <2>1, <2>3
  <2>7. \A i \in 1..m : a[i] = b[i]
    BY <2>2, <2>3, <2>4, <2>5, <2>6
  <2>8. a = b
    BY <2>5, <2>6, <2>7, SeqEqual
  <2> QED
    BY <2>1, <2>3, <2>8
<1> QED
  BY <1>3, <1>4, <1>5

\* A step of the walk keeps what it keeps and what that decodes to together.
LEMMA WalkStepType ==
  ASSUME NEW C
  PROVE  /\ [raw |-> <<>>, dec |-> <<>>] \in Kepts(C)
         /\ \A acc \in Kepts(C), w \in Without(C, "/") : WalkStep(acc, w) \in Kepts(C)
<1>s. PICK K : K = Kept(C)
  OBVIOUS
<1>1. \A r \in Seq(K) : [raw |-> r, dec |-> AllDecoded(r)] \in Kepts(C)
  BY <1>s DEF Kepts
<1>2. [raw |-> <<>>, dec |-> <<>>] \in Kepts(C)
  <2>1. <<>> \in Seq(K)
    OBVIOUS
  <2>2. AllDecoded(<<>>) = <<>>
    BY DEF AllDecoded
  <2> QED
    BY <1>1, <2>1, <2>2
<1>3. ASSUME NEW acc \in Kepts(C), NEW w \in Without(C, "/") PROVE WalkStep(acc, w) \in Kepts(C)
  <2>1. PICK r \in Seq(K) : acc = [raw |-> r, dec |-> AllDecoded(r)]
    BY <1>s DEF Kepts
  <2>2. PICK d : d = Unescape(w)
    OBVIOUS
  <2>3. CASE d \in {<<>>, <<".">>}
    BY <2>2, <2>3 DEF WalkStep
  <2>4. CASE d \notin {<<>>, <<".">>, <<".", ".">>}
    <3>1. w \in K
      BY <1>s, <2>2, <2>4 DEF Kept
    <3>2. PICK q : q = Append(r, w)
      OBVIOUS
    <3>3. q \in Seq(K)
      BY <3>1, <3>2
    <3>5. \A v \in K : AllDecoded(Append(r, v)) = Append(AllDecoded(r), Unescape(v))
      BY AllDecodedFacts
    <3>6. AllDecoded(q) = Append(AllDecoded(r), d)
      BY <2>2, <3>1, <3>2, <3>5
    <3>4. WalkStep(acc, w) = [raw |-> q, dec |-> AllDecoded(q)]
      BY <2>1, <2>2, <2>4, <3>2, <3>6 DEF WalkStep
    <3> QED
      BY <1>1, <3>3, <3>4
  <2>5. CASE d = <<".", ".">>
    <3>1. d \notin {<<>>, <<".">>}
      BY <2>5
    <3>2. CASE r = <<>>
      BY <2>1, <2>2, <2>5, <3>1, <3>2 DEF WalkStep
    <3>3. CASE r # <<>>
      <4>1. PICK q : q = Front(r)
        OBVIOUS
      <4>2. q \in Seq(K) /\ AllDecoded(q) = Front(AllDecoded(r))
        BY <3>3, <4>1, AllDecodedFacts
      <4>3. WalkStep(acc, w) = [raw |-> q, dec |-> AllDecoded(q)]
        BY <2>1, <2>2, <2>5, <3>1, <3>3, <4>1, <4>2 DEF WalkStep
      <4> QED
        BY <1>1, <4>2, <4>3
    <3> QED
      BY <3>2, <3>3
  <2> QED
    BY <2>3, <2>4, <2>5
<1> QED
  BY <1>2, <1>3

WalkSolves(f, s) ==
  f = [T \in SUBSET DOMAIN s |->
         IF T = {} THEN [raw |-> <<>>, dec |-> <<>>] ELSE WalkStep(f[T \ {Max(T)}], s[Max(T)])]

\* The walk over the segments is a solution of its recursion, at all the positions.
LEMMA WalkIsSolution ==
  ASSUME NEW s
  PROVE  Walk(s) = (CHOOSE f : WalkSolves(f, s))[DOMAIN s]
BY Zenon DEF Walk, WalkStep, FoldLeft, MapThenFoldSet, WalkSolves

\* The walk over the segments, by its first value and its step.
LEMMA WalkSteps ==
  ASSUME NEW C
  PROVE  /\ Walk(<<>>) = [raw |-> <<>>, dec |-> <<>>]
         /\ \A s \in Seq(Without(C, "/")) : Walk(s) \in Kepts(C)
         /\ \A s \in Seq(Without(C, "/")), c \in Without(C, "/") :
              Walk(Append(s, c)) = WalkStep(Walk(s), c)
<1> DEFINE V == Kepts(C)
           D == Without(C, "/")
           step == [c \in D |-> [a \in V |-> WalkStep(a, c)]]
           F == [s \in Seq(D) |-> Walk(s)]
<1>1. step \in [D -> [V -> V]] /\ [raw |-> <<>>, dec |-> <<>>] \in V
  BY WalkStepType
<1>2. \A c \in D, a \in V : step[c][a] = WalkStep(a, c)
  OBVIOUS
<1> HIDE DEF V, D, step
<1>3. ASSUME NEW s \in Seq(D)
      PROVE  \E f : /\ Loops(f, V, Len(s), [raw |-> <<>>, dec |-> <<>>], BodyOf(step, s))
                   /\ Walk(s) = f[1..Len(s)]
  <2>1. DOMAIN s = 1..Len(s) /\ \A i \in 1..Len(s) : s[i] \in D
    OBVIOUS
  <2>2. \E g : WalkSolves(g, s)
    <3>1. PICK g : Taken(g, D, V, [raw |-> <<>>, dec |-> <<>>], step, s)
      BY <1>1, StepSolution
    <3>2. WalkSolves(g, s)
      BY <1>2, <3>1 DEF WalkSolves, Taken
    <3> QED
      BY <3>2
  <2>3. PICK f : WalkSolves(f, s) /\ Walk(s) = f[DOMAIN s]
    BY <2>2, WalkIsSolution
  <2>4. Loops(f, V, Len(s), [raw |-> <<>>, dec |-> <<>>], BodyOf(step, s))
    <3>1. f[{}] = [raw |-> <<>>, dec |-> <<>>]
      BY <2>3 DEF WalkSolves
    <3>2. ASSUME NEW T \in SUBSET (1..Len(s)), NEW i \in 1..Len(s),
                 T # {}, i = Max(T), f[T \ {i}] \in V
          PROVE  f[T] = step[s[i]][f[T \ {i}]]
      <4>1. f[T] = WalkStep(f[T \ {i}], s[i])
        BY <2>1, <2>3, <3>2 DEF WalkSolves
      <4> QED
        BY <1>2, <2>1, <3>2, <4>1
    <3> QED
      BY <1>1, <3>1, <3>2, StepLoops
  <2> QED
    BY <2>1, <2>3, <2>4
<1>4. Steps(F, D, V, [raw |-> <<>>, dec |-> <<>>], step)
  <2>1. Folds(F, D, V, [raw |-> <<>>, dec |-> <<>>], step)
    BY <1>3 DEF Folds
  <2> HIDE DEF F
  <2> QED
    BY <1>1, <2>1, FoldSteps
<1>5. <<>> \in Seq(D) /\ \A s \in Seq(D), c \in D : Append(s, c) \in Seq(D)
  OBVIOUS
<1> QED
  BY <1>2, <1>4, <1>5 DEF V, D, Steps

\* What a text is cut into has no separator left.
LEMMA SplitWithout ==
  ASSUME NEW C, NEW d, NEW s \in Seq(C)
  PROVE  Split(s, d) \in Seq(Without(C, d)) /\ Split(s, d) # <<>>
<1> DEFINE Q == {u \in Seq(C) : Split(u, d) \in Seq(Without(C, d)) /\ Split(u, d) # <<>>}
<1>s. PICK W : W = Without(C, d)
  OBVIOUS
<1>1. <<>> \in Q
  <2>1. PICK e, p : e = <<>> /\ p = <<e>>
    OBVIOUS
  <2>2. Split(e, d) = p /\ e \in W
    BY <1>s, <2>1, SplitSteps, WithoutType
  <2>3. e \in Seq(C) /\ p \in Seq(W) /\ p # <<>>
    BY <2>1, <2>2
  <2>4. e \in Q
    BY <1>s, <2>2, <2>3
  <2> QED
    BY <2>1, <2>4
<1>2. ASSUME NEW u \in Seq(C), NEW c \in C, u \in Q PROVE Append(u, c) \in Q
  <2>1. PICK p : p = Split(u, d)
    OBVIOUS
  <2>2. p \in Seq(W) /\ p # <<>>
    BY <1>2, <1>s, <2>1
  <2>3. Split(Append(u, c), d) = SplitStep(p, c, d)
    BY <2>1, SplitSteps
  <2>4. SplitStep(p, c, d) \in Seq(W) /\ SplitStep(p, c, d) # <<>>
    <3>1. CASE c = d
      <4>1. <<>> \in W
        BY <1>s, WithoutType
      <4>2. SplitStep(p, c, d) = Append(p, <<>>)
        BY <3>1 DEF SplitStep
      <4> QED
        BY <2>2, <4>1, <4>2
    <3>2. CASE c # d
      <4>1. PICK n, w, v : n = Len(p) /\ w = p[n] /\ v = Append(w, c)
        OBVIOUS
      <4>2. n \in 1..Len(p) /\ w \in W
        BY <2>2, <4>1
      <4>3. v \in W
        BY <1>s, <3>2, <4>1, <4>2, WithoutType
      <4>4. SplitStep(p, c, d) = [p EXCEPT ![n] = v]
        BY <3>2, <4>1, <4>2 DEF SplitStep
      <4>5. [p EXCEPT ![n] = v] \in Seq(W) /\ Len([p EXCEPT ![n] = v]) = n
        BY <2>2, <4>1, <4>2, <4>3
      <4> QED
        BY <2>2, <4>1, <4>2, <4>4, <4>5
    <3> QED
      BY <3>1, <3>2
  <2> QED
    BY <1>s, <2>3, <2>4
<1> HIDE DEF Q
<1>3. s \in Q
  BY <1>1, <1>2, SequencesByInduction
<1> QED
  BY <1>3 DEF Q

\* Joining and unescaping may be done in any order.
LEMMA UnescapePrefixed ==
  ASSUME NEW C, "/" \in C, NEW raw \in Seq(Seq(C))
  PROVE  Unescape(Prefixed(raw, "/")) = Prefixed(AllDecoded(raw), "/")
<1> DEFINE Q == {r \in Seq(Seq(C)) : /\ AllDecoded(r) \in Seq(Seq(Texted(C)))
                                     /\ Unescape(Prefixed(r, "/")) = Prefixed(AllDecoded(r), "/")}
<1>s. PICK S, E, T : S = Seq(C) /\ E = Texted(C) /\ T = Seq(E)
  OBVIOUS
<1>0. "/" \in E /\ <<"/">> \in S /\ <<"/">> \in T
  BY <1>s DEF Texted
<1>c. Concatenates(S) /\ Concatenates(T)
  BY <1>s, Concats
<1>u. /\ \A w \in S : Unescape(w) \in T
      /\ \A x, y \in S : Unescape(x \o y) = Unescape(x) \o Unescape(y)
  BY <1>s, UnescapeFacts
<1>1. <<>> \in Q
  <2>1. AllDecoded(<<>>) = <<>>
    BY DEF AllDecoded
  <2>2. Prefixed(<<>>, "/") = <<>> /\ Unescape(<<>>) = <<>>
    BY PrefixedSteps, UnescapeFacts
  <2>3. PICK e : e = <<>>
    OBVIOUS
  <2>4. e \in Seq(Seq(C)) /\ e \in Seq(Seq(Texted(C)))
    BY <2>3
  <2>5. e \in Q
    BY <2>1, <2>2, <2>3, <2>4
  <2> QED
    BY <2>3, <2>5
<1>2. ASSUME NEW r \in Seq(S), NEW w \in S, r \in Q PROVE Append(r, w) \in Q
  <2>1. PICK x, y, a, u, q : /\ x = Prefixed(r, "/") /\ a = AllDecoded(r) /\ u = Unescape(w)
                             /\ q = Append(r, w) /\ y = Prefixed(a, "/")
    OBVIOUS
  <2>2. a \in Seq(T) /\ Unescape(x) = y
    BY <1>2, <1>s, <2>1
  <2>3. x \in S /\ u \in T /\ q \in Seq(S)
    <3>1. \A b \in Seq(S) : Prefixed(b, "/") \in S
      BY <1>s, PrefixedSteps
    <3>2. x \in S
      BY <2>1, <3>1
    <3>3. u \in T
      BY <1>u, <2>1
    <3>4. q \in Seq(S)
      BY <2>1
    <3> QED
      BY <3>2, <3>3, <3>4
  <2>4. AllDecoded(q) = Append(a, u)
    <3>1. \A v \in S : AllDecoded(Append(r, v)) = Append(AllDecoded(r), Unescape(v))
      BY AllDecodedFacts
    <3> QED
      BY <2>1, <3>1
  <2>5. Append(a, u) \in Seq(T)
    BY <2>2, <2>3
  <2>6. Prefixed(q, "/") = x \o <<"/">> \o w
    <3>1. \A b \in Seq(S), v \in S : Prefixed(Append(b, v), "/") = Prefixed(b, "/") \o <<"/">> \o v
      BY <1>s, PrefixedSteps
    <3> QED
      BY <2>1, <3>1
  <2>7. Prefixed(Append(a, u), "/") = y \o <<"/">> \o u
    <3>1. \A b \in Seq(T), v \in T : Prefixed(Append(b, v), "/") = Prefixed(b, "/") \o <<"/">> \o v
      <4>1. \A b \in Seq(Seq(E)), v \in Seq(E) :
              Prefixed(Append(b, v), "/") = Prefixed(b, "/") \o <<"/">> \o v
        BY <1>0, PrefixedSteps
      <4> QED
        BY <1>s, <4>1
    <3> QED
      BY <2>1, <2>2, <2>3, <3>1
  <2>8. Unescape(x \o <<"/">> \o w) = y \o <<"/">> \o u
    <3>1. PICK k, z : k = <<"/">> /\ z = x \o k
      OBVIOUS
    <3>2. z \in S
      BY <1>0, <1>c, <2>3, <3>1 DEF Concatenates
    <3>3. Unescape(z) = y \o k
      <4>1. Unescape(k) = k
        BY <3>1, UnescapeFacts
      <4> QED
        BY <1>0, <1>u, <2>2, <2>3, <3>1, <4>1
    <3>4. Unescape(z \o w) = (y \o k) \o u
      BY <1>u, <2>1, <3>2, <3>3
    <3> QED
      BY <3>1, <3>4
  <2> QED
    BY <1>s, <2>1, <2>3, <2>4, <2>5, <2>6, <2>7, <2>8
<1> HIDE DEF Q
<1>3. raw \in Q
  BY <1>1, <1>2, <1>s, SequencesByInduction
<1> QED
  BY <1>3 DEF Q

\* What was kept is kept when it is walked again.
LEMMA WalkKeeps ==
  ASSUME NEW C, NEW raw \in Seq(Kept(C))
  PROVE  Walk(<<<<>>>> \o raw) = [raw |-> raw, dec |-> AllDecoded(raw)]
<1> DEFINE Q == {r \in Seq(Kept(C)) : Walk(<<<<>>>> \o r) = [raw |-> r, dec |-> AllDecoded(r)]}
<1>s. PICK K, W, e : K = Kept(C) /\ W = Without(C, "/") /\ e = <<>>
  OBVIOUS
<1>0. K \subseteq W /\ e \in W /\ <<e>> \in Seq(W)
  <2>1. K \subseteq W /\ e \in W
    BY <1>s, WithoutType DEF Kept
  <2> QED
    BY <2>1
<1>n. [raw |-> <<>>, dec |-> <<>>] = WalkStep([raw |-> <<>>, dec |-> <<>>], <<>>)
  BY UnescapeFacts DEF WalkStep
<1>1. <<>> \in Q
  <2>1. AllDecoded(<<>>) = <<>>
    BY DEF AllDecoded
  <2>2. <<e>> \o <<>> = <<e>> /\ <<e>> = Append(<<>>, e) /\ <<>> \in Seq(W)
    BY <1>0
  <2>3. Walk(Append(<<>>, e)) = WalkStep(Walk(<<>>), e)
    <3>1. \A q \in Seq(W), w \in W : Walk(Append(q, w)) = WalkStep(Walk(q), w)
      BY <1>s, WalkSteps
    <3> QED
      BY <1>0, <2>2, <3>1
  <2>4. Walk(<<>>) = [raw |-> <<>>, dec |-> <<>>]
    BY WalkSteps
  <2> QED
    BY <1>n, <1>s, <2>1, <2>2, <2>3, <2>4
<1>2. ASSUME NEW r \in Seq(K), NEW w \in K, r \in Q PROVE Append(r, w) \in Q
  <2>1. PICK q, a, u, g : /\ q = Append(r, w) /\ a = AllDecoded(r) /\ u = Unescape(w)
                          /\ g = <<e>> \o r
    OBVIOUS
  <2>2. q \in Seq(K) /\ r \in Seq(W) /\ w \in W
    BY <1>0, <2>1
  <2>3. <<e>> \o q = Append(g, w) /\ g \in Seq(W)
    <3>1. g \in Seq(W)
      BY <1>0, <2>1, <2>2
    <3>2. Append(<<e>> \o r, w) = <<e>> \o Append(r, w)
      BY <1>0, <2>2, AppendConcat
    <3> QED
      BY <2>1, <3>1, <3>2
  <2>4. Walk(Append(g, w)) = WalkStep(Walk(g), w)
    BY <1>s, <2>2, <2>3, WalkSteps
  <2>5. Walk(g) = [raw |-> r, dec |-> a]
    BY <1>2, <1>s, <2>1
  <2>6. u \notin {<<>>, <<".">>, <<".", ".">>}
    BY <1>s, <2>1 DEF Kept
  <2>7. WalkStep([raw |-> r, dec |-> a], w) = [raw |-> Append(r, w), dec |-> Append(a, u)]
    BY <2>1, <2>6 DEF WalkStep
  <2>8. AllDecoded(q) = Append(a, u)
    <3>1. \A v \in K : AllDecoded(Append(r, v)) = Append(AllDecoded(r), Unescape(v))
      BY AllDecodedFacts
    <3> QED
      BY <2>1, <3>1
  <2> QED
    BY <1>s, <2>1, <2>2, <2>3, <2>4, <2>5, <2>7, <2>8
<1> HIDE DEF Q
<1>3. raw \in Q
  BY <1>1, <1>2, <1>s, SequencesByInduction
<1> QED
  BY <1>3 DEF Q

\* A text ends in a slash and v just when v is its last segment.
LEMMA LastSegment ==
  ASSUME NEW C, "/" \in C, NEW a \in Seq(C), NEW w \in Without(C, "/"),
         NEW v \in Without(C, "/"), NEW e \in Seq(C),
         Len(e) = Len(v) + 1, e[1] = "/", \A i \in 1..Len(v) : e[1 + i] = v[i]
  PROVE  IsSuffix(e, a \o <<"/">> \o w) <=> w = v
<1> DEFINE t == a \o <<"/">> \o w
           m == Len(a)
           n == Len(w)
           k == Len(v)
<1>1. m \in Nat /\ n \in Nat /\ k \in Nat
  BY DEF Without
<1>w. w \in Seq(C) /\ v \in Seq(C)
  BY WithoutType
<1>2. /\ t \in Seq(C) /\ Len(t) = m + 1 + n /\ t[m + 1] = "/"
      /\ \A i \in 1..n : t[m + 1 + i] = w[i]
  <2>1. PICK x : x = a \o <<"/">>
    OBVIOUS
  <2>2. x \in Seq(C) /\ Len(x) = m + 1 /\ x[m + 1] = "/"
    BY <2>1
  <2>3. t = x \o w
    BY <2>1
  <2>4. t \in Seq(C) /\ Len(t) = m + 1 + n
        /\ (\A i \in 1..(m + 1) : t[i] = x[i]) /\ \A i \in 1..n : t[m + 1 + i] = w[i]
    BY <1>1, <1>w, <2>2, <2>3
  <2>5. m + 1 \in 1..(m + 1)
    BY <1>1
  <2> QED
    BY <2>2, <2>4, <2>5
<1>3. (\A i \in 1..n : w[i] # "/") /\ \A i \in 1..k : v[i] # "/"
  BY DEF Without
<1> HIDE DEF t, m, n
<1>4. IsSuffix(e, t) <=> Len(e) <= Len(t) /\ EndsAt(t, e, Len(t))
  <2>1. From(t, 0) = t
    BY <1>2 DEF From
  <2>2. IsSuffix(e, From(t, 0)) <=> 0 + Len(e) <= Len(t) /\ EndsAt(t, e, Len(t))
    <3>1. \A at \in 0..Len(t) :
            IsSuffix(e, From(t, at)) <=> at + Len(e) <= Len(t) /\ EndsAt(t, e, Len(t))
      BY <1>2, SuffixEnds
    <3>2. 0 \in 0..Len(t)
      BY <1>1, <1>2
    <3> QED
      BY <3>1, <3>2
  <2>3. 0 + Len(e) = Len(e)
    BY <1>1
  <2> QED
    BY <2>1, <2>2, <2>3
<1> HIDE DEF k
<1>k. PICK L, N : L = Len(e) /\ N = Len(t)
  OBVIOUS
<1>l. L = k + 1 /\ N = m + 1 + n /\ \A i \in 1..k : e[1 + i] = v[i]
  BY <1>2, <1>k DEF k
<1>5. ASSUME L <= N, \A i \in 1..L : t[N - L + i] = e[i]
      PROVE  w = v
  <2>1. n <= k
    <3>1. SUFFICES ASSUME n > k PROVE FALSE
      BY <1>1
    <3>2. PICK j : j = n - k
      OBVIOUS
    <3>3. j \in 1..n /\ m + 1 + j = N - L + 1 /\ 1 \in 1..L
      BY <1>1, <1>l, <3>1, <3>2
    <3>4. t[m + 1 + j] = e[1]
      BY <1>5, <3>3
    <3> QED
      BY <1>2, <1>3, <3>3, <3>4
  <2>2. k <= n
    <3>1. SUFFICES ASSUME k > n PROVE FALSE
      BY <1>1
    <3>2. PICK j : j = k - n
      OBVIOUS
    <3>3. /\ j \in 1..k /\ 1 + j \in 1..L
          /\ N - L + (1 + j) = m + 1
      BY <1>1, <1>l, <3>1, <3>2
    <3>4. t[m + 1] = e[1 + j]
      BY <1>5, <3>3
    <3>5. e[1 + j] = v[j]
      BY <1>l, <3>3
    <3> QED
      BY <1>2, <1>3, <3>3, <3>4, <3>5
  <2>3. n = k
    BY <1>1, <1>l, <2>1, <2>2
  <2>4. ASSUME NEW i \in 1..n PROVE w[i] = v[i]
    <3>1. 1 + i \in 1..L /\ N - L + (1 + i) = m + 1 + i
      BY <1>1, <1>l, <2>3
    <3>2. t[m + 1 + i] = e[1 + i]
      BY <1>5, <3>1
    <3> QED
      BY <1>2, <1>l, <2>3, <3>2
  <2> QED
    BY <1>w, <2>3, <2>4, SeqEqual DEF n, k
<1>6. ASSUME w = v PROVE L <= N /\ \A i \in 1..L : t[N - L + i] = e[i]
  <2>1. n = k
    BY <1>6 DEF n, k
  <2>2. ASSUME NEW i \in 1..L PROVE t[N - L + i] = e[i]
    <3>1. N - L + i = m + i
      BY <1>1, <1>l, <2>1
    <3>2. CASE i = 1
      BY <1>2, <3>1, <3>2
    <3>3. CASE i # 1
      <4>1. PICK j : j = i - 1
        OBVIOUS
      <4>2. j \in 1..k /\ 1 + j = i /\ m + i = m + 1 + j
        BY <1>1, <1>l, <3>3, <4>1
      <4>3. t[m + 1 + j] = w[j] /\ e[1 + j] = v[j]
        BY <1>2, <1>l, <2>1, <4>2
      <4> QED
        BY <1>6, <3>1, <4>2, <4>3
    <3> QED
      BY <3>2, <3>3
  <2> QED
    BY <1>1, <1>l, <2>1, <2>2
<1>7. IsSuffix(e, t) <=> L <= N /\ \A i \in 1..L : t[N - L + i] = e[i]
  BY <1>4, <1>k DEF EndsAt
<1> QED
  BY <1>5, <1>6, <1>7 DEF t

\* A path is a directory's just when its last segment says so.
LEMMA DirectoryLast ==
  ASSUME NEW C, "/" \in C, NEW a \in Seq(C), NEW w \in Without(C, "/")
  PROVE  IsDirectory(a \o <<"/">> \o w) <=> w \in {<<>>, <<".">>, <<".", ".">>}
<1>s. PICK D, W : D = C \cup {"."} /\ W = Without(D, "/")
  OBVIOUS
<1>1. "/" \in D /\ "." \in D /\ a \in Seq(D) /\ w \in W
  BY <1>s DEF Without
<1>2. PICK none, dot, dots : none = <<>> /\ dot = <<".">> /\ dots = <<".", ".">>
  OBVIOUS
<1>3. none \in W /\ dot \in W /\ dots \in W
  BY <1>s, <1>2 DEF Without
<1>4. PICK t : t = a \o <<"/">> \o w
  OBVIOUS
<1>5. ASSUME NEW v \in W, NEW e \in Seq(D),
             Len(e) = Len(v) + 1, e[1] = "/", \A i \in 1..Len(v) : e[1 + i] = v[i]
      PROVE  IsSuffix(e, t) <=> w = v
  BY <1>1, <1>4, <1>5, <1>s, LastSegment
<1>6. IsSuffix(<<"/">>, t) <=> w = none
  <2>1. PICK e : e = <<"/">>
    OBVIOUS
  <2>2. e \in Seq(D) /\ Len(e) = Len(none) + 1 /\ e[1] = "/" /\ \A i \in 1..Len(none) : e[1 + i] = none[i]
    BY <1>1, <1>2, <2>1
  <2> QED
    BY <1>3, <1>5, <2>1, <2>2
<1>7. IsSuffix(<<"/", ".">>, t) <=> w = dot
  <2>1. PICK e : e = <<"/", ".">>
    OBVIOUS
  <2>2. e \in Seq(D) /\ Len(e) = Len(dot) + 1 /\ e[1] = "/" /\ \A i \in 1..Len(dot) : e[1 + i] = dot[i]
    BY <1>1, <1>2, <2>1
  <2> QED
    BY <1>3, <1>5, <2>1, <2>2
<1>8. IsSuffix(<<"/", ".", ".">>, t) <=> w = dots
  <2>1. PICK e : e = <<"/", ".", ".">>
    OBVIOUS
  <2>2. e \in Seq(D) /\ Len(e) = Len(dots) + 1 /\ e[1] = "/" /\ \A i \in 1..Len(dots) : e[1 + i] = dots[i]
    BY <1>1, <1>2, <2>1
  <2> QED
    BY <1>3, <1>5, <2>1, <2>2
<1>9. IsDirectory(t) <=> \/ IsSuffix(<<"/">>, t)
                         \/ IsSuffix(<<"/", ".">>, t)
                         \/ IsSuffix(<<"/", ".", ".">>, t)
  BY DEF IsDirectory
<1> QED
  BY <1>2, <1>4, <1>6, <1>7, <1>8, <1>9

\* An empty piece more is a slash at the end.
LEMMA PrefixedEnd ==
  ASSUME NEW C, "/" \in C, NEW r \in Seq(Seq(C))
  PROVE  /\ Prefixed(Append(r, <<>>), "/") = Prefixed(r, "/") \o <<"/">>
         /\ Prefixed(r, "/") \o <<>> = Prefixed(r, "/")
         /\ r = <<>> => Prefixed(Append(r, <<>>), "/") = <<"/">>
<1>s. PICK S, e, x, k : S = Seq(C) /\ e = <<>> /\ x = Prefixed(r, "/") /\ k = <<"/">>
  OBVIOUS
<1>1. e \in S /\ k \in S
  BY <1>s
<1>2. x \in S
  <2>1. \A b \in Seq(S) : Prefixed(b, "/") \in S
    BY <1>s, PrefixedSteps
  <2> QED
    BY <1>s, <2>1
<1>3. Prefixed(Append(r, e), "/") = x \o k \o e
  <2>1. \A b \in Seq(S), v \in S : Prefixed(Append(b, v), "/") = Prefixed(b, "/") \o <<"/">> \o v
    BY <1>s, PrefixedSteps
  <2> QED
    BY <1>s, <1>1, <2>1
<1>4. x \o k \in S /\ x \o e = x
  BY <1>1, <1>2, <1>s
<1>5. (x \o k) \o e = x \o k
  BY <1>4, <1>s
<1>6. r = <<>> => x = <<>>
  BY <1>s, PrefixedSteps
<1>7. <<>> \o k = k
  BY <1>s
<1> QED
  BY <1>3, <1>4, <1>5, <1>6, <1>7, <1>s

\* The pieces of what is sent, and the outcome made of them.
Sent(r, end) == IF r = <<>> \/ end # <<>> THEN Append(r, <<>>) ELSE r
Cleaned(r, end) == [ok |-> TRUE,
                    forward |-> Prefixed(Sent(r, end), "/"),
                    match |-> Prefixed(Sent(AllDecoded(r), end), "/")]
EndOf(s) == IF IsDirectory(s) THEN <<"/">> ELSE <<>>

\* Kept segments and what they decode to are texts, as many.
LEMMA KeptType ==
  ASSUME NEW C, NEW r \in Seq(Kept(C))
  PROVE  /\ r \in Seq(Without(C, "/")) /\ r \in Seq(Seq(C))
         /\ AllDecoded(r) \in Seq(Seq(Texted(C))) /\ (AllDecoded(r) = <<>> <=> r = <<>>)
<1>s. PICK K, S, T : K = Kept(C) /\ S = Seq(C) /\ T = Seq(Texted(C))
  OBVIOUS
<1>1. K \subseteq Without(C, "/") /\ K \subseteq S
  BY <1>s, WithoutType DEF Kept
<1>2. \A w \in K : Unescape(w) \in T
  BY <1>1, <1>s, UnescapeFacts
<1>3. AllDecoded(r) = [i \in 1..Len(r) |-> Unescape(r[i])]
  BY DEF AllDecoded
<1>4. \A i \in 1..Len(r) : r[i] \in K
  BY <1>s
<1>5. AllDecoded(r) \in Seq(T) /\ Len(AllDecoded(r)) = Len(r)
  BY <1>2, <1>3, <1>4
<1>6. r \in Seq(Without(C, "/")) /\ r \in Seq(S)
  BY <1>1, <1>s
<1> QED
  BY <1>5, <1>6, <1>s

\* What cleaning a path comes to.
LEMMA cleanPathForm ==
  ASSUME NEW C, "/" \in C, "%" \notin C, NEW s \in Seq(C)
  PROVE  \E r \in Seq(Kept(C)) : /\ Walk(Split(s, "/")) = [raw |-> r, dec |-> AllDecoded(r)]
                                 /\ cleanPath(s) = Cleaned(r, EndOf(s))
<1>1. PICK r \in Seq(Kept(C)) : Walk(Split(s, "/")) = [raw |-> r, dec |-> AllDecoded(r)]
  <2>1. Split(s, "/") \in Seq(Without(C, "/"))
    BY SplitWithout
  <2>2. Walk(Split(s, "/")) \in Kepts(C)
    BY <2>1, WalkSteps
  <2> QED
    BY <2>2 DEF Kepts
<1>2. "%" \notin ToSet(s)
  BY DEF ToSet
<1>3. PICK d, e, E : d = AllDecoded(r) /\ e = EndOf(s) /\ E = Texted(C)
  OBVIOUS
<1>4. r \in Seq(Seq(C)) /\ d \in Seq(Seq(E)) /\ "/" \in E /\ (d = <<>> <=> r = <<>>)
  BY <1>3, KeptType DEF Texted
<1>5. cleanPath(s) = IF r = <<>> THEN [ok |-> TRUE, forward |-> <<"/">>, match |-> <<"/">>]
                     ELSE [ok |-> TRUE, forward |-> Prefixed(r, "/") \o e, match |-> Prefixed(d, "/") \o e]
  <2>1. PICK k : k = Walk(Split(s, "/"))
    OBVIOUS
  <2>2. k.raw = r /\ k.dec = d
    BY <1>1, <1>3, <2>1
  <2>3. cleanPath(s) = IF k.raw = <<>> THEN [ok |-> TRUE, forward |-> <<"/">>, match |-> <<"/">>]
                       ELSE [ok |-> TRUE, forward |-> Prefixed(k.raw, "/") \o EndOf(s),
                             match |-> Prefixed(k.dec, "/") \o EndOf(s)]
    BY <1>2, <2>1, Zenon DEF cleanPath, EndOf, Join
  <2> QED
    BY <1>3, <2>2, <2>3, Zenon
<1>6. e \in {<<>>, <<"/">>} /\ <<"/">> # <<>>
  BY <1>3 DEF EndOf
<1>7. /\ Prefixed(Append(r, <<>>), "/") = Prefixed(r, "/") \o <<"/">>
      /\ Prefixed(r, "/") \o <<>> = Prefixed(r, "/")
      /\ r = <<>> => Prefixed(Append(r, <<>>), "/") = <<"/">>
  BY <1>4, PrefixedEnd
<1>8. /\ Prefixed(Append(d, <<>>), "/") = Prefixed(d, "/") \o <<"/">>
      /\ Prefixed(d, "/") \o <<>> = Prefixed(d, "/")
      /\ d = <<>> => Prefixed(Append(d, <<>>), "/") = <<"/">>
  BY <1>4, PrefixedEnd
<1>9. cleanPath(s) = Cleaned(r, e)
  <2>1. CASE r = <<>>
    BY <1>3, <1>4, <1>5, <1>7, <1>8, <2>1 DEF Cleaned, Sent
  <2>2. CASE r # <<>> /\ e = <<>>
    BY <1>3, <1>4, <1>5, <1>7, <1>8, <2>2 DEF Cleaned, Sent
  <2>3. CASE r # <<>> /\ e = <<"/">>
    BY <1>3, <1>4, <1>5, <1>6, <1>7, <1>8, <2>3 DEF Cleaned, Sent
  <2> QED
    BY <1>6, <2>1, <2>2, <2>3
<1> QED
  BY <1>1, <1>3, <1>9

Joins(S) ==
  /\ \A b \in Seq(S) : Prefixed(b, "/") \in S
  /\ \A b \in Seq(S), v \in S : Prefixed(Append(b, v), "/") = Prefixed(b, "/") \o <<"/">> \o v

\* canonical.go:17: decide on the same thing you send.  For a path of any length:
\* what is forwarded decodes to what was matched, and cleaning it once more
\* changes neither.
THEOREM CleanedOnce ==
  ASSUME NEW C, "/" \in C, "%" \notin C, NEW s \in Seq(C)
  PROVE  /\ Unescape(cleanPath(s).forward) = cleanPath(s).match
         /\ cleanPath(cleanPath(s).forward) = cleanPath(s)
<1>1. PICK r \in Seq(Kept(C)) : cleanPath(s) = Cleaned(r, EndOf(s))
  BY cleanPathForm
<1>2. PICK e, q, f : e = EndOf(s) /\ q = Sent(r, e) /\ f = Prefixed(q, "/")
  OBVIOUS
<1>k. PICK W, S, K : W = Without(C, "/") /\ S = Seq(C) /\ K = Kept(C)
  OBVIOUS
<1>s. Joins(S)
  <2>1. Joins(Seq(C))
    BY PrefixedSteps DEF Joins
  <2> QED
    BY <1>k, <2>1
<1>3. /\ r \in Seq(K) /\ r \in Seq(W) /\ r \in Seq(S) /\ <<>> \in W /\ <<>> \in S
      /\ (AllDecoded(r) = <<>> <=> r = <<>>)
  BY <1>k, KeptType, WithoutType
<1>4. Append(r, <<>>) \in Seq(W) /\ Append(r, <<>>) \in Seq(S)
  <2>1. PICK n : n = <<>>
    OBVIOUS
  <2>2. Append(r, n) \in Seq(W) /\ Append(r, n) \in Seq(S)
    BY <1>3, <2>1
  <2> QED
    BY <2>1, <2>2
<1>5. q \in Seq(W) /\ q \in Seq(S) /\ (q = r \/ q = Append(r, <<>>))
  BY <1>2, <1>3, <1>4 DEF Sent
<1>6. f \in S
  <2>1. \A b \in Seq(S) : Prefixed(b, "/") \in S
    BY <1>k, PrefixedSteps
  <2> QED
    BY <1>2, <1>5, <2>1
<1>7. AllDecoded(q) = Sent(AllDecoded(r), e)
  <2>1. \A v \in S : AllDecoded(Append(r, v)) = Append(AllDecoded(r), Unescape(v))
    BY <1>3, AllDecodedFacts
  <2>2. AllDecoded(Append(r, <<>>)) = Append(AllDecoded(r), <<>>)
    BY <1>3, <2>1, UnescapeFacts
  <2> QED
    BY <1>2, <1>3, <2>2 DEF Sent
<1>8. Unescape(f) = Prefixed(AllDecoded(q), "/")
  BY <1>2, <1>5, <1>k, UnescapePrefixed
<1>9. Split(f, "/") = <<<<>>>> \o q
  BY <1>2, <1>5, <1>k, SplitPrefixed
<1>10. Walk(<<<<>>>> \o r) = [raw |-> r, dec |-> AllDecoded(r)]
  BY WalkKeeps
<1>11. Walk(<<<<>>>> \o q) = [raw |-> r, dec |-> AllDecoded(r)]
  <2>1. CASE q = r
    BY <1>10, <2>1
  <2>2. CASE q = Append(r, <<>>)
    <3>1. PICK n, g : n = <<>> /\ g = <<n>> \o r
      OBVIOUS
    <3>2. n \in W /\ g \in Seq(W)
      BY <1>3, <3>1
    <3>3. Append(<<n>> \o r, n) = <<n>> \o Append(r, n)
      <4>1. <<n>> \in Seq(W)
        BY <3>2
      <4> QED
        BY <1>3, <3>2, <4>1, AppendConcat
    <3>4. Walk(Append(g, n)) = WalkStep(Walk(g), n)
      BY <1>k, <3>2, WalkSteps
    <3>5. WalkStep(Walk(g), n) = Walk(g)
      BY <3>1, UnescapeFacts DEF WalkStep
    <3> QED
      BY <1>10, <2>2, <3>1, <3>3, <3>4, <3>5
  <2> QED
    BY <1>5, <2>1, <2>2
<1>12. PICK p \in Seq(Kept(C)) : /\ Walk(Split(f, "/")) = [raw |-> p, dec |-> AllDecoded(p)]
                                 /\ cleanPath(f) = Cleaned(p, EndOf(f))
  BY <1>6, <1>k, cleanPathForm
<1>13. p = r
  <2>1. [raw |-> p, dec |-> AllDecoded(p)] = [raw |-> r, dec |-> AllDecoded(r)]
    BY <1>9, <1>11, <1>12
  <2>2. [raw |-> p, dec |-> AllDecoded(p)].raw = p /\ [raw |-> r, dec |-> AllDecoded(r)].raw = r
    OBVIOUS
  <2> QED
    BY <2>1, <2>2
<1>14. Cleaned(r, EndOf(f)) = Cleaned(r, e)
  <2>1. CASE r = <<>>
    BY <1>3, <2>1 DEF Cleaned, Sent
  <2>2. CASE r # <<>> /\ e # <<>>
    <3>1. f = Prefixed(r, "/") \o <<"/">> \o <<>> /\ Prefixed(r, "/") \in S
      <4>1. q = Append(r, <<>>)
        BY <1>2, <2>2 DEF Sent
      <4>2. Joins(S)
        BY <1>s
      <4>3. PICK n : n = <<>>
        OBVIOUS
      <4>4. n \in S /\ r \in Seq(S)
        BY <1>3, <4>3
      <4>5. Prefixed(r, "/") \in S /\ Prefixed(Append(r, n), "/") = Prefixed(r, "/") \o <<"/">> \o n
        BY <4>2, <4>4, Zenon DEF Joins
      <4> QED
        BY <1>2, <4>1, <4>3, <4>5, Zenon
    <3>2. \A a \in S, w \in W : IsDirectory(a \o <<"/">> \o w) <=> w \in {<<>>, <<".">>, <<".", ".">>}
      BY <1>k, DirectoryLast
    <3>3. IsDirectory(f)
      BY <1>3, <3>1, <3>2
    <3>4. EndOf(f) # <<>>
      BY <3>3 DEF EndOf
    <3> QED
      BY <1>3, <2>2, <3>4 DEF Cleaned, Sent
  <2>3. CASE r # <<>> /\ e = <<>>
    <3>1. PICK b, w : b = Front(r) /\ w = Last(r)
      OBVIOUS
    <3>2. b \in Seq(K) /\ w \in K /\ r = Append(b, w)
      <4>1. PICK n : n = Len(r)
        OBVIOUS
      <4>2. n \in Nat \ {0} /\ r[n] \in K
        BY <1>3, <2>3, <4>1
      <4>3. PICK m : m = n - 1
        OBVIOUS
      <4>4. b \in Seq(K) /\ Len(b) = m /\ m \in Nat /\ \A i \in 1..m : b[i] = r[i]
        BY <1>3, <3>1, <4>1, <4>2, <4>3 DEF Front
      <4>5. w = r[n]
        BY <3>1, <4>1 DEF Last
      <4>6. PICK a : a = Append(b, w)
        OBVIOUS
      <4>7. a \in Seq(K) /\ Len(a) = n /\ \A i \in 1..n : a[i] = r[i]
        BY <4>2, <4>3, <4>4, <4>5, <4>6
      <4>8. a = r
        BY <1>3, <4>1, <4>7, SeqEqual
      <4> QED
        BY <4>2, <4>4, <4>5, <4>6, <4>8
    <3>3. b \in Seq(S) /\ w \in S /\ w \in W
      <4>1. K \subseteq W /\ W \subseteq S
        BY <1>k, WithoutType DEF Kept
      <4> QED
        BY <3>2, <4>1
    <3>4. f = Prefixed(b, "/") \o <<"/">> \o w /\ Prefixed(b, "/") \in S
      <4>1. q = r
        BY <1>2, <2>3 DEF Sent
      <4>2. Joins(S)
        BY <1>s
      <4>3. b \in Seq(S) /\ w \in S
        BY <3>3
      <4>4. Prefixed(b, "/") \in S /\ Prefixed(Append(b, w), "/") = Prefixed(b, "/") \o <<"/">> \o w
        BY <4>2, <4>3, Zenon DEF Joins
      <4>5. f = Prefixed(Append(b, w), "/")
        BY <1>2, <3>2, <4>1, Zenon
      <4> QED
        BY <4>4, <4>5, Zenon
    <3>5. w \notin {<<>>, <<".">>, <<".", ".">>}
      <4>1. Unescape(w) \notin {<<>>, <<".">>, <<".", ".">>}
        BY <1>k, <3>2 DEF Kept
      <4>2. Unescape(<<>>) = <<>> /\ Unescape(<<".">>) = <<".">> /\ Unescape(<<".", ".">>) = <<".", ".">>
        BY DEF Unescape
      <4> QED
        BY <4>1, <4>2
    <3>6. \A a \in S, v \in W : IsDirectory(a \o <<"/">> \o v) <=> v \in {<<>>, <<".">>, <<".", ".">>}
      BY <1>k, DirectoryLast
    <3>7. ~IsDirectory(f)
      BY <3>3, <3>4, <3>5, <3>6
    <3> QED
      BY <2>3, <3>7 DEF EndOf
  <2> QED
    BY <2>1, <2>2, <2>3
<1>15. Unescape(f) = Prefixed(Sent(AllDecoded(r), e), "/")
  BY <1>7, <1>8
<1> QED
  BY <1>1, <1>2, <1>12, <1>13, <1>14, <1>15 DEF Cleaned

TargetInv == target \in Seq(TargetChars \cup {"/"})

\* A target grows by a character.
LEMMA TargetInvariance == Spec => []TargetInv
<1>1. Init => TargetInv
  BY DEF Init, TargetInv
<1>2. TargetInv /\ [Next]_vars => TargetInv'
  <2> SUFFICES ASSUME TargetInv, [Next]_vars PROVE TargetInv'
    OBVIOUS
  <2>1. CASE LongerTarget
    BY <2>1 DEF LongerTarget, TargetInv
  <2>2. CASE EditAuthority
    BY <2>2 DEF EditAuthority, TargetInv
  <2>3. CASE UNCHANGED target
    BY <2>3 DEF TargetInv
  <2> QED
    BY <2>1, <2>2, <2>3 DEF Next, vars, request
<1> QED
  BY <1>1, <1>2, PTL DEF Spec

\* canonical.go:17: decide on the same thing you send, whatever target has been
\* written.
THEOREM AlwaysDecidesOnWhatIsSent == Spec => []DecidesOnWhatIsSent
<1>1. TargetInv => DecidesOnWhatIsSent
  <2> SUFFICES ASSUME TargetInv, cleanPath(target).ok
               PROVE  /\ Unescape(cleanPath(target).forward) = cleanPath(target).match
                      /\ cleanPath(cleanPath(target).forward) = cleanPath(target)
    BY DEF DecidesOnWhatIsSent
  <2>1. PICK C : C = (TargetChars \cup {"/"}) \ {"%"}
    OBVIOUS
  <2>2. "%" \notin ToSet(target)
    BY DEF cleanPath, Refused
  <2>3. target \in Seq(C)
    BY <2>1, <2>2 DEF TargetInv, ToSet
  <2>4. "/" \in C /\ "%" \notin C
    BY <2>1
  <2> QED
    BY <2>3, <2>4, CleanedOnce
<1> QED
  BY <1>1, TargetInvariance, PTL

-----------------------------------------------------------------------------
(* The document is read back: what a line says, its entry says. *)

\* What a sequence holds, with one more.
LEMMA ToSetAppends ==
  ASSUME NEW D, NEW s \in Seq(D), NEW c \in D
  PROVE  ToSet(Append(s, c)) = ToSet(s) \cup {c}
<1>1. PICK n, t : n = Len(s) /\ t = Append(s, c)
  OBVIOUS
<1>2. /\ n \in Nat /\ t \in Seq(D) /\ DOMAIN t = 1..(n + 1) /\ DOMAIN s = 1..n
      /\ t[n + 1] = c /\ \A i \in 1..n : t[i] = s[i]
  BY <1>1
<1>3. \A i : i \in 1..(n + 1) <=> i \in 1..n \/ i = n + 1
  BY <1>2
<1> QED
  BY <1>1, <1>2, <1>3 DEF ToSet

\* What a flag sets.
FlagsInv(v, w, some) ==
  /\ w.key = v.key /\ w.version = v.version /\ w.severity = v.severity
  /\ w.introduced = v.introduced /\ w.fixed = v.fixed /\ w.lastAffected = v.lastAffected
  /\ w.kev <=> Kev \in some
  /\ w.nofix <=> Nofix \in some
  /\ w.epss = Off \/ \E t \in DOMAIN Percent : Epss(t) \in some /\ w.epss = Percent[t]
  /\ w.epss = Off => \A t \in DOMAIN Percent : Epss(t) \notin some
  /\ v.fixedIn # <<>> => w.fixedIn = v.fixedIn
  /\ w.fixedIn # v.fixedIn => Fix(w.fixedIn) \in some

Flag(f) == f \in {Kev, Nofix, Fix(From(f, 2)), Epss(From(f, 2))}

\* Flags are told apart by their first word, and what follows it is read back.
LEMMA FlagWords ==
  ASSUME NEW C, NEW t \in Seq(C)
  PROVE  /\ Fix(t)[1] = "fix" /\ From(Fix(t), 2) = t
         /\ Cut(Fix(t), "=") = [before |-> <<"fix">>, after |-> t, found |-> TRUE]
         /\ Epss(t)[1] = "epss" /\ From(Epss(t), 2) = t
         /\ Cut(Epss(t), "=") = [before |-> <<"epss">>, after |-> t, found |-> TRUE]
         /\ Kev[1] = "kev" /\ Cut(Kev, "=").before = <<"kev">>
         /\ Nofix[1] = "nofix" /\ Cut(Nofix, "=").before = <<"nofix">>
<1>1. PICK D : D = C \cup {"fix", "epss", "kev", "nofix", "="}
  OBVIOUS
<1>2. CutsAround(D, "=")
  BY CutAround
<1>3. t \in Seq(D)
  BY <1>1
<1>4. ASSUME NEW c \in D, c # "="
      PROVE  /\ (<<c, "=">> \o t)[1] = c /\ From(<<c, "=">> \o t, 2) = t
             /\ Cut(<<c, "=">> \o t, "=") = [before |-> <<c>>, after |-> t, found |-> TRUE]
             /\ Cut(<<c>>, "=").before = <<c>>
  <2>1. PICK a, h, u : a = <<c>> /\ h = <<c, "=">> /\ u = h \o t
    OBVIOUS
  <2>2. a \in Without(D, "=") /\ h = a \o <<"=">>
    BY <1>4, <2>1 DEF Without
  <2>3. Cut(a \o <<"=">> \o t, "=") = [before |-> a, after |-> t, found |-> TRUE]
        /\ Cut(a, "=").before = a
    BY <1>2, <1>3, <2>2 DEF CutsAround
  <2>4. h \in Seq(D) /\ Len(h) = 2 /\ h[1] = c
    BY <1>1, <1>4, <2>1
  <2>5. u \in Seq(D) /\ Len(u) = Len(t) + 2 /\ u[1] = c /\ \A i \in 1..Len(t) : u[2 + i] = t[i]
    BY <1>3, <2>1, <2>4
  <2>6. From(u, 2) = t
    <3>1. PICK n, x, m, k : n = Len(t) /\ x = From(u, 2) /\ m = 3 /\ k = Len(u)
      OBVIOUS
    <3>2. x = SubSeq(u, m, k) /\ m \in 1..(k + 1) /\ k \in Nat /\ k - m + 1 = n /\ n \in Nat
      <4>1. 2 + 1 = m
        BY <3>1
      <4>2. x = SubSeq(u, m, k)
        BY <3>1, <4>1 DEF From
      <4>3. n \in Nat /\ k = n + 2
        BY <1>3, <2>5, <3>1
      <4> QED
        BY <3>1, <4>2, <4>3
    <3>3. x \in Seq(D) /\ Len(x) = n /\ \A i \in 1..n : x[i] = u[m + i - 1]
      <4>1. u \in Seq(D) /\ k = Len(u)
        BY <2>5, <3>1
      <4>2. SubSeq(u, m, k) \in Seq(D) /\ Len(SubSeq(u, m, k)) = n
        BY <3>2, <4>1
      <4>3. \A i \in 1..n : SubSeq(u, m, k)[i] = u[m + i - 1]
        BY <3>2, <4>1
      <4> QED
        BY <3>2, <4>2, <4>3
    <3>5. x \in Seq(D) /\ Len(x) = n /\ \A i \in 1..n : x[i] = u[3 + i - 1]
      BY <3>1, <3>3
    <3>6. \A i \in 1..n : x[i] = u[2 + i]
      <4>1. \A i \in 1..n : 3 + i - 1 = 2 + i
        OBVIOUS
      <4> QED
        BY <3>5, <4>1
    <3>4. x = t
      BY <1>3, <2>5, <3>1, <3>5, <3>6, SeqEqual
    <3> QED
      BY <3>1, <3>4
  <2> QED
    BY <2>1, <2>2, <2>3, <2>5, <2>6
<1>5. {"fix", "epss", "kev", "nofix"} \subseteq D \ {"="}
  BY <1>1
<1> QED
  BY <1>4, <1>5 DEF Fix, Epss, Kev, Nofix

\* One flag more.
LEMMA FlagsGrow ==
  ASSUME NEW C, DOMAIN Percent \subseteq Seq(C), NEW v \in Vulns(C), NEW w \in Vulns(C),
         NEW some, FlagsInv(v, w, some), NEW f \in Seq(C), Flag(f)
  PROVE  FlagsInv(v, applyFlag(w, f), some \cup {f})
<1> DEFINE u == From(f, 2)
<1>1. u \in Seq(C)
  BY DEF From
<1>2. \A t \in DOMAIN Percent : t \in Seq(C) /\ Percent[t] \in Nat
  BY SupplyChainAssumption
<1> HIDE DEF u
<1>3. w = [key |-> w.key, version |-> w.version, introduced |-> w.introduced, fixed |-> w.fixed,
           lastAffected |-> w.lastAffected, severity |-> w.severity, kev |-> w.kev,
           nofix |-> w.nofix, fixedIn |-> w.fixedIn, epss |-> w.epss]
  BY DEF Vulns
<1>a. \A t \in Seq(C) : Epss(t)[1] = "epss" /\ Fix(t)[1] = "fix" /\ From(Epss(t), 2) = t /\ From(Fix(t), 2) = t
  BY FlagWords
<1>b. Kev[1] = "kev" /\ Nofix[1] = "nofix"
  BY DEF Kev, Nofix
<1>4. CASE f = Kev
  <2>1. applyFlag(w, f) = [w EXCEPT !.kev = TRUE]
    BY <1>1, <1>4, FlagWords DEF applyFlag
  <2>2. f # Nofix /\ \A t \in Seq(C) : f # Epss(t)
    BY <1>4, <1>a, <1>b
  <2> QED
    BY <1>2, <1>3, <1>4, <2>1, <2>2 DEF FlagsInv
<1>5. CASE f = Nofix
  <2>1. applyFlag(w, f) = [w EXCEPT !.nofix = TRUE]
    BY <1>1, <1>5, FlagWords DEF applyFlag
  <2>2. f # Kev /\ \A t \in Seq(C) : f # Epss(t)
    BY <1>5, <1>a, <1>b
  <2> QED
    BY <1>2, <1>3, <1>5, <2>1, <2>2 DEF FlagsInv
<1>6. CASE f = Fix(u)
  <2>1. applyFlag(w, f) = IF w.fixedIn = <<>> THEN [w EXCEPT !.fixedIn = u] ELSE w
    <3>1. Cut(Fix(u), "=") = [before |-> <<"fix">>, after |-> u, found |-> TRUE]
      BY <1>1, FlagWords
    <3>2. PICK c : c = Cut(f, "=")
      OBVIOUS
    <3>3. c.before = <<"fix">> /\ c.after = u /\ c.found
      BY <1>6, <3>1, <3>2
    <3> QED
      BY <3>2, <3>3 DEF applyFlag
  <2>2. f \notin {Kev, Nofix} /\ \A t \in Seq(C) : f # Epss(t)
    BY <1>1, <1>6, <1>a, <1>b
  <2> QED
    BY <1>2, <1>3, <1>6, <2>1, <2>2 DEF FlagsInv
<1>7. CASE f = Epss(u)
  <2>1. applyFlag(w, f) = IF u \in DOMAIN Percent THEN [w EXCEPT !.epss = Percent[u]] ELSE w
    <3>1. Cut(Epss(u), "=") = [before |-> <<"epss">>, after |-> u, found |-> TRUE]
      BY <1>1, FlagWords
    <3>2. PICK c : c = Cut(f, "=")
      OBVIOUS
    <3>3. c.before = <<"epss">> /\ c.after = u /\ c.found
      BY <1>7, <3>1, <3>2
    <3> QED
      BY <3>2, <3>3 DEF applyFlag
  <2>2. f \notin {Kev, Nofix} /\ \A t \in Seq(C) : f = Epss(t) => t = u
    BY <1>1, <1>7, <1>a, <1>b
  <2>3. \A t \in DOMAIN Percent : Percent[t] # Off
    BY <1>2 DEF Off
  <2> QED
    BY <1>2, <1>3, <1>7, <2>1, <2>2, <2>3 DEF FlagsInv
<1> QED
  BY <1>4, <1>5, <1>6, <1>7 DEF Flag, u

Unflagged(v) == ~v.kev /\ ~v.nofix /\ v.epss = Off

\* What the flags of an entry set.
LEMMA FlagsApplied ==
  ASSUME NEW C, DOMAIN Percent \subseteq Seq(C), NEW v \in Vulns(C), Unflagged(v),
         NEW flags \in Seq(Seq(C)), \A i \in DOMAIN flags : Flag(flags[i])
  PROVE  /\ Applied(v, flags) \in Vulns(C)
         /\ FlagsInv(v, Applied(v, flags), ToSet(flags))
<1>s. PICK F : F = {f \in Seq(C) : Flag(f)}
  OBVIOUS
<1> DEFINE Q == {s \in Seq(F) : FlagsInv(v, Applied(v, s), ToSet(s))}
<1>0. /\ Applied(v, <<>>) = v
      /\ \A s \in Seq(F) : s \in Seq(Seq(C)) /\ Applied(v, s) \in Vulns(C)
      /\ \A s \in Seq(F), f \in F :
           Applied(v, Append(s, f)) = applyFlag(Applied(v, s), f)
  <2>1. PICK S : S = Seq(C)
    OBVIOUS
  <2>2. F \subseteq S
    BY <1>s, <2>1
  <2>3. \A s \in Seq(F) : s \in Seq(S)
    BY <2>2
  <2>4. /\ Applied(v, <<>>) = v
        /\ \A s \in Seq(Seq(C)) : Applied(v, s) \in Vulns(C)
        /\ \A s \in Seq(Seq(C)), c \in Seq(C) :
             Applied(v, Append(s, c)) = applyFlag(Applied(v, s), c)
    BY FlagsSteps
  <2> QED
    BY <2>1, <2>2, <2>3, <2>4
<1>1. <<>> \in Q
  <2>1. ToSet(<<>>) = {}
    BY DEF ToSet
  <2>2. FlagsInv(v, v, {})
    BY DEF FlagsInv, Unflagged
  <2>3. PICK e : e = <<>>
    OBVIOUS
  <2>4. e \in Seq(F) /\ FlagsInv(v, Applied(v, e), ToSet(e))
    <3>1. e \in Seq(F)
      BY <2>3
    <3>2. FlagsInv(v, Applied(v, e), ToSet(e))
      <4>1. Applied(v, e) = v /\ ToSet(e) = {}
        BY <1>0, <2>1, <2>3
      <4> QED
        BY <2>2, <4>1
    <3> QED
      BY <3>1, <3>2
  <2> QED
    BY <2>3, <2>4
<1>2. ASSUME NEW s \in Seq(F), NEW f \in F, s \in Q PROVE Append(s, f) \in Q
  <2>1. ToSet(Append(s, f)) = ToSet(s) \cup {f}
    BY ToSetAppends
  <2>2. PICK w, some : w = Applied(v, s) /\ some = ToSet(s)
    OBVIOUS
  <2>3. w \in Vulns(C) /\ FlagsInv(v, w, some)
    BY <1>0, <1>2, <2>2
  <2>4. FlagsInv(v, applyFlag(w, f), some \cup {f})
    BY <1>s, <2>3, FlagsGrow
  <2>5. Append(s, f) \in Seq(F)
    OBVIOUS
  <2> QED
    BY <1>0, <2>1, <2>2, <2>4, <2>5
<1> HIDE DEF Q
<1>3. flags \in Seq(F)
  BY <1>s
<1>4. flags \in Q
  BY <1>1, <1>2, <1>3, SequencesByInduction
<1>5. FlagsInv(v, Applied(v, flags), ToSet(flags))
  BY <1>4 DEF Q
<1>6. Applied(v, flags) \in Vulns(C)
  BY FlagsSteps
<1> QED
  BY <1>5, <1>6

\* A text is cut around the last "@".
LEMMA CutLastAround ==
  ASSUME NEW C, NEW a \in Seq(C), NEW b \in Without(C, "@")
  PROVE  cutLast(a \o <<"@">> \o b) = [before |-> a, after |-> b, found |-> TRUE]
<1>0. PICK E, s, n, k : /\ E = C \cup {"@"} /\ s = a \o <<"@">> \o b /\ n = Len(a) /\ k = Len(b)
  OBVIOUS
<1>1. a \in Seq(E) /\ b \in Seq(E) /\ <<"@">> \in Seq(E) /\ b \in Seq(C \ {"@"})
  BY <1>0 DEF Without
<1>2. /\ s \in Seq(E) /\ Len(s) = n + 1 + k /\ n \in Nat /\ k \in Nat
      /\ (\A i \in 1..n : s[i] = a[i]) /\ s[n + 1] = "@"
      /\ \A i \in 1..k : s[n + 1 + i] = b[i] /\ b[i] # "@"
  <2>1. PICK x : x = a \o <<"@">>
    OBVIOUS
  <2>2. x \in Seq(E) /\ Len(x) = n + 1 /\ x[n + 1] = "@" /\ n \in Nat /\ \A i \in 1..n : x[i] = a[i]
    BY <1>0, <1>1, <2>1
  <2>3. k \in Nat /\ s = x \o b /\ \A i \in 1..k : b[i] # "@"
    BY <1>0, <1>1, <2>1
  <2>4. /\ s \in Seq(E) /\ Len(s) = n + 1 + k
        /\ (\A i \in 1..(n + 1) : s[i] = x[i]) /\ \A i \in 1..k : s[n + 1 + i] = b[i]
    BY <1>0, <1>1, <2>2, <2>3
  <2>5. \A i \in 1..n : i \in 1..(n + 1)
    BY <2>2
  <2>6. n + 1 \in 1..(n + 1)
    BY <2>2
  <2> QED
    BY <2>2, <2>3, <2>4, <2>5, <2>6
<1>3. PICK at : at = {i \in DOMAIN s : s[i] = "@"}
  OBVIOUS
<1>4. n + 1 \in at /\ \A i \in at : i <= n + 1
  <2>1. DOMAIN s = 1..(n + 1 + k)
    BY <1>2
  <2>2. n + 1 \in at
    BY <1>2, <1>3, <2>1
  <2>3. ASSUME NEW i \in at, i > n + 1 PROVE FALSE
    <3>1. PICK j : j = i - (n + 1)
      OBVIOUS
    <3>2. i \in 1..(n + 1 + k) /\ s[i] = "@"
      BY <1>3, <2>1
    <3>3. j \in 1..k /\ n + 1 + j = i
      BY <1>2, <2>3, <3>1, <3>2
    <3> QED
      BY <1>2, <3>2, <3>3
  <2>4. \A i \in at : i \in Nat
    BY <1>3, <2>1
  <2> QED
    BY <1>2, <2>2, <2>3, <2>4
<1>5. (CHOOSE q \in 0..Len(s) : q + 1 \in at /\ \A i \in at : i <= q + 1) = n
  <2>1. n \in 0..Len(s)
    BY <1>2
  <2>2. \A q \in 0..Len(s) : (q + 1 \in at /\ \A i \in at : i <= q + 1) => q = n
    <3> SUFFICES ASSUME NEW q \in 0..Len(s), q + 1 \in at, \A i \in at : i <= q + 1 PROVE q = n
      OBVIOUS
    <3>1. q + 1 <= n + 1 /\ n + 1 <= q + 1
      BY <1>4
    <3>2. q \in Int
      BY <1>2
    <3> QED
      BY <1>2, <3>1, <3>2
  <2> QED
    BY <1>4, <2>1, <2>2
<1>6. cutLast(s) = CutAt(s, n)
  BY <1>3, <1>4, <1>5 DEF cutLast
<1>7. SubSeq(s, 1, n) = a
  <2>1. /\ SubSeq(s, 1, n) \in Seq(E) /\ Len(SubSeq(s, 1, n)) = n
        /\ \A i \in 1..n : SubSeq(s, 1, n)[i] = a[i]
    BY <1>2
  <2> QED
    BY <1>0, <1>1, <2>1, SeqEqual
<1>8. From(s, n + 1) = b
  <2>1. PICK m, z : m = n + 2 /\ z = Len(s)
    OBVIOUS
  <2>2. From(s, n + 1) = SubSeq(s, m, z) /\ m \in 1..(z + 1) /\ z \in Nat /\ z - m + 1 = k
    BY <1>2, <2>1 DEF From
  <2>3. /\ SubSeq(s, m, z) \in Seq(E) /\ Len(SubSeq(s, m, z)) = k
        /\ \A i \in 1..k : SubSeq(s, m, z)[i] = s[m + i - 1]
    BY <1>2, <2>1, <2>2
  <2>4. \A i \in 1..k : m + i - 1 = n + 1 + i
    BY <1>2, <2>1
  <2>5. /\ From(s, n + 1) \in Seq(E) /\ Len(From(s, n + 1)) = k
        /\ \A i \in 1..k : From(s, n + 1)[i] = b[i]
    BY <1>2, <2>2, <2>3, <2>4
  <2> QED
    BY <1>0, <1>1, <2>5, SeqEqual
<1> QED
  BY <1>0, <1>6, <1>7, <1>8 DEF CutAt

\* The fields of a line are read back, at the separator they were written with.
LEMMA ColumnsRead ==
  ASSUME NEW l \in Lines, NEW body, body = Joined(Columns(l), l.separator)
  PROVE  /\ l.separator = "|" => Split(body, "|") = Columns(l)
         /\ l.separator # "|" => Split(body, "|") = <<body>>
<1>1. Columns(l) \in Seq(Field) /\ Columns(l) # <<>> /\ l.separator \in Characters
  BY ColumnsType, LinesAssumption
<1>2. l.separator = "|" => Split(body, "|") = Columns(l)
  BY <1>1, SplitJoined DEF Field
<1>3. ASSUME l.separator # "|" PROVE Split(body, "|") = <<body>>
  <2>1. PICK D : D = Characters \ {"|"}
    OBVIOUS
  <2>2. Columns(l) \in Pieces(D) /\ l.separator \in D
    <3>1. PICK S : S = Seq(D)
      OBVIOUS
    <3>2. Field = S
      BY <2>1, <3>1 DEF Field, Without
    <3>3. Columns(l) \in Seq(S) /\ Columns(l) # <<>>
      BY <1>1, <3>2
    <3> QED
      BY <1>1, <1>3, <2>1, <3>1, <3>3 DEF Pieces
  <2>3. \A ps \in Pieces(D) : Joined(ps, l.separator) \in Seq(D)
    BY <2>2, JoinedGrows
  <2>4. body \in Without(Characters, "|")
    BY <2>1, <2>2, <2>3 DEF Without
  <2> QED
    BY <2>4, SplitOne
<1> QED
  BY <1>2, <1>3

\* The flags of a line, listed, cut again, and collected.
LEMMA FlagsRead ==
  ASSUME NEW l \in Lines, l.v.flags # {}, NEW v \in Vulns(Characters), Unflagged(v)
  PROVE  \E w \in Vulns(Characters) : /\ applyFlags(v, Joined(SetToSeq(l.v.flags), ",")) = w
                                      /\ FlagsInv(v, w, l.v.flags)
<1>1. PICK q, D : q = SetToSeq(l.v.flags) /\ D = Characters \ {"|"}
  OBVIOUS
<1>2. q \in Seq(Without(D, ",")) /\ q # <<>> /\ "," \in D
  BY <1>1, FlaggedType, LinesAssumption
<1>3. Split(Joined(q, ","), ",") = q
  BY <1>2, SplitJoined
<1>4. ToSet(q) = l.v.flags /\ q \in Seq(l.v.flags)
  <2>1. IsFiniteSet(l.v.flags)
    BY LinesAssumption
  <2>2. q \in Seq(l.v.flags) /\ \A x \in l.v.flags : \E i \in DOMAIN q : q[i] = x
    BY <1>1, <2>1, SetListed
  <2> QED
    BY <2>2 DEF ToSet
<1>5. q \in Seq(Seq(Characters)) /\ \A i \in DOMAIN q : Flag(q[i])
  <2>1. PICK S : S = Seq(Characters)
    OBVIOUS
  <2>2. \A f \in l.v.flags : f \in S /\ Flag(f)
    <3>1. l.v.flags \subseteq Words({"|", ","})
      BY LinesAssumption
    <3>2. \A Q : Words(Q) \subseteq S
      BY <2>1 DEF Words
    <3>3. \A f \in l.v.flags : Flag(f)
      BY PackagesAssumption DEF Flag
    <3> QED
      BY <3>1, <3>2, <3>3
  <2>3. q \in Seq(S) /\ \A i \in DOMAIN q : q[i] \in l.v.flags
    BY <1>4, <2>2
  <2> QED
    BY <2>1, <2>2, <2>3
<1>6. Applied(v, q) \in Vulns(Characters) /\ FlagsInv(v, Applied(v, q), ToSet(q))
  BY <1>5, FlagsApplied, PackagesAssumption
<1>7. applyFlags(v, Joined(q, ",")) = Applied(v, q)
  BY <1>3 DEF applyFlags, Applied
<1> QED
  BY <1>1, <1>4, <1>6, <1>7


\* The entry of a line, before its flags.
BaseOf(l) ==
  IF l.mark = "~"
  THEN [Plain EXCEPT !.key = Key(l), !.introduced = Read(l.v.introduced),
          !.fixed = Read(l.v.fixed), !.lastAffected = Read(l.v.lastAffected),
          !.severity = parseBandChar(<<l.v.band>>), !.fixedIn = l.v.fixed]
  ELSE [Plain EXCEPT !.key = Key(l), !.version = l.version,
          !.severity = parseBandChar(<<l.v.band>>)]

\* It is typed, and has no flag yet.
LEMMA BaseType ==
  ASSUME NEW l \in Lines
  PROVE  /\ BaseOf(l) \in Vulns(Characters) /\ Unflagged(BaseOf(l))
         /\ FlagsInv(BaseOf(l), BaseOf(l), {})
<1>1. PICK S : S = Seq(Characters)
  OBVIOUS
<1>2. Key(l) \in S /\ l.version \in S /\ l.v.fixed \in S
  <2>1. Key(l) \in S
    BY <1>1, ColumnsType, WithoutType DEF Field
  <2>2. \A Q : Words(Q) \subseteq S
    BY <1>1 DEF Words
  <2>3. l.version \in Words({"|", "@"}) /\ l.v.fixed \in Words({"|"})
    BY LinesAssumption
  <2> QED
    BY <2>1, <2>2, <2>3
<1>3. PICK k, n, x, b, a, f, t :
        /\ k = Key(l) /\ n = l.version /\ x = l.v.fixed /\ b = parseBandChar(<<l.v.band>>)
        /\ a = Read(l.v.introduced) /\ f = Read(l.v.fixed) /\ t = Read(l.v.lastAffected)
  OBVIOUS
<1>4. k \in S /\ n \in S /\ x \in S /\ b \in Bands /\ a \in Texts /\ f \in Texts /\ t \in Texts
  BY <1>2, <1>3, ReadType DEF parseBandChar, Bands
<1>5. Plain \in Vulns(Characters) /\ Unflagged(Plain)
  BY VulnsFields DEF Plain, Unflagged
<1>6. PICK v : v = BaseOf(l)
  OBVIOUS
<1>7. v = IF l.mark = "~"
          THEN [Plain EXCEPT !.key = k, !.introduced = a, !.fixed = f, !.lastAffected = t,
                             !.severity = b, !.fixedIn = x]
          ELSE [Plain EXCEPT !.key = k, !.version = n, !.severity = b]
  BY <1>3, <1>6 DEF BaseOf
<1>8. v \in Vulns(Characters) /\ ~v.kev /\ ~v.nofix /\ v.epss = Off
  BY <1>1, <1>4, <1>5, <1>7 DEF Vulns, Unflagged
<1>9. FlagsInv(v, v, {})
  BY <1>8 DEF FlagsInv
<1> QED
  BY <1>6, <1>8, <1>9 DEF Unflagged

\* The fields of a range and of a listed version, flags last.
LEMMA ColumnsOf ==
  ASSUME NEW l \in Lines
  PROVE  /\ l.mark = "~" /\ l.v.flags = {} =>
              Columns(l) = <<Key(l), l.v.introduced, l.v.fixed, l.v.lastAffected,
                             <<l.v.band>>, <<"G">>>>
         /\ l.mark = "~" /\ l.v.flags # {} =>
              Columns(l) = <<Key(l), l.v.introduced, l.v.fixed, l.v.lastAffected,
                             <<l.v.band>>, <<"G">>, Joined(SetToSeq(l.v.flags), ",")>>
         /\ l.mark = "+" /\ l.v.flags = {} =>
              Columns(l) = <<Key(l) \o <<"@">> \o l.version, <<l.v.band>>, <<"G">>>>
         /\ l.mark = "+" /\ l.v.flags # {} =>
              Columns(l) = <<Key(l) \o <<"@">> \o l.version, <<l.v.band>>, <<"G">>,
                             Joined(SetToSeq(l.v.flags), ",")>>
<1>1. PICK k, n, a, f, t, b, g, j, x :
        /\ k = Key(l) /\ n = Key(l) \o <<"@">> \o l.version
        /\ a = l.v.introduced /\ f = l.v.fixed /\ t = l.v.lastAffected
        /\ b = <<l.v.band>> /\ g = <<"G">> /\ j = Joined(SetToSeq(l.v.flags), ",")
        /\ x = Flagged(l)
  OBVIOUS
<1>2. (l.v.flags = {} => x = <<>>) /\ (l.v.flags # {} => x = <<j>>)
  BY <1>1, FlaggedType
<1>3. /\ l.mark = "~" => Columns(l) = <<k, a, f, t, b, g>> \o x
      /\ l.mark = "+" => Columns(l) = <<n, b, g>> \o x
  BY <1>1 DEF Columns
<1>4. /\ <<k, a, f, t, b, g>> \o <<>> = <<k, a, f, t, b, g>>
      /\ <<k, a, f, t, b, g>> \o <<j>> = <<k, a, f, t, b, g, j>>
      /\ <<n, b, g>> \o <<>> = <<n, b, g>> /\ <<n, b, g>> \o <<j>> = <<n, b, g, j>>
  <2>1. <<n, b, g>> \o <<>> = <<n, b, g>>
    <3>1. PICK y : y = <<n, b, g>>
      OBVIOUS
    <3>2. y \in Seq({n, b, g})
      BY <3>1
    <3>3. y \o <<>> = y
      BY <3>2, ConcatEmptySeq
    <3> QED
      BY <3>1, <3>3
  <2>2. <<n, b, g>> \o <<j>> = <<n, b, g, j>>
    <3>1. PICK D : D = {n, b, g, j}
      OBVIOUS
    <3>2. PICK y : y = <<n, b, g>>
      OBVIOUS
    <3>3. y \in Seq(D) /\ j \in D
      BY <3>1, <3>2
    <3>4. y \o <<j>> = Append(y, j)
      BY <3>3, AppendIsConcat
    <3>5. PICK u, v : u = <<n, b, g, j>> /\ v = Append(y, j)
      OBVIOUS
    <3>6. u \in Seq(D) /\ Len(u) = 4
      BY <3>1, <3>5
    <3>7. v \in Seq(D) /\ Len(v) = 4
      BY <3>2, <3>3, <3>5
    <3>8. \A i \in 1..4 : v[i] = u[i]
      BY <3>2, <3>3, <3>5
    <3>9. v = u
      BY <3>6, <3>7, <3>8, SeqEqual
    <3> QED
      BY <3>2, <3>4, <3>5, <3>9
  <2>3. <<k, a, f, t, b, g>> \o <<>> = <<k, a, f, t, b, g>>
    <3>1. PICK y : y = <<k, a, f, t, b, g>>
      OBVIOUS
    <3>2. y \in Seq({k, a, f, t, b, g})
      BY <3>1
    <3>3. y \o <<>> = y
      BY <3>2, ConcatEmptySeq
    <3> QED
      BY <3>1, <3>3
  <2>4. <<k, a, f, t, b, g>> \o <<j>> = <<k, a, f, t, b, g, j>>
    <3>1. PICK D : D = {k, a, f, t, b, g, j}
      OBVIOUS
    <3>2. PICK y : y = <<k, a, f, t, b, g>>
      OBVIOUS
    <3>3. y \in Seq(D) /\ j \in D
      BY <3>1, <3>2
    <3>4. y \o <<j>> = Append(y, j)
      BY <3>3, AppendIsConcat
    <3>5. PICK u, v : u = <<k, a, f, t, b, g, j>> /\ v = Append(y, j)
      OBVIOUS
    <3>6. u \in Seq(D) /\ Len(u) = 7
      BY <3>1, <3>5
    <3>7. v \in Seq(D) /\ Len(v) = 7
      BY <3>2, <3>3, <3>5
    <3>8. \A i \in 1..7 : v[i] = u[i]
      BY <3>2, <3>3, <3>5
    <3>9. v = u
      BY <3>6, <3>7, <3>8, SeqEqual
    <3> QED
      BY <3>2, <3>4, <3>5, <3>9
  <2> QED
    BY <2>1, <2>2, <2>3, <2>4
<1>5. /\ l.mark = "~" /\ l.v.flags = {} => Columns(l) = <<k, a, f, t, b, g>>
      /\ l.mark = "~" /\ l.v.flags # {} => Columns(l) = <<k, a, f, t, b, g, j>>
      /\ l.mark = "+" /\ l.v.flags = {} => Columns(l) = <<n, b, g>>
      /\ l.mark = "+" /\ l.v.flags # {} => Columns(l) = <<n, b, g, j>>
  BY <1>2, <1>3, <1>4
<1> QED
  BY <1>1, <1>5, Zenon

Usable(l) == l.separator = "|" /\ (l.mark = "~" \/ l.version # <<>>)

\* Few pieces are all kept.
LEMMA SplitNShort ==
  ASSUME NEW s, NEW d, NEW n, Len(Split(s, d)) <= n
  PROVE  SplitN(s, d, n) = Split(s, d)
BY Zenon DEF SplitN

\* What is read of a range.
LEMMA RangeLine ==
  ASSUME NEW l \in Lines, l.mark = "~"
  PROVE  /\ EntryOf(l).tail = {} /\ EntryOf(l).pinned = {} /\ EntryOf(l).skipped = 0
         /\ EntryOf(l).dropped = IF l.separator = "|" THEN 0 ELSE 1
         /\ l.separator # "|" => EntryOf(l).vulns = <<>>
         /\ l.separator = "|" => \E v \in Vulns(Characters) :
                                   /\ EntryOf(l).vulns = <<v>>
                                   /\ FlagsInv(BaseOf(l), v, l.v.flags)
<1>1. PICK body, parts : body = Tail(Written(l)) /\ parts = Split(body, "|")
  OBVIOUS
<1>2. /\ l.separator = "|" => parts = Columns(l)
      /\ l.separator # "|" => parts = <<body>>
  BY <1>1, ColumnsRead, WrittenType
<1>3. PICK k, a, f, t, b, g, j :
        /\ k = Key(l) /\ a = l.v.introduced /\ f = l.v.fixed /\ t = l.v.lastAffected
        /\ b = <<l.v.band>> /\ g = <<"G">> /\ j = Joined(SetToSeq(l.v.flags), ",")
  OBVIOUS
<1>4. /\ l.v.flags = {} => Columns(l) = <<k, a, f, t, b, g>>
      /\ l.v.flags # {} => Columns(l) = <<k, a, f, t, b, g, j>>
  BY <1>3, ColumnsOf
<1>n. PICK z : z = Len(parts)
  OBVIOUS
<1>5. /\ l.separator # "|" => z = 1
      /\ l.separator = "|" /\ l.v.flags = {} => z = 6
      /\ l.separator = "|" /\ l.v.flags # {} => z = 7 /\ parts[7] = j
      /\ l.separator = "|" => /\ parts[1] = k /\ parts[2] = a /\ parts[3] = f
                              /\ parts[4] = t /\ parts[5] = b
  <2>1. CASE l.separator # "|"
    BY <1>2, <1>n, <2>1
  <2>2. CASE l.separator = "|" /\ l.v.flags = {}
    <3>1. parts = <<k, a, f, t, b, g>>
      BY <1>2, <1>4, <2>2
    <3> QED
      BY <1>n, <2>2, <3>1
  <2>3. CASE l.separator = "|" /\ l.v.flags # {}
    <3>1. parts = <<k, a, f, t, b, g, j>>
      BY <1>2, <1>4, <2>3
    <3> QED
      BY <1>n, <2>3, <3>1
  <2> QED
    BY <2>1, <2>2, <2>3
<1>6. SplitN(body, "|", 7) = parts
  <2>1. z <= 7
    BY <1>5
  <2> QED
    BY <1>1, <1>n, <2>1, SplitNShort
<1>7. EntryOf(l) = IF z >= 6 THEN [NoEntries EXCEPT !.vulns = <<rangeEntry(parts)>>]
                   ELSE [NoEntries EXCEPT !.dropped = 1]
  BY <1>1, <1>6, <1>n DEF EntryOf, Entries
<1>8. ASSUME l.separator = "|"
      PROVE  rangeEntry(parts) = IF z = 7 THEN applyFlags(BaseOf(l), j) ELSE BaseOf(l)
  <2>1. BaseOf(l) = [Plain EXCEPT !.key = parts[1], !.introduced = Read(parts[2]),
                       !.fixed = Read(parts[3]), !.lastAffected = Read(parts[4]),
                       !.severity = parseBandChar(parts[5]), !.fixedIn = parts[3]]
    BY <1>3, <1>5, <1>8, Zenon DEF BaseOf
  <2>2. z = 7 => parts[7] = j
    BY <1>5, <1>8
  <2>3. PICK w : w = BaseOf(l)
    OBVIOUS
  <2>4. rangeEntry(parts) = IF z = 7 THEN applyFlags(w, parts[7]) ELSE w
    BY <1>n, <2>1, <2>3, Zenon DEF rangeEntry
  <2> QED
    BY <2>2, <2>3, <2>4, Zenon
<1>9. ASSUME l.separator = "|"
      PROVE  \E v \in Vulns(Characters) : /\ EntryOf(l).vulns = <<v>>
                                          /\ FlagsInv(BaseOf(l), v, l.v.flags)
  <2>1. EntryOf(l).vulns = <<rangeEntry(parts)>>
    <3>1. z >= 6
      BY <1>5, <1>9
    <3> QED
      BY <1>7, <3>1 DEF NoEntries
  <2>2. CASE l.v.flags = {}
    <3>1. rangeEntry(parts) = BaseOf(l)
      BY <1>5, <1>8, <1>9, <2>2
    <3> QED
      BY <2>1, <2>2, <3>1, BaseType
  <2>3. CASE l.v.flags # {}
    <3>1. rangeEntry(parts) = applyFlags(BaseOf(l), j)
      BY <1>5, <1>8, <1>9, <2>3
    <3>2. PICK v \in Vulns(Characters) : applyFlags(BaseOf(l), j) = v /\ FlagsInv(BaseOf(l), v, l.v.flags)
      BY <1>3, <2>3, BaseType, FlagsRead
    <3> QED
      BY <2>1, <3>1, <3>2
  <2> QED
    BY <2>2, <2>3
<1>10. ASSUME l.separator # "|" PROVE EntryOf(l).vulns = <<>>
  <2>1. ~(z >= 6)
    BY <1>5, <1>10
  <2> QED
    BY <1>7, <2>1 DEF NoEntries
<1>11. EntryOf(l).tail = {} /\ EntryOf(l).pinned = {} /\ EntryOf(l).skipped = 0
  BY <1>7 DEF NoEntries
<1>12. EntryOf(l).dropped = IF l.separator = "|" THEN 0 ELSE 1
  <2>1. z >= 6 <=> l.separator = "|"
    BY <1>5
  <2> QED
    BY <1>7, <2>1 DEF NoEntries
<1> QED
  BY <1>9, <1>10, <1>11, <1>12

\* What is read of a listed version.
LEMMA ListedLine ==
  ASSUME NEW l \in Lines, l.mark = "+"
  PROVE  /\ EntryOf(l).tail = {} /\ EntryOf(l).pinned = {} /\ EntryOf(l).skipped = 0
         /\ EntryOf(l).dropped = IF Usable(l) THEN 0 ELSE 1
         /\ ~Usable(l) => EntryOf(l).vulns = <<>>
         /\ Usable(l) => \E v \in Vulns(Characters) :
                           /\ EntryOf(l).vulns = <<v>>
                           /\ FlagsInv(BaseOf(l), v, l.v.flags)
<1>1. PICK body, parts : body = Tail(Written(l)) /\ parts = Split(body, "|")
  OBVIOUS
<1>2. /\ l.separator = "|" => parts = Columns(l)
      /\ l.separator # "|" => parts = <<body>>
  BY <1>1, ColumnsRead, WrittenType
<1>3. PICK n, b, g, j :
        /\ n = Key(l) \o <<"@">> \o l.version
        /\ b = <<l.v.band>> /\ g = <<"G">> /\ j = Joined(SetToSeq(l.v.flags), ",")
  OBVIOUS
<1>4. /\ l.v.flags = {} => Columns(l) = <<n, b, g>>
      /\ l.v.flags # {} => Columns(l) = <<n, b, g, j>>
  BY <1>3, ColumnsOf
<1>n. PICK z : z = Len(parts)
  OBVIOUS
<1>5. /\ l.separator # "|" => z = 1
      /\ l.separator = "|" /\ l.v.flags = {} => z = 3
      /\ l.separator = "|" /\ l.v.flags # {} => z = 4 /\ parts[4] = j
      /\ l.separator = "|" => parts[1] = n /\ parts[2] = b
  <2>1. CASE l.separator # "|"
    BY <1>2, <1>n, <2>1
  <2>2. CASE l.separator = "|" /\ l.v.flags = {}
    <3>1. parts = <<n, b, g>>
      BY <1>2, <1>4, <2>2
    <3> QED
      BY <1>n, <2>2, <3>1
  <2>3. CASE l.separator = "|" /\ l.v.flags # {}
    <3>1. parts = <<n, b, g, j>>
      BY <1>2, <1>4, <2>3
    <3> QED
      BY <1>n, <2>3, <3>1
  <2> QED
    BY <2>1, <2>2, <2>3
<1>6. SplitN(body, "|", 4) = parts
  <2>1. z <= 4
    BY <1>5
  <2> QED
    BY <1>1, <1>n, <2>1, SplitNShort
<1>7. PICK key : key = cutLast(parts[1])
  OBVIOUS
<1>8. EntryOf(l) = IF z >= 3 /\ key.found /\ key.before # <<>> /\ key.after # <<>>
                   THEN [NoEntries EXCEPT !.vulns = <<versionEntry(key, parts)>>]
                   ELSE [NoEntries EXCEPT !.dropped = 1]
  BY <1>1, <1>6, <1>7, <1>n DEF EntryOf, Entries
<1>9. l.separator = "|" => key = [before |-> Key(l), after |-> l.version, found |-> TRUE]
  <2>1. Key(l) \in Seq(Characters)
    BY ColumnsType, WithoutType DEF Field
  <2>2. l.version \in Without(Characters, "@")
    <3>1. l.version \in Words({"|", "@"})
      BY LinesAssumption
    <3> QED
      BY <3>1 DEF Words, Without
  <2>3. cutLast(n) = [before |-> Key(l), after |-> l.version, found |-> TRUE]
    BY <1>3, <2>1, <2>2, CutLastAround
  <2> QED
    BY <1>5, <1>7, <2>3
<1>10. Key(l) # <<>>
  <2>1. l.name \in Seq(Characters)
    <3>1. l.name \in Words({"|"})
      BY LinesAssumption
    <3> QED
      BY <3>1 DEF Words
  <2>2. PICK h : h = <<l.ecosystem, "/">>
    OBVIOUS
  <2>3. h \in Seq({l.ecosystem, "/"}) /\ h # <<>>
    BY <2>2
  <2>4. h \o l.name # <<>>
    <3>1. Len(h \o l.name) = Len(h) + Len(l.name) /\ Len(h) = 2 /\ Len(l.name) \in Nat
      BY <2>1, <2>2
    <3>2. Len(h \o l.name) # 0
      BY <3>1
    <3> QED
      BY <3>2
  <2> QED
    BY <2>2, <2>4 DEF Key
<1>11. ASSUME l.separator # "|" \/ l.version = <<>>
       PROVE  EntryOf(l) = [NoEntries EXCEPT !.dropped = 1]
  <2>1. l.separator # "|" => ~(z >= 3)
    BY <1>5
  <2>2. l.separator = "|" => key.after = <<>>
    BY <1>9, <1>11
  <2> QED
    BY <1>8, <2>1, <2>2
<1>12. ASSUME l.separator = "|", l.version # <<>>
       PROVE  /\ EntryOf(l) = [NoEntries EXCEPT !.vulns = <<versionEntry(key, parts)>>]
              /\ versionEntry(key, parts)
                   = IF z = 4 THEN applyFlags(BaseOf(l), j) ELSE BaseOf(l)
  <2>1. z >= 3
    BY <1>5, <1>12
  <2>2. key.found /\ key.before = Key(l) /\ key.after = l.version
    BY <1>9, <1>12
  <2>3. BaseOf(l) = [Plain EXCEPT !.key = key.before, !.version = key.after,
                                  !.severity = parseBandChar(parts[2])]
    <3>1. l.mark # "~"
      OBVIOUS
    <3> QED
      BY <1>3, <1>5, <1>12, <2>2, <3>1 DEF BaseOf
  <2>4. z = 4 => parts[4] = j
    BY <1>5, <1>12
  <2>5. PICK w : w = BaseOf(l)
    OBVIOUS
  <2>6. versionEntry(key, parts) = IF z = 4 THEN applyFlags(w, parts[4]) ELSE w
    BY <1>n, <2>3, <2>5, Zenon DEF versionEntry
  <2>7. EntryOf(l) = [NoEntries EXCEPT !.vulns = <<versionEntry(key, parts)>>]
    BY <1>8, <1>10, <1>12, <2>1, <2>2
  <2> QED
    BY <2>4, <2>5, <2>6, <2>7, Zenon
<1>13. ASSUME Usable(l)
       PROVE  \E v \in Vulns(Characters) : /\ EntryOf(l).vulns = <<v>>
                                           /\ FlagsInv(BaseOf(l), v, l.v.flags)
  <2>0. l.separator = "|" /\ l.version # <<>>
    BY <1>13 DEF Usable
  <2>1. EntryOf(l).vulns = <<versionEntry(key, parts)>>
    BY <1>12, <2>0 DEF NoEntries
  <2>2. CASE l.v.flags = {}
    <3>1. versionEntry(key, parts) = BaseOf(l)
      BY <1>5, <1>12, <2>0, <2>2
    <3> QED
      BY <2>1, <2>2, <3>1, BaseType
  <2>3. CASE l.v.flags # {}
    <3>1. versionEntry(key, parts) = applyFlags(BaseOf(l), j)
      BY <1>5, <1>12, <2>0, <2>3
    <3>2. PICK v \in Vulns(Characters) : applyFlags(BaseOf(l), j) = v /\ FlagsInv(BaseOf(l), v, l.v.flags)
      BY <1>3, <2>3, BaseType, FlagsRead
    <3> QED
      BY <2>1, <3>1, <3>2
  <2> QED
    BY <2>2, <2>3
<1>14. ~Usable(l) => EntryOf(l).vulns = <<>>
  BY <1>11 DEF NoEntries, Usable
<1>15. EntryOf(l).tail = {} /\ EntryOf(l).pinned = {} /\ EntryOf(l).skipped = 0
  BY <1>8 DEF NoEntries
<1>16. EntryOf(l).dropped = IF Usable(l) THEN 0 ELSE 1
  <2>1. CASE Usable(l)
    BY <1>12, <2>1 DEF NoEntries, Usable
  <2>2. CASE ~Usable(l)
    BY <1>11, <2>2 DEF NoEntries, Usable
  <2> QED
    BY <2>1, <2>2
<1> QED
  BY <1>13, <1>14, <1>15, <1>16

Adds(l) == l.mark \in {"~", "+"} /\ l.ecosystem = "npm" /\ Usable(l)
VulnOf(l) == EntryOf(l).vulns[1]
Malware(l, mark) == l \in Understood /\ l.mark = mark

\* The lines that add a vulnerability are kept.
LEMMA AddsKept ==
  ASSUME NEW l \in Lines
  PROVE  /\ Adds(l) <=> l \in Understood /\ l.mark \in {"~", "+"}
         /\ l \in Foreign <=> l.mark # "?" /\ l.ecosystem # "npm"
         /\ l \notin Foreign \cup Understood <=>
              \/ l.mark = "?"
              \/ l.ecosystem = "npm" /\ l.mark = "=" /\ l.separator # "|"
              \/ l.ecosystem = "npm" /\ l.mark \in {"~", "+"} /\ ~Usable(l)
<1>1. l.mark \in {"!", "?", "=", "+", "~"}
  BY LinesAssumption
<1> QED
  BY <1>1 DEF Adds, Usable, Understood, Foreign

\* What one line adds, told by what it says.
LEMMA LineAdds ==
  ASSUME NEW sc \in Indexes(Characters), NEW l \in Lines, NEW e, e = addEntry(sc, Written(l))
  PROVE  /\ e.tail = sc.tail \cup (IF Malware(l, "!") THEN {Key(l)} ELSE {})
         /\ e.pinned = sc.pinned \cup (IF Malware(l, "=") THEN {Pin(l)} ELSE {})
         /\ e.skipped = sc.skipped + (IF l \in Foreign THEN 1 ELSE 0)
         /\ e.dropped = sc.dropped + (IF l \in Foreign \cup Understood THEN 0 ELSE 1)
         /\ Adds(l) => /\ VulnOf(l) \in Vulns(Characters)
                       /\ FlagsInv(BaseOf(l), VulnOf(l), l.v.flags)
                       /\ e.vulns = Append(sc.vulns, VulnOf(l))
         /\ ~Adds(l) => e.vulns = sc.vulns
<1>1. PICK add, T : add = EntryOf(l) /\ T = Vulns(Characters)
  OBVIOUS
<1>2. e = IF l.mark = "?" THEN [sc EXCEPT !.dropped = @ + 1]
          ELSE IF l.ecosystem # "npm" THEN [sc EXCEPT !.skipped = @ + 1]
          ELSE With(sc, add)
  BY <1>1, LineEntered
<1>3. sc = [tail |-> sc.tail, pinned |-> sc.pinned, vulns |-> sc.vulns,
            dropped |-> sc.dropped, skipped |-> sc.skipped] /\ sc.vulns \in Seq(T)
      /\ sc.dropped \in Nat /\ sc.skipped \in Nat
  BY <1>1 DEF Indexes
<1>4. l.mark \in {"!", "?", "=", "+", "~"}
  BY LinesAssumption
<1>5. CASE l.mark = "?" \/ l.ecosystem # "npm"
  <2>1. e = IF l \in Foreign THEN [sc EXCEPT !.skipped = @ + 1]
            ELSE [sc EXCEPT !.dropped = @ + 1]
    BY <1>2, <1>5 DEF Foreign
  <2>2. e.tail = sc.tail /\ e.pinned = sc.pinned /\ e.vulns = sc.vulns
        /\ e.skipped = sc.skipped + (IF l \in Foreign THEN 1 ELSE 0)
        /\ e.dropped = sc.dropped + (IF l \in Foreign THEN 0 ELSE 1)
    <3>1. CASE l \in Foreign
      BY <1>3, <2>1, <3>1
    <3>2. CASE l \notin Foreign
      BY <1>3, <2>1, <3>2
    <3> QED
      BY <3>1, <3>2
  <2>3. l \notin Understood /\ ~Adds(l)
    BY <1>5 DEF Adds, Understood
  <2> QED
    BY <2>2, <2>3 DEF Malware
<1>6. CASE l.mark # "?" /\ l.ecosystem = "npm"
  <2>0. l \notin Foreign
    BY <1>6 DEF Foreign
  <2>1. e.tail = sc.tail \cup add.tail /\ e.pinned = sc.pinned \cup add.pinned
        /\ e.vulns = sc.vulns \o add.vulns
        /\ e.dropped = sc.dropped + add.dropped /\ e.skipped = sc.skipped + add.skipped
    <3>1. e = With(sc, add)
      BY <1>2, <1>6
    <3>2. PICK x, y, z, m, n :
            /\ x = sc.vulns \o add.vulns /\ y = sc.tail \cup add.tail
            /\ z = sc.pinned \cup add.pinned
            /\ m = sc.dropped + add.dropped /\ n = sc.skipped + add.skipped
      OBVIOUS
    <3>3. e = [tail |-> y, pinned |-> z, vulns |-> x, dropped |-> m, skipped |-> n]
      BY <3>1, <3>2, Zenon DEF With
    <3>4. e.tail = y /\ e.pinned = z /\ e.vulns = x /\ e.dropped = m /\ e.skipped = n
      BY <3>3
    <3> QED
      BY <3>2, <3>4
  <2>2. sc.vulns \o <<>> = sc.vulns
    BY <1>3, ConcatEmptySeq
  <2>3. \A v \in T : sc.vulns \o <<v>> = Append(sc.vulns, v)
    BY <1>3, AppendIsConcat
  <2>4. CASE l.mark \in {"!", "="}
    <3>1. ~Adds(l)
      BY <2>4 DEF Adds
    <3>2. CASE l \in Understood
      <4>1. l.mark = "=" => l.separator = "|"
        BY <3>2 DEF Understood
      <4>2. /\ add.vulns = <<>> /\ add.tail = (IF l.mark = "!" THEN {Key(l)} ELSE {})
            /\ add.pinned = (IF l.mark = "=" THEN {Pin(l)} ELSE {})
            /\ add.dropped = 0 /\ add.skipped = 0
        BY <1>1, <2>4, <4>1, MalwareLine DEF NoEntries
      <4> QED
        BY <1>3, <2>0, <2>1, <2>2, <3>1, <3>2, <4>2 DEF Malware
    <3>3. CASE l \notin Understood
      <4>1. l.mark = "=" /\ l.separator # "|"
        BY <1>6, <2>4, <3>3 DEF Understood
      <4>2. /\ add.vulns = <<>> /\ add.tail = {} /\ add.pinned = {}
            /\ add.dropped = 1 /\ add.skipped = 0
        BY <1>1, <4>1, MalwareLine DEF NoEntries
      <4> QED
        BY <1>3, <2>0, <2>1, <2>2, <3>1, <3>3, <4>2 DEF Malware
    <3> QED
      BY <3>2, <3>3
  <2>5. CASE l.mark \in {"~", "+"}
    <3>1. /\ add.tail = {} /\ add.pinned = {} /\ (~Usable(l) => add.vulns = <<>>)
          /\ add.skipped = 0 /\ add.dropped = IF Usable(l) THEN 0 ELSE 1
      BY <1>1, <2>5, RangeLine, ListedLine DEF Usable
    <3>2. ASSUME Usable(l)
          PROVE  \E v \in T : add.vulns = <<v>> /\ FlagsInv(BaseOf(l), v, l.v.flags)
      <4>1. CASE l.mark = "~"
        BY <1>1, <3>2, <4>1, RangeLine DEF Usable
      <4>2. CASE l.mark = "+"
        BY <1>1, <3>2, <4>2, ListedLine
      <4> QED
        BY <2>5, <4>1, <4>2
    <3>3. (Adds(l) <=> Usable(l)) /\ (l \in Understood <=> Usable(l))
      BY <1>6, <2>5, AddsKept DEF Adds
    <3>4. ~Malware(l, "!") /\ ~Malware(l, "=")
      BY <2>5 DEF Malware
    <3>5. ASSUME Adds(l)
          PROVE  /\ VulnOf(l) \in T /\ FlagsInv(BaseOf(l), VulnOf(l), l.v.flags)
                 /\ e.vulns = Append(sc.vulns, VulnOf(l))
      <4>1. PICK v \in T : add.vulns = <<v>> /\ FlagsInv(BaseOf(l), v, l.v.flags)
        BY <3>2, <3>3, <3>5
      <4>2. VulnOf(l) = v
        BY <1>1, <4>1 DEF VulnOf
      <4> QED
        BY <2>1, <2>3, <4>1, <4>2
    <3>6. ~Adds(l) => e.vulns = sc.vulns
      BY <2>1, <2>2, <3>1, <3>3
    <3>7. /\ e.tail = sc.tail /\ e.pinned = sc.pinned /\ e.skipped = sc.skipped
          /\ e.dropped = sc.dropped + (IF l \in Understood THEN 0 ELSE 1)
      BY <1>3, <2>1, <3>1, <3>3
    <3> QED
      BY <1>1, <1>3, <2>0, <3>4, <3>5, <3>6, <3>7
  <2> QED
    BY <1>4, <1>6, <2>4, <2>5
<1> QED
  BY <1>5, <1>6

Told(s) ==
  /\ IndexOf(s).tail = {Key(l) : l \in {m \in ToSet(s) : Malware(m, "!")}}
  /\ IndexOf(s).pinned = {Pin(l) : l \in {m \in ToSet(s) : Malware(m, "=")}}
  /\ ToSet(IndexOf(s).vulns) = {VulnOf(l) : l \in {m \in ToSet(s) : Adds(m)}}

\* The index holds what the lines say, and nothing else.
LEMMA IndexTold ==
  ASSUME NEW s \in Seq(Lines)
  PROVE  Told(s)
<1> DEFINE Q == {t \in Seq(Lines) : Told(t)}
<1>1. <<>> \in Q
  <2>1. IndexOf(<<>>) = NoEntries
    BY IndexGrows
  <2>2. NoEntries.tail = {} /\ NoEntries.pinned = {} /\ NoEntries.vulns = <<>>
    BY DEF NoEntries
  <2>3. ToSet(<<>>) = {}
    BY DEF ToSet
  <2>4. Told(<<>>)
    BY <2>1, <2>2, <2>3 DEF Told
  <2>5. PICK n : n = <<>>
    OBVIOUS
  <2>6. n \in Seq(Lines) /\ Told(n)
    BY <2>4, <2>5
  <2> QED
    BY <2>5, <2>6
<1>2. ASSUME NEW t \in Seq(Lines), NEW l \in Lines, t \in Q
      PROVE  Append(t, l) \in Q
  <2>1. PICK sc, e, u : sc = IndexOf(t) /\ e = IndexOf(Append(t, l)) /\ u = Append(t, l)
    OBVIOUS
  <2>2. sc \in Indexes(Characters) /\ e = addEntry(sc, Written(l)) /\ Told(t)
    BY <1>2, <2>1, IndexGrows
  <2>3. ToSet(u) = ToSet(t) \cup {l} /\ u \in Seq(Lines)
    BY <2>1, ToSetAppends
  <2>4. e.tail = {Key(m) : m \in {k \in ToSet(u) : Malware(k, "!")}}
    <3>1. e.tail = sc.tail \cup (IF Malware(l, "!") THEN {Key(l)} ELSE {})
      BY <2>2, LineAdds
    <3>2. sc.tail = {Key(m) : m \in {k \in ToSet(t) : Malware(k, "!")}}
      BY <2>1, <2>2 DEF Told
    <3> QED
      BY <2>3, <3>1, <3>2
  <2>5. e.pinned = {Pin(m) : m \in {k \in ToSet(u) : Malware(k, "=")}}
    <3>1. e.pinned = sc.pinned \cup (IF Malware(l, "=") THEN {Pin(l)} ELSE {})
      BY <2>2, LineAdds
    <3>2. sc.pinned = {Pin(m) : m \in {k \in ToSet(t) : Malware(k, "=")}}
      BY <2>1, <2>2 DEF Told
    <3> QED
      BY <2>3, <3>1, <3>2
  <2>6. ToSet(e.vulns) = {VulnOf(m) : m \in {k \in ToSet(u) : Adds(k)}}
    <3>1. ToSet(sc.vulns) = {VulnOf(m) : m \in {k \in ToSet(t) : Adds(k)}}
      BY <2>1, <2>2 DEF Told
    <3>2. sc.vulns \in Seq(Vulns(Characters))
      BY <2>2 DEF Indexes
    <3>3. CASE Adds(l)
      <4>1. e.vulns = Append(sc.vulns, VulnOf(l)) /\ VulnOf(l) \in Vulns(Characters)
        BY <2>2, <3>3, LineAdds
      <4>2. ToSet(e.vulns) = ToSet(sc.vulns) \cup {VulnOf(l)}
        BY <3>2, <4>1, ToSetAppends
      <4> QED
        BY <2>3, <3>1, <3>3, <4>2
    <3>4. CASE ~Adds(l)
      <4>1. e.vulns = sc.vulns
        BY <2>2, <3>4, LineAdds
      <4> QED
        BY <2>3, <3>1, <3>4, <4>1
    <3> QED
      BY <3>3, <3>4
  <2>7. Told(u)
    BY <2>1, <2>4, <2>5, <2>6 DEF Told
  <2> QED
    BY <2>1, <2>3, <2>7
<1> HIDE DEF Q
<1>3. s \in Q
  BY <1>1, <1>2, SequencesByInduction
<1> QED
  BY <1>3 DEF Q

CountIn(s, some) == Cardinality({i \in DOMAIN s : s[i] \in some})

\* One line more is of a kind or not.
LEMMA CountGrows ==
  ASSUME NEW some
  PROVE  /\ CountIn(<<>>, some) = 0
         /\ \A s \in Seq(Lines), l \in Lines :
              /\ CountIn(s, some) \in Nat
              /\ CountIn(Append(s, l), some)
                   = CountIn(s, some) + (IF l \in some THEN 1 ELSE 0)
<1>1. CountIn(<<>>, some) = 0
  <2>1. {i \in DOMAIN <<>> : <<>>[i] \in some} = {}
    OBVIOUS
  <2> QED
    BY <2>1, FS_EmptySet DEF CountIn
<1>2. ASSUME NEW s \in Seq(Lines), NEW l \in Lines
      PROVE  /\ CountIn(s, some) \in Nat
             /\ CountIn(Append(s, l), some)
                  = CountIn(s, some) + (IF l \in some THEN 1 ELSE 0)
  <2>1. PICK t, n : t = Append(s, l) /\ n = Len(s)
    OBVIOUS
  <2>2. /\ n \in Nat /\ t[n + 1] = l /\ \A i \in 1..n : t[i] = s[i]
        /\ DOMAIN s = 1..n /\ DOMAIN t = 1..(n + 1)
    BY <2>1
  <2>3. PICK A, B : A = {i \in DOMAIN s : s[i] \in some} /\ B = {i \in DOMAIN t : t[i] \in some}
    OBVIOUS
  <2>4. IsFiniteSet(A) /\ n + 1 \notin A
    <3>1. IsFiniteSet(1..n)
      BY <2>2, FS_Interval
    <3>2. A \subseteq 1..n
      BY <2>2, <2>3
    <3>3. n + 1 \notin 1..n
      BY <2>2
    <3>4. IsFiniteSet(A)
      BY <3>1, <3>2, FS_Subset
    <3> QED
      BY <3>2, <3>3, <3>4
  <2>5. Cardinality(A) \in Nat
    BY <2>4, FS_CardinalityType
  <2>6. \A i : i \in 1..(n + 1) <=> i \in 1..n \/ i = n + 1
    BY <2>2
  <2>7. B = IF l \in some THEN A \cup {n + 1} ELSE A
    BY <2>2, <2>3, <2>4, <2>6
  <2>8. Cardinality(B) = Cardinality(A) + (IF l \in some THEN 1 ELSE 0)
    <3>1. Cardinality(A \cup {n + 1}) = Cardinality(A) + 1
      BY <2>4, FS_AddElement
    <3> QED
      BY <2>5, <2>7, <3>1
  <2> QED
    BY <2>1, <2>3, <2>5, <2>8 DEF CountIn
<1> QED
  BY <1>1, <1>2

Unread == Lines \ (Foreign \cup Understood)
Vulnerable == {l \in Understood : l.mark \in {"~", "+"}}

Counted(s) ==
  /\ IndexOf(s).skipped = CountIn(s, Foreign)
  /\ IndexOf(s).dropped = CountIn(s, Unread)
  /\ Len(IndexOf(s).vulns) = CountIn(s, Vulnerable)

\* Every line of every document is counted where it belongs.
LEMMA AllCounted ==
  ASSUME NEW s \in Seq(Lines)
  PROVE  Counted(s)
<1> DEFINE Q == {t \in Seq(Lines) : Counted(t)}
<1>1. <<>> \in Q
  <2>1. IndexOf(<<>>).skipped = 0 /\ IndexOf(<<>>).dropped = 0 /\ IndexOf(<<>>).vulns = <<>>
    BY IndexGrows DEF NoEntries
  <2>2. Counted(<<>>)
    BY <2>1, CountGrows DEF Counted
  <2>3. PICK n : n = <<>>
    OBVIOUS
  <2>4. n \in Seq(Lines) /\ Counted(n)
    BY <2>2, <2>3
  <2> QED
    BY <2>3, <2>4
<1>2. ASSUME NEW t \in Seq(Lines), NEW l \in Lines, t \in Q
      PROVE  Append(t, l) \in Q
  <2>1. PICK sc, e, u : sc = IndexOf(t) /\ e = IndexOf(Append(t, l)) /\ u = Append(t, l)
    OBVIOUS
  <2>2. sc \in Indexes(Characters) /\ e = addEntry(sc, Written(l)) /\ Counted(t)
    BY <1>2, <2>1, IndexGrows
  <2>3. \A some : CountIn(u, some) = CountIn(t, some) + (IF l \in some THEN 1 ELSE 0)
    BY <2>1, CountGrows
  <2>4. e.skipped = CountIn(u, Foreign)
    <3>1. e.skipped = sc.skipped + (IF l \in Foreign THEN 1 ELSE 0)
      BY <2>2, LineAdds
    <3> QED
      BY <2>1, <2>2, <2>3, <3>1 DEF Counted
  <2>5. e.dropped = CountIn(u, Unread)
    <3>1. e.dropped = sc.dropped + (IF l \in Foreign \cup Understood THEN 0 ELSE 1)
      BY <2>2, LineAdds
    <3>2. e.dropped = sc.dropped + (IF l \in Unread THEN 1 ELSE 0)
      BY <3>1 DEF Unread
    <3> QED
      BY <2>1, <2>2, <2>3, <3>2 DEF Counted
  <2>6. Len(e.vulns) = CountIn(u, Vulnerable)
    <3>1. Adds(l) <=> l \in Vulnerable
      BY AddsKept DEF Vulnerable
    <3>2. sc.vulns \in Seq(Vulns(Characters))
      BY <2>2 DEF Indexes
    <3>3. Len(e.vulns) = Len(sc.vulns) + (IF l \in Vulnerable THEN 1 ELSE 0)
      <4>1. CASE Adds(l)
        <5>1. e.vulns = Append(sc.vulns, VulnOf(l)) /\ VulnOf(l) \in Vulns(Characters)
          BY <2>2, <4>1, LineAdds
        <5>2. Len(e.vulns) = Len(sc.vulns) + 1
          BY <3>2, <5>1
        <5> QED
          BY <3>1, <4>1, <5>2
      <4>2. CASE ~Adds(l)
        <5>1. e.vulns = sc.vulns
          BY <2>2, <4>2, LineAdds
        <5>2. Len(sc.vulns) \in Nat
          BY <3>2
        <5>3. l \notin Vulnerable
          BY <3>1, <4>2
        <5> QED
          BY <5>1, <5>2, <5>3
      <4> QED
        BY <4>1, <4>2
    <3> QED
      BY <2>1, <2>2, <2>3, <3>3 DEF Counted
  <2>7. Counted(u) /\ u \in Seq(Lines)
    BY <2>1, <2>4, <2>5, <2>6 DEF Counted
  <2> QED
    BY <2>1, <2>7
<1> HIDE DEF Q
<1>3. s \in Q
  BY <1>1, <1>2, SequencesByInduction
<1> QED
  BY <1>3 DEF Q

\* The malware among the lines.
LEMMA MarkedMalware ==
  ASSUME NEW mark
  PROVE  Marked(mark) = {m \in ToSet(lines) : Malware(m, mark)}
BY DEF Marked, Malware

\* supplychain.go:323: no line disappears, of whatever mark, ecosystem and grammar:
\* each is in the index, counted as another ecosystem's, or counted as unreadable.
THEOREM NoLineEverDisappears == Spec => []NoLineDisappears
<1>1. LinesInv => NoLineDisappears
  <2> SUFFICES ASSUME LinesInv PROVE NoLineDisappears
    OBVIOUS
  <2>1. document.index = IndexOf(lines)
    BY DEF document, parseSupplyChainDoc, IndexOf
  <2>2. Counted(lines) /\ Told(lines)
    BY AllCounted, IndexTold DEF LinesInv
  <2>3. /\ document.index.tail = {Key(l) : l \in Marked("!")}
        /\ document.index.pinned = {Key(l) \o <<"@">> \o l.version : l \in Marked("=")}
    BY <2>1, <2>2, MarkedMalware DEF Told, Pin
  <2> QED
    BY <2>1, <2>2, <2>3 DEF NoLineDisappears, Counted, CountIn, Unread, Vulnerable
<1> QED
  BY <1>1, LinesInvariance, PTL

Reasons == {"none", "malware", "malware_tail", "unfixed", "kev", "severity", "epss"}
Verdicts(C) == [reason : Reasons, block : BOOLEAN, fixedIn : Seq(C)]

Weigh(p, key, version, best, v) ==
  IF v.key = key /\ Affects(v, version) THEN Better(p, best, v) ELSE best
Weighed(p, key, version, vulns) ==
  FoldLeft(LAMBDA best, v : IF v.key = key /\ Affects(v, version)
                            THEN Better(p, best, v) ELSE best,
           NoHit, vulns)

\* Weighing an entry leaves a hit.
LEMMA WeighType ==
  ASSUME NEW C, NEW p, NEW key, NEW version
  PROVE  /\ NoHit \in Verdicts(C)
         /\ \A best \in Verdicts(C), v \in Vulns(C) : Weigh(p, key, version, best, v) \in Verdicts(C)
<1>0. PICK T : T = Seq(C)
  OBVIOUS
<1>1. NoHit \in Verdicts(C) /\ [NoHit EXCEPT !.reason = "unfixed"] \in Verdicts(C)
  <2>1. PICK e : e = <<>>
    OBVIOUS
  <2>2. e \in T
    BY <1>0, <2>1
  <2>3. \A r \in Reasons : [reason |-> r, block |-> FALSE, fixedIn |-> e] \in Verdicts(C)
    BY <1>0, <2>2 DEF Verdicts
  <2>4. NoHit = [reason |-> "none", block |-> FALSE, fixedIn |-> e]
    BY <2>1, Zenon DEF NoHit
  <2>5. "none" \in Reasons /\ "unfixed" \in Reasons
    BY DEF Reasons
  <2>6. NoHit \in Verdicts(C)
    BY <2>3, <2>4, <2>5
  <2>7. \A h \in Verdicts(C), r \in Reasons : [h EXCEPT !.reason = r] \in Verdicts(C)
    BY DEF Verdicts
  <2> QED
    BY <2>5, <2>6, <2>7
<1>2. ASSUME NEW best \in Verdicts(C), NEW v \in Vulns(C)
      PROVE  Weigh(p, key, version, best, v) \in Verdicts(C)
  <2>1. PICK r, b, f : /\ r = ReasonFor(p, v) /\ b = (p.action = "enforce") /\ f = v.fixedIn
    OBVIOUS
  <2>2. r \in Reasons /\ b \in BOOLEAN /\ f \in Seq(C)
    BY <2>1 DEF ReasonFor, Reasons, Vulns
  <2>3. [reason |-> r, block |-> b, fixedIn |-> f] \in Verdicts(C)
    BY <2>2 DEF Verdicts
  <2>4. [reason |-> ReasonFor(p, v), block |-> p.action = "enforce", fixedIn |-> v.fixedIn] \in Verdicts(C)
    BY <2>1, <2>3, Zenon
  <2>5. Better(p, best, v) \in Verdicts(C)
    BY <1>1, <2>4 DEF Better
  <2> QED
    BY <2>5 DEF Weigh
<1> QED
  BY <1>1, <1>2

WeighedSolves(f, s, p, key, version) ==
  f = [T \in SUBSET DOMAIN s |->
         IF T = {} THEN NoHit ELSE Weigh(p, key, version, f[T \ {Max(T)}], s[Max(T)])]

\* Weighing the entries is a solution of its recursion, at all the positions.
LEMMA WeighedIsSolution ==
  ASSUME NEW s, NEW p, NEW key, NEW version
  PROVE  Weighed(p, key, version, s) = (CHOOSE f : WeighedSolves(f, s, p, key, version))[DOMAIN s]
BY Zenon DEF Weighed, Weigh, FoldLeft, MapThenFoldSet, WeighedSolves

Weighs(C, p, key, version) ==
  /\ Weighed(p, key, version, <<>>) = NoHit
  /\ \A s \in Seq(Vulns(C)) : Weighed(p, key, version, s) \in Verdicts(C)
  /\ \A s \in Seq(Vulns(C)), c \in Vulns(C) :
       Weighed(p, key, version, Append(s, c)) = Weigh(p, key, version, Weighed(p, key, version, s), c)

\* Weighing the entries, by its first value and its step.
LEMMA WeighedSteps ==
  ASSUME NEW C, NEW p, NEW key, NEW version
  PROVE  Weighs(C, p, key, version)
<1> DEFINE V == Verdicts(C)
           D == Vulns(C)
           step == [c \in D |-> [a \in V |-> Weigh(p, key, version, a, c)]]
           F == [s \in Seq(D) |-> Weighed(p, key, version, s)]
<1>1. step \in [D -> [V -> V]] /\ NoHit \in V
  BY WeighType
<1>2. \A c \in D, a \in V : step[c][a] = Weigh(p, key, version, a, c)
  OBVIOUS
<1> HIDE DEF V, D, step
<1>3. ASSUME NEW s \in Seq(D)
      PROVE  \E f : /\ Loops(f, V, Len(s), NoHit, BodyOf(step, s))
                   /\ Weighed(p, key, version, s) = f[1..Len(s)]
  <2>1. DOMAIN s = 1..Len(s) /\ \A i \in 1..Len(s) : s[i] \in D
    OBVIOUS
  <2>2. \E g : WeighedSolves(g, s, p, key, version)
    <3>1. PICK g : Taken(g, D, V, NoHit, step, s)
      BY <1>1, StepSolution
    <3>2. WeighedSolves(g, s, p, key, version)
      BY <1>2, <3>1 DEF WeighedSolves, Taken
    <3> QED
      BY <3>2
  <2>3. PICK f : WeighedSolves(f, s, p, key, version) /\ Weighed(p, key, version, s) = f[DOMAIN s]
    BY <2>2, WeighedIsSolution
  <2>4. Loops(f, V, Len(s), NoHit, BodyOf(step, s))
    <3>1. f[{}] = NoHit
      BY <2>3 DEF WeighedSolves
    <3>2. ASSUME NEW T \in SUBSET (1..Len(s)), NEW i \in 1..Len(s),
                 T # {}, i = Max(T), f[T \ {i}] \in V
          PROVE  f[T] = step[s[i]][f[T \ {i}]]
      <4>1. f[T] = Weigh(p, key, version, f[T \ {i}], s[i])
        BY <2>1, <2>3, <3>2 DEF WeighedSolves
      <4> QED
        BY <1>2, <2>1, <3>2, <4>1
    <3> QED
      BY <1>1, <3>1, <3>2, StepLoops
  <2> QED
    BY <2>1, <2>3, <2>4
<1>4. Steps(F, D, V, NoHit, step)
  <2>1. Folds(F, D, V, NoHit, step)
    BY <1>3 DEF Folds
  <2> HIDE DEF F
  <2> QED
    BY <1>1, <2>1, FoldSteps
<1>5. <<>> \in Seq(D) /\ \A s \in Seq(D), c \in D : Append(s, c) \in Seq(D)
  OBVIOUS
<1> QED
  BY <1>2, <1>4, <1>5 DEF V, D, Steps, Weighs

Counts(p, key, version, v) ==
  /\ v.key = key /\ Affects(v, version)
  /\ v.nofix => p.blockUnfixed
  /\ ReasonFor(p, v) # "none"

\* supplychain.go:879: a real block beats a note.  The entries weighed in any
\* order block when the class enforces and one of them counts.
THEOREM BlockBeatsNote ==
  ASSUME NEW C, NEW p, p.blockUnfixed \in BOOLEAN, NEW key, NEW version,
         NEW vulns \in Seq(Vulns(C))
  PROVE  Weighed(p, key, version, vulns).block <=>
           p.action = "enforce" /\ \E v \in ToSet(vulns) : Counts(p, key, version, v)
<1>s. PICK V : V = Vulns(C)
  OBVIOUS
<1> DEFINE Claim(s) == Weighed(p, key, version, s).block <=>
                         p.action = "enforce" /\ \E v \in ToSet(s) : Counts(p, key, version, v)
           Q == {s \in Seq(V) : Claim(s)}
<1>1. <<>> \in Q
  <2>1. Weighed(p, key, version, <<>>) = NoHit /\ ~NoHit.block
    <3>1. Weighs(C, p, key, version)
      BY WeighedSteps
    <3>2. ~NoHit.block
      BY DEF NoHit
    <3> QED
      BY <3>1, <3>2 DEF Weighs
  <2>2. ToSet(<<>>) = {}
    BY DEF ToSet
  <2>3. PICK n : n = <<>>
    OBVIOUS
  <2>4. n \in Seq(V) /\ Claim(n)
    BY <2>1, <2>2, <2>3
  <2> QED
    BY <2>3, <2>4
<1>2. ASSUME NEW s \in Seq(V), NEW v \in V, s \in Q PROVE Append(s, v) \in Q
  <2>1. PICK b, d, u : /\ b = Weighed(p, key, version, s) /\ u = Append(s, v)
                       /\ d = Weighed(p, key, version, u)
    OBVIOUS
  <2>2. b \in Verdicts(C) /\ d = Weigh(p, key, version, b, v)
    <3>1. Weighs(C, p, key, version)
      BY WeighedSteps
    <3>2. s \in Seq(Vulns(C)) /\ v \in Vulns(C)
      BY <1>s
    <3> QED
      BY <2>1, <3>1, <3>2 DEF Weighs
  <2>3. ToSet(u) = ToSet(s) \cup {v} /\ u \in Seq(V)
    BY <2>1, ToSetAppends
  <2>4. b.block <=> p.action = "enforce" /\ \E w \in ToSet(s) : Counts(p, key, version, w)
    BY <1>2, <2>1
  <2>5. d.block <=> b.block \/ (p.action = "enforce" /\ Counts(p, key, version, v))
    <3>1. PICK r, f, x : /\ r = ReasonFor(p, v) /\ f = v.fixedIn
                         /\ x = [reason |-> r, block |-> p.action = "enforce", fixedIn |-> f]
      OBVIOUS
    <3>2. x.reason = r /\ (x.block <=> p.action = "enforce")
      BY <3>1
    <3>3. /\ b.block \in BOOLEAN /\ v.nofix \in BOOLEAN /\ ~NoHit.block
          /\ ~[NoHit EXCEPT !.reason = "unfixed"].block
      BY <1>s, <2>2 DEF Verdicts, Vulns, NoHit
    <3>4. Better(p, b, v) = IF v.nofix /\ ~p.blockUnfixed
                            THEN IF b = NoHit THEN [NoHit EXCEPT !.reason = "unfixed"] ELSE b
                            ELSE IF /\ x.reason # "none"
                                    /\ b = NoHit \/ ~b.block \/ (x.reason = "kev" /\ b.reason # "kev")
                            THEN x ELSE b
      BY <3>1, Zenon DEF Better
    <3>5. ASSUME v.key = key, Affects(v, version)
          PROVE  d.block <=> b.block \/ (p.action = "enforce" /\ Counts(p, key, version, v))
      <4>1. d = Better(p, b, v)
        BY <2>2, <3>5 DEF Weigh
      <4>2. Counts(p, key, version, v) <=> (v.nofix => p.blockUnfixed) /\ r # "none"
        BY <3>1, <3>5 DEF Counts
      <4>3. CASE v.nofix /\ ~p.blockUnfixed
        BY <3>3, <3>4, <4>1, <4>2, <4>3
      <4>4. CASE ~(v.nofix /\ ~p.blockUnfixed)
        BY <2>4, <3>2, <3>3, <3>4, <4>1, <4>2, <4>4
      <4> QED
        BY <4>3, <4>4
    <3>6. ASSUME ~(v.key = key /\ Affects(v, version))
          PROVE  d.block <=> b.block \/ (p.action = "enforce" /\ Counts(p, key, version, v))
      BY <2>2, <3>6 DEF Weigh, Counts
    <3> QED
      BY <3>5, <3>6
  <2>6. Claim(u)
    BY <2>1, <2>3, <2>4, <2>5
  <2> QED
    BY <2>1, <2>3, <2>6
<1> HIDE DEF Q
<1>3. vulns \in Q
  BY <1>s, <1>1, <1>2, SequencesByInduction
<1> QED
  BY <1>3 DEF Q

PackageKey(n) == <<"npm", "/">> \o n

\* Keys tell packages and versions apart.
LEMMA KeysMatch ==
  ASSUME NEW l \in Lines, l.ecosystem = "npm",
         NEW n \in Seq(Characters), NEW w \in Words({"@"})
  PROVE  /\ Key(l) = PackageKey(n) <=> l.name = n
         /\ Pin(l) = PackageKey(n) \o <<"@">> \o w <=> l.name = n /\ l.version = w
<1>1. PICK D, h : D = Characters \cup {"npm", "/"} /\ h = <<"npm", "/">>
  OBVIOUS
<1>2. h \in Seq(D) /\ l.name \in Seq(D) /\ n \in Seq(D) /\ Concatenates(Seq(D))
  <2>1. l.name \in Words({"|"})
    BY LinesAssumption
  <2>2. Words({"|"}) \subseteq Seq(D)
    BY <1>1 DEF Words
  <2> QED
    BY <1>1, <2>1, <2>2, Concats
<1>3. Key(l) = h \o l.name /\ PackageKey(n) = h \o n
  BY <1>1 DEF Key, PackageKey
<1>4. Key(l) = PackageKey(n) <=> l.name = n
  BY <1>2, <1>3, ConcatSimplifications
<1>5. Key(l) \in Seq(D) /\ PackageKey(n) \in Seq(D)
  BY <1>2, <1>3 DEF Concatenates
<1>6. l.version \in Without(D, "@") /\ w \in Without(D, "@")
  <2>1. l.version \in Words({"|", "@"})
    BY LinesAssumption
  <2> QED
    BY <1>1, <2>1 DEF Words, Without
<1>7. /\ cutLast(Pin(l)) = [before |-> Key(l), after |-> l.version, found |-> TRUE]
      /\ cutLast(PackageKey(n) \o <<"@">> \o w) = [before |-> PackageKey(n), after |-> w, found |-> TRUE]
  <2>1. \A k \in Seq(D), v \in Without(D, "@") :
          cutLast(k \o <<"@">> \o v) = [before |-> k, after |-> v, found |-> TRUE]
    BY CutLastAround
  <2>2. cutLast(Key(l) \o <<"@">> \o l.version) = [before |-> Key(l), after |-> l.version, found |-> TRUE]
    BY <1>5, <1>6, <2>1
  <2>3. cutLast(PackageKey(n) \o <<"@">> \o w) = [before |-> PackageKey(n), after |-> w, found |-> TRUE]
    BY <1>5, <1>6, <2>1
  <2> QED
    BY <2>2, <2>3 DEF Pin
<1>8. PICK x, y : x = Pin(l) /\ y = PackageKey(n) \o <<"@">> \o w
  OBVIOUS
<1>9. x = y => Key(l) = PackageKey(n) /\ l.version = w
  BY <1>7, <1>8
<1>10. Key(l) = PackageKey(n) /\ l.version = w => x = y
  BY <1>8 DEF Pin
<1> QED
  BY <1>4, <1>8, <1>9, <1>10

\* Why an entry counts is what the line says.
LEMMA ReasonTold ==
  ASSUME NEW p, NEW l \in Lines, NEW v \in Vulns(Characters),
         FlagsInv(BaseOf(l), v, l.v.flags)
  PROVE  /\ v.nofix <=> Nofix \in l.v.flags
         /\ ReasonFor(p, v) # "none" <=> Asked(p, l)
<1>1. v.severity = parseBandChar(<<l.v.band>>)
  <2>1. BaseOf(l).severity = parseBandChar(<<l.v.band>>)
    <3>1. PICK b, k, n, x, f, t, z :
            /\ b = parseBandChar(<<l.v.band>>) /\ k = Key(l) /\ n = l.version
            /\ x = Read(l.v.introduced) /\ f = Read(l.v.fixed) /\ t = Read(l.v.lastAffected)
            /\ z = l.v.fixed
      OBVIOUS
    <3>2. BaseOf(l) = IF l.mark = "~"
                      THEN [Plain EXCEPT !.key = k, !.introduced = x, !.fixed = f,
                              !.lastAffected = t, !.severity = b, !.fixedIn = z]
                      ELSE [Plain EXCEPT !.key = k, !.version = n, !.severity = b]
      BY <3>1 DEF BaseOf
    <3>3. BaseOf(l).severity = b
      BY <3>2 DEF Plain
    <3> QED
      BY <3>1, <3>3
  <2> QED
    BY <2>1 DEF FlagsInv
<1>2. /\ v.kev <=> Kev \in l.v.flags
      /\ v.nofix <=> Nofix \in l.v.flags
      /\ v.epss = Off \/ \E t \in DOMAIN Percent : Epss(t) \in l.v.flags /\ v.epss = Percent[t]
      /\ v.epss = Off => \A t \in DOMAIN Percent : Epss(t) \notin l.v.flags
  BY DEF FlagsInv
<1>3. \A s, t \in DOMAIN Percent : Epss(s) \in l.v.flags /\ Epss(t) \in l.v.flags => s = t
  BY PackagesAssumption
<1>4. v.epss \in Int /\ \A t \in DOMAIN Percent : Percent[t] \in Int
  BY SupplyChainAssumption DEF Vulns
<1>5. (v.epss # Off /\ v.epss >= p.epss)
        <=> \E t \in DOMAIN Percent : Epss(t) \in l.v.flags /\ p.epss <= Percent[t]
  <2>1. ASSUME NEW t \in DOMAIN Percent, Epss(t) \in l.v.flags PROVE v.epss # Off /\ v.epss = Percent[t]
    <3>1. PICK u \in DOMAIN Percent : Epss(u) \in l.v.flags /\ v.epss = Percent[u]
      BY <1>2, <2>1
    <3>2. u = t
      BY <1>3, <2>1, <3>1
    <3> QED
      BY <1>2, <2>1, <3>1, <3>2
  <2>2. ASSUME v.epss # Off, v.epss >= p.epss
        PROVE  \E t \in DOMAIN Percent : Epss(t) \in l.v.flags /\ p.epss <= Percent[t]
    <3>1. PICK t \in DOMAIN Percent : Epss(t) \in l.v.flags /\ v.epss = Percent[t]
      BY <1>2, <2>2
    <3>2. p.epss <= Percent[t]
      BY <1>4, <2>2, <3>1
    <3> QED
      BY <3>1, <3>2
  <2>3. ASSUME NEW t \in DOMAIN Percent, Epss(t) \in l.v.flags, p.epss <= Percent[t]
        PROVE  v.epss # Off /\ v.epss >= p.epss
    BY <1>4, <2>1, <2>3
  <2> QED
    BY <2>2, <2>3
<1>6. ReasonFor(p, v) # "none" <=> \/ p.kev /\ v.kev
                                   \/ meets(v.severity, p.threshold)
                                   \/ p.epss # Off /\ v.epss # Off /\ v.epss >= p.epss
  BY DEF ReasonFor
<1> QED
  BY <1>1, <1>2, <1>5, <1>6 DEF Asked

\* An entry affects what the line catches.
LEMMA AffectsTold ==
  ASSUME NEW l \in Lines, Adds(l), NEW v \in Vulns(Characters),
         FlagsInv(BaseOf(l), v, l.v.flags), NEW pkg
  PROVE  /\ v.key = Key(l)
         /\ Affects(v, pkg.version) <=> Catches(l, pkg)
<1>1. PICK b, k, n, x, f, t, z :
        /\ b = parseBandChar(<<l.v.band>>) /\ k = Key(l) /\ n = l.version
        /\ x = Read(l.v.introduced) /\ f = Read(l.v.fixed) /\ t = Read(l.v.lastAffected)
        /\ z = l.v.fixed
  OBVIOUS
<1>2. BaseOf(l) = IF l.mark = "~"
                  THEN [Plain EXCEPT !.key = k, !.introduced = x, !.fixed = f,
                          !.lastAffected = t, !.severity = b, !.fixedIn = z]
                  ELSE [Plain EXCEPT !.key = k, !.version = n, !.severity = b]
  BY <1>1 DEF BaseOf
<1>3. BaseOf(l).key = k
  BY <1>2 DEF Plain
<1>4. CASE l.mark = "~"
  <2>1. /\ BaseOf(l).introduced = x /\ BaseOf(l).fixed = f /\ BaseOf(l).lastAffected = t
        /\ BaseOf(l).version = <<>>
    BY <1>2, <1>4 DEF Plain
  <2>2. /\ v.introduced = x /\ v.fixed = f /\ v.lastAffected = t /\ v.version = <<>> /\ v.key = k
    BY <1>3, <2>1 DEF FlagsInv
  <2>3. PICK y, w : /\ y = [introduced |-> x, fixed |-> f, lastAffected |-> t]
                    /\ w = parseSemver(Read(pkg.version))
    OBVIOUS
  <2>4. y.introduced = x /\ y.fixed = f /\ y.lastAffected = t
    BY <2>3
  <2>5. inSpan(v, w) <=> inSpan(y, w)
    BY <2>2, <2>4 DEF inSpan
  <2>6. Affects(v, pkg.version) <=> inSpan(v, w)
    BY <2>2, <2>3 DEF Affects
  <2>7. Catches(l, pkg) <=> inSpan(y, w)
    BY <1>1, <1>4, <2>3 DEF Catches
  <2> QED
    BY <1>1, <2>2, <2>5, <2>6, <2>7
<1>5. CASE l.mark = "+"
  <2>1. BaseOf(l).version = n
    BY <1>2, <1>5 DEF Plain
  <2>2. v.version = n /\ v.key = k /\ n # <<>>
    BY <1>1, <1>3, <1>5, <2>1 DEF FlagsInv, Adds, Usable
  <2> QED
    BY <1>1, <1>5, <2>2 DEF Affects, Catches
<1> QED
  BY <1>4, <1>5 DEF Adds

\* An entry counts when the posture selects its line.
LEMMA CountsTold ==
  ASSUME NEW p, NEW l \in Lines, Adds(l), NEW pkg \in Packages
  PROVE  /\ VulnOf(l) \in Vulns(Characters)
         /\ Counts(p, PackageKey(pkg.name), pkg.version, VulnOf(l)) <=>
              /\ l.name = pkg.name /\ Catches(l, pkg)
              /\ Nofix \in l.v.flags => p.blockUnfixed
              /\ Asked(p, l)
<1>1. PICK v : v = VulnOf(l)
  OBVIOUS
<1>2. v \in Vulns(Characters) /\ FlagsInv(BaseOf(l), v, l.v.flags)
  <2>1. NoEntries \in Indexes(Characters)
    BY IndexesParts
  <2> QED
    BY <1>1, <2>1, LineAdds
<1>3. v.key = Key(l) /\ (Affects(v, pkg.version) <=> Catches(l, pkg))
  BY <1>2, AffectsTold
<1>4. (v.nofix <=> Nofix \in l.v.flags) /\ (ReasonFor(p, v) # "none" <=> Asked(p, l))
  BY <1>2, ReasonTold
<1>5. Key(l) = PackageKey(pkg.name) <=> l.name = pkg.name
  <2>1. pkg.name \in Seq(Characters) /\ pkg.version \in Words({"@"}) /\ l.ecosystem = "npm"
    BY PackagesAssumption DEF Packages, Adds
  <2> QED
    BY <2>1, KeysMatch
<1> QED
  BY <1>1, <1>2, <1>3, <1>4, <1>5 DEF Counts

\* What the index knows of a package is what the lines say of it.
LEMMA PackageTold ==
  ASSUME LinesInv, NEW pkg \in Packages, NEW key, key = PackageKey(pkg.name), NEW p
  PROVE  /\ key \o <<"@">> \o pkg.version \in document.index.pinned <=> Pinned(pkg)
         /\ key \in document.index.tail <=> Tailed(pkg)
         /\ document.index.vulns \in Seq(Vulns(Characters))
         /\ Readable(Read(pkg.version)) =>
              ((\E v \in ToSet(document.index.vulns) : Counts(p, key, pkg.version, v)) <=>
                 \E l \in Affecting(pkg) : /\ Nofix \in l.v.flags => p.blockUnfixed
                                           /\ Asked(p, l))
<1>1. document.index = IndexOf(lines)
  BY DEF document, parseSupplyChainDoc, IndexOf
<1>2. PICK ix : ix = document.index
  OBVIOUS
<1>3. /\ ix \in Indexes(Characters)
      /\ ix.tail = {Key(l) : l \in Marked("!")}
      /\ ix.pinned = {Pin(l) : l \in Marked("=")}
      /\ ToSet(ix.vulns) = {VulnOf(l) : l \in {m \in ToSet(lines) : Adds(m)}}
  BY <1>1, <1>2, IndexGrows, IndexTold, MarkedMalware DEF LinesInv, Told
<1>4. \A l \in ToSet(lines) : l \in Lines
  BY DEF ToSet, LinesInv
<1>5. pkg.name \in Seq(Characters) /\ pkg.version \in Words({"@"})
  BY PackagesAssumption DEF Packages
<1>6. ASSUME NEW l \in Marked("!") \cup Marked("=")
      PROVE  /\ Key(l) = key <=> l.name = pkg.name
             /\ Pin(l) = key \o <<"@">> \o pkg.version <=> l.name = pkg.name /\ l.version = pkg.version
  <2>1. l \in Lines /\ l.ecosystem = "npm"
    BY <1>6 DEF Marked, Understood
  <2>2. PICK n, w : n = pkg.name /\ w = pkg.version
    OBVIOUS
  <2>3. n \in Seq(Characters) /\ w \in Words({"@"})
    BY <1>5, <2>2
  <2>4. /\ Key(l) = PackageKey(n) <=> l.name = n
        /\ Pin(l) = PackageKey(n) \o <<"@">> \o w <=> l.name = n /\ l.version = w
    BY <2>1, <2>3, KeysMatch
  <2>5. key = PackageKey(n)
    BY <2>2
  <2> QED
    BY <2>2, <2>4, <2>5
<1>7. key \o <<"@">> \o pkg.version \in ix.pinned <=> Pinned(pkg)
  <2>1. PICK k : k = key \o <<"@">> \o pkg.version
    OBVIOUS
  <2>2. k \in ix.pinned <=> \E l \in Marked("=") : k = Pin(l)
    BY <1>3
  <2> QED
    BY <1>6, <2>1, <2>2 DEF Pinned
<1>8. key \in ix.tail <=> Tailed(pkg)
  <2>1. key \in ix.tail <=> \E l \in Marked("!") : key = Key(l)
    BY <1>3
  <2> QED
    BY <1>6, <2>1 DEF Tailed
<1>9. ASSUME Readable(Read(pkg.version))
      PROVE  (\E v \in ToSet(ix.vulns) : Counts(p, key, pkg.version, v)) <=>
               \E l \in Affecting(pkg) : /\ Nofix \in l.v.flags => p.blockUnfixed
                                         /\ Asked(p, l)
  <2>1. ASSUME NEW v \in ToSet(ix.vulns), Counts(p, key, pkg.version, v)
        PROVE  \E l \in Affecting(pkg) : (Nofix \in l.v.flags => p.blockUnfixed) /\ Asked(p, l)
    <3>1. PICK l \in ToSet(lines) : Adds(l) /\ v = VulnOf(l)
      BY <1>3, <2>1
    <3>2. /\ l.name = pkg.name /\ Catches(l, pkg)
          /\ (Nofix \in l.v.flags => p.blockUnfixed) /\ Asked(p, l)
      BY <1>4, <2>1, <3>1, CountsTold
    <3>3. l \in Affecting(pkg)
      BY <1>9, <3>1, <3>2 DEF Affecting, Adds, Usable
    <3> QED
      BY <3>2, <3>3
  <2>2. ASSUME NEW l \in Affecting(pkg), Nofix \in l.v.flags => p.blockUnfixed, Asked(p, l)
        PROVE  \E v \in ToSet(ix.vulns) : Counts(p, key, pkg.version, v)
    <3>1. /\ l \in ToSet(lines) /\ l.mark \in {"~", "+"} /\ l.separator = "|" /\ l.ecosystem = "npm"
          /\ l.name = pkg.name /\ Catches(l, pkg)
      BY DEF Affecting
    <3>2. l.mark = "+" => l.version # <<>>
      <4> SUFFICES ASSUME l.mark = "+", l.version = <<>> PROVE FALSE
        OBVIOUS
      <4>1. pkg.version = <<>>
        BY <3>1 DEF Catches
      <4>2. Read(<<>>) = Absent
        BY PackagesAssumption DEF Read
      <4>3. ~Readable(Absent)
        BY DEF Readable, Absent
      <4> QED
        BY <1>9, <4>1, <4>2, <4>3
    <3>3. Adds(l)
      BY <3>1, <3>2 DEF Adds, Usable
    <3>4. Counts(p, key, pkg.version, VulnOf(l))
      BY <1>4, <2>2, <3>1, <3>3, CountsTold
    <3> QED
      BY <1>3, <3>1, <3>3, <3>4
  <2> QED
    BY <2>1, <2>2
<1>10. ix.vulns \in Seq(Vulns(Characters))
  BY <1>3 DEF Indexes
<1> QED
  BY <1>2, <1>7, <1>8, <1>9, <1>10

\* What decide comes to.
LEMMA decideForm ==
  ASSUME NEW sc, NEW pkg
  PROVE  decide(sc, pkg) =
           IF PackageKey(pkg.name) \o <<"@">> \o pkg.version \in sc.index.pinned /\ sc.posture.malware # "off"
           THEN [NoHit EXCEPT !.reason = "malware", !.block = sc.posture.malware = "enforce"]
           ELSE IF PackageKey(pkg.name) \in sc.index.tail /\ sc.posture.tail # "off"
           THEN [NoHit EXCEPT !.reason = "malware_tail", !.block = sc.posture.tail = "enforce"]
           ELSE IF sc.posture.action = "off" \/ ~Readable(Read(pkg.version)) THEN NoHit
           ELSE Weighed(sc.posture, PackageKey(pkg.name), pkg.version, sc.index.vulns)
  BY Zenon DEF decide, Weighed, PackageKey

\* supplychain.go:879: whatever document the console writes, in whatever order, a
\* package is blocked just when the posture selects what a line says of it.
THEOREM AlwaysBlocksWhatThePostureSelects == Spec => []BlocksWhatThePostureSelects
<1>1. LinesInv => BlocksWhatThePostureSelects
  <2> SUFFICES ASSUME LinesInv, NEW pkg \in Packages
               PROVE  decide(document, pkg).block <=>
                        \/ document.posture.malware = "enforce" /\ Pinned(pkg)
                        \/ /\ document.posture.malware = "off" \/ ~Pinned(pkg)
                           /\ \/ document.posture.tail = "enforce" /\ Tailed(pkg)
                              \/ /\ document.posture.tail = "off" \/ ~Tailed(pkg)
                                 /\ document.posture.action = "enforce"
                                 /\ Selected(document, pkg) # {}
    BY DEF BlocksWhatThePostureSelects
  <2>1. PICK sc, p, key : sc = document /\ p = sc.posture /\ key = PackageKey(pkg.name)
    OBVIOUS
  <2>2. /\ key \o <<"@">> \o pkg.version \in sc.index.pinned <=> Pinned(pkg)
        /\ key \in sc.index.tail <=> Tailed(pkg)
        /\ sc.index.vulns \in Seq(Vulns(Characters))
        /\ Readable(Read(pkg.version)) =>
             ((\E v \in ToSet(sc.index.vulns) : Counts(p, key, pkg.version, v)) <=>
                \E l \in Affecting(pkg) : (Nofix \in l.v.flags => p.blockUnfixed) /\ Asked(p, l))
    BY <2>1, PackageTold
  <2>3. Selected(sc, pkg) # {} <=>
          \E l \in Affecting(pkg) : (Nofix \in l.v.flags => p.blockUnfixed) /\ Asked(p, l)
    BY <2>1 DEF Selected
  <2>4. p.blockUnfixed \in BOOLEAN
    BY <2>1 DEF document, parseSupplyChainDoc, postureFromHeader
  <2>5. Weighed(p, key, pkg.version, sc.index.vulns).block <=>
          p.action = "enforce" /\ \E v \in ToSet(sc.index.vulns) : Counts(p, key, pkg.version, v)
    BY <2>2, <2>4, BlockBeatsNote
  <2>6. decide(sc, pkg) =
          IF key \o <<"@">> \o pkg.version \in sc.index.pinned /\ p.malware # "off"
          THEN [NoHit EXCEPT !.reason = "malware", !.block = p.malware = "enforce"]
          ELSE IF key \in sc.index.tail /\ p.tail # "off"
          THEN [NoHit EXCEPT !.reason = "malware_tail", !.block = p.tail = "enforce"]
          ELSE IF p.action = "off" \/ ~Readable(Read(pkg.version)) THEN NoHit
          ELSE Weighed(p, key, pkg.version, sc.index.vulns)
    BY <2>1, decideForm, Zenon
  <2>7. \A r, b : [NoHit EXCEPT !.reason = r, !.block = b].block = b
    BY DEF NoHit
  <2>8. ~NoHit.block
    BY DEF NoHit
  <2>9. ~Readable(Read(pkg.version)) => Selected(sc, pkg) = {}
    BY DEF Selected, Affecting
  <2>10. CASE Pinned(pkg) /\ p.malware # "off"
    <3>1. decide(sc, pkg).block <=> p.malware = "enforce"
      BY <2>2, <2>6, <2>7, <2>10
    <3> QED
      BY <2>1, <2>10, <3>1
  <2>11. CASE ~(Pinned(pkg) /\ p.malware # "off") /\ Tailed(pkg) /\ p.tail # "off"
    <3>1. decide(sc, pkg).block <=> p.tail = "enforce"
      BY <2>2, <2>6, <2>7, <2>11
    <3> QED
      BY <2>1, <2>11, <3>1
  <2>12. CASE ~(Pinned(pkg) /\ p.malware # "off") /\ ~(Tailed(pkg) /\ p.tail # "off")
    <3>1. decide(sc, pkg) = IF p.action = "off" \/ ~Readable(Read(pkg.version)) THEN NoHit
                            ELSE Weighed(p, key, pkg.version, sc.index.vulns)
      BY <2>2, <2>6, <2>12
    <3>2. decide(sc, pkg).block <=> p.action = "enforce" /\ Selected(sc, pkg) # {}
      <4>1. CASE p.action = "off" \/ ~Readable(Read(pkg.version))
        BY <2>8, <2>9, <3>1, <4>1
      <4>2. CASE ~(p.action = "off" \/ ~Readable(Read(pkg.version)))
        BY <2>2, <2>3, <2>5, <3>1, <4>2
      <4> QED
        BY <4>1, <4>2
    <3> QED
      BY <2>1, <2>12, <3>2
  <2> QED
    BY <2>10, <2>11, <2>12
<1> QED
  BY <1>1, LinesInvariance, PTL

-----------------------------------------------------------------------------
(* The fix that is told. *)

\* The fix told is none, or the one of an entry that affects the package.
LEMMA FixComesFrom ==
  ASSUME NEW C, NEW p, NEW key, NEW version, NEW vulns \in Seq(Vulns(C)),
         NEW fix, fix = Weighed(p, key, version, vulns).fixedIn
  PROVE  \/ fix = <<>>
         \/ \E v \in ToSet(vulns) : v.key = key /\ Affects(v, version) /\ fix = v.fixedIn
<1>s. PICK V : V = Vulns(C)
  OBVIOUS
<1> DEFINE From1(x, some) ==
             \/ x = <<>>
             \/ \E v \in some : v.key = key /\ Affects(v, version) /\ x = v.fixedIn
           Q == {s \in Seq(V) : From1(Weighed(p, key, version, s).fixedIn, ToSet(s))}
<1>w. Weighs(C, p, key, version)
  BY WeighedSteps
<1>n. NoHit.fixedIn = <<>> /\ [NoHit EXCEPT !.reason = "unfixed"].fixedIn = <<>>
  BY DEF NoHit
<1>1. <<>> \in Q
  <2>1. PICK e : e = <<>>
    OBVIOUS
  <2>2. Weighed(p, key, version, e) = NoHit
    BY <1>w, <2>1 DEF Weighs
  <2>3. e \in Seq(V) /\ From1(Weighed(p, key, version, e).fixedIn, ToSet(e))
    BY <1>n, <2>1, <2>2
  <2> QED
    BY <2>1, <2>3
<1>2. ASSUME NEW s \in Seq(V), NEW v \in V, s \in Q PROVE Append(s, v) \in Q
  <2>1. PICK b, d, u : /\ b = Weighed(p, key, version, s) /\ u = Append(s, v)
                       /\ d = Weighed(p, key, version, u)
    OBVIOUS
  <2>2. d = Weigh(p, key, version, b, v)
    <3>1. s \in Seq(Vulns(C)) /\ v \in Vulns(C)
      BY <1>s
    <3> QED
      BY <1>w, <2>1, <3>1 DEF Weighs
  <2>3. ToSet(u) = ToSet(s) \cup {v} /\ u \in Seq(V)
    BY <2>1, ToSetAppends
  <2>4. From1(b.fixedIn, ToSet(s))
    BY <1>2, <2>1
  <2>5. From1(d.fixedIn, ToSet(u))
    <3>1. CASE d = b
      BY <2>3, <2>4, <3>1
    <3>2. CASE d # b
      <4>1. v.key = key /\ Affects(v, version) /\ d = Better(p, b, v)
        BY <2>2, <3>2 DEF Weigh
      <4>2. PICK x : x = [reason |-> ReasonFor(p, v), block |-> p.action = "enforce", fixedIn |-> v.fixedIn]
        OBVIOUS
      <4>3. x.fixedIn = v.fixedIn
        BY <4>2
      <4>4. d \in {x, b, [NoHit EXCEPT !.reason = "unfixed"]}
        BY <4>1, <4>2 DEF Better
      <4> QED
        BY <1>n, <2>3, <3>2, <4>1, <4>3, <4>4
    <3> QED
      BY <3>1, <3>2
  <2> QED
    BY <2>1, <2>3, <2>5
<1> HIDE DEF Q, From1
<1>3. vulns \in Q
  BY <1>s, <1>1, <1>2, SequencesByInduction
<1>4. From1(fix, ToSet(vulns))
  BY <1>3 DEF Q
<1> QED
  BY <1>4 DEF From1

\* supplychain.go:528: the fix told of an entry lies above the versions it affects.
LEMMA FixAbove ==
  ASSUME NEW l \in Lines, Adds(l), NEW pkg \in Packages, Readable(Read(pkg.version)),
         NEW v \in Vulns(Characters), FlagsInv(BaseOf(l), v, l.v.flags),
         Affects(v, pkg.version), Readable(Read(v.fixedIn))
  PROVE  compareSemver(parseSemver(Read(pkg.version)), parseSemver(Read(v.fixedIn))) < 0
<1>1. Catches(l, pkg)
  BY AffectsTold
<1>2. v.fixedIn \in DOMAIN Reading
  BY DEF Read, Readable, Absent
<1>3. v.fixedIn # <<>>
  BY <1>2, PackagesAssumption
<1>4. CASE BaseOf(l).fixedIn = <<>>
  <2>1. Fix(v.fixedIn) \in l.v.flags
    BY <1>3, <1>4 DEF FlagsInv
  <2>2. l.mark = "+" \/ l.v.fixed = <<>>
    <3>1. l.mark = "~" => BaseOf(l).fixedIn = l.v.fixed
      <4>1. PICK b, k, x, f, t, z :
              /\ b = parseBandChar(<<l.v.band>>) /\ k = Key(l)
              /\ x = Read(l.v.introduced) /\ f = Read(l.v.fixed) /\ t = Read(l.v.lastAffected)
              /\ z = l.v.fixed
        OBVIOUS
      <4>2. l.mark = "~" => BaseOf(l) = [Plain EXCEPT !.key = k, !.introduced = x, !.fixed = f,
                                           !.lastAffected = t, !.severity = b, !.fixedIn = z]
        BY <4>1 DEF BaseOf
      <4>3. l.mark = "~" => BaseOf(l).fixedIn = z
        BY <4>2 DEF Plain
      <4> QED
        BY <4>1, <4>3
    <3> QED
      BY <1>4, <3>1 DEF Adds
  <2> QED
    BY <1>1, <1>2, <2>1, <2>2, FixesAssumption
<1>5. CASE BaseOf(l).fixedIn # <<>>
  <2>1. v.fixedIn = BaseOf(l).fixedIn /\ v.fixed = BaseOf(l).fixed /\ v.version = BaseOf(l).version
    BY <1>5 DEF FlagsInv
  <2>2. PICK b, k, n, x, f, t, z :
          /\ b = parseBandChar(<<l.v.band>>) /\ k = Key(l) /\ n = l.version
          /\ x = Read(l.v.introduced) /\ f = Read(l.v.fixed) /\ t = Read(l.v.lastAffected)
          /\ z = l.v.fixed
    OBVIOUS
  <2>3. BaseOf(l) = IF l.mark = "~"
                    THEN [Plain EXCEPT !.key = k, !.introduced = x, !.fixed = f,
                            !.lastAffected = t, !.severity = b, !.fixedIn = z]
                    ELSE [Plain EXCEPT !.key = k, !.version = n, !.severity = b]
    BY <2>2 DEF BaseOf
  <2>4. l.mark = "~" /\ BaseOf(l).fixedIn = z /\ BaseOf(l).fixed = f /\ BaseOf(l).version = <<>>
    BY <1>5, <2>3 DEF Plain
  <2>5. v.fixed = Read(v.fixedIn) /\ v.version = <<>>
    BY <2>1, <2>2, <2>4
  <2>6. inSpan(v, parseSemver(Read(pkg.version)))
    BY <2>5 DEF Affects
  <2> QED
    BY <2>5, <2>6 DEF inSpan
<1> QED
  BY <1>4, <1>5

\* supplychain.go:528: the fix told lies above the version asked for, of any
\* document the console may write.
THEOREM FixIsAlwaysAhead == Spec => []FixIsAhead
<1>1. LinesInv => FixIsAhead
  <2> SUFFICES ASSUME LinesInv, NEW pkg \in Packages,
                      NEW fix, fix = decide(document, pkg).fixedIn, Readable(Read(fix))
               PROVE  compareSemver(parseSemver(Read(pkg.version)), parseSemver(Read(fix))) < 0
    BY DEF FixIsAhead
  <2>1. fix # <<>>
    <3>1. fix \in DOMAIN Reading
      BY DEF Read, Readable, Absent
    <3> QED
      BY <3>1, PackagesAssumption
  <2>2. PICK sc, p, key : sc = document /\ p = sc.posture /\ key = PackageKey(pkg.name)
    OBVIOUS
  <2>3. \A r, b : [NoHit EXCEPT !.reason = r, !.block = b].fixedIn = <<>>
    BY DEF NoHit
  <2>4. NoHit.fixedIn = <<>>
    BY DEF NoHit
  <2>5. /\ Readable(Read(pkg.version))
        /\ fix = Weighed(p, key, pkg.version, sc.index.vulns).fixedIn
    <3>1. decide(sc, pkg) =
            IF key \o <<"@">> \o pkg.version \in sc.index.pinned /\ p.malware # "off"
            THEN [NoHit EXCEPT !.reason = "malware", !.block = p.malware = "enforce"]
            ELSE IF key \in sc.index.tail /\ p.tail # "off"
            THEN [NoHit EXCEPT !.reason = "malware_tail", !.block = p.tail = "enforce"]
            ELSE IF p.action = "off" \/ ~Readable(Read(pkg.version)) THEN NoHit
            ELSE Weighed(p, key, pkg.version, sc.index.vulns)
      BY <2>2, decideForm, Zenon
    <3>2. fix = decide(sc, pkg).fixedIn
      BY <2>2
    <3> QED
      BY <2>1, <2>3, <2>4, <3>1, <3>2
  <2>6. sc.index = IndexOf(lines)
    BY <2>2 DEF document, parseSupplyChainDoc, IndexOf
  <2>7. sc.index \in Indexes(Characters) /\ Told(lines)
    BY <2>6, IndexGrows, IndexTold DEF LinesInv
  <2>8. sc.index.vulns \in Seq(Vulns(Characters))
    BY <2>7 DEF Indexes
  <2>9. PICK v \in ToSet(sc.index.vulns) : v.key = key /\ Affects(v, pkg.version) /\ fix = v.fixedIn
    BY <2>1, <2>5, <2>8, FixComesFrom
  <2>10. PICK l \in ToSet(lines) : Adds(l) /\ v = VulnOf(l)
    BY <2>6, <2>7, <2>9 DEF Told
  <2>11. l \in Lines
    BY DEF ToSet, LinesInv
  <2>12. v \in Vulns(Characters) /\ FlagsInv(BaseOf(l), v, l.v.flags)
    <3>1. NoEntries \in Indexes(Characters)
      BY IndexesParts
    <3> QED
      BY <2>10, <2>11, <3>1, LineAdds
  <2> QED
    BY <2>5, <2>9, <2>10, <2>11, <2>12, FixAbove
<1> QED
  BY <1>1, LinesInvariance, PTL

-----------------------------------------------------------------------------
(* Authorities. *)

\* What the pieces of a text hold of it.
Spread(s, d) ==
  /\ \A i \in 1..Len(s) : s[i] = d \/ \E k \in 1..Len(Split(s, d)) : s[i] \in ToSet(Split(s, d)[k])
  /\ s # <<>> /\ s[Len(s)] = d => \E k \in 1..Len(Split(s, d)) : Split(s, d)[k] = <<>>
  /\ s = <<>> => Split(s, d)[1] = <<>>

\* Every character is a separator or in a piece; after a separator at the end comes
\* an empty piece.
LEMMA SplitSpreads ==
  ASSUME NEW C, NEW d, NEW s \in Seq(C)
  PROVE  Spread(s, d)
<1> DEFINE Q == {t \in Seq(C) : Spread(t, d)}
<1>1. <<>> \in Q
  <2>1. PICK e, p : e = <<>> /\ p = <<e>>
    OBVIOUS
  <2>2. Split(e, d) = p
    BY <2>1, SplitSteps
  <2>3. e \in Seq(C) /\ p[1] = e /\ Len(e) = 0
    BY <2>1
  <2>4. Spread(e, d)
    BY <2>1, <2>2, <2>3 DEF Spread
  <2> QED
    BY <2>1, <2>3, <2>4
<1>2. ASSUME NEW t \in Seq(C), NEW c \in C, t \in Q PROVE Append(t, c) \in Q
  <2>1. PICK p, u, q, n, m : /\ p = Split(t, d) /\ u = Append(t, c) /\ q = SplitStep(p, c, d)
                             /\ n = Len(t) /\ m = Len(p)
    OBVIOUS
  <2>2. p \in Pieces(C) /\ Split(u, d) = q /\ q \in Pieces(C)
    BY <2>1, SplitSteps, SplitStepType
  <2>3. /\ n \in Nat /\ u \in Seq(C) /\ Len(u) = n + 1 /\ u[n + 1] = c
        /\ \A i \in 1..n : u[i] = t[i]
    BY <2>1
  <2>4. m \in Nat \ {0} /\ p \in Seq(Seq(C)) /\ p[m] \in Seq(C)
    BY <2>1, <2>2 DEF Pieces
  <2>5. \A i \in 1..n : t[i] = d \/ \E k \in 1..m : t[i] \in ToSet(p[k])
    BY <1>2, <2>1 DEF Spread
  <2>6. CASE c = d
    <3>1. q = Append(p, <<>>)
      BY <2>1, <2>6 DEF SplitStep
    <3>2. PICK e : e = <<>>
      OBVIOUS
    <3>3. e \in Seq(C)
      BY <3>2
    <3>4. Len(q) = m + 1 /\ q[m + 1] = e /\ \A k \in 1..m : q[k] = p[k]
      BY <2>1, <2>4, <3>1, <3>2, <3>3
    <3>5. \A i \in 1..(n + 1) : u[i] = d \/ \E k \in 1..(m + 1) : u[i] \in ToSet(q[k])
      <4>1. SUFFICES ASSUME NEW i \in 1..(n + 1), u[i] # d
                     PROVE  \E k \in 1..(m + 1) : u[i] \in ToSet(q[k])
        OBVIOUS
      <4>2. i \in 1..n /\ u[i] = t[i]
        BY <2>3, <2>6, <4>1
      <4>3. PICK k \in 1..m : t[i] \in ToSet(p[k])
        BY <2>5, <4>1, <4>2
      <4>4. k \in 1..(m + 1) /\ q[k] = p[k]
        BY <2>4, <3>4
      <4> QED
        BY <4>2, <4>3, <4>4
    <3>6. u # <<>> /\ m + 1 \in 1..(m + 1)
      BY <2>3, <2>4
    <3>8. \E k \in 1..Len(q) : q[k] = <<>>
      BY <3>2, <3>4, <3>6
    <3>9. \A i \in 1..Len(u) : u[i] = d \/ \E k \in 1..Len(q) : u[i] \in ToSet(q[k])
      BY <2>3, <3>4, <3>5
    <3>7. Spread(u, d)
      BY <2>2, <3>6, <3>8, <3>9 DEF Spread
    <3> QED
      BY <2>1, <2>3, <3>7
  <2>7. CASE c # d
    <3>1. PICK w, x : w = p[m] /\ x = Append(w, c)
      OBVIOUS
    <3>2. q = [p EXCEPT ![m] = x]
      BY <2>1, <2>7, <3>1 DEF SplitStep
    <3>3. w \in Seq(C) /\ x \in Seq(C) /\ ToSet(x) = ToSet(w) \cup {c}
      BY <2>4, <3>1, ToSetAppends
    <3>4. Len(q) = m /\ q[m] = x /\ \A k \in 1..m : k # m => q[k] = p[k]
      BY <2>1, <2>4, <3>2, <3>3
    <3>5. \A i \in 1..(n + 1) : u[i] = d \/ \E k \in 1..m : u[i] \in ToSet(q[k])
      <4>1. SUFFICES ASSUME NEW i \in 1..(n + 1), u[i] # d PROVE \E k \in 1..m : u[i] \in ToSet(q[k])
        OBVIOUS
      <4>2. CASE i = n + 1
        BY <2>3, <2>4, <3>3, <3>4, <4>2
      <4>3. CASE i \in 1..n
        <5>1. PICK k \in 1..m : t[i] \in ToSet(p[k])
          BY <2>3, <2>5, <4>1, <4>3
        <5>2. t[i] \in ToSet(q[k])
          BY <3>1, <3>3, <3>4, <5>1
        <5> QED
          BY <2>3, <4>3, <5>1, <5>2
      <4> QED
        BY <2>3, <4>2, <4>3
    <3>6. u # <<>> /\ u[n + 1] # d
      BY <2>3, <2>7
    <3>7. Spread(u, d)
      BY <2>2, <2>3, <3>4, <3>5, <3>6 DEF Spread
    <3> QED
      BY <2>1, <2>3, <3>7
  <2> QED
    BY <2>6, <2>7
<1> HIDE DEF Q
<1>3. s \in Q
  BY <1>1, <1>2, SequencesByInduction
<1> QED
  BY <1>3 DEF Q

\* The characters of a host in lower case.
HostChars == {"a", "1", "-", ".", ":"}

\* A host that passes is a text of those, does not end in a dot, and is not empty.
LEMMA HostRead ==
  ASSUME NEW C, "A" \notin C, NEW h \in Seq(C), validHostname(h)
  PROVE  h \in Seq(HostChars) /\ h # <<>> /\ Last(h) # "."
<1>1. CASE IsIP(h)
  <2>1. PICK groups, doubled, n : /\ groups = Split(h, ":") /\ doubled = Occurrences(h, <<":", ":">>, 0)
                                  /\ n = Len(groups)
    OBVIOUS
  <2>2. /\ Cardinality(doubled) = 1
        /\ \A i \in DOMAIN groups : ToSet(groups[i]) \subseteq {"1", "a"}
    BY <1>1, <2>1 DEF IsIP
  <2>3. h # <<>>
    <3>1. ASSUME h = <<>> PROVE FALSE
      <4>1. Len(h) = 0
        BY <3>1
      <4>2. doubled = {}
        BY <2>1, <4>1 DEF Occurrences
      <4> QED
        BY <2>2, <4>2, FS_EmptySet
    <3> QED
      BY <3>1
  <2>4. groups \in Pieces(C)
    BY <2>1, SplitSteps
  <2>5. DOMAIN groups = 1..n
    BY <2>1, <2>4 DEF Pieces
  <2>6. \A i \in 1..Len(h) : h[i] = ":" \/ \E k \in 1..n : h[i] \in ToSet(groups[k])
    BY <2>1, SplitSpreads DEF Spread
  <2>7. \A i \in 1..Len(h) : h[i] \in {"1", "a", ":"}
    BY <2>2, <2>5, <2>6
  <2> QED
    BY <2>3, <2>7 DEF Last, HostChars
<1>2. CASE ~IsIP(h)
  <2>1. PICK labels, n : labels = Split(h, ".") /\ n = Len(labels)
    OBVIOUS
  <2>2. \A i \in DOMAIN labels : /\ labels[i] # <<>>
                                 /\ ToSet(labels[i]) \subseteq {"a", "A", "1", "-"}
    BY <1>2, <2>1 DEF validHostname
  <2>3. labels \in Pieces(C)
    BY <2>1, SplitSteps
  <2>4. DOMAIN labels = 1..n /\ n \in Nat \ {0}
    BY <2>1, <2>3 DEF Pieces
  <2>5. /\ \A i \in 1..Len(h) : h[i] = "." \/ \E k \in 1..n : h[i] \in ToSet(labels[k])
        /\ h # <<>> /\ h[Len(h)] = "." => \E k \in 1..n : labels[k] = <<>>
        /\ h = <<>> => labels[1] = <<>>
    BY <2>1, SplitSpreads DEF Spread
  <2>6. \A i \in 1..Len(h) : h[i] \in {"a", "A", "1", "-", "."}
    BY <2>2, <2>4, <2>5
  <2>7. \A i \in 1..Len(h) : h[i] # "A"
    OBVIOUS
  <2>8. h # <<>> /\ h[Len(h)] # "."
    BY <2>2, <2>4, <2>5
  <2>9. \A i \in 1..Len(h) : h[i] \in HostChars
    BY <2>6, <2>7 DEF HostChars
  <2>10. h \in Seq(HostChars)
    BY <2>9
  <2> QED
    BY <2>8, <2>10 DEF Last
<1> QED
  BY <1>1, <1>2

\* A canonical host has no capital letter.
LEMMA canonicalHostType ==
  ASSUME NEW C, NEW s \in Seq(C)
  PROVE  canonicalHost(s) \in Seq((C \cup {"a"}) \ {"A"})
<1>1. PICK D, x : D = (C \cup {"a"}) \ {"A"} /\ x = Lower(s)
  OBVIOUS
<1>2. x \in Seq(D)
  BY <1>1 DEF Lower
<1>3. PICK h : h = Unbracketed(x)
  OBVIOUS
<1>4. h \in Seq(D)
  BY <1>2, <1>3 DEF Unbracketed
<1>5. canonicalHost(s) = IF Len(h) > 1 /\ Last(h) = "." THEN Front(h) ELSE h
  BY <1>1, <1>3 DEF canonicalHost
<1> QED
  BY <1>1, <1>4, <1>5 DEF Front

\* A host that was read is left as it is.
LEMMA canonicalHostKeeps ==
  ASSUME NEW h \in Seq(HostChars), h # <<>>, Last(h) # "."
  PROVE  /\ canonicalHost(h) = h
         /\ canonicalHost(<<"[">> \o h \o <<"]">>) = h
<1>1. PICK n, x : n = Len(h) /\ x = <<"[">> \o h \o <<"]">>
  OBVIOUS
<1>2. n \in Nat \ {0} /\ \A i \in 1..n : h[i] \in HostChars
  BY <1>1
<1>3. x \in Seq(HostChars \cup {"[", "]"})
  BY <1>1
<1>4. Len(x) = n + 2 /\ x[1] = "[" /\ x[n + 2] = "]" /\ \A i \in 1..n : x[i + 1] = h[i]
  BY <1>1
<1>5. Lower(h) = h
  BY <1>2 DEF Lower, HostChars
<1>6. Lower(x) = x
  <2>1. \A i \in DOMAIN x : x[i] # "A"
    BY <1>3 DEF HostChars
  <2>2. x = [i \in DOMAIN x |-> x[i]]
    BY <1>3
  <2>3. Lower(x) = [i \in DOMAIN x |-> x[i]]
    BY <2>1 DEF Lower
  <2> QED
    BY <2>2, <2>3
<1>7. Unbracketed(h) = h
  <2>1. Head(h) = h[1] /\ 1 \in 1..n
    BY <1>1, <1>2
  <2>2. Head(h) # "["
    BY <1>2, <2>1 DEF HostChars
  <2> QED
    BY <2>2 DEF Unbracketed
<1>8. Unbracketed(x) = h
  <2>1. Unbracketed(x) = SubSeq(x, 2, n + 1)
    BY <1>2, <1>3, <1>4 DEF Unbracketed, Last
  <2>2. SubSeq(x, 2, n + 1) \in Seq(HostChars \cup {"[", "]"}) /\ Len(SubSeq(x, 2, n + 1)) = n
    BY <1>2, <1>3, <1>4
  <2>3. \A i \in 1..n : SubSeq(x, 2, n + 1)[i] = h[i]
    BY <1>2, <1>3, <1>4
  <2>4. PICK y : y = SubSeq(x, 2, n + 1)
    OBVIOUS
  <2>5. y = h
    BY <1>1, <2>2, <2>3, <2>4
  <2> QED
    BY <2>1, <2>4, <2>5
<1> QED
  BY <1>1, <1>5, <1>6, <1>7, <1>8 DEF canonicalHost

\* The reading of an authority, by whether SplitHostPort finds a port.
Parted(a, host, port) ==
  SplitHostPort(a) = [ok |-> TRUE, host |-> host, port |-> port]

\* What SplitHostPort parts are texts.
LEMMA SplitHostPortType ==
  ASSUME NEW C, NEW a \in Seq(C)
  PROVE  SplitHostPort(a).ok => SplitHostPort(a).host \in Seq(C) /\ SplitHostPort(a).port \in Seq(C)
<1> SUFFICES ASSUME SplitHostPort(a).ok
             PROVE  SplitHostPort(a).host \in Seq(C) /\ SplitHostPort(a).port \in Seq(C)
  OBVIOUS
<1>1. PICK n, colons, closing, i, j :
        /\ n = Len(a) /\ colons = {k \in DOMAIN a : a[k] = ":"} /\ i = Max(colons)
        /\ closing = {k \in DOMAIN a : a[k] = "]"} /\ j = Min(closing)
  OBVIOUS
<1>2. n \in Nat /\ DOMAIN a = 1..n
  BY <1>1
<1>3. PICK host : host = IF a[1] = "[" THEN SubSeq(a, 2, j - 1) ELSE SubSeq(a, 1, i - 1)
  OBVIOUS
<1>4. /\ colons # {} /\ ~(a[1] = "[" /\ closing = {})
      /\ SplitHostPort(a) = [ok |-> TRUE, host |-> host, port |-> From(a, i)]
  <2>1. SplitHostPort(a) # Refused
    BY DEF Refused
  <2> QED
    BY <1>1, <1>3, <2>1, Zenon DEF SplitHostPort
<1>5. i \in 1..n
  BY <1>1, <1>2, <1>4, MaxIn
<1>6. a[1] = "[" => j \in 1..n
  <2>1. closing \subseteq Nat
    BY <1>1, <1>2
  <2>2. closing # {} => j \in closing
    BY <1>1, <2>1, LeastExists DEF Min
  <2> QED
    BY <1>1, <1>2, <1>4, <2>2
<1>9. \A k \in 1..(n + 1), m \in 0..n : SubSeq(a, k, m) \in Seq(C)
  BY <1>1, <1>2
<1>7. host \in Seq(C)
  <2>1. i - 1 \in 0..n /\ (a[1] = "[" => j - 1 \in 0..n) /\ {1, 2} \subseteq 1..(n + 1)
    BY <1>2, <1>5, <1>6
  <2> QED
    BY <1>3, <1>9, <2>1
<1>8. From(a, i) \in Seq(C)
  <2>1. i + 1 \in 1..(n + 1) /\ n \in 0..n
    BY <1>2, <1>5
  <2> QED
    BY <1>1, <1>9, <2>1 DEF From
<1> QED
  BY <1>4, <1>7, <1>8

\* A host on its own has no port.
LEMMA HostAlone ==
  ASSUME NEW h \in Seq(HostChars), h # <<>>
  PROVE  /\ ":" \notin ToSet(h) => ~SplitHostPort(h).ok
         /\ ":" \in ToSet(h) => ~SplitHostPort(<<"[">> \o h \o <<"]">>).ok
<1>1. ASSUME ":" \notin ToSet(h) PROVE ~SplitHostPort(h).ok
  <2>1. {k \in DOMAIN h : h[k] = ":"} = {}
    BY <1>1 DEF ToSet
  <2>2. SplitHostPort(h) = Refused
    BY <2>1, Zenon DEF SplitHostPort
  <2> QED
    BY <2>2 DEF Refused
<1>2. ASSUME ":" \in ToSet(h) PROVE ~SplitHostPort(<<"[">> \o h \o <<"]">>).ok
  <2>1. PICK n, x : n = Len(h) /\ x = <<"[">> \o h \o <<"]">>
    OBVIOUS
  <2>2. n \in Nat \ {0} /\ \A k \in 1..n : h[k] \in HostChars
    BY <2>1
  <2>3. /\ Len(x) = n + 2 /\ DOMAIN x = 1..(n + 2) /\ x[1] = "[" /\ x[n + 2] = "]"
        /\ \A k \in 1..n : x[k + 1] = h[k]
    BY <2>1
  <2>4. PICK colons, closing, i, j :
          /\ colons = {k \in DOMAIN x : x[k] = ":"} /\ i = Max(colons)
          /\ closing = {k \in DOMAIN x : x[k] = "]"} /\ j = Min(closing)
    OBVIOUS
  <2>5. closing = {n + 2}
    <3>1. \A k \in 1..(n + 2) : x[k] = "]" => k = n + 2
      <4>1. SUFFICES ASSUME NEW k \in 1..(n + 2), k # n + 2 PROVE x[k] # "]"
        OBVIOUS
      <4>2. CASE k = 1
        BY <2>3, <4>2
      <4>3. CASE k # 1
        <5>1. k - 1 \in 1..n /\ (k - 1) + 1 = k
          BY <2>2, <4>1, <4>3
        <5> QED
          BY <2>2, <2>3, <5>1 DEF HostChars
      <4> QED
        BY <4>2, <4>3
    <3> QED
      BY <2>2, <2>3, <2>4, <3>1
  <2>6. j = n + 2
    BY <2>2, <2>4, <2>5 DEF Min
  <2>7. i < n + 2
    <3>1. colons # {}
      <4>1. PICK k \in 1..n : h[k] = ":"
        BY <1>2, <2>1 DEF ToSet
      <4>2. k + 1 \in 1..(n + 2) /\ x[k + 1] = ":"
        BY <2>2, <2>3, <4>1
      <4> QED
        BY <2>3, <2>4, <4>2
    <3>2. i \in 1..(n + 2) /\ x[i] = ":"
      <4>1. n + 2 \in Nat /\ colons \in SUBSET (1..(n + 2))
        BY <2>2, <2>3, <2>4
      <4>2. i \in colons
        BY <2>4, <3>1, <4>1, MaxIn
      <4> QED
        BY <2>3, <2>4, <4>2
    <3> QED
      BY <2>2, <2>3, <3>2
  <2>8. j + 1 # i
    BY <2>2, <2>6, <2>7, MaxIn
  <2>9. SplitHostPort(x) = Refused
    BY <2>3, <2>4, <2>8, Zenon DEF SplitHostPort
  <2> QED
    BY <2>1, <2>9 DEF Refused
<1> QED
  BY <1>1, <1>2

Digits == Seq({"1"})

\* A host with a port is taken apart again.
LEMMA HostWithPort ==
  ASSUME NEW h \in Seq(HostChars), h # <<>>, NEW p \in Digits
  PROVE  /\ ":" \notin ToSet(h) => Parted(h \o <<":">> \o p, h, p)
         /\ ":" \in ToSet(h) => Parted(<<"[">> \o h \o <<"]">> \o <<":">> \o p, h, p)
<1>1. PICK n, m : n = Len(h) /\ m = Len(p)
  OBVIOUS
<1>2. /\ n \in Nat \ {0} /\ m \in Nat /\ \A k \in 1..n : h[k] \in HostChars
      /\ \A k \in 1..m : p[k] = "1"
  BY <1>1 DEF Digits
<1>3. ASSUME ":" \notin ToSet(h) PROVE Parted(h \o <<":">> \o p, h, p)
  <2>1. PICK x : x = h \o <<":">> \o p
    OBVIOUS
  <2>2. /\ Len(x) = n + 1 + m /\ DOMAIN x = 1..(n + 1 + m) /\ x[n + 1] = ":"
        /\ \A k \in 1..n : x[k] = h[k]
        /\ \A k \in 1..m : x[k + n + 1] = p[k]
        /\ x \in Seq(HostChars)
    BY <1>1, <2>1 DEF Digits, HostChars
  <2>3. PICK colons, closing, i, j :
          /\ colons = {k \in DOMAIN x : x[k] = ":"} /\ i = Max(colons)
          /\ closing = {k \in DOMAIN x : x[k] = "]"} /\ j = Min(closing)
    OBVIOUS
  <2>4. colons = {n + 1}
    <3>1. \A k \in 1..(n + 1 + m) : x[k] = ":" => k = n + 1
      <4>1. SUFFICES ASSUME NEW k \in 1..(n + 1 + m), k # n + 1 PROVE x[k] # ":"
        OBVIOUS
      <4>2. CASE k <= n
        <5>1. k \in 1..n /\ x[k] = h[k]
          BY <1>2, <2>2, <4>1, <4>2
        <5>2. h[k] \in ToSet(h)
          BY <1>1, <5>1 DEF ToSet
        <5> QED
          BY <1>3, <5>1, <5>2
      <4>3. CASE k > n
        <5>1. k - n - 1 \in 1..m /\ (k - n - 1) + n + 1 = k
          BY <1>2, <4>1, <4>3
        <5> QED
          BY <1>2, <2>2, <5>1
      <4> QED
        BY <1>2, <4>2, <4>3
    <3> QED
      BY <1>2, <2>2, <2>3, <3>1
  <2>5. i = n + 1 /\ Cardinality(colons) = 1
    <3>1. i = n + 1
      BY <1>2, <2>3, <2>4 DEF Max
    <3> QED
      BY <2>4, <3>1, FS_Singleton
  <2>6. x[1] # "["
    BY <1>2, <2>2 DEF HostChars
  <2>7. "[" \notin ToSet(x) /\ "]" \notin ToSet(x)
    BY <2>2 DEF ToSet, HostChars
  <2>8. PICK y, z : y = SubSeq(x, 1, n) /\ z = From(x, i)
    OBVIOUS
  <2>9. y = h
    <3>1. y \in Seq(HostChars) /\ Len(y) = n /\ \A k \in 1..n : y[k] = h[k]
      BY <1>2, <2>2, <2>8
    <3> QED
      BY <1>1, <3>1
  <2>10. z = p
    <3>1. z \in Seq(HostChars) /\ Len(z) = m /\ \A k \in 1..m : z[k] = p[k]
      BY <1>2, <2>2, <2>5, <2>8 DEF From
    <3> QED
      BY <1>1, <3>1 DEF Digits
  <2>11. SubSeq(x, 1, Len(x)) = x /\ SubSeq(x, 1, i - 1) = y
    <3>1. PICK w : w = SubSeq(x, 1, Len(x))
      OBVIOUS
    <3>2. w \in Seq(HostChars) /\ Len(w) = Len(x) /\ \A k \in 1..Len(x) : w[k] = x[k]
      BY <2>2, <3>1
    <3>3. w = x
      BY <2>2, <3>2
    <3> QED
      BY <1>2, <2>5, <2>8, <3>1, <3>3
  <2>12. colons # {} /\ ~(Cardinality(colons) > 1)
    BY <2>4, <2>5
  <2>13. SplitHostPort(x) = [ok |-> TRUE, host |-> y, port |-> z]
    BY <2>3, <2>6, <2>7, <2>8, <2>11, <2>12, Zenon DEF SplitHostPort
  <2> QED
    BY <2>1, <2>9, <2>10, <2>13 DEF Parted
<1>4. ASSUME ":" \in ToSet(h) PROVE Parted(<<"[">> \o h \o <<"]">> \o <<":">> \o p, h, p)
  <2>1. PICK x : x = <<"[">> \o h \o <<"]">> \o <<":">> \o p
    OBVIOUS
  <2>2. /\ Len(x) = n + 3 + m /\ DOMAIN x = 1..(n + 3 + m)
        /\ x[1] = "[" /\ x[n + 2] = "]" /\ x[n + 3] = ":"
        /\ \A k \in 1..n : x[k + 1] = h[k]
        /\ \A k \in 1..m : x[k + n + 3] = p[k]
        /\ x \in Seq(HostChars \cup {"[", "]"})
    BY <1>1, <2>1 DEF Digits, HostChars
  <2>3. PICK colons, closing, i, j :
          /\ colons = {k \in DOMAIN x : x[k] = ":"} /\ i = Max(colons)
          /\ closing = {k \in DOMAIN x : x[k] = "]"} /\ j = Min(closing)
    OBVIOUS
  <2>4. \A k \in 1..(n + 3 + m) :
          \/ k = 1 \/ (k \in 2..(n + 1) /\ x[k] \in HostChars) \/ k = n + 2 \/ k = n + 3
          \/ k > n + 3 /\ x[k] = "1"
    <3>1. SUFFICES ASSUME NEW k \in 1..(n + 3 + m)
                   PROVE  /\ k \in 2..(n + 1) => x[k] \in HostChars
                          /\ k > n + 3 => x[k] = "1"
      BY <1>2
    <3>2. ASSUME k \in 2..(n + 1) PROVE x[k] \in HostChars
      <4>1. k - 1 \in 1..n /\ (k - 1) + 1 = k
        BY <1>2, <3>2
      <4> QED
        BY <1>2, <2>2, <4>1
    <3>3. ASSUME k > n + 3 PROVE x[k] = "1"
      <4>1. k - n - 3 \in 1..m /\ (k - n - 3) + n + 3 = k
        BY <1>2, <3>3
      <4> QED
        BY <1>2, <2>2, <4>1
    <3> QED
      BY <3>2, <3>3
  <2>5. closing = {n + 2}
    <3>1. PICK l : l = n + 3 + m
      OBVIOUS
    <3>2. n + 2 \in 1..l
      BY <1>2, <3>1
    <3>3. \A k \in 1..l : x[k] = "]" => k = n + 2
      <4>1. "]" \notin HostChars
        BY DEF HostChars
      <4>2. SUFFICES ASSUME NEW k \in 1..l, x[k] = "]" PROVE k = n + 2
        OBVIOUS
      <4>3. \/ k = 1 \/ (k \in 2..(n + 1) /\ x[k] \in HostChars) \/ k = n + 2 \/ k = n + 3
            \/ k > n + 3 /\ x[k] = "1"
        BY <2>4, <3>1
      <4> QED
        BY <2>2, <4>1, <4>2, <4>3
    <3>4. closing = {k \in 1..l : x[k] = "]"}
      BY <2>2, <2>3, <3>1
    <3> QED
      BY <2>2, <3>2, <3>3, <3>4
  <2>6. j = n + 2
    BY <1>2, <2>3, <2>5 DEF Min
  <2>7. i = n + 3
    <3>1. n + 3 \in colons
      BY <1>2, <2>2, <2>3
    <3>2. \A k \in colons : k <= n + 3
      BY <1>2, <2>2, <2>3, <2>4
    <3>3. n + 3 + m \in Nat /\ colons \in SUBSET (1..(n + 3 + m))
      BY <1>2, <2>2, <2>3
    <3>4. i \in colons /\ i >= n + 3
      BY <2>3, <3>1, <3>3, MaxIn
    <3> QED
      BY <1>2, <2>2, <2>3, <3>2, <3>4
  <2>8. PICK y, z, r, t : /\ y = SubSeq(x, 2, n + 1) /\ z = From(x, i)
                          /\ r = SubSeq(x, n + 3, Len(x)) /\ t = Tail(x)
    OBVIOUS
  <2>9. y = h
    <3>1. y \in Seq(HostChars \cup {"[", "]"}) /\ Len(y) = n /\ \A k \in 1..n : y[k] = h[k]
      BY <1>2, <2>2, <2>8
    <3> QED
      BY <1>1, <3>1
  <2>10. z = p
    <3>1. z \in Seq(HostChars \cup {"[", "]"}) /\ Len(z) = m /\ \A k \in 1..m : z[k] = p[k]
      BY <1>2, <2>2, <2>7, <2>8 DEF From
    <3> QED
      BY <1>1, <3>1 DEF Digits
  <2>11. "[" \notin ToSet(t)
    <3>1. DOMAIN t = 1..(n + 2 + m) /\ \A k \in 1..(n + 2 + m) : t[k] = x[k + 1]
      BY <1>2, <2>2, <2>8
    <3>2. \A k \in 1..(n + 2 + m) : x[k + 1] # "["
      <4>1. SUFFICES ASSUME NEW k \in 1..(n + 2 + m) PROVE x[k + 1] # "["
        OBVIOUS
      <4>2. k + 1 \in 1..(n + 3 + m) /\ k + 1 # 1
        BY <1>2
      <4> QED
        BY <1>2, <2>2, <2>4, <4>2 DEF HostChars
    <3> QED
      BY <3>1, <3>2 DEF ToSet
  <2>12. "]" \notin ToSet(r)
    <3>1. DOMAIN r = 1..(m + 1) /\ \A k \in 1..(m + 1) : r[k] = x[k + n + 2]
      BY <1>2, <2>2, <2>8
    <3>2. \A k \in 1..(m + 1) : x[k + n + 2] # "]"
      <4>1. SUFFICES ASSUME NEW k \in 1..(m + 1) PROVE x[k + n + 2] # "]"
        OBVIOUS
      <4>2. k + n + 2 \in 1..(n + 3 + m) /\ k + n + 2 >= n + 3
        BY <1>2
      <4> QED
        BY <1>2, <2>2, <2>4, <4>2 DEF HostChars
    <3> QED
      BY <3>1, <3>2 DEF ToSet
  <2>13. /\ colons # {} /\ closing # {} /\ j + 1 = i
         /\ SubSeq(x, j + 1, Len(x)) = r /\ SubSeq(x, 2, j - 1) = y
    <3>1. n + 3 \in colons /\ j + 1 = n + 3 /\ j - 1 = n + 1
      BY <1>2, <2>2, <2>3, <2>6
    <3> QED
      BY <2>5, <2>7, <2>8, <3>1
  <2>14. SplitHostPort(x) = [ok |-> TRUE, host |-> y, port |-> z]
    BY <2>2, <2>3, <2>8, <2>11, <2>12, <2>13, Zenon DEF SplitHostPort
  <2> QED
    BY <2>1, <2>9, <2>10, <2>14 DEF Parted
<1> QED
  BY <1>3, <1>4

\* canonical.go:17: what is rendered for the upstream reads as what was decided on.
THEOREM AuthorityReadBack ==
  ASSUME NEW C, NEW a \in Seq(C), NEW read, read = splitAuthority(a), read.ok
  PROVE  splitAuthority(authorityOf(read.host, read.port)) = read
<1>1. PICK parted, s, p, h :
        /\ parted = SplitHostPort(a)
        /\ s = (IF parted.ok THEN parted.host ELSE a)
        /\ p = (IF parted.ok THEN parted.port ELSE <<>>)
        /\ h = canonicalHost(s)
  OBVIOUS
<1>2. /\ read = [ok |-> TRUE, host |-> h, port |-> p]
      /\ Len(p) <= 5 /\ ToSet(p) \subseteq {"1"} /\ validHostname(h)
  <2>1. splitAuthority(a) =
          IF \/ a = <<>> \/ "#" \in ToSet(a)
             \/ Len(p) > 5 \/ ~(ToSet(p) \subseteq {"1"})
             \/ ~validHostname(h)
          THEN Refused
          ELSE [ok |-> TRUE, host |-> h, port |-> p]
    BY <1>1, Zenon DEF splitAuthority
  <2>2. ~Refused.ok
    BY DEF Refused
  <2>3. p \in Seq(C)
    <3>1. PICK e : e = <<>>
      OBVIOUS
    <3>2. e \in Seq(C)
      BY <3>1
    <3> QED
      BY <1>1, <3>1, <3>2, SplitHostPortType
  <2>4. Len(p) \in Nat
    BY <2>3
  <2> QED
    BY <2>1, <2>2, <2>4
<1>3. s \in Seq(C) /\ p \in Seq(C)
  <2>1. PICK e : e = <<>>
    OBVIOUS
  <2>2. e \in Seq(C)
    BY <2>1
  <2> QED
    BY <1>1, <2>1, <2>2, SplitHostPortType
<1>4. h \in Seq(HostChars) /\ h # <<>> /\ Last(h) # "."
  <2>1. PICK D : D = (C \cup {"a"}) \ {"A"}
    OBVIOUS
  <2>2. h \in Seq(D) /\ "A" \notin D
    BY <1>1, <1>3, <2>1, canonicalHostType
  <2> QED
    BY <1>2, <2>2, HostRead
<1>5. p \in Digits
  <2>1. PICK n : n = Len(p)
    OBVIOUS
  <2>2. n \in Nat /\ DOMAIN p = 1..n
    BY <1>3, <2>1
  <2>3. \A i \in 1..n : p[i] = "1"
    BY <1>2, <2>2 DEF ToSet
  <2> QED
    BY <1>3, <2>1, <2>2, <2>3 DEF Digits
<1>6. PICK b : b = <<"[">> \o h \o <<"]">>
  OBVIOUS
<1>7. canonicalHost(h) = h /\ canonicalHost(b) = h
  BY <1>4, <1>6, canonicalHostKeeps
<1>8. PICK x : x = authorityOf(h, p)
  OBVIOUS
<1>9. PICK f : f = IF ":" \in ToSet(h) THEN b ELSE h
  OBVIOUS
<1>10. x = IF p = <<>> THEN f ELSE f \o <<":">> \o p
  BY <1>6, <1>8, <1>9, Zenon DEF authorityOf
<1>11. f \in Seq(HostChars \cup {"[", "]"}) /\ f # <<>>
  <2>1. b \in Seq(HostChars \cup {"[", "]"}) /\ Len(b) > 0
    BY <1>4, <1>6
  <2>2. h \in Seq(HostChars \cup {"[", "]"})
    BY <1>4
  <2> QED
    BY <1>4, <1>9, <2>1, <2>2
<1>12. x # <<>> /\ "#" \notin ToSet(x)
  <2>1. x \in Seq(HostChars \cup {"[", "]"}) /\ x # <<>>
    <3>1. PICK K, y : K = HostChars \cup {"[", "]"} /\ y = f \o <<":">> \o p
      OBVIOUS
    <3>2. p \in Seq(K) /\ ":" \in K
      BY <1>5, <3>1 DEF Digits, HostChars
    <3>3. f \in Seq(K)
      BY <1>11, <3>1
    <3>6. \A c \in K : f \o <<c>> \o p \in Seq(K) /\ Len(f \o <<c>> \o p) > 0
      BY <3>2, <3>3
    <3>4. y \in Seq(K) /\ Len(y) > 0
      BY <3>1, <3>2, <3>6
    <3>5. x \in {f, y}
      BY <1>10, <3>1
    <3>7. y # <<>>
      BY <3>4
    <3>8. x \in Seq(K) /\ x # <<>>
      BY <1>11, <3>3, <3>4, <3>5, <3>7
    <3> QED
      BY <3>1, <3>8
  <2> QED
    BY <2>1 DEF ToSet, HostChars
<1>13. PICK again, t, q, g :
         /\ again = SplitHostPort(x)
         /\ t = (IF again.ok THEN again.host ELSE x)
         /\ q = (IF again.ok THEN again.port ELSE <<>>)
         /\ g = canonicalHost(t)
  OBVIOUS
<1>14. splitAuthority(x) =
         IF \/ x = <<>> \/ "#" \in ToSet(x)
            \/ Len(q) > 5 \/ ~(ToSet(q) \subseteq {"1"})
            \/ ~validHostname(g)
         THEN Refused
         ELSE [ok |-> TRUE, host |-> g, port |-> q]
  BY <1>13, Zenon DEF splitAuthority
<1>15. g = h /\ q = p
  <2>1. CASE p = <<>>
    <3>1. ~SplitHostPort(x).ok
      BY <1>4, <1>6, <1>9, <1>10, <2>1, HostAlone
    <3>2. g = canonicalHost(x) /\ q = p
      BY <1>13, <2>1, <3>1
    <3> QED
      BY <1>7, <1>9, <1>10, <2>1, <3>2
  <2>2. CASE p # <<>>
    <3>1. Parted(x, h, p)
      BY <1>4, <1>5, <1>6, <1>9, <1>10, <2>2, HostWithPort
    <3>2. again.ok /\ again.host = h /\ again.port = p
      BY <1>13, <3>1 DEF Parted
    <3> QED
      BY <1>7, <1>13, <3>2
  <2> QED
    BY <2>1, <2>2
<1>16. Len(p) \in Nat
  BY <1>3
<1>17. splitAuthority(x) = [ok |-> TRUE, host |-> h, port |-> p]
  <2>1. ~(Len(q) > 5)
    BY <1>2, <1>15, <1>16
  <2> QED
    BY <1>2, <1>12, <1>14, <1>15, <2>1, Zenon
<1>18. read.host = h /\ read.port = p
  BY <1>2
<1> QED
  BY <1>2, <1>8, <1>17, <1>18, Zenon

-----------------------------------------------------------------------------
(* What is edited stays a text. *)

\* A text with a character taken out, put in or replaced.
LEMMA Edited ==
  ASSUME NEW C, NEW s \in Seq(C), NEW i \in DOMAIN s, NEW c \in C
  PROVE  {RemoveAt(s, i), InsertAt(s, i, c), ReplaceAt(s, i, c)} \subseteq Seq(C)
<1>1. PICK n : n = Len(s)
  OBVIOUS
<1>2. n \in Nat /\ i \in 1..n
  BY <1>1
<1>3. SubSeq(s, 1, i - 1) \in Seq(C) /\ SubSeq(s, i + 1, n) \in Seq(C) /\ SubSeq(s, i, n) \in Seq(C)
  BY <1>1, <1>2
<1>4. RemoveAt(s, i) \in Seq(C)
  BY <1>1, <1>3 DEF RemoveAt
<1>5. InsertAt(s, i, c) \in Seq(C)
  BY <1>1, <1>3 DEF InsertAt
<1>6. ReplaceAt(s, i, c) \in Seq(C)
  BY <1>1, <1>2 DEF ReplaceAt
<1> QED
  BY <1>4, <1>5, <1>6

EditedInv == authority \in Seq(AuthorityChars) /\ tarball \in Seq(PathChars)

\* Authorities and paths of tarballs stay texts of the characters put in.
LEMMA EditedInvariance == Spec => []EditedInv
<1>1. Init => EditedInv
  <2> SUFFICES ASSUME Init PROVE EditedInv
    OBVIOUS
  <2>1. PICK e : e = <<>>
    OBVIOUS
  <2>2. e \in Seq(AuthorityChars) /\ e \in Seq(PathChars)
    BY <2>1
  <2>3. authority \in Authorities \cup {e} /\ tarball \in Tarballs \cup {e}
    BY <2>1 DEF Init
  <2> QED
    BY <2>2, <2>3, TextsAssumption DEF EditedInv
<1>2. EditedInv /\ [Next]_vars => EditedInv'
  <2> SUFFICES ASSUME EditedInv, [Next]_vars PROVE EditedInv'
    OBVIOUS
  <2>1. CASE EditAuthority /\ UNCHANGED tarball
    <3>1. PICK i \in DOMAIN authority, c \in AuthorityChars :
            authority' \in {RemoveAt(authority, i), InsertAt(authority, i, c),
                            ReplaceAt(authority, i, c)}
      BY <2>1 DEF EditAuthority
    <3>2. authority' \in Seq(AuthorityChars)
      BY <3>1, Edited DEF EditedInv
    <3> QED
      BY <2>1, <3>2 DEF EditedInv
  <2>2. CASE EditTarball /\ UNCHANGED authority
    <3>1. PICK i \in DOMAIN tarball, c \in PathChars :
            tarball' \in {RemoveAt(tarball, i), InsertAt(tarball, i, c),
                          ReplaceAt(tarball, i, c)}
      BY <2>2 DEF EditTarball
    <3>2. tarball' \in Seq(PathChars)
      BY <3>1, Edited DEF EditedInv
    <3> QED
      BY <2>2, <3>2 DEF EditedInv
  <2>3. CASE UNCHANGED <<authority, tarball>>
    BY <2>3 DEF EditedInv
  <2> QED
    BY <2>1, <2>2, <2>3 DEF Next, vars, request, LongerTarget
<1> QED
  BY <1>1, <1>2, PTL DEF Spec

\* canonical.go:17, 111: whatever authority arrives, the one sent upstream names the
\* host that was decided on and the port that was asked for.
THEOREM AuthorityAlwaysKept == Spec => []AuthorityKeepsHost
<1>1. EditedInv => AuthorityKeepsHost
  BY AuthorityReadBack DEF EditedInv, AuthorityKeepsHost
<1> QED
  BY <1>1, EditedInvariance, PTL

-----------------------------------------------------------------------------
(* Paths of tarballs. *)

\* Two texts in a row, and each of them again.
LEMMA TwoTexts ==
  ASSUME NEW C, NEW a \in Seq(C), NEW b \in Seq(C)
  PROVE  /\ a \o b \in Seq(C) /\ Len(a \o b) = Len(a) + Len(b)
         /\ \A i \in 1..Len(a) : (a \o b)[i] = a[i]
         /\ \A i \in 1..Len(b) : (a \o b)[Len(a) + i] = b[i]
         /\ SubSeq(a \o b, 1, Len(a)) = a /\ From(a \o b, Len(a)) = b
         /\ IsPrefix(a, a \o b)
<1>1. PICK s, m, n : s = a \o b /\ m = Len(a) /\ n = Len(b)
  OBVIOUS
<1>2. /\ m \in Nat /\ n \in Nat /\ s \in Seq(C) /\ Len(s) = m + n
      /\ \A i \in 1..m : s[i] = a[i]
      /\ \A i \in 1..n : s[m + i] = b[i]
  BY <1>1
<1>3. PICK x, y : x = SubSeq(s, 1, m) /\ y = SubSeq(s, m + 1, m + n)
  OBVIOUS
<1>4. /\ x \in Seq(C) /\ Len(x) = m /\ \A i \in 1..m : x[i] = s[i]
      /\ y \in Seq(C) /\ Len(y) = n /\ \A i \in 1..n : y[i] = s[m + i]
  BY <1>2, <1>3
<1>5. x = a
  <2>1. \A i \in 1..m : x[i] = a[i]
    BY <1>2, <1>4
  <2> QED
    BY <1>1, <1>4, <2>1, SeqEqual
<1>6. y = b
  <2>1. \A i \in 1..n : y[i] = b[i]
    BY <1>2, <1>4
  <2>2. Len(y) = Len(b) /\ y \in Seq(C)
    BY <1>1, <1>4
  <2> QED
    BY <1>1, <2>1, <2>2, SeqEqual
<1>7. From(s, m) = y
  BY <1>2, <1>3 DEF From
<1>8. IsPrefix(a, s)
  <2>1. m <= Len(s) /\ EndsAt(s, a, m)
    <3>1. \A i \in 1..m : m - m + i = i
      BY <1>2
    <3> QED
      BY <1>1, <1>2, <3>1 DEF EndsAt
  <2> QED
    BY <1>1, <1>2, <2>1, PrefixEnds
<1> QED
  BY <1>1, <1>2, <1>3, <1>5, <1>6, <1>7, <1>8

Parting(s, k, C) ==
  /\ SubSeq(s, 1, k) \in Seq(C) /\ From(s, k) \in Seq(C)
  /\ Len(SubSeq(s, 1, k)) = k /\ Len(From(s, k)) = Len(s) - k
  /\ \A i \in 1..k : SubSeq(s, 1, k)[i] = s[i]
  /\ \A i \in 1..(Len(s) - k) : From(s, k)[i] = s[k + i]
  /\ s = SubSeq(s, 1, k) \o From(s, k)

\* A text, cut in two.
LEMMA CutInTwo ==
  ASSUME NEW C, NEW s \in Seq(C), NEW k \in 0..Len(s)
  PROVE  Parting(s, k, C)
<1>1. PICK x, y, n : x = SubSeq(s, 1, k) /\ y = From(s, k) /\ n = Len(s)
  OBVIOUS
<1>2. /\ n \in Nat /\ k \in Nat /\ k <= n
      /\ x \in Seq(C) /\ Len(x) = k /\ \A i \in 1..k : x[i] = s[i]
      /\ y \in Seq(C) /\ Len(y) = n - k /\ \A i \in 1..(n - k) : y[i] = s[k + i]
  BY <1>1 DEF From
<1>3. PICK z : z = x \o y
  OBVIOUS
<1>4. /\ z \in Seq(C) /\ Len(z) = n
      /\ \A i \in 1..k : z[i] = x[i]
      /\ \A i \in 1..(n - k) : z[k + i] = y[i]
  <2>1. /\ z \in Seq(C) /\ Len(z) = Len(x) + Len(y)
        /\ \A i \in 1..Len(x) : z[i] = x[i]
        /\ \A i \in 1..Len(y) : z[Len(x) + i] = y[i]
    <3>1. Len(x) \in Nat /\ Len(y) \in Nat
      BY <1>2
    <3>2. \A i \in 1..Len(x) : i \in 1..(Len(x) + Len(y)) /\ i <= Len(x)
      BY <3>1
    <3>3. \A i \in 1..Len(y) : /\ Len(x) + i \in 1..(Len(x) + Len(y))
                               /\ ~(Len(x) + i <= Len(x)) /\ (Len(x) + i) - Len(x) = i
      BY <3>1
    <3>4. /\ z \in Seq(C) /\ Len(z) = Len(x) + Len(y)
          /\ \A i \in 1..(Len(x) + Len(y)) : z[i] = IF i <= Len(x) THEN x[i] ELSE y[i - Len(x)]
      BY <1>2, <1>3, ConcatProperties
    <3> QED
      BY <3>2, <3>3, <3>4
  <2>2. Len(x) = k /\ Len(y) = n - k /\ Len(x) + Len(y) = n
    BY <1>2
  <2> QED
    BY <2>1, <2>2
<1>5. \A i \in 1..n : z[i] = s[i]
  <2>1. SUFFICES ASSUME NEW i \in 1..n PROVE z[i] = s[i]
    OBVIOUS
  <2>2. CASE i <= k
    BY <1>2, <1>4, <2>2
  <2>3. CASE i > k
    <3>1. PICK j : j = i - k
      OBVIOUS
    <3>2. j \in 1..(n - k) /\ k + j = i
      BY <1>2, <2>3, <3>1
    <3>3. z[k + j] = y[j] /\ y[j] = s[k + j]
      BY <1>2, <1>4, <3>2
    <3> QED
      BY <3>2, <3>3
  <2> QED
    BY <1>2, <2>2, <2>3
<1>6. z = s
  BY <1>1, <1>4, <1>5
<1> QED
  BY <1>1, <1>2, <1>3, <1>6, Zenon DEF Parting

\* A text and what it begins with.
LEMMA PrefixParts ==
  ASSUME NEW C, NEW w \in Seq(C), NEW t \in Seq(C)
  PROVE  IsPrefix(w, t) => /\ Len(w) \in 0..Len(t)
                           /\ t = w \o From(t, Len(w)) /\ From(t, Len(w)) \in Seq(C)
<1> SUFFICES ASSUME IsPrefix(w, t)
             PROVE  /\ Len(w) \in 0..Len(t)
                    /\ t = w \o From(t, Len(w)) /\ From(t, Len(w)) \in Seq(C)
  OBVIOUS
<1>1. PICK k, x, y : k = Len(w) /\ x = SubSeq(t, 1, k) /\ y = From(t, k)
  OBVIOUS
<1>2. k \in 0..Len(t)
  BY <1>1 DEF IsPrefix
<1>3. x = SubSeq(w, 1, k)
  BY <1>1 DEF IsPrefix
<1>4. SubSeq(w, 1, k) = w
  <2>1. PICK z : z = SubSeq(w, 1, k)
    OBVIOUS
  <2>2. k \in Nat /\ z \in Seq(C) /\ Len(z) = k /\ \A i \in 1..k : z[i] = w[i]
    BY <1>1, <2>1
  <2>3. z = w
    BY <1>1, <2>2
  <2> QED
    BY <2>1, <2>3
<1>5. t = x \o y /\ y \in Seq(C)
  <2>1. t = SubSeq(t, 1, k) \o From(t, k) /\ From(t, k) \in Seq(C)
    BY <1>2, CutInTwo DEF Parting
  <2> QED
    BY <1>1, <2>1, Zenon
<1> QED
  BY <1>1, <1>2, <1>3, <1>4, <1>5

\* The characters counted: none, or one.
LEMMA CountFacts ==
  ASSUME NEW C, NEW s \in Seq(C), NEW c
  PROVE  /\ CountOf(s, c) = 0 <=> \A i \in 1..Len(s) : s[i] # c
         /\ CountOf(s, c) = 1 <=> \E k \in 1..Len(s) : s[k] = c /\ \A i \in 1..Len(s) : s[i] = c => i = k
<1>1. PICK n, I : n = Len(s) /\ I = {i \in DOMAIN s : s[i] = c}
  OBVIOUS
<1>2. n \in Nat /\ DOMAIN s = 1..n
  BY <1>1
<1>3. I \in SUBSET (1..n) /\ IsFiniteSet(1..n)
  BY <1>1, <1>2, FS_Interval
<1>4. IsFiniteSet(I)
  BY <1>3, FS_Subset
<1>5. Cardinality(I) = 0 <=> I = {}
  BY <1>4, FS_EmptySet
<1>6. Cardinality(I) = 1 <=> \E x : I = {x}
  BY <1>4, FS_Singleton
<1>7. CountOf(s, c) = Cardinality(I)
  BY <1>1 DEF CountOf
<1>8. I = {} <=> \A i \in 1..n : s[i] # c
  BY <1>1, <1>2
<1>9. (\E x : I = {x}) <=> \E k \in 1..n : s[k] = c /\ \A i \in 1..n : s[i] = c => i = k
  <2>1. ASSUME NEW x, I = {x} PROVE \E k \in 1..n : s[k] = c /\ \A i \in 1..n : s[i] = c => i = k
    <3>1. x \in I /\ \A i \in I : i = x
      BY <2>1
    <3> QED
      BY <1>1, <1>2, <3>1
  <2>2. ASSUME NEW k \in 1..n, s[k] = c, \A i \in 1..n : s[i] = c => i = k PROVE I = {k}
    BY <1>1, <1>2, <2>2
  <2> QED
    BY <2>1, <2>2
<1> QED
  BY <1>1, <1>5, <1>6, <1>7, <1>8, <1>9

\* The base of a name: what follows its last slash.
LEMMA BaseFacts ==
  ASSUME NEW C, NEW name \in Seq(C)
  PROVE  \E k \in 0..Len(name) :
           /\ Base(name) = From(name, k) /\ (k # 0 => name[k] = "/")
           /\ \A i \in 1..Len(name) : name[i] = "/" => i <= k
<1>1. PICK n, slashes, I :
        /\ n = Len(name) /\ slashes = {0} \cup {i \in DOMAIN name : name[i] = "/"}
        /\ I = {j \in 1..(n + 1) : j - 1 \in slashes}
  OBVIOUS
<1>2. n \in Nat /\ DOMAIN name = 1..n
  BY <1>1
<1>3. 1 \in I /\ I \subseteq 1..(n + 1)
  BY <1>1, <1>2
<1>4. PICK k \in 0..(n + 1) : k + 1 \in I /\ \A i \in I : i <= k + 1
  <2>1. PICK m : m = n + 1
    OBVIOUS
  <2>2. m \in Nat /\ I \subseteq 1..m /\ I # {}
    BY <1>2, <1>3, <2>1
  <2>3. \E k \in 0..m : k + 1 \in I /\ \A i \in I : i <= k + 1
    BY <2>2, LastPosition
  <2> QED
    BY <2>1, <2>3
<1>5. k \in slashes /\ \A j \in slashes : j <= k
  <2>1. k \in slashes
    BY <1>1, <1>2, <1>4
  <2>2. ASSUME NEW j \in slashes PROVE j <= k
    <3>1. j \in 0..n
      BY <1>1, <1>2
    <3>2. j + 1 \in I
      BY <1>1, <1>2, <3>1
    <3> QED
      BY <1>2, <1>4, <3>1, <3>2
  <2> QED
    BY <2>1, <2>2
<1>6. \A j \in slashes : j \in 0..n
  BY <1>1, <1>2
<1>7. PICK at : at = CHOOSE i \in slashes : \A j \in slashes : j <= i
  OBVIOUS
<1>8. at \in slashes /\ \A j \in slashes : j <= at
  BY <1>5, <1>7
<1>9. Base(name) = From(name, at)
  BY <1>1, <1>7, Zenon DEF Base
<1>10. at \in 0..n /\ (at # 0 => name[at] = "/")
  BY <1>1, <1>6, <1>8
<1>11. \A i \in 1..n : name[i] = "/" => i <= at
  BY <1>1, <1>2, <1>8
<1> QED
  BY <1>1, <1>9, <1>10, <1>11

\* What is left of a path begins with a slash.
LEMMA StrippedType ==
  ASSUME NEW C, "/" \in C, NEW url \in Seq(C), NEW prefixes \in Seq(Seq(C))
  PROVE  /\ Stripped(url, prefixes) \in Seq(C)
         /\ IsPrefix(<<"/">>, Stripped(url, prefixes))
<1>1. PICK marks, p, hits, rest, S :
        /\ marks = Occurrences(url, <<"?">>, 0)
        /\ p = (IF marks = {} THEN url ELSE SubSeq(url, 1, Leftmost(marks)))
        /\ hits = {i \in DOMAIN prefixes : prefixes[i] # <<>> /\ IsPrefix(prefixes[i], p)}
        /\ rest = (IF hits = {} THEN p ELSE From(p, Len(prefixes[Leftmost(hits)])))
        /\ S = <<"/">>
  OBVIOUS
<1>2. Stripped(url, prefixes) = IF IsPrefix(S, rest) THEN rest ELSE S \o rest
  BY <1>1, Zenon DEF Stripped
<1>3. p \in Seq(C)
  <2>1. marks # {} => Leftmost(marks) \in 0..Len(url)
    <3>1. marks = {i \in 0..(Len(url) - 1) : url[i + 1] = "?"}
      BY <1>1, OccurrencesOfOne
    <3>2. marks \subseteq Nat /\ marks \subseteq 0..Len(url)
      BY <3>1
    <3> QED
      BY <3>2, LeftmostExists
  <2> QED
    BY <1>1, <2>1, CutInTwo DEF Parting
<1>4. rest \in Seq(C)
  <2>1. CASE hits = {}
    BY <1>1, <1>3, <2>1
  <2>2. CASE hits # {}
    <3>1. hits \subseteq Nat /\ hits \subseteq DOMAIN prefixes
      BY <1>1
    <3>2. PICK i : i = Leftmost(hits)
      OBVIOUS
    <3>3. i \in hits
      BY <2>2, <3>1, <3>2, LeftmostExists
    <3>4. PICK w : w = prefixes[i]
      OBVIOUS
    <3>5. w \in Seq(C) /\ IsPrefix(w, p)
      BY <1>1, <3>1, <3>3, <3>4
    <3>6. From(p, Len(w)) \in Seq(C)
      BY <1>3, <3>5, PrefixParts
    <3> QED
      BY <1>1, <2>2, <3>2, <3>4, <3>6
  <2> QED
    BY <2>1, <2>2
<1>5. S \in Seq(C)
  BY <1>1
<1>6. S \o rest \in Seq(C) /\ IsPrefix(S, S \o rest)
  BY <1>4, <1>5, TwoTexts
<1> QED
  BY <1>1, <1>2, <1>4, <1>6

\* Where a path has the marker.
LEMMA OccurrencesOfMarker ==
  ASSUME NEW C, NEW s \in Seq(C)
  PROVE  Occurrences(s, Marker, 0)
           = {i \in 0..(Len(s) - 3) : s[i + 1] = "/" /\ s[i + 2] = "-" /\ s[i + 3] = "/"}
<1>1. Len(Marker) = 3 /\ DOMAIN Marker = 1..3 /\ Marker[1] = "/" /\ Marker[2] = "-" /\ Marker[3] = "/"
  BY DEF Marker
<1>2. \A j \in 1..3 : j = 1 \/ j = 2 \/ j = 3
  OBVIOUS
<1>3. 1 \in 1..3 /\ 2 \in 1..3 /\ 3 \in 1..3
  OBVIOUS
<1>4. ASSUME NEW i
      PROVE  (\A j \in 1..3 : s[i + j] = Marker[j])
               <=> s[i + 1] = "/" /\ s[i + 2] = "-" /\ s[i + 3] = "/"
  BY <1>1, <1>2, <1>3
<1> QED
  BY <1>1, <1>4 DEF Occurrences

\* Five texts, in two ways.
LEMMA ConcatFive ==
  ASSUME NEW S, Concatenates(S), Associates(S),
         NEW z \in S, NEW x \in S, NEW d \in S, NEW y \in S, NEW t \in S
  PROVE  Cat(Cat(Cat(Cat(z, x), d), y), t) = Cat(z, Cat(Cat(Cat(x, d), y), t))
<1>1. Cat(x, d) \in S
  BY DEF Concatenates, Cat
<1>2. Cat(Cat(z, x), d) = Cat(z, Cat(x, d))
  BY DEF Associates, Cat
<1>3. PICK w : w = Cat(x, d)
  OBVIOUS
<1>4. Cat(Cat(Cat(z, w), y), t) = Cat(z, Cat(Cat(w, y), t))
  BY <1>1, <1>3, ConcatFour
<1> QED
  BY <1>2, <1>3, <1>4, Zenon

InTwoParts(p, name, base, v) ==
  p = ((<<"/">> \o name) \o Marker) \o (((base \o <<"-">>) \o v) \o <<Tgz>>)

\* The path of a tarball, in two parts: up to the file, and the file.
LEMMA TarballParts ==
  ASSUME NEW C, {"/", "-", Tgz} \subseteq C, NEW name \in Seq(C), NEW base \in Seq(C),
         base = Base(name), NEW v \in Seq(C)
  PROVE  /\ InTwoParts(TarballPath(name, v), name, base, v)
         /\ TarballPath(name, v) \in Seq(C)
<1>1. PICK S, M, D, T, X : S = <<"/">> /\ M = Marker /\ D = <<"-">> /\ T = <<Tgz>> /\ X = Seq(C)
  OBVIOUS
<1>2. Concatenates(X) /\ Associates(X)
  BY <1>1, Concats
<1>3. S \in X /\ M \in X /\ D \in X /\ T \in X /\ name \in X /\ base \in X /\ v \in X
  BY <1>1 DEF Marker
<1>4. PICK z : z = (S \o name) \o M
  OBVIOUS
<1>5. z \in X
  <2>1. S \o name \in X
    BY <1>2, <1>3 DEF Concatenates
  <2> QED
    BY <1>2, <1>3, <1>4, <2>1 DEF Concatenates
<1>6. Cat(Cat(Cat(Cat(z, base), D), v), T) = Cat(z, Cat(Cat(Cat(base, D), v), T))
  BY <1>2, <1>3, <1>5, ConcatFive
<1>7. TarballPath(name, v) = Cat(Cat(Cat(Cat(z, base), D), v), T)
  BY <1>1, <1>4, Zenon DEF TarballPath, Cat
<1>8. Cat(Cat(Cat(Cat(z, base), D), v), T) \in X
  <2>1. \A x, y \in X : Cat(x, y) \in X
    BY <1>2 DEF Concatenates, Cat
  <2> QED
    BY <1>3, <1>5, <2>1
<1> QED
  BY <1>1, <1>4, <1>6, <1>7, <1>8, Zenon DEF Cat, InTwoParts

\* supplychain.go:899: a path that is read as a package is the path of its tarball.
THEOREM ReadIsTarball ==
  ASSUME NEW C, {"/", "-", Tgz} \subseteq C, NEW url \in Seq(C), NEW prefixes \in Seq(Seq(C)),
         NEW read, read = parseRegistryPath(url, prefixes), read.ok
  PROVE  PackageName(read.name) /\ Stripped(url, prefixes) = TarballPath(read.name, read.version)
<1>1. PICK p, marks, at, name, file, stem, base, v :
        /\ p = Stripped(url, prefixes) /\ marks = Occurrences(p, Marker, 0)
        /\ at = Leftmost(marks) /\ name = SubSeq(p, 2, at) /\ file = From(p, at + 3)
        /\ stem = Front(file) /\ base = Base(name) /\ v = VersionOf(stem, base)
  OBVIOUS
<1>2. parseRegistryPath(url, prefixes)
        = IF marks = {} \/ at < 1 THEN NotAPackage
          ELSE IF ~NamesTarball(name, file) \/ v = <<>> THEN NotAPackage
          ELSE [ok |-> TRUE, name |-> name, version |-> v]
  BY <1>1, Zenon DEF parseRegistryPath
<1>3. /\ marks # {} /\ ~(at < 1) /\ NamesTarball(name, file) /\ v # <<>>
      /\ read = [ok |-> TRUE, name |-> name, version |-> v]
  <2>1. ~NotAPackage.ok
    BY DEF NotAPackage
  <2> QED
    BY <1>2, <2>1
<1>4. p \in Seq(C) /\ IsPrefix(<<"/">>, p)
  BY <1>1, StrippedType
<1>5. PICK n : n = Len(p)
  OBVIOUS
<1>6. /\ n \in Nat /\ at \in 0..(n - 3)
      /\ p[at + 1] = "/" /\ p[at + 2] = "-" /\ p[at + 3] = "/"
  <2>4. Occurrences(p, Marker, 0)
          = {i \in 0..(Len(p) - 3) : p[i + 1] = "/" /\ p[i + 2] = "-" /\ p[i + 3] = "/"}
    <3>1. p \in Seq(C)
      BY <1>4
    <3> QED
      BY <3>1, OccurrencesOfMarker
  <2>1. marks = {i \in 0..(n - 3) : p[i + 1] = "/" /\ p[i + 2] = "-" /\ p[i + 3] = "/"}
    BY <1>1, <1>5, <2>4, Zenon
  <2>2. marks \subseteq Nat
    BY <2>1
  <2>3. at \in marks
    BY <1>1, <1>3, <2>2, LeftmostExists
  <2> QED
    BY <1>4, <1>5, <2>1, <2>3
<1>7. at \in 1..(n - 3)
  BY <1>3, <1>6
<1>8. PICK k, a : k = at + 3 /\ a = SubSeq(p, 1, k)
  OBVIOUS
<1>9. /\ k \in 0..n /\ a \in Seq(C) /\ file \in Seq(C) /\ Len(a) = k
      /\ \A i \in 1..k : a[i] = p[i]
      /\ p = a \o file
  <2>1. k \in 0..Len(p)
    BY <1>5, <1>6, <1>8
  <2>2. /\ SubSeq(p, 1, k) \in Seq(C) /\ From(p, k) \in Seq(C) /\ Len(SubSeq(p, 1, k)) = k
        /\ \A i \in 1..k : SubSeq(p, 1, k)[i] = p[i]
        /\ p = SubSeq(p, 1, k) \o From(p, k)
    <3>1. p \in Seq(C)
      BY <1>4
    <3>2. Parting(p, k, C)
      BY <2>1, <3>1, CutInTwo
    <3> QED
      BY <3>2, Zenon DEF Parting
  <2>3. file = From(p, k)
    BY <1>1, <1>8
  <2> QED
    BY <1>5, <1>8, <2>1, <2>2, <2>3, Zenon
<1>10. p[1] = "/"
  <2>1. PICK S : S = <<"/">>
    OBVIOUS
  <2>2. S \in Seq({"/"}) /\ Len(S) = 1 /\ S[1] = "/"
    BY <2>1
  <2>3. SubSeq(S, 1, 1) = SubSeq(p, 1, 1) /\ 1 <= n
    BY <1>4, <1>5, <2>1, <2>2 DEF IsPrefix
  <2>4. SubSeq(S, 1, 1)[1] = S[1] /\ SubSeq(p, 1, 1)[1] = p[1]
    BY <1>4, <1>5, <1>6, <2>2, <2>3
  <2> QED
    BY <2>2, <2>3, <2>4
<1>11. name \in Seq(C) /\ Len(name) = at - 1 /\ \A i \in 1..(at - 1) : name[i] = p[i + 1]
  <2>1. PICK x : x = SubSeq(p, 2, at)
    OBVIOUS
  <2>2. p \in Seq(C) /\ at \in Nat \ {0} /\ at <= Len(p) /\ at - 2 + 1 = at - 1
    BY <1>4, <1>5, <1>6, <1>7
  <2>3. x \in Seq(C) /\ Len(x) = at - 1 /\ \A i \in 1..(at - 1) : x[i] = p[i + 1]
    BY <2>1, <2>2
  <2> QED
    BY <1>1, <2>1, <2>3
<1>12. a = (<<"/">> \o name) \o Marker
  <2>1. PICK x, b : x = <<"/">> \o name /\ b = x \o Marker
    OBVIOUS
  <2>2. /\ x \in Seq(C) /\ Len(x) = at /\ x[1] = "/"
        /\ \A i \in 1..(at - 1) : x[1 + i] = name[i]
    <3>1. PICK S : S = <<"/">>
      OBVIOUS
    <3>2. S \in Seq(C) /\ Len(S) = 1 /\ S[1] = "/"
      BY <3>1
    <3>3. 1 + Len(name) = at /\ 1 \in 1..1
      BY <1>7, <1>11
    <3> QED
      BY <1>11, <2>1, <3>1, <3>2, <3>3, TwoTexts
  <2>3. /\ b \in Seq(C) /\ Len(b) = k
        /\ \A i \in 1..at : b[i] = x[i]
        /\ b[at + 1] = "/" /\ b[at + 2] = "-" /\ b[at + 3] = "/"
    <3>1. PICK M : M = Marker
      OBVIOUS
    <3>2. M \in Seq(C) /\ Len(M) = 3 /\ M[1] = "/" /\ M[2] = "-" /\ M[3] = "/"
      BY <3>1 DEF Marker
    <3>5. /\ x \o M \in Seq(C) /\ Len(x \o M) = Len(x) + Len(M)
          /\ \A i \in 1..Len(x) : (x \o M)[i] = x[i]
          /\ \A i \in 1..Len(M) : (x \o M)[Len(x) + i] = M[i]
      <4>1. x \in Seq(C) /\ M \in Seq(C)
        BY <2>2, <3>2
      <4> QED
        BY <4>1, TwoTexts
    <3>3. /\ b \in Seq(C) /\ Len(b) = Len(x) + 3
          /\ \A i \in 1..Len(x) : b[i] = x[i]
          /\ \A i \in 1..3 : b[Len(x) + i] = M[i]
      <4>1. Len(M) = 3 /\ b = x \o M
        BY <2>1, <3>1, <3>2
      <4> QED
        BY <3>5, <4>1
    <3>4. 1 \in 1..3 /\ 2 \in 1..3 /\ 3 \in 1..3
      OBVIOUS
    <3> QED
      BY <1>8, <2>2, <3>2, <3>3, <3>4
  <2>4. \A i \in 1..k : b[i] = a[i]
    <3>1. SUFFICES ASSUME NEW i \in 1..k PROVE b[i] = a[i]
      OBVIOUS
    <3>2. CASE i = 1
      BY <1>7, <1>9, <1>10, <2>2, <2>3, <3>2
    <3>3. CASE i \in 2..at
      <4>1. PICK j : j = i - 1
        OBVIOUS
      <4>2. j \in 1..(at - 1) /\ 1 + j = i /\ j + 1 = i /\ i \in 1..at
        BY <1>7, <3>3, <4>1
      <4>3. b[i] = x[i] /\ x[i] = name[j] /\ name[j] = p[i] /\ a[i] = p[i]
        BY <1>9, <1>11, <2>2, <2>3, <4>2
      <4> QED
        BY <4>3
    <3>4. CASE i \in {at + 1, at + 2, at + 3}
      BY <1>6, <1>9, <2>3, <3>4
    <3> QED
      BY <1>7, <1>8, <3>2, <3>3, <3>4
  <2>5. a \in Seq(C) /\ b \in Seq(C) /\ Len(a) = k /\ Len(b) = k
    BY <1>9, <2>3
  <2>6. b = a
    BY <2>4, <2>5, SeqEqual
  <2> QED
    BY <2>1, <2>6
<1>13. PackageName(name) /\ file # <<>> /\ Last(file) = Tgz
  BY <1>3 DEF NamesTarball
<1>14. file = stem \o <<Tgz>> /\ stem \in Seq(C)
  <2>1. PICK m : m = Len(file)
    OBVIOUS
  <2>2. m \in Nat \ {0} /\ m - 1 \in 0..m
    BY <1>9, <1>13, <2>1
  <2>3. PICK y : y = From(file, m - 1)
    OBVIOUS
  <2>8. PICK l : l = m - 1
    OBVIOUS
  <2>9. l \in 0..Len(file) /\ Len(file) - l = 1 /\ l + 1 = m /\ 1 \in 1..1
    BY <2>1, <2>2, <2>8
  <2>10. /\ SubSeq(file, 1, l) \in Seq(C) /\ From(file, l) \in Seq(C)
         /\ Len(From(file, l)) = Len(file) - l
         /\ \A i \in 1..(Len(file) - l) : From(file, l)[i] = file[l + i]
         /\ file = SubSeq(file, 1, l) \o From(file, l)
    <3>1. file \in Seq(C) /\ l \in 0..Len(file)
      BY <1>9, <2>9
    <3>2. Parting(file, l, C)
      BY <3>1, CutInTwo
    <3> QED
      BY <3>2, Zenon DEF Parting
  <2>11. stem = SubSeq(file, 1, l) /\ y = From(file, l)
    BY <1>1, <2>1, <2>3, <2>8, Zenon DEF Front
  <2>4. stem \in Seq(C) /\ file = stem \o y /\ y \in Seq(C)
    BY <2>10, <2>11, Zenon
  <2>5. Len(y) = 1 /\ y[1] = file[m]
    BY <2>9, <2>10, <2>11, Zenon
  <2>6. y[1] = Tgz
    BY <1>13, <2>1, <2>5 DEF Last
  <2>7. y = <<Tgz>>
    <3>1. PICK T : T = <<Tgz>>
      OBVIOUS
    <3>2. T \in Seq(C) /\ Len(T) = 1 /\ T[1] = Tgz
      BY <3>1
    <3>3. \A i \in 1..1 : y[i] = T[i]
      BY <2>6, <3>2
    <3>4. y = T
      BY <2>4, <2>5, <3>2, <3>3, SeqEqual
    <3> QED
      BY <3>1, <3>4
  <2> QED
    BY <2>4, <2>7
<1>15. base \in Seq(C)
  <2>1. PICK j \in 0..Len(name) : Base(name) = From(name, j)
    BY <1>11, BaseFacts
  <2>2. From(name, j) \in Seq(C)
    BY <1>11, CutInTwo DEF Parting
  <2> QED
    BY <1>1, <2>1, <2>2, Zenon
<1>16. stem = (base \o <<"-">>) \o v /\ v \in Seq(C)
  <2>1. PICK w : w = base \o <<"-">>
    OBVIOUS
  <2>2. w \in Seq(C) /\ Len(w) = Len(base) + 1
    <3>1. PICK D : D = <<"-">>
      OBVIOUS
    <3>2. D \in Seq(C) /\ Len(D) = 1
      BY <3>1
    <3> QED
      BY <1>15, <2>1, <3>1, <3>2, TwoTexts
  <2>3. v = IF IsPrefix(w, stem) THEN From(stem, Len(base) + 1) ELSE <<>>
    BY <1>1, <2>1, Zenon DEF VersionOf
  <2>4. IsPrefix(w, stem) /\ v = From(stem, Len(base) + 1)
    BY <1>3, <2>3
  <2> QED
    BY <1>14, <2>1, <2>2, <2>4, PrefixParts
<1>17. p = TarballPath(name, v)
  <2>1. InTwoParts(TarballPath(name, v), name, base, v)
    <3>1. base = Base(name) /\ name \in Seq(C) /\ base \in Seq(C) /\ v \in Seq(C)
      BY <1>1, <1>11, <1>15, <1>16
    <3> QED
      BY <3>1, TarballParts
  <2> QED
    BY <1>9, <1>12, <1>14, <1>16, <2>1, Zenon DEF InTwoParts
<1> QED
  BY <1>1, <1>3, <1>13, <1>17

Frame(n) == (<<"/">> \o n) \o Marker

Frames(q, n, C) ==
  /\ q \in Seq(C) /\ Len(q) = Len(n) + 4 /\ Len(n) \in Nat
  /\ q[1] = "/" /\ q[Len(n) + 2] = "/" /\ q[Len(n) + 3] = "-" /\ q[Len(n) + 4] = "/"
  /\ \A i \in 1..Len(n) : q[i + 1] = n[i]

\* A name between slashes.
LEMMA NameFramed ==
  ASSUME NEW C, {"/", "-"} \subseteq C, NEW n \in Seq(C)
  PROVE  Frames(Frame(n), n, C)
<1>0. PICK q : q = Frame(n)
  OBVIOUS
<1>1. PICK l, S, x, M : l = Len(n) /\ S = <<"/">> /\ x = S \o n /\ M = Marker
  OBVIOUS
<1>2. l \in Nat /\ S \in Seq(C) /\ Len(S) = 1 /\ S[1] = "/"
  BY <1>1
<1>3. M \in Seq(C) /\ Len(M) = 3 /\ M[1] = "/" /\ M[2] = "-" /\ M[3] = "/"
  BY <1>1 DEF Marker
<1>4. /\ x \in Seq(C) /\ Len(x) = 1 + l
      /\ \A i \in 1..1 : x[i] = S[i]
      /\ \A i \in 1..l : x[1 + i] = n[i]
  BY <1>1, <1>2, TwoTexts
<1>5. /\ q \in Seq(C) /\ Len(q) = (1 + l) + 3
      /\ \A i \in 1..(1 + l) : q[i] = x[i]
      /\ \A i \in 1..3 : q[(1 + l) + i] = M[i]
  <2>1. q = x \o M /\ x \in Seq(C) /\ M \in Seq(C)
    BY <1>0, <1>1, <1>3, <1>4, Zenon DEF Frame
  <2>3. x \in Seq(C) /\ M \in Seq(C)
    BY <2>1
  <2>4. /\ x \o M \in Seq(C) /\ Len(x \o M) = Len(x) + Len(M)
        /\ \A i \in 1..Len(x) : (x \o M)[i] = x[i]
        /\ \A i \in 1..Len(M) : (x \o M)[Len(x) + i] = M[i]
    BY <2>3, TwoTexts
  <2>2. /\ q \in Seq(C) /\ Len(q) = Len(x) + Len(M)
        /\ \A i \in 1..Len(x) : q[i] = x[i]
        /\ \A i \in 1..Len(M) : q[Len(x) + i] = M[i]
    BY <2>1, <2>4, Zenon
  <2> QED
    BY <1>3, <1>4, <2>2
<1>6. q[1] = "/"
  <2>1. 1 \in 1..1 /\ 1 \in 1..(1 + l)
    BY <1>2
  <2> QED
    BY <1>2, <1>4, <1>5, <2>1
<1>7. q[l + 2] = "/" /\ q[l + 3] = "-" /\ q[l + 4] = "/"
  <2>1. /\ 1 \in 1..3 /\ 2 \in 1..3 /\ 3 \in 1..3
        /\ (1 + l) + 1 = l + 2 /\ (1 + l) + 2 = l + 3 /\ (1 + l) + 3 = l + 4
    BY <1>2
  <2>2. q[(1 + l) + 1] = M[1] /\ q[(1 + l) + 2] = M[2] /\ q[(1 + l) + 3] = M[3]
    BY <1>5, <2>1
  <2> QED
    BY <1>3, <2>1, <2>2
<1>8. ASSUME NEW i \in 1..l PROVE q[i + 1] = n[i]
  <2>1. 1 + i = i + 1 /\ 1 + i \in 1..(1 + l)
    BY <1>2
  <2>2. q[1 + i] = x[1 + i] /\ x[1 + i] = n[i]
    BY <1>4, <1>5, <2>1
  <2> QED
    BY <2>1, <2>2
<1> QED
  <2>1. Len(q) = l + 4
    BY <1>2, <1>5
  <2> QED
    BY <1>0, <1>1, <1>2, <1>5, <1>6, <1>7, <1>8, <2>1 DEF Frames

NoMarkerAt(q, i) == ~(q[i + 1] = "/" /\ q[i + 2] = "-" /\ q[i + 3] = "/")

\* No marker begins in the name of a package, unless the package is called "-".
LEMMA NoMarkerInName ==
  ASSUME NEW C, NEW n \in Seq(C), PackageName(n), Base(n) # <<"-">>,
         NEW q, Frames(q, n, C), NEW i \in 0..Len(n)
  PROVE  NoMarkerAt(q, i)
<1> SUFFICES ASSUME NEW l, l = Len(n), i \in 0..l, q[l + 2] = "/", \A j \in 1..l : q[j + 1] = n[j],
                    q[i + 1] = "/", q[i + 2] = "-", q[i + 3] = "/"
             PROVE  FALSE
  BY DEF Frames, NoMarkerAt
<1>1. l \in Nat \ {0} /\ Head(n) = n[1]
  BY DEF PackageName
<1>2. PICK k \in 0..l : /\ Base(n) = From(n, k) /\ (k # 0 => n[k] = "/")
                        /\ \A j \in 1..l : n[j] = "/" => j <= k
  BY BaseFacts
<1>3. \A j \in 1..l : n[j] = "/" => /\ n[1] = "@"
                                    /\ \A h \in 1..l : n[h] = "/" => h = j
  <2>1. SUFFICES ASSUME NEW j \in 1..l, n[j] = "/"
                 PROVE  n[1] = "@" /\ \A h \in 1..l : n[h] = "/" => h = j
    OBVIOUS
  <2>2. CountOf(n, "/") # 0
    BY <2>1, CountFacts
  <2>3. n[1] = "@" /\ CountOf(n, "/") = 1
    BY <1>1, <2>2 DEF PackageName
  <2>5. \E g \in 1..Len(n) : n[g] = "/" /\ \A h \in 1..Len(n) : n[h] = "/" => h = g
    BY <2>3, CountFacts
  <2>4. PICK g \in 1..l : \A h \in 1..l : n[h] = "/" => h = g
    BY <2>5
  <2> QED
    BY <2>1, <2>3, <2>4
<1>4. i = k
  <2>1. CASE i = 0
    <3>1. n[1] = "-" /\ ~ \E j \in 1..l : n[j] = "/"
      <4>1. 1 \in 1..l /\ i + 2 = 1 + 1
        BY <1>1, <2>1
      <4>2. n[1] = "-"
        BY <4>1
      <4> QED
        BY <1>3, <4>2
    <3> QED
      BY <1>2, <2>1, <3>1
  <2>2. CASE i # 0
    <3>1. i \in 1..l
      BY <2>2
    <3>2. n[i] = "/"
      BY <3>1
    <3>3. i <= k
      BY <1>2, <3>1, <3>2
    <3>4. k \in 1..l /\ n[k] = "/"
      BY <1>1, <1>2, <3>1, <3>3
    <3> QED
      BY <1>3, <3>1, <3>2, <3>4
  <2> QED
    BY <2>1, <2>2
<1>5. i < l
  <2>1. i = l => q[l + 2] = "-"
    OBVIOUS
  <2> QED
    BY <1>1, <2>1
<1>6. n[i + 1] = "-"
  <2>1. PICK j : j = i + 1
    OBVIOUS
  <2>2. j \in 1..l /\ i + 2 = j + 1
    BY <1>1, <1>5, <2>1
  <2> QED
    BY <2>1, <2>2
<1>7. i + 1 = l
  <2>1. SUFFICES ASSUME i + 1 # l PROVE FALSE
    OBVIOUS
  <2>2. PICK j : j = i + 2
    OBVIOUS
  <2>3. j \in 1..l /\ i + 3 = j + 1 /\ ~(j <= k)
    BY <1>1, <1>4, <1>5, <2>1, <2>2
  <2>4. n[j] = "/"
    BY <2>3
  <2> QED
    BY <1>2, <2>3, <2>4
<1>8. From(n, i) = <<"-">>
  <2>1. PICK x, D : x = From(n, i) /\ D = <<"-">>
    OBVIOUS
  <2>2. D \in Seq(C \cup {"-"}) /\ Len(D) = 1 /\ D[1] = "-"
    BY <2>1
  <2>3. l - i = 1 /\ i \in 0..Len(n)
    BY <1>1, <1>7
  <2>4. /\ x \in Seq(C) /\ Len(x) = l - i
        /\ \A j \in 1..(l - i) : x[j] = n[i + j]
    BY <2>1, <2>3, CutInTwo DEF Parting
  <2>5. Len(x) = 1 /\ x[1] = n[i + 1] /\ x \in Seq(C \cup {"-"})
    <3>1. 1 \in 1..(l - i)
      BY <2>3
    <3> QED
      BY <2>3, <2>4, <3>1
  <2>6. \A j \in 1..1 : x[j] = D[j]
    BY <1>6, <2>2, <2>5
  <2>7. x = D
    BY <2>2, <2>5, <2>6, SeqEqual
  <2> QED
    BY <2>1, <2>7
<1> QED
  BY <1>2, <1>4, <1>8

Slashless(v) == \A i \in 1..Len(v) : v[i] # "/"
StemOf(n, v) == (Base(n) \o <<"-">>) \o v
FileOf(n, v) == StemOf(n, v) \o <<Tgz>>

NamesVersion(f, n, v, C) ==
  /\ Base(n) \in Seq(C) /\ f \in Seq(C)
  /\ f # <<>> /\ Last(f) = Tgz /\ Front(f) = StemOf(n, v)
  /\ CountOf(f, "/") = 0
  /\ VersionOf(StemOf(n, v), Base(n)) = v

\* The file of a tarball: no slash is in it.
LEMMA TarballFile ==
  ASSUME NEW C, {"/", "-", Tgz} \subseteq C, NEW n \in Seq(C),
         NEW v \in Seq(C), Slashless(v)
  PROVE  NamesVersion(FileOf(n, v), n, v, C)
<1>0. PICK base, stem, f : base = Base(n) /\ stem = StemOf(n, v) /\ f = FileOf(n, v)
  OBVIOUS
<1>1. PICK D, T, w, b, l : /\ D = <<"-">> /\ T = <<Tgz>> /\ w = base \o D
                           /\ b = Len(base) /\ l = Len(v)
  OBVIOUS
<1>2. /\ D \in Seq(C) /\ Len(D) = 1 /\ D[1] = "-"
      /\ T \in Seq(C) /\ Len(T) = 1 /\ T[1] = Tgz
      /\ l \in Nat /\ 1 \in 1..1
  BY <1>1
<1>3. base \in Seq(C) /\ b \in Nat /\ \A i \in 1..b : base[i] # "/"
  <2>1. PICK k \in 0..Len(n) : /\ Base(n) = From(n, k)
                               /\ \A i \in 1..Len(n) : n[i] = "/" => i <= k
    BY BaseFacts
  <2>2. PICK x, m : x = From(n, k) /\ m = Len(n)
    OBVIOUS
  <2>3. /\ x \in Seq(C) /\ Len(x) = m - k /\ \A i \in 1..(m - k) : x[i] = n[k + i]
    BY <2>2, CutInTwo DEF Parting
  <2>4. ASSUME NEW i \in 1..(m - k) PROVE x[i] # "/"
    <3>1. PICK j : j = k + i
      OBVIOUS
    <3>2. m \in Nat /\ j \in 1..m /\ ~(j <= k)
      BY <2>2, <2>4, <3>1
    <3>3. n[j] # "/"
      BY <2>1, <2>2, <3>2
    <3> QED
      BY <2>3, <3>1, <3>3
  <2>5. base = x /\ b = m - k
    BY <1>0, <1>1, <2>1, <2>2, <2>3
  <2>6. Len(x) \in Nat
    BY <2>3
  <2> QED
    BY <2>3, <2>4, <2>5, <2>6
<1>4. /\ w \in Seq(C) /\ Len(w) = b + 1
      /\ \A i \in 1..b : w[i] = base[i]
      /\ \A i \in 1..1 : w[b + i] = D[i]
  <2>1. base \in Seq(C) /\ D \in Seq(C)
    BY <1>2, <1>3
  <2>2. /\ base \o D \in Seq(C) /\ Len(base \o D) = Len(base) + Len(D)
        /\ \A i \in 1..Len(base) : (base \o D)[i] = base[i]
        /\ \A i \in 1..Len(D) : (base \o D)[Len(base) + i] = D[i]
    BY <2>1, TwoTexts
  <2> QED
    BY <1>1, <1>2, <2>2, Zenon
<1>5. /\ stem \in Seq(C) /\ Len(stem) = (b + 1) + l
      /\ \A i \in 1..(b + 1) : stem[i] = w[i]
      /\ \A i \in 1..l : stem[(b + 1) + i] = v[i]
      /\ IsPrefix(w, stem) /\ From(stem, b + 1) = v
  <2>1. w \in Seq(C)
    BY <1>4
  <2>2. /\ w \o v \in Seq(C) /\ Len(w \o v) = Len(w) + Len(v)
        /\ \A i \in 1..Len(w) : (w \o v)[i] = w[i]
        /\ \A i \in 1..Len(v) : (w \o v)[Len(w) + i] = v[i]
        /\ IsPrefix(w, w \o v) /\ From(w \o v, Len(w)) = v
    BY <2>1, TwoTexts
  <2>3. stem = w \o v
    BY <1>0, <1>1, Zenon DEF StemOf
  <2>4. Len(w) = b + 1 /\ Len(v) = l
    BY <1>1, <1>4
  <2> QED
    BY <2>2, <2>3, <2>4, Zenon
<1>6. PICK m : m = (b + 1) + l
  OBVIOUS
<1>7. /\ f \in Seq(C) /\ Len(f) = m + 1
      /\ \A i \in 1..m : f[i] = stem[i]
      /\ \A i \in 1..1 : f[m + i] = T[i]
      /\ SubSeq(f, 1, m) = stem
  <2>1. stem \in Seq(C) /\ T \in Seq(C)
    BY <1>2, <1>5
  <2>2. /\ stem \o T \in Seq(C) /\ Len(stem \o T) = Len(stem) + Len(T)
        /\ \A i \in 1..Len(stem) : (stem \o T)[i] = stem[i]
        /\ \A i \in 1..Len(T) : (stem \o T)[Len(stem) + i] = T[i]
        /\ SubSeq(stem \o T, 1, Len(stem)) = stem
    BY <2>1, TwoTexts
  <2>3. f = stem \o T
    BY <1>0, <1>1, Zenon DEF FileOf
  <2> QED
    BY <1>2, <1>5, <1>6, <2>2, <2>3, Zenon
<1>8. m \in Nat /\ f # <<>>
  <2>1. m \in Nat
    BY <1>2, <1>3, <1>6
  <2> QED
    BY <1>7, <2>1
<1>9. Last(f) = Tgz
  <2>1. f[m + 1] = T[1]
    BY <1>2, <1>7
  <2> QED
    BY <1>2, <1>7, <2>1 DEF Last
<1>10. Front(f) = stem
  <2>1. Len(f) - 1 = m
    BY <1>7, <1>8
  <2> QED
    BY <1>7, <2>1 DEF Front
<1>11. ASSUME NEW i \in 1..(m + 1) PROVE f[i] # "/"
  <2>1. CASE i \in 1..b
    <3>1. i \in 1..m /\ i \in 1..(b + 1)
      BY <1>2, <1>3, <1>6, <2>1
    <3>2. f[i] = stem[i] /\ stem[i] = w[i] /\ w[i] = base[i]
      BY <1>4, <1>5, <1>7, <2>1, <3>1
    <3> QED
      BY <1>3, <2>1, <3>2
  <2>2. CASE i = b + 1
    <3>1. i \in 1..m /\ i \in 1..(b + 1)
      BY <1>2, <1>3, <1>6, <2>2
    <3>2. f[i] = stem[i] /\ stem[i] = w[i] /\ w[b + 1] = D[1]
      BY <1>2, <1>4, <1>5, <1>7, <3>1
    <3> QED
      BY <1>2, <2>2, <3>2
  <2>3. CASE i \in (b + 2)..m
    <3>1. PICK j : j = i - (b + 1)
      OBVIOUS
    <3>2. j \in 1..l /\ (b + 1) + j = i /\ i \in 1..m
      BY <1>2, <1>3, <1>6, <2>3, <3>1
    <3>3. f[i] = stem[i] /\ stem[i] = v[j]
      BY <1>5, <1>7, <3>2
    <3>4. v[j] # "/"
      BY <1>1, <3>2 DEF Slashless
    <3> QED
      BY <3>3, <3>4
  <2>4. CASE i = m + 1
    <3>1. f[m + 1] = Tgz
      BY <1>2, <1>7
    <3> QED
      BY <2>4, <3>1 DEF Tgz
  <2> QED
    <3>1. \/ i \in 1..b \/ i = b + 1 \/ i \in (b + 2)..m \/ i = m + 1
      <4>1. i \in 1..(m + 1) /\ m \in Nat /\ b \in Nat
        BY <1>3, <1>8, <1>11
      <4> QED
        BY <4>1
    <3> QED
      BY <2>1, <2>2, <2>3, <2>4, <3>1
<1>12. CountOf(f, "/") = 0
  <2>1. \A i \in 1..Len(f) : f[i] # "/"
    BY <1>7, <1>11
  <2> QED
    <3>1. f \in Seq(C)
      BY <1>7
    <3> QED
      BY <2>1, <3>1, CountFacts
<1>13. VersionOf(stem, base) = v
  BY <1>1, <1>5, Zenon DEF VersionOf
<1> QED
  BY <1>0, <1>3, <1>7, <1>8, <1>9, <1>10, <1>12, <1>13, Zenon DEF NamesVersion

\* supplychain.go:899: the path of a package's tarball is read as that package.
THEOREM TarballIsRead ==
  ASSUME NEW C, {"/", "-", Tgz} \subseteq C, NEW url, NEW prefixes,
         NEW n \in Seq(C), PackageName(n), Base(n) # <<"-">>,
         NEW v \in Seq(C), v # <<>>, Slashless(v),
         Stripped(url, prefixes) = TarballPath(n, v)
  PROVE  parseRegistryPath(url, prefixes) = [ok |-> TRUE, name |-> n, version |-> v]
<1>1. PICK p, marks, at, name, file, stem, base, w :
        /\ p = Stripped(url, prefixes) /\ marks = Occurrences(p, Marker, 0)
        /\ at = Leftmost(marks) /\ name = SubSeq(p, 2, at) /\ file = From(p, at + 3)
        /\ stem = Front(file) /\ base = Base(name) /\ w = VersionOf(stem, base)
  OBVIOUS
<1>2. parseRegistryPath(url, prefixes)
        = IF marks = {} \/ at < 1 THEN NotAPackage
          ELSE IF ~NamesTarball(name, file) \/ w = <<>> THEN NotAPackage
          ELSE [ok |-> TRUE, name |-> name, version |-> w]
  BY <1>1, Zenon DEF parseRegistryPath
<1>3. PICK l, b, q, s, f :
        /\ l = Len(n) /\ b = Base(n) /\ q = Frame(n)
        /\ s = StemOf(n, v) /\ f = FileOf(n, v)
  OBVIOUS
<1>4. /\ b \in Seq(C) /\ f \in Seq(C)
      /\ f # <<>> /\ Last(f) = Tgz /\ Front(f) = s
      /\ CountOf(f, "/") = 0 /\ VersionOf(s, b) = v
  <2>1. NamesVersion(FileOf(n, v), n, v, C)
    BY TarballFile
  <2> QED
    BY <1>3, <2>1, Zenon DEF NamesVersion
<1>5. p = q \o f
  <2>1. b \in Seq(C) /\ b = Base(n)
    BY <1>3, <1>4
  <2>2. InTwoParts(TarballPath(n, v), n, b, v)
    BY <2>1, TarballParts
  <2> QED
    BY <1>1, <1>3, <2>2, Zenon DEF InTwoParts, Frame, FileOf, StemOf
<1>6. /\ q \in Seq(C) /\ Len(q) = l + 4 /\ l \in Nat
      /\ q[1] = "/" /\ q[l + 2] = "/" /\ q[l + 3] = "-" /\ q[l + 4] = "/"
      /\ \A i \in 1..l : q[i + 1] = n[i]
  <2>1. Frames(Frame(n), n, C)
    BY NameFramed
  <2> QED
    BY <1>3, <2>1, Zenon DEF Frames
<1>7. /\ p \in Seq(C) /\ Len(p) = (l + 4) + Len(f) /\ Len(f) \in Nat
      /\ \A i \in 1..(l + 4) : p[i] = q[i]
      /\ From(p, l + 4) = f
  <2>1. q \in Seq(C) /\ f \in Seq(C)
    BY <1>4, <1>6
  <2>2. /\ q \o f \in Seq(C) /\ Len(q \o f) = Len(q) + Len(f)
        /\ \A i \in 1..Len(q) : (q \o f)[i] = q[i]
        /\ From(q \o f, Len(q)) = f
    BY <2>1, TwoTexts
  <2>3. Len(f) \in Nat
    BY <2>1
  <2> QED
    BY <1>5, <1>6, <2>2, <2>3, Zenon
<1>8. marks = {i \in 0..(Len(p) - 3) : p[i + 1] = "/" /\ p[i + 2] = "-" /\ p[i + 3] = "/"}
  <2>1. Occurrences(p, Marker, 0)
          = {i \in 0..(Len(p) - 3) : p[i + 1] = "/" /\ p[i + 2] = "-" /\ p[i + 3] = "/"}
    <3>1. p \in Seq(C)
      BY <1>7
    <3> QED
      BY <3>1, OccurrencesOfMarker
  <2> QED
    BY <1>1, <2>1, Zenon
<1>9. l + 1 \in marks
  <2>1. PICK i : i = l + 1
    OBVIOUS
  <2>2. /\ i \in 0..(Len(p) - 3) /\ i + 1 = l + 2 /\ i + 2 = l + 3 /\ i + 3 = l + 4
        /\ l + 2 \in 1..(l + 4) /\ l + 3 \in 1..(l + 4) /\ l + 4 \in 1..(l + 4)
    BY <1>6, <1>7, <2>1
  <2>3. p[i + 1] = "/" /\ p[i + 2] = "-" /\ p[i + 3] = "/"
    BY <1>6, <1>7, <2>2
  <2> QED
    BY <1>8, <2>1, <2>2, <2>3
<1>10. ASSUME NEW i \in marks PROVE l + 1 <= i
  <2>1. SUFFICES ASSUME i \in 0..l PROVE FALSE
    <3>1. i \in Nat
      BY <1>8, <1>10
    <3> QED
      BY <1>6, <3>1
  <2>2. i + 1 \in 1..(l + 4) /\ i + 2 \in 1..(l + 4) /\ i + 3 \in 1..(l + 4)
    BY <1>6, <2>1
  <2>3. q[i + 1] = "/" /\ q[i + 2] = "-" /\ q[i + 3] = "/"
    BY <1>7, <1>8, <1>10, <2>2
  <2>4. Frames(q, n, C) /\ i \in 0..Len(n)
    BY <1>3, <2>1, NameFramed
  <2>5. NoMarkerAt(q, i)
    BY <2>4, NoMarkerInName
  <2> QED
    BY <2>3, <2>5 DEF NoMarkerAt
<1>11. at = l + 1
  <2>1. marks \subseteq Nat /\ marks # {}
    BY <1>8, <1>9
  <2>2. at \in marks /\ \A j \in marks : at <= j
    BY <1>1, <2>1, LeftmostExists
  <2>3. at \in Nat /\ at <= l + 1 /\ l + 1 <= at
    BY <1>9, <1>10, <2>1, <2>2
  <2> QED
    BY <1>6, <2>3
<1>12. name = n
  <2>1. PICK j : j = l + 1
    OBVIOUS
  <2>2. j \in Nat /\ j <= Len(p) /\ 2 \in 1..(j + 1) /\ j - 2 + 1 = l
    BY <1>6, <1>7, <2>1
  <2>6. name = SubSeq(p, 2, j) /\ p \in Seq(C)
    BY <1>1, <1>7, <1>11, <2>1
  <2>3. name \in Seq(C) /\ Len(name) = l /\ \A i \in 1..l : name[i] = p[i + 1]
    BY <2>2, <2>6
  <2>4. ASSUME NEW i \in 1..l PROVE name[i] = n[i]
    <3>1. i + 1 \in 1..(l + 4)
      BY <1>6
    <3> QED
      BY <1>6, <1>7, <2>3, <3>1
  <2>5. Len(name) = Len(n) /\ \A i \in 1..Len(n) : name[i] = n[i]
    BY <1>3, <2>3, <2>4
  <2> QED
    BY <2>3, <2>5, SeqEqual
<1>13. file = f
  <2>1. at + 3 = l + 4
    BY <1>6, <1>11
  <2> QED
    BY <1>1, <1>7, <2>1
<1>14. w = v /\ NamesTarball(name, file)
  BY <1>1, <1>3, <1>4, <1>12, <1>13, Zenon DEF NamesTarball
<1>15. ~(at < 1) /\ marks # {}
  BY <1>6, <1>9, <1>11
<1> QED
  BY <1>2, <1>12, <1>14, <1>15

SlashOnce(t, C) ==
  /\ t \in Seq(C) /\ From(t, 1) \in Seq(C)
  /\ IsPrefix(<<"/">>, t) /\ t = <<"/">> \o From(t, 1)
  /\ ~IsPrefix(<<"/">>, From(t, 1))

\* The path of a tarball begins with the one slash before the name.
LEMMA TarballBegins ==
  ASSUME NEW C, {"/", "-", Tgz} \subseteq C, NEW n \in Seq(C), PackageName(n), NEW v \in Seq(C)
  PROVE  SlashOnce(TarballPath(n, v), C)
<1>0. PICK t : t = TarballPath(n, v)
  OBVIOUS
<1>1. PICK S, q, f, b : S = <<"/">> /\ q = Frame(n) /\ f = FileOf(n, v) /\ b = Base(n)
  OBVIOUS
<1>2. S \in Seq(C) /\ Len(S) = 1 /\ S[1] = "/"
  BY <1>1
<1>3. b \in Seq(C)
  <2>1. PICK k \in 0..Len(n) : Base(n) = From(n, k)
    BY BaseFacts
  <2>2. From(n, k) \in Seq(C)
    BY CutInTwo DEF Parting
  <2> QED
    BY <1>1, <2>1, <2>2, Zenon
<1>4. InTwoParts(TarballPath(n, v), n, b, v) /\ t \in Seq(C)
  BY <1>0, <1>1, <1>3, TarballParts
<1>5. t = q \o f
  BY <1>0, <1>1, <1>4, Zenon DEF InTwoParts, Frame, FileOf, StemOf
<1>6. Frames(q, n, C)
  BY <1>1, NameFramed
<1>7. f \in Seq(C)
  <2>1. PICK D, T : D = <<"-">> /\ T = <<Tgz>>
    OBVIOUS
  <2>2. D \in Seq(C) /\ T \in Seq(C) /\ Concatenates(Seq(C))
    BY <2>1, Concats
  <2>3. b \o D \in Seq(C)
    BY <1>3, <2>2 DEF Concatenates
  <2>4. PICK x : x = b \o D
    OBVIOUS
  <2>5. x \in Seq(C) /\ x \o v \in Seq(C)
    BY <2>2, <2>3, <2>4, Zenon DEF Concatenates
  <2>6. PICK y : y = x \o v
    OBVIOUS
  <2>7. y \in Seq(C) /\ y \o T \in Seq(C)
    BY <2>2, <2>5, <2>6, Zenon DEF Concatenates
  <2> QED
    BY <1>1, <2>1, <2>4, <2>6, <2>7, Zenon DEF FileOf, StemOf
<1>8. PICK l : l = Len(n)
  OBVIOUS
<1>9. /\ q \in Seq(C) /\ Len(q) = l + 4 /\ l \in Nat \ {0} /\ n[1] = Head(n)
      /\ q[1] = "/" /\ q[2] = n[1]
  <2>1. /\ q \in Seq(C) /\ Len(q) = l + 4 /\ l \in Nat
        /\ q[1] = "/" /\ \A i \in 1..l : q[i + 1] = n[i]
    BY <1>6, <1>8, Zenon DEF Frames
  <2>2. n # <<>>
    BY DEF PackageName
  <2>3. l # 0 /\ n[1] = Head(n)
    BY <1>8, <2>2
  <2>4. 1 \in 1..l /\ 1 + 1 = 2
    BY <2>1, <2>3
  <2>5. q[1 + 1] = n[1]
    BY <2>1, <2>4
  <2> QED
    BY <2>1, <2>3, <2>4, <2>5
<1>10. Len(t) = (l + 4) + Len(f) /\ Len(f) \in Nat /\ t[1] = "/" /\ t[2] = n[1]
  <2>1. q \in Seq(C)
    BY <1>9
  <2>2. Len(q \o f) = Len(q) + Len(f) /\ \A i \in 1..Len(q) : (q \o f)[i] = q[i]
    BY <1>7, <2>1, TwoTexts
  <2>3. 1 \in 1..Len(q) /\ 2 \in 1..Len(q)
    BY <1>9
  <2>4. Len(f) \in Nat
    BY <1>7
  <2> QED
    BY <1>5, <1>9, <2>2, <2>3, <2>4, Zenon
<1>11. n[1] # "/"
  <2>1. CASE Head(n) = "@"
    BY <1>9, <2>1
  <2>2. CASE Head(n) # "@"
    <3>1. CountOf(n, "/") = 0
      BY <2>2 DEF PackageName
    <3>2. \A i \in 1..Len(n) : n[i] # "/"
      BY <3>1, CountFacts
    <3>3. 1 \in 1..Len(n)
      BY <1>8, <1>9
    <3> QED
      BY <3>2, <3>3
  <2> QED
    BY <2>1, <2>2
<1>12. IsPrefix(S, t)
  <2>1. 1 <= Len(t) /\ Len(S) = 1
    BY <1>2, <1>9, <1>10
  <2>2. EndsAt(t, S, 1)
    <3>1. \A i \in 1..1 : 1 - 1 + i = i /\ i = 1
      OBVIOUS
    <3> QED
      BY <1>2, <1>9, <1>10, <3>1 DEF EndsAt
  <2> QED
    BY <1>2, <1>4, <2>1, <2>2, PrefixEnds
<1>13. t = S \o From(t, 1) /\ From(t, 1) \in Seq(C)
  BY <1>2, <1>4, <1>12, PrefixParts
<1>14. ~IsPrefix(S, From(t, 1))
  <2>1. PICK r : r = From(t, 1)
    OBVIOUS
  <2>2. 1 \in 0..Len(t) /\ Len(t) - 1 \in Nat /\ 1 \in 1..(Len(t) - 1) /\ 1 + 1 = 2
    BY <1>9, <1>10
  <2>3. r \in Seq(C) /\ \A i \in 1..(Len(t) - 1) : From(t, 1)[i] = t[1 + i]
    BY <1>4, <2>1, <2>2, CutInTwo DEF Parting
  <2>4. r[1] = t[2]
    <3>1. From(t, 1)[1] = t[1 + 1]
      BY <2>2, <2>3
    <3> QED
      BY <2>1, <2>2, <3>1
  <2>5. EndsAt(r, S, 1) => r[1] = "/"
    <3>1. 1 \in 1..1 /\ 1 - 1 + 1 = 1
      OBVIOUS
    <3> QED
      BY <1>2, <3>1 DEF EndsAt
  <2>6. ~IsPrefix(S, r)
    BY <1>2, <1>10, <1>11, <2>3, <2>4, <2>5, PrefixEnds
  <2> QED
    BY <2>1, <2>6
<1> QED
  BY <1>0, <1>1, <1>4, <1>12, <1>13, <1>14, Zenon DEF SlashOnce

Behind(m, n, v) == m \o TarballPath(n, v)
PrefixHits(url, prefixes) ==
  {i \in DOMAIN prefixes : prefixes[i] # <<>> /\ IsPrefix(prefixes[i], url)}
FirstHit(url, prefixes, m) ==
  PrefixHits(url, prefixes) # {} => prefixes[Leftmost(PrefixHits(url, prefixes))] \in {m, m \o <<"/">>}

\* Behind a mirror, the path of a tarball is what is left once the mirror is off.
LEMMA StrippedOfMirror ==
  ASSUME NEW C, {"/", "-", Tgz} \subseteq C, "?" \notin C,
         NEW n \in Seq(C), PackageName(n), NEW v \in Seq(C),
         NEW prefixes \in Seq(Seq(C)), NEW m \in {<<>>} \cup ToSet(prefixes),
         FirstHit(Behind(m, n, v), prefixes, m)
  PROVE  Stripped(Behind(m, n, v), prefixes) = TarballPath(n, v)
<1>0. PICK url, hits : url = Behind(m, n, v) /\ hits = PrefixHits(url, prefixes)
  OBVIOUS
<1>a. /\ hits = {i \in DOMAIN prefixes : prefixes[i] # <<>> /\ IsPrefix(prefixes[i], url)}
      /\ hits # {} => prefixes[Leftmost(hits)] \in {m, m \o <<"/">>}
  <2>1. hits = {i \in DOMAIN prefixes : prefixes[i] # <<>> /\ IsPrefix(prefixes[i], url)}
    BY <1>0, Zenon DEF PrefixHits
  <2>2. hits # {} => prefixes[Leftmost(hits)] \in {m, m \o <<"/">>}
    BY <1>0, Zenon DEF FirstHit
  <2> QED
    BY <2>1, <2>2
<1>1. PICK t, r, S, marks, p, rest :
        /\ t = TarballPath(n, v) /\ r = From(t, 1) /\ S = <<"/">>
        /\ marks = Occurrences(url, <<"?">>, 0)
        /\ p = (IF marks = {} THEN url ELSE SubSeq(url, 1, Leftmost(marks)))
        /\ rest = (IF hits = {} THEN url ELSE From(url, Len(prefixes[Leftmost(hits)])))
  OBVIOUS
<1>2. /\ t \in Seq(C) /\ r \in Seq(C) /\ S \in Seq(C)
      /\ IsPrefix(S, t) /\ t = S \o r /\ ~IsPrefix(S, r)
  <2>1. S \in Seq(C)
    BY <1>1
  <2>2. SlashOnce(TarballPath(n, v), C)
    BY TarballBegins
  <2> QED
    BY <1>1, <2>1, <2>2, Zenon DEF SlashOnce
<1>3. m \in Seq(C)
  <2>1. PICK e : e = <<>>
    OBVIOUS
  <2>2. e \in Seq(C)
    BY <2>1
  <2>3. ToSet(prefixes) \subseteq Seq(C)
    BY DEF ToSet
  <2> QED
    BY <2>1, <2>2, <2>3
<1>4. url = m \o t /\ url \in Seq(C)
  <2>1. m \o t \in Seq(C)
    BY <1>2, <1>3, TwoTexts
  <2>2. url = m \o t
    BY <1>0, <1>1, Zenon DEF Behind
  <2> QED
    BY <2>1, <2>2, Zenon
<1>5. p = url
  <2>6. Occurrences(url, <<"?">>, 0) = {i \in 0..(Len(url) - 1) : url[i + 1] = "?"}
    <3>1. url \in Seq(C)
      BY <1>4
    <3> QED
      BY <3>1, OccurrencesOfOne
  <2>1. marks = {i \in 0..(Len(url) - 1) : url[i + 1] = "?"}
    BY <1>1, <2>6, Zenon
  <2>2. \A i \in 1..Len(url) : url[i] # "?"
    BY <1>4
  <2>3. Len(url) \in Nat
    BY <1>4
  <2>4. \A i \in 0..(Len(url) - 1) : i + 1 \in 1..Len(url)
    BY <2>3
  <2>5. marks = {}
    BY <2>1, <2>2, <2>4
  <2> QED
    BY <1>1, <2>5
<1>6. Stripped(url, prefixes) = IF IsPrefix(S, rest) THEN rest ELSE S \o rest
  <2>1. hits = {i \in DOMAIN prefixes : prefixes[i] # <<>> /\ IsPrefix(prefixes[i], p)}
    BY <1>a, <1>5, Zenon
  <2>2. rest = IF hits = {} THEN p ELSE From(p, Len(prefixes[Leftmost(hits)]))
    BY <1>1, <1>5
  <2> QED
    BY <1>1, <2>1, <2>2, Zenon DEF Stripped
<1>7. IsPrefix(m, url) /\ From(url, Len(m)) = t
  <2>1. IsPrefix(m, m \o t) /\ From(m \o t, Len(m)) = t
    BY <1>2, <1>3, TwoTexts
  <2> QED
    BY <1>4, <2>1, Zenon
<1>8. CASE hits = {}
  <2>1. m = <<>>
    <3>1. SUFFICES ASSUME m # <<>>, m \in ToSet(prefixes) PROVE FALSE
      OBVIOUS
    <3>2. PICK i \in DOMAIN prefixes : prefixes[i] = m
      BY <3>1 DEF ToSet
    <3>3. i \in hits
      BY <1>a, <1>7, <3>1, <3>2
    <3> QED
      BY <1>8, <3>3
  <2>2. url = t
    <3>1. From(url, 0) = t
      BY <1>7, <2>1
    <3>2. From(url, 0) = url
      <4>1. PICK x : x = From(url, 0)
        OBVIOUS
      <4>2. Len(url) \in Nat /\ 0 \in 0..Len(url) /\ Len(url) - 0 = Len(url)
        BY <1>4
      <4>3. /\ x \in Seq(C) /\ Len(x) = Len(url)
            /\ \A i \in 1..Len(url) : x[i] = url[i]
        BY <1>4, <4>1, <4>2 DEF From
      <4>4. x = url
        BY <1>4, <4>3, SeqEqual
      <4> QED
        BY <4>1, <4>4
    <3> QED
      BY <3>1, <3>2
  <2>3. rest = t
    BY <1>1, <1>8, <2>2
  <2> QED
    BY <1>0, <1>1, <1>2, <1>6, <2>3, Zenon
<1>9. CASE hits # {}
  <2>1. PICK w : w = prefixes[Leftmost(hits)]
    OBVIOUS
  <2>2. rest = From(url, Len(w)) /\ w \in {m, m \o S}
    BY <1>a, <1>1, <1>9, <2>1, Zenon
  <2>3. CASE w = m
    <3>1. rest = t
      BY <1>7, <2>2, <2>3
    <3> QED
      BY <1>0, <1>1, <1>2, <1>6, <3>1, Zenon
  <2>4. CASE w = m \o S
    <3>1. w \in Seq(C)
      BY <1>2, <1>3, <2>4, TwoTexts
    <3>2. url = w \o r
      <4>1. m \o (S \o r) = (m \o S) \o r
        <5>1. PICK X : X = Seq(C)
          OBVIOUS
        <5>4. Associates(X)
          BY <5>1, Concats
        <5>2. \A x, y, z \in X : (x \o y) \o z = x \o (y \o z)
          BY <5>4, Zenon DEF Associates
        <5>3. m \in X /\ S \in X /\ r \in X
          BY <1>2, <1>3, <5>1
        <5> QED
          BY <5>2, <5>3, Zenon
      <4> QED
        BY <1>2, <1>4, <2>4, <4>1, Zenon
    <3>3. From(w \o r, Len(w)) = r
      BY <1>2, <3>1, TwoTexts
    <3>4. rest = r
      BY <2>2, <3>2, <3>3, Zenon
    <3> QED
      BY <1>0, <1>1, <1>2, <1>6, <3>4, Zenon
  <2> QED
    BY <2>2, <2>3, <2>4
<1> QED
  BY <1>8, <1>9

\* supplychain.go:899: whatever path is asked for, it is read as a package just when
\* it is the path of that package's tarball, behind a mirror or not.
THEOREM OnlyTarballsAlwaysRead == Spec => []OnlyTarballsAreRead
<1>1. EditedInv => OnlyTarballsAreRead
  <2> SUFFICES ASSUME EditedInv PROVE OnlyTarballsAreRead
    OBVIOUS
  <2>1. PICK read : read = parseRegistryPath(tarball, Mirrors)
    OBVIOUS
  <2>2. ASSUME read.ok
        PROVE  /\ PackageName(read.name)
               /\ Stripped(tarball, Mirrors) = TarballPath(read.name, read.version)
    <3>1. PICK K : K = PathChars \cup {"/", "-", Tgz}
      OBVIOUS
    <3>2. tarball \in Seq(K)
      <4>1. tarball \in Seq(PathChars) /\ PathChars \subseteq K
        BY <3>1 DEF EditedInv
      <4> QED
        BY <4>1
    <3>3. Mirrors \in Seq(Seq(K))
      <4>1. Mirrors \in Seq(Seq(PathChars \ {"?"}))
        BY MirrorsAssumption
      <4>2. Seq(PathChars \ {"?"}) \subseteq Seq(K)
        BY <3>1
      <4> QED
        BY <4>1, <4>2
    <3>4. {"/", "-", Tgz} \subseteq K
      BY <3>1
    <3> QED
      BY <2>1, <2>2, <3>2, <3>3, <3>4, ReadIsTarball
  <2>3. ASSUME NEW m \in {<<>>} \cup ToSet(Mirrors), NEW n \in PathNames, NEW v \in PathVersions,
               tarball = m \o TarballPath(n, v)
        PROVE  read = [ok |-> TRUE, name |-> n, version |-> v]
    <3>1. PICK K : K = (PathChars \ {"?"}) \cup {"/", "-", Tgz}
      OBVIOUS
    <3>2. {"/", "-", Tgz} \subseteq K /\ "?" \notin K
      BY <3>1 DEF Tgz
    <3>3. PackageName(n) /\ Base(n) # <<"-">>
      BY MirrorsAssumption
    <3>4. n \in Seq(K)
      <4>1. n \in Seq(PathChars \ {"?"})
        BY MirrorsAssumption
      <4> QED
        BY <3>1, <4>1
    <3>5. v \in Seq(K) /\ v # <<>> /\ Slashless(v)
      <4>1. v \in Seq(PathChars \ {"/", "?"}) /\ v # <<>>
        BY MirrorsAssumption
      <4>2. \A i \in 1..Len(v) : v[i] # "/"
        BY <4>1
      <4> QED
        BY <3>1, <4>1, <4>2 DEF Slashless
    <3>6. Mirrors \in Seq(Seq(K))
      <4>1. Mirrors \in Seq(Seq(PathChars \ {"?"}))
        BY MirrorsAssumption
      <4>2. Seq(PathChars \ {"?"}) \subseteq Seq(K)
        BY <3>1
      <4> QED
        BY <4>1, <4>2
    <3>7. FirstHit(Behind(m, n, v), Mirrors, m)
      BY MirrorsAssumption, Zenon DEF FirstHit, PrefixHits, Behind
    <3>8. m \in {<<>>} \cup ToSet(Mirrors) /\ n \in Seq(K) /\ v \in Seq(K)
      BY <3>4, <3>5
    <3>9. Stripped(tarball, Mirrors) = TarballPath(n, v)
      <4>1. Stripped(Behind(m, n, v), Mirrors) = TarballPath(n, v)
        BY <3>2, <3>3, <3>6, <3>7, <3>8, StrippedOfMirror
      <4> QED
        BY <2>3, <4>1, Zenon DEF Behind
    <3> QED
      BY <2>1, <3>2, <3>3, <3>4, <3>5, <3>9, TarballIsRead
  <2> QED
    BY <2>1, <2>2, <2>3 DEF OnlyTarballsAreRead
<1> QED
  BY <1>1, EditedInvariance, PTL
=============================================================================
