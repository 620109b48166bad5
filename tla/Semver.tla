-------------------------------- MODULE Semver --------------------------------
(***************************************************************************)
(* Versions and vulnerable ranges (src/supplychain.go).                    *)
(*                                                                         *)
(* A version text is [core, pre]: one to three numbers, and the prerelease *)
(* identifiers, each [numeric, value]; words are compared in the order of  *)
(* their values.  A text the regular expression does not match has no      *)
(* core; Absent is the empty text.  Build metadata, a leading v, and       *)
(* identifiers of more digits than fit an int are left out.                *)
(***************************************************************************)
EXTENDS Integers, Sequences

CONSTANT MaxInt   \* the largest number strconv.Atoi accepts (2^63 - 1)

ASSUME SemverAssumption == MaxInt \in Nat

Identifiers == [numeric : BOOLEAN, value : Nat]
Texts == [core : Seq(Nat), pre : Seq(Identifiers)]
Semvers == [major : Nat, minor : Nat, patch : Nat, pre : Seq(Identifiers)]

Absent == [core |-> <<>>, pre |-> <<>>]
Readable(text) == text.core # <<>>

\* Missing numbers are 0, and so is one that does not fit.
parseSemver(text) ==
  LET n(i) == IF i \in DOMAIN text.core /\ text.core[i] <= MaxInt
              THEN text.core[i] ELSE 0
  IN [major |-> n(1), minor |-> n(2), patch |-> n(3), pre |-> text.pre]

Zero == parseSemver(Absent)

cmpInt(a, b) == IF a < b THEN -1 ELSE IF a > b THEN 1 ELSE 0

\* Slip: a number and a word have no order.
compareIdentifierUnordered(x, y) ==
  IF x.numeric = y.numeric THEN cmpInt(x.value, y.value) ELSE 0

\* One step of comparePre: numbers rank below words.
compareIdentifier(x, y) ==
  IF x.numeric = y.numeric THEN cmpInt(x.value, y.value)
  ELSE IF x.numeric THEN -1 ELSE 1

Least(I) == CHOOSE i \in I : \A j \in I : i <= j

\* Where two lists of identifiers first differ, within their common length.
Differ(a, b) ==
  {i \in DOMAIN a \cap DOMAIN b : compareIdentifier(a[i], b[i]) # 0}

\* A release outranks its prereleases, and the longer list the shorter one.
comparePre(a, b) ==
  IF a = <<>> \/ b = <<>> THEN cmpInt(Len(b), Len(a))
  ELSE IF Differ(a, b) = {} THEN cmpInt(Len(a), Len(b))
  ELSE LET i == Least(Differ(a, b)) IN compareIdentifier(a[i], b[i])

compareSemver(a, b) ==
  IF a.major # b.major THEN cmpInt(a.major, b.major)
  ELSE IF a.minor # b.minor THEN cmpInt(a.minor, b.minor)
  ELSE IF a.patch # b.patch THEN cmpInt(a.patch, b.patch)
  ELSE comparePre(a.pre, b.pre)

\* A bound that cannot be read does not bind, the lower one down to 0.
inSpan(v, version) ==
  LET lo == IF Readable(v.introduced) THEN parseSemver(v.introduced) ELSE Zero
  IN /\ compareSemver(version, lo) >= 0
     /\ Readable(v.fixed) => compareSemver(version, parseSemver(v.fixed)) < 0
     /\ Readable(v.lastAffected) =>
          compareSemver(version, parseSemver(v.lastAffected)) <= 0
=============================================================================
