------------------------------ MODULE Decisions ------------------------------
(* The decisions of the guard over inputs that grow from plain ones, one kind  *)
(* of input at a time while the others stay plain:                             *)
(*   - policies as an administrator edits them, a rule or a block at a time;   *)
(*   - globs and paths, one character at a time;                               *)
(*   - targets of requests, and authorities edited from well-formed ones;      *)
(*   - supply-chain documents as the console compiles them, a header field or  *)
(*     a line at a time;                                                       *)
(*   - paths of tarballs with characters changed.                              *)
EXTENDS SupplyChain, RegistryPath, Canonical

CONSTANTS
  Hosts, Methods, Paths,           \* what a policy is asked about
  Rules, Blocks,                   \* what it is made of
  Chars,                           \* of globs and of the paths they are held against
  TargetChars,                     \* of the targets of requests
  Authorities, AuthorityChars,     \* authorities to begin with, and what is put in
  Names, Versions,                 \* of packages
  Characters,                      \* of what the console writes
  Lines, Fields,                   \* of documents; the words of each header field
  PathNames, PathVersions,         \* of tarballs
  Tarballs, PathChars, Mirrors,    \* their paths, what is put in, and prefixes
  MaxRules, MaxBlocks, MaxPattern, MaxPath, MaxTarget, MaxEdits,
  MaxFields, MaxLines, MaxChanges  \* bounds on the inputs

VARIABLES policy, pattern, path, target, authority, header, lines, tarball, edits

glob == <<pattern, path>>
request == <<target, authority>>
written == <<header, lines>>
vars == <<policy, glob, request, written, tarball, edits>>

-----------------------------------------------------------------------------
(* What the console writes: external, its compiler.  A line is a record of what *)
(* it says; none is the empty text, flags are texts.                           *)

Kev == <<"kev">>
Nofix == <<"nofix">>
Fix(version) == <<"fix", "=">> \o version
Epss(percent) == <<"epss", "=">> \o percent

Joined(pieces, separator) == Tail(Prefixed(pieces, separator))

\* The fields of a line and its characters: external, the console's compiler.
Key(l) == <<l.ecosystem, "/">> \o l.name
Flagged(l) == IF l.v.flags = {} THEN <<>> ELSE <<Joined(SetToSeq(l.v.flags), ",")>>
Columns(l) ==
  CASE l.mark \in {"!", "?"} -> <<Key(l)>>
    [] l.mark = "=" -> <<Key(l) \o <<"@">> \o l.version, <<"M">>>>
    [] l.mark = "+" ->
         <<Key(l) \o <<"@">> \o l.version, <<l.v.band>>, <<"G">>>> \o Flagged(l)
    [] l.mark = "~" -> <<Key(l), l.v.introduced, l.v.fixed, l.v.lastAffected,
                         <<l.v.band>>, <<"G">>>> \o Flagged(l)
Written(l) == <<l.mark>> \o Joined(Columns(l), l.separator)

AllWritten(some) == [i \in DOMAIN some |-> Written(some[i])]

\* Texts with none of the separators.
Words(separators) == Seq(Characters \ separators)

\* What it says of a line keeps clear of what the line is cut at.  A line of any
\* mark is of any ecosystem, and its fields are separated with anything: the
\* grammar it wrote before had ":" where "|" is now.
ASSUME LinesAssumption ==
  /\ {"/", "@", "M", "G", ","} \subseteq Characters
  /\ \A l \in Lines :
       /\ l.mark \in {"!", "?", "=", "+", "~"}
       /\ {l.mark, l.separator} \subseteq Characters
       /\ {l.ecosystem, l.v.band} \subseteq Characters \ {"/", "|"}
       /\ {l.name, l.v.introduced, l.v.fixed, l.v.lastAffected} \subseteq Words({"|"})
       /\ l.version \in Words({"|", "@"})
       /\ l.v.flags \subseteq Words({"|", ","}) /\ IsFiniteSet(l.v.flags)

\* It writes flags of four kinds, at most one of them a probability it can read,
\* and packages whose versions have no "@"; the empty text is no version.
ASSUME PackagesAssumption ==
  /\ \A l \in Lines :
       /\ \A f \in l.v.flags : f \in {Kev, Nofix, Fix(From(f, 2)), Epss(From(f, 2))}
       /\ \A s, t \in DOMAIN Percent : {Epss(s), Epss(t)} \subseteq l.v.flags => s = t
  /\ Names \subseteq Seq(Characters) /\ Versions \subseteq Words({"@"})
  /\ <<>> \notin DOMAIN Reading /\ DOMAIN Percent \subseteq Seq(Characters)

\* Authorities and paths of tarballs are texts.  A name of a package and a version
\* have no question mark, a version has no slash and a name none of its own; the
\* package called "-" is left out.  The mirror that a path is found to begin with
\* is the one it was written for, give or take a slash.
ASSUME TextsAssumption ==
  Authorities \subseteq Seq(AuthorityChars) /\ Tarballs \subseteq Seq(PathChars)
ASSUME MirrorsAssumption ==
  /\ \A n \in PathNames : PackageName(n) /\ Base(n) # <<"-">>
  /\ PathNames \subseteq Seq(PathChars \ {"?"}) /\ Mirrors \in Seq(Seq(PathChars \ {"?"}))
  /\ PathVersions \subseteq Seq(PathChars \ {"/", "?"}) \ {<<>>}
  /\ \A m \in {<<>>} \cup ToSet(Mirrors), n \in PathNames, v \in PathVersions :
       LET hits == {i \in DOMAIN Mirrors :
                      Mirrors[i] # <<>> /\ IsPrefix(Mirrors[i], m \o TarballPath(n, v))}
       IN hits # {} => Mirrors[Leftmost(hits)] \in {m, m \o <<"/">>}

NoFields == [f \in DOMAIN Fields |-> IF f = "epss" THEN Off ELSE "absent"]

-----------------------------------------------------------------------------
NoPolicy == [rules |-> {}, blocked |-> <<>>]

Init ==
  /\ policy = NoPolicy /\ pattern = <<>> /\ path = <<>> /\ target = <<>>
  /\ header = NoFields /\ lines = <<>> /\ edits = 0
  /\ \/ authority \in Authorities \cup {<<>>} /\ tarball = <<>>
     \/ authority = <<>> /\ tarball \in Tarballs

AddRule ==
  /\ Cardinality(policy.rules) < MaxRules
  /\ \E r \in Rules : policy' = [policy EXCEPT !.rules = @ \cup {r}]

AddBlock ==
  /\ Len(policy.blocked) < MaxBlocks
  /\ \E b \in Blocks : policy' = [policy EXCEPT !.blocked = Append(@, b)]

Edit == AddRule \/ AddBlock

LongerPattern ==
  /\ Len(pattern) < MaxPattern
  /\ \E c \in Chars \cup {Star} : pattern' = Append(pattern, c)
  /\ UNCHANGED path

LongerPath ==
  /\ Len(path) < MaxPath
  /\ \E c \in Chars : path' = Append(path, c)
  /\ UNCHANGED pattern

Write == LongerPattern \/ LongerPath

LongerTarget ==
  /\ Len(target) < MaxTarget
  /\ \E c \in IF target = <<>> THEN {"/"} ELSE TargetChars : target' = Append(target, c)
  /\ UNCHANGED authority

EditAuthority ==
  /\ edits < MaxEdits /\ edits' = edits + 1
  /\ \E i \in DOMAIN authority, c \in AuthorityChars :
       authority' \in {RemoveAt(authority, i), InsertAt(authority, i, c),
                       ReplaceAt(authority, i, c)}
  /\ UNCHANGED target

FieldsSet == Cardinality({f \in DOMAIN Fields : header[f] # NoFields[f]})
Small == FieldsSet + Len(lines) < MaxChanges

SetField ==
  /\ FieldsSet < MaxFields /\ Small
  /\ \E f \in DOMAIN Fields : \E w \in Fields[f] :
       header[f] = NoFields[f] /\ header' = [header EXCEPT ![f] = w]
  /\ UNCHANGED lines

AddLine ==
  /\ Len(lines) < MaxLines /\ Small
  /\ \E line \in Lines : lines' = Append(lines, line)
  /\ UNCHANGED header

EditTarball ==
  /\ edits < MaxEdits /\ edits' = edits + 1
  /\ \E i \in DOMAIN tarball, c \in PathChars :
       tarball' \in {RemoveAt(tarball, i), InsertAt(tarball, i, c), ReplaceAt(tarball, i, c)}

\* One kind of input at a time; the others stay plain.
PlainPolicy == policy = NoPolicy
PlainGlob == glob = <<<<>>, <<>>>>
PlainTarget == target = <<>>
PlainAuthority == authority = <<>>
PlainDocument == header = NoFields /\ lines = <<>>
PlainTarball == tarball = <<>>

Next ==
  \/ /\ PlainGlob /\ PlainTarget /\ PlainAuthority /\ PlainDocument /\ PlainTarball /\ edits = 0
     /\ Edit /\ UNCHANGED <<glob, request, written, tarball, edits>>
  \/ /\ PlainPolicy /\ PlainTarget /\ PlainAuthority /\ PlainDocument /\ PlainTarball /\ edits = 0
     /\ Write /\ UNCHANGED <<policy, request, written, tarball, edits>>
  \/ /\ PlainPolicy /\ PlainGlob /\ PlainAuthority /\ PlainDocument /\ PlainTarball /\ edits = 0
     /\ LongerTarget /\ UNCHANGED <<policy, glob, written, tarball, edits>>
  \/ /\ PlainPolicy /\ PlainGlob /\ PlainTarget /\ PlainDocument /\ PlainTarball
     /\ EditAuthority /\ UNCHANGED <<policy, glob, written, tarball>>
  \/ /\ PlainPolicy /\ PlainGlob /\ PlainTarget /\ PlainAuthority /\ PlainTarball /\ edits = 0
     /\ SetField \/ AddLine
     /\ UNCHANGED <<policy, glob, request, tarball, edits>>
  \/ /\ PlainPolicy /\ PlainGlob /\ PlainTarget /\ PlainAuthority /\ PlainDocument
     /\ EditTarball /\ UNCHANGED <<policy, glob, request, written>>

Spec == Init /\ [][Next]_vars

-----------------------------------------------------------------------------
(* Properties of the policy and of what it decides on.                        *)

\* policy.go:230: the tunnel is opened if the host could be reachable at all.  A
\* refused tunnel hides no request that the per-request check would have let
\* through, for any list of blocks and any order of it.
TunnelRefusalIsFinal ==
  \A h \in Hosts, m \in Methods, q \in Paths :
    Check(policy, h, m, q).allow => CheckTunnel(policy, h).allow

\* policy.go:119: looking for the pieces greedily from the left decides exactly
\* the paths the glob means.  A walk that went wrong on overlapping pieces would
\* let a blocked package path through or block another.
GreedyWalkIsExact == globMatches(pattern, path) <=> Means(pattern, path)

\* canonical.go:17: decide on the same thing you send.  What is forwarded decodes
\* to what was matched, and has no structure left: reading it once more changes
\* neither form.
DecidesOnWhatIsSent ==
  LET clean == cleanPath(target)
  IN clean.ok => /\ Unescape(clean.forward) = clean.match
                 /\ cleanPath(clean.forward) = clean

\* canonical.go:17, 111: the authority of the upstream URL, read by the same
\* rules, names the host that was decided on and the port that was asked for.
AuthorityKeepsHost ==
  LET read == splitAuthority(authority)
  IN read.ok => splitAuthority(authorityOf(read.host, read.port)) = read

-----------------------------------------------------------------------------
(* Properties of the supply-chain document.                                   *)

document ==
  parseSupplyChainDoc(
    [stale |-> "absent", hours |-> 0, generated |-> Unknown, registries |-> {},
     prefixes |-> Mirrors] @@ header,
    AllWritten(lines))

Packages == [name : Names, version : Versions]
Numbered == {t \in Versions : Readable(Read(t))}

\* Said of what was written and not of the parse: the lines of other ecosystems,
\* and the lines of npm in a grammar this build knows.
Foreign == {l \in Lines : l.mark # "?" /\ l.ecosystem # "npm"}
Understood == {l \in Lines : /\ l.mark # "?" /\ l.ecosystem = "npm"
                             /\ l.mark = "!" \/ l.separator = "|"
                             /\ l.mark = "+" => l.version # <<>>}
Marked(mark) == {l \in ToSet(lines) \cap Understood : l.mark = mark}

\* What the posture asks for.
Pinned(pkg) == \E l \in Marked("=") : l.name = pkg.name /\ l.version = pkg.version
Tailed(pkg) == \E l \in Marked("!") : l.name = pkg.name
Catches(l, pkg) ==
  \/ l.mark = "+" /\ l.version = pkg.version
  \/ l.mark = "~" /\ inSpan([introduced |-> Read(l.v.introduced), fixed |-> Read(l.v.fixed),
                             lastAffected |-> Read(l.v.lastAffected)],
                            parseSemver(Read(pkg.version)))

\* A fix it flags lies above what the line catches, unless the line has a bound of
\* its own.
ASSUME FixesAssumption ==
  \A l \in Lines, pkg \in Packages, t \in DOMAIN Reading :
       /\ Fix(t) \in l.v.flags /\ (l.mark = "+" \/ l.v.fixed = <<>>)
       /\ Readable(Read(t)) /\ Readable(Read(pkg.version)) /\ Catches(l, pkg)
    => compareSemver(parseSemver(Read(pkg.version)), parseSemver(Read(t))) < 0

Affecting(pkg) ==
  {l \in ToSet(lines) :
     /\ l.mark \in {"~", "+"} /\ l.separator = "|" /\ l.ecosystem = "npm"
     /\ l.name = pkg.name /\ Readable(Read(pkg.version)) /\ Catches(l, pkg)}
Asked(posture, l) ==
  \/ posture.kev /\ Kev \in l.v.flags
  \/ meets(parseBandChar(<<l.v.band>>), posture.threshold)
  \/ /\ posture.epss # Off
     /\ \E t \in DOMAIN Percent : Epss(t) \in l.v.flags /\ posture.epss <= Percent[t]
Selected(sc, pkg) ==
  {l \in Affecting(pkg) :
     (Nofix \in l.v.flags => sc.posture.blockUnfixed) /\ Asked(sc.posture, l)}

\* supplychain.go:879: a real block beats a note.  Whatever the order of the
\* lines, and whatever notes come before or after, a package is blocked when an
\* enforcing class has a match for it that no reporting class precedes.
BlocksWhatThePostureSelects ==
  LET sc == document IN \A pkg \in Packages :
    decide(sc, pkg).block <=>
      \/ sc.posture.malware = "enforce" /\ Pinned(pkg)
      \/ /\ sc.posture.malware = "off" \/ ~Pinned(pkg)
         /\ \/ sc.posture.tail = "enforce" /\ Tailed(pkg)
            \/ /\ sc.posture.tail = "off" \/ ~Tailed(pkg)
               /\ sc.posture.action = "enforce" /\ Selected(sc, pkg) # {}

\* supplychain.go:528: the fix a developer is told is the one of the branch that
\* caught the version, never a version below the one being installed.
FixIsAhead ==
  LET sc == document IN \A pkg \in Packages :
    LET hit == decide(sc, pkg)
    IN Readable(Read(hit.fixedIn)) =>
         compareSemver(parseSemver(Read(pkg.version)), parseSemver(Read(hit.fixedIn))) < 0

\* supplychain.go:323: no line disappears.  Whatever its mark, each line is in the
\* index under the package it names, counted as another ecosystem's, or counted
\* as unreadable; and none is in two of these.
NoLineDisappears ==
  LET index == document.index
      count(some) == Cardinality({i \in DOMAIN lines : lines[i] \in some})
  IN /\ index.skipped = count(Foreign)
     /\ index.dropped = count(Lines \ (Foreign \cup Understood))
     /\ Len(index.vulns) = count({l \in Understood : l.mark \in {"~", "+"}})
     /\ index.tail = {Key(l) : l \in Marked("!")}
     /\ index.pinned = {Key(l) \o <<"@">> \o l.version : l \in Marked("=")}

\* supplychain.go:680: the order of versions makes a range an interval.  What
\* lies between two vulnerable versions, prereleases included, is vulnerable.
SpansAreIntervals ==
  \A v \in ToSet(document.index.vulns) :
    LET number(t) == parseSemver(Read(t))
        hit == {t \in Numbered : inSpan(v, number(t))}
        le(s, t) == compareSemver(number(s), number(t)) <= 0
    IN \A s \in hit, t \in hit, u \in Numbered :
         le(s, u) /\ le(u, t) => u \in hit

\* supplychain.go:899: exact, not heuristic.  A path is read as a package just
\* when it is the path of that package's tarball, behind a mirror or not.
OnlyTarballsAreRead ==
  LET read == parseRegistryPath(tarball, Mirrors)
  IN /\ read.ok => /\ PackageName(read.name)
                   /\ Stripped(tarball, Mirrors) = TarballPath(read.name, read.version)
     /\ \A m \in {<<>>} \cup ToSet(Mirrors), n \in PathNames, v \in PathVersions :
          tarball = m \o TarballPath(n, v)
            => read = [ok |-> TRUE, name |-> n, version |-> v]

\* docs/reference.md: one class can be on monitor while another enforces,
\* independently.  A match of an enforcing malware class is blocked, whatever
\* the other class is set to.
ClassesAreIndependent ==
  LET sc == document IN \A pkg \in Packages :
       \/ sc.posture.malware = "enforce" /\ Pinned(pkg)
       \/ sc.posture.tail = "enforce" /\ Tailed(pkg)
    => decide(sc, pkg).block
=============================================================================
