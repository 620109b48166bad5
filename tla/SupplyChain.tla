----------------------------- MODULE SupplyChain -----------------------------
(***************************************************************************)
(* The supply-chain document and the decision on a package                 *)
(* (src/supplychain.go): the header becomes the posture, each line is cut  *)
(* into its fields and becomes an entry of an index, and decide walks what *)
(* the index holds for one package.                                        *)
(*                                                                         *)
(* A line is a sequence of characters; a name part, a version and a flag   *)
(* count as one character each.  Left out: the 64-bit hashes the index is  *)
(* keyed by (keys stand for themselves), advisory ids, wording, and spaces *)
(* around fields.  Times are in hours, probabilities in percent.           *)
(***************************************************************************)
EXTENDS Semver, Policy

CONSTANTS
  Reading,  \* what semverRE makes of the texts it matches: [core, pre]
  Percent   \* what ParseFloat makes of the texts of probabilities

ASSUME SupplyChainAssumption ==
  /\ \A t \in DOMAIN Reading : Reading[t] \in Texts
  /\ \A t \in DOMAIN Percent : Percent[t] \in Nat

-----------------------------------------------------------------------------
(* The posture.  A header field is "absent", a word, or "?", which no case   *)
(* recognises; lists and times are given as what they parse to.              *)

Off == -1
Unknown == -1  \* a time that is absent or cannot be read

defaultPosture ==
  [malware |-> "enforce", tail |-> "enforce", action |-> "enforce",
   threshold |-> "high", kev |-> TRUE, blockUnfixed |-> FALSE, epss |-> Off,
   onStale |-> "warn", staleHours |-> 24]

parseSCMode(word, fallback) ==
  IF word \in {"enforce", "monitor", "off"} THEN word ELSE fallback

\* Bands by rank; neither "none" nor an unknown one ranks.
Rank(band) == CASE band = "critical" -> 4 [] band = "high" -> 3
                [] band = "moderate" -> 2 [] band = "low" -> 1 [] OTHER -> 0

\* A threshold of "none" is met by no severity.
meets(band, threshold) == Rank(threshold) > 0 /\ Rank(band) >= Rank(threshold)

postureFromHeader(f) ==
  [malware |-> parseSCMode(f.malware, defaultPosture.malware),
   tail |-> parseSCMode(f.tail, defaultPosture.tail),
   action |-> parseSCMode(f.action, defaultPosture.action),
   threshold |-> IF Rank(f.cve) > 0 \/ f.cve = "none" THEN f.cve
                 ELSE defaultPosture.threshold,
   kev |-> IF f.kev = "absent" THEN defaultPosture.kev ELSE f.kev = "on",
   blockUnfixed |-> f.unfixed = "block",
   epss |-> f.epss,
   onStale |-> IF f.stale = "block_registry" THEN f.stale ELSE "warn",
   staleHours |-> IF f.stale # "absent" /\ f.hours > 0 THEN f.hours
                  ELSE defaultPosture.staleHours,
   generated |-> f.generated, registries |-> f.registries, prefixes |-> f.prefixes]

\* Past the organization's threshold; a document without a time never is.
stale(sc, now) ==
  LET p == sc.posture
  IN p.generated # Unknown /\ p.staleHours > 0 /\ now - p.generated > p.staleHours

\* The registries the document names.
covers(sc, host) == \E r \in sc.posture.registries : hostMatches(r, host)

-----------------------------------------------------------------------------
(* The lines.                                                               *)

\* Slip: the version is cut off at the first "@".
cutLastFirst(s) == Cut(s, "@")

\* Around the last "@".
cutLast(s) ==
  LET at == {i \in DOMAIN s : s[i] = "@"}
  IN IF at = {} THEN Uncut(s)
     ELSE CutAt(s, CHOOSE n \in 0..Len(s) : n + 1 \in at /\ \A i \in at : i <= n + 1)

parseBandChar(text) ==
  CASE text = <<"C">> -> "critical" [] text = <<"H">> -> "high"
    [] text = <<"M">> -> "moderate" [] text = <<"L">> -> "low" [] OTHER -> "unknown"

Read(text) == IF text \in DOMAIN Reading THEN Reading[text] ELSE Absent

\* Slip: the fix of the advisory replaces the bound of the branch.
applyFlagOfAdvisory(v, flag) ==
  LET f == Cut(flag, "=")
  IN CASE f.before = <<"kev">> -> [v EXCEPT !.kev = TRUE]
       [] f.before = <<"nofix">> -> [v EXCEPT !.nofix = TRUE]
       [] f.before = <<"fix">> -> [v EXCEPT !.fixedIn = f.after]
       [] f.before = <<"epss">> /\ f.after \in DOMAIN Percent ->
            [v EXCEPT !.epss = Percent[f.after]]
       [] OTHER -> v

\* The fix to tell is the bound of the range, else the fix flag.
applyFlag(v, flag) ==
  LET f == Cut(flag, "=")
  IN CASE f.before = <<"kev">> -> [v EXCEPT !.kev = TRUE]
       [] f.before = <<"nofix">> -> [v EXCEPT !.nofix = TRUE]
       [] f.before = <<"fix">> /\ v.fixedIn = <<>> -> [v EXCEPT !.fixedIn = f.after]
       [] f.before = <<"epss">> /\ f.after \in DOMAIN Percent ->
            [v EXCEPT !.epss = Percent[f.after]]
       [] OTHER -> v

applyFlags(v, flags) == FoldLeft(applyFlag, v, Split(flags, ","))

\* One vulnerability: of an enumerated version, or of a range.
Plain == [key |-> <<>>, version |-> <<>>, introduced |-> Absent, fixed |-> Absent,
          lastAffected |-> Absent, severity |-> "unknown", kev |-> FALSE,
          nofix |-> FALSE, fixedIn |-> <<>>, epss |-> Off]

rangeEntry(parts) ==
  LET v == [Plain EXCEPT !.key = parts[1], !.introduced = Read(parts[2]),
              !.fixed = Read(parts[3]), !.lastAffected = Read(parts[4]),
              !.severity = parseBandChar(parts[5]), !.fixedIn = parts[3]]
  IN IF Len(parts) = 7 THEN applyFlags(v, parts[7]) ELSE v

versionEntry(key, parts) ==
  LET v == [Plain EXCEPT !.key = key.before, !.version = key.after,
                         !.severity = parseBandChar(parts[2])]
  IN IF Len(parts) = 4 THEN applyFlags(v, parts[4]) ELSE v

NoEntries == [tail |-> {}, pinned |-> {}, vulns |-> <<>>, dropped |-> 0, skipped |-> 0]

Enforceable == {<<"npm">>}

\* The shapes of a line: a body that does not have its own adds nothing.
Entries(mark, body) ==
  LET pin == Cut(body, "|")
      range == SplitN(body, "|", 7)
      listed == SplitN(body, "|", 4)
      key == cutLast(listed[1])
  IN CASE mark = "!" -> [NoEntries EXCEPT !.tail = {body}]
       [] mark = "=" /\ pin.found -> [NoEntries EXCEPT !.pinned = {pin.before}]
       [] mark = "~" /\ Len(range) >= 6 ->
            [NoEntries EXCEPT !.vulns = <<rangeEntry(range)>>]
       [] mark = "+" /\ Len(listed) >= 3 /\ key.found
                     /\ key.before # <<>> /\ key.after # <<>> ->
            [NoEntries EXCEPT !.vulns = <<versionEntry(key, listed)>>]
       [] OTHER -> [NoEntries EXCEPT !.dropped = 1]

With(sc, e) ==
  [tail |-> sc.tail \cup e.tail, pinned |-> sc.pinned \cup e.pinned,
   vulns |-> sc.vulns \o e.vulns, dropped |-> sc.dropped + e.dropped,
   skipped |-> sc.skipped + e.skipped]

\* Slip: what has no field in the right place is passed over in silence.
addEntrySilently(sc, line) ==
  LET eco == Cut(Tail(line), "/")
  IN IF Head(line) \notin {"!", "=", "~", "+"} \/ ~eco.found \/ eco.before = <<>>
     THEN [sc EXCEPT !.dropped = @ + 1]
     ELSE IF eco.before \notin Enforceable THEN [sc EXCEPT !.skipped = @ + 1]
     ELSE With(sc, [Entries(Head(line), Tail(line)) EXCEPT !.dropped = 0])

addEntry(sc, line) ==
  LET eco == Cut(Tail(line), "/")
  IN IF Head(line) \notin {"!", "=", "~", "+"} \/ ~eco.found \/ eco.before = <<>>
     THEN [sc EXCEPT !.dropped = @ + 1]
     ELSE IF eco.before \notin Enforceable THEN [sc EXCEPT !.skipped = @ + 1]
     ELSE With(sc, Entries(Head(line), Tail(line)))

parseSupplyChainDoc(header, lines) ==
  [index |-> FoldLeft(addEntry, NoEntries, lines), posture |-> postureFromHeader(header)]

-----------------------------------------------------------------------------
(* The decision: no hit, or [reason, block, fixedIn].                        *)

NoHit == [reason |-> "none", block |-> FALSE, fixedIn |-> <<>>]

Affects(v, version) ==
  IF v.version # <<>> THEN v.version = version
  ELSE inSpan(v, parseSemver(Read(version)))

\* Why the posture counts a vulnerability, the first reason that holds.
ReasonFor(posture, v) ==
  CASE posture.kev /\ v.kev -> "kev"
    [] meets(v.severity, posture.threshold) -> "severity"
    [] posture.epss # Off /\ v.epss # Off /\ v.epss >= posture.epss -> "epss"
    [] OTHER -> "none"

\* Slip: a finding without a fix stays the answer.
BetterFirst(posture, best, v) ==
  LET hit == [reason |-> ReasonFor(posture, v), block |-> posture.action = "enforce",
              fixedIn |-> v.fixedIn]
  IN IF v.nofix /\ ~posture.blockUnfixed
     THEN IF best = NoHit THEN [NoHit EXCEPT !.reason = "unfixed"] ELSE best
     ELSE IF hit.reason # "none" /\ best = NoHit THEN hit ELSE best

\* One turn of the loop over the entries that affect the version.
Better(posture, best, v) ==
  LET hit == [reason |-> ReasonFor(posture, v), block |-> posture.action = "enforce",
              fixedIn |-> v.fixedIn]
  IN IF v.nofix /\ ~posture.blockUnfixed
     THEN IF best = NoHit THEN [NoHit EXCEPT !.reason = "unfixed"] ELSE best
     ELSE IF /\ hit.reason # "none"
             /\ \/ best = NoHit \/ ~best.block
                \/ hit.reason = "kev" /\ best.reason # "kev"
     THEN hit ELSE best

\* Pinned before the tail, malware before vulnerabilities; a class that is off
\* is not evaluated.  A version that is no semver is let through.
decide(sc, pkg) ==
  LET p == sc.posture
      key == <<"npm", "/">> \o pkg.name
  IN IF key \o <<"@">> \o pkg.version \in sc.index.pinned /\ p.malware # "off"
     THEN [NoHit EXCEPT !.reason = "malware", !.block = p.malware = "enforce"]
     ELSE IF key \in sc.index.tail /\ p.tail # "off"
     THEN [NoHit EXCEPT !.reason = "malware_tail", !.block = p.tail = "enforce"]
     ELSE IF p.action = "off" \/ ~Readable(Read(pkg.version)) THEN NoHit
     ELSE FoldLeft(LAMBDA best, v : IF v.key = key /\ Affects(v, pkg.version)
                                    THEN Better(p, best, v) ELSE best,
                   NoHit, sc.index.vulns)
=============================================================================
