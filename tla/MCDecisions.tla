----------------------------- MODULE MCDecisions -----------------------------
(* Small inputs for Decisions. *)
EXTENDS Decisions

(* Policies, globs, targets and authorities.                                  *)

MCHosts == {NoHost, <<"x">>, <<"a", "x">>}
MCMethods == {"GET", "PUT"}
MCPaths == {<<"/">>, <<"/", "p">>, <<"/", "p", "/">>}

Patterns == {[wild |-> FALSE, labels |-> <<"x">>],
             [wild |-> FALSE, labels |-> <<"a", "x">>],
             [wild |-> TRUE, labels |-> <<"x">>]}

MCRules == [host : Patterns, methods : {{}, {"GET"}},
          prefixes : {{}, {<<"/", "p">>}}, active : {"absent", "no"}]
MCBlocks == [host : Patterns,
           globs : {{}, {<<Star>>}, {<<"/", "p", Star>>}, {<<"/", "p">>, <<"/">>}}]

MCTargetChars == {"/", ".", "x", "%2e", "%2f", "%"}
MCAuthorities == {<<"a">>, <<"a", ".", ":", "1">>, <<":", ":", "1">>,
                <<"[", ":", ":", "1", "]", ":", "1">>}
MCAuthorityChars == {"a", "A", "-", ".", "[", "]", ":", "1", "#"}

-----------------------------------------------------------------------------
(* Versions 1.0.0-1, 1.0.0-b, 1.0.0-2, 1.0.0, 2, and one that cannot be read.   *)

Version(core, pre) == [core |-> core, pre |-> pre]
Num(n) == [numeric |-> TRUE, value |-> n]
Word(n) == [numeric |-> FALSE, value |-> n]
Release(pre) == Version(<<1, 0, 0>>, pre)
One == <<"1">>
Two == <<"2">>
Beta == <<"1-2">>
Odd == <<"odd">>
MCVersions == {<<"1-1">>, <<"1-b">>, Beta, One, Two, Odd}
MCReading ==
  [t \in MCVersions \ {Odd} |->
     CASE t = <<"1-1">> -> Release(<<Num(1)>>) [] t = <<"1-b">> -> Release(<<Word(1)>>)
       [] t = Beta -> Release(<<Num(2)>>) [] t = One -> Release(<<>>)
       [] t = Two -> Version(<<2>>, <<>>)]
MCPercent == [t \in {<<"50">>} |-> 50]

-----------------------------------------------------------------------------
(* The lines, as the console writes them: both malware shapes, ranges with and *)
(* without bounds and flags, an enumerated version, and lines this guard       *)
(* cannot use: of other ecosystems, in the old grammar, of an unknown mark.    *)

P == <<"p">>
Scoped == <<"@", "s", "/", "p">>
MCNames == {P, Scoped}

\* What a line says.
Vuln(introduced, fixed, lastAffected, band, flags) ==
  [introduced |-> introduced, fixed |-> fixed, lastAffected |-> lastAffected,
   band |-> band, flags |-> flags]
Line(mark, name, version, v) ==
  [mark |-> mark, ecosystem |-> "npm", separator |-> "|", name |-> name,
   version |-> version, v |-> v]
None == <<>>
Malware == Vuln(None, None, None, "L", {})
Ranged(v) == Line("~", P, None, v)

MCLines == {
  Line("!", P, None, Malware),
  Line("!", Scoped, None, Malware),
  Line("=", P, One, Malware),
  Line("=", Scoped, One, Malware),
  Ranged(Vuln(One, Two, None, "H", {Fix(One)})),
  Ranged(Vuln(Beta, Two, None, "L", {Kev})),
  Ranged(Vuln(None, None, One, "L", {Epss(<<"50">>), Fix(Two)})),
  Ranged(Vuln(None, None, None, "H", {Nofix})),
  Ranged(Vuln(None, Odd, None, "?", {Kev})),
  Line("+", Scoped, One, Vuln(None, None, None, "C", {Fix(Two)})),
  [Ranged(Vuln(One, Two, None, "H", {})) EXCEPT !.separator = ":"],
  [Ranged(Vuln(One, Two, None, "H", {})) EXCEPT !.ecosystem = "Maven"],
  [Line("!", P, None, Malware) EXCEPT !.ecosystem = "Maven"],
  [Line("=", P, One, Malware) EXCEPT !.ecosystem = "Maven"],
  [Line("=", P, One, Malware) EXCEPT !.separator = ":"],
  Line("?", P, None, Malware)}

MCCharacters ==
  UNION {ToSet(Written(l)) : l \in MCLines} \cup UNION {ToSet(t) : t \in MCVersions}
    \cup {"/", "@", "M", "G", ",", ":"}

Modes == {"absent", "monitor", "off", "?"}
MCFields == [malware |-> Modes, tail |-> Modes, action |-> Modes,
           cve |-> {"absent", "critical", "low", "none", "?"},
           kev |-> {"absent", "off", "?"}, unfixed |-> {"absent", "block"},
           epss |-> {Off, 50, 90}]

-----------------------------------------------------------------------------
(* Tarball paths: a plain, a hyphenated and a scoped name, behind a mirror or not. *)

MCPathNames == {<<"a">>, <<"a", "-", "a">>, <<"@", "a", "/", "a">>}
MCPathVersions == {<<"1">>, <<"1", "-", "a">>, <<"a", "-", "1">>}
MCPathChars == {"/", "-", "@", "a", "1", "?", Tgz}
MCMirrors == <<<<"/", "1", "/">>, <<"/", "1">>>>
MCTarballs ==
  {TarballPath(n, v) : n \in MCPathNames, v \in MCPathVersions}
    \cup {m \o TarballPath(<<"@", "a", "/", "a">>, <<"1", "-", "a">>) : m \in ToSet(MCMirrors)}
=============================================================================
