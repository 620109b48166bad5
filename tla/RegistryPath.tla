---------------------------- MODULE RegistryPath ----------------------------
(***************************************************************************)
(* Which package a registry path fetches (src/supplychain.go               *)
(* parseRegistryPath).  A path is a sequence of characters, ".tgz" counted *)
(* as one.                                                                 *)
(***************************************************************************)
EXTENDS Strings

Tgz == ".tgz"
Marker == <<"/", "-", "/">>

CountOf(s, c) == Cardinality({i \in DOMAIN s : s[i] = c})

NotAPackage == [ok |-> FALSE, name |-> <<>>, version |-> <<>>]

\* The path up to its first question mark, less the first mirror prefix it
\* starts with, with a leading slash.
Stripped(path, prefixes) ==
  LET marks == Occurrences(path, <<"?">>, 0)
      p == IF marks = {} THEN path ELSE SubSeq(path, 1, Leftmost(marks))
      hits == {i \in DOMAIN prefixes :
                 prefixes[i] # <<>> /\ IsPrefix(prefixes[i], p)}
      rest == IF hits = {} THEN p ELSE From(p, Len(prefixes[Leftmost(hits)]))
  IN IF IsPrefix(<<"/">>, rest) THEN rest ELSE <<"/">> \o rest

\* A scoped name has exactly one slash, another has none.
PackageName(name) ==
  /\ name # <<>>
  /\ CountOf(name, "/") = IF Head(name) = "@" THEN 1 ELSE 0

\* What follows the last slash.
Base(name) ==
  LET slashes == {0} \cup {i \in DOMAIN name : name[i] = "/"}
  IN From(name, CHOOSE i \in slashes : \A j \in slashes : j <= i)

\* Slip: the version is what follows the last dash.
VersionAfterLastDash(stem, base) ==
  LET dashes == {0} \cup {i \in DOMAIN stem : stem[i] = "-"}
  IN From(stem, CHOOSE i \in dashes : \A j \in dashes : j <= i)

\* The file less the name it must start with; empty when it does not.
VersionOf(stem, base) ==
  IF IsPrefix(base \o <<"-">>, stem) THEN From(stem, Len(base) + 1) ELSE <<>>

NamesTarball(name, file) ==
  /\ PackageName(name)
  /\ file # <<>> /\ Last(file) = Tgz /\ CountOf(file, "/") = 0

\* Cut at the first marker.  One at the very front belongs to the registry.
parseRegistryPath(path, prefixes) ==
  LET p == Stripped(path, prefixes)
      marks == Occurrences(p, Marker, 0)
      at == Leftmost(marks)
      name == SubSeq(p, 2, at)
      file == From(p, at + 3)
      version == VersionOf(Front(file), Base(name))
  IN IF marks = {} \/ at < 1 THEN NotAPackage
     ELSE IF ~NamesTarball(name, file) \/ version = <<>> THEN NotAPackage
     ELSE [ok |-> TRUE, name |-> name, version |-> version]

-----------------------------------------------------------------------------
\* Where npm keeps a release of a package.
TarballPath(name, version) ==
  <<"/">> \o name \o Marker \o Base(name) \o <<"-">> \o version \o <<Tgz>>
=============================================================================
