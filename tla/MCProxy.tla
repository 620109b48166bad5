------------------------------- MODULE MCProxy -------------------------------
(* A policy that permits a wildcard except one path, one that permits a path  *)
(* of one host, and one with a whole host blocked; documents that block a     *)
(* release or report a whole package, with either answer to staleness, and    *)
(* one that names no registry, which is like none at all.                     *)
EXTENDS Proxy

X == <<"x">>
AX == <<"a", "x">>
Root == <<"/">>
Pkg == TarballPath(<<"p">>, <<"1">>)

MCHosts == {X, AX}
MCPaths == {Root, Pkg}
NoNames == {}
AnyName == {NoHost}

Rule(wild, labels, prefixes) ==
  [host |-> [wild |-> wild, labels |-> labels], methods |-> {},
   prefixes |-> prefixes, active |-> "absent"]
Block(labels, globs) ==
  [host |-> [wild |-> FALSE, labels |-> labels], globs |-> globs]

WildcardButOne == [rules |-> {Rule(TRUE, X, {})}, blocked |-> <<Block(AX, {Pkg})>>]
OnePath == [rules |-> {Rule(FALSE, X, {Pkg})}, blocked |-> <<>>]
WholeHost == [rules |-> {Rule(FALSE, X, {}), Rule(TRUE, X, {})},
              blocked |-> <<Block(AX, {})>>]
MCPolicies == {WildcardButOne, OnePath, WholeHost}

Readings == [v \in {<<"1">>} |-> [core |-> <<1>>, pre |-> <<>>]]
NoProbabilities == [v \in {} |-> 0]

Header(tail, onStale, registries) ==
  [malware |-> "absent", tail |-> tail, action |-> "absent", cve |-> "absent",
   kev |-> "absent", unfixed |-> "absent", epss |-> Off, stale |-> onStale, hours |-> 1,
   generated |-> 0, registries |-> registries, prefixes |-> <<>>]
Registries == {[wild |-> FALSE, labels |-> X], [wild |-> TRUE, labels |-> X]}

Release == <<"=", "npm", "/", "p", "@", "1", "|", "M">>
Package == <<"!", "npm", "/", "p">>

NoDocument == parseSupplyChainDoc(Header("absent", "absent", {}), <<Release>>)
Blocking == parseSupplyChainDoc(Header("absent", "warn", Registries), <<Release>>)
Reporting == parseSupplyChainDoc(Header("monitor", "block_registry", Registries), <<Package>>)
MCSupplies == {NoDocument, Blocking, Reporting}

\* No handler looks at which connection it serves.
Symmetry == Permutations(Conns)
=============================================================================
