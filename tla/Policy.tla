------------------------------- MODULE Policy -------------------------------
(***************************************************************************)
(* The egress decision (src/policy.go): default deny, a blocklist that     *)
(* overrides permits, and a weaker decision for a CONNECT, which names a   *)
(* host and no path.                                                       *)
(*                                                                         *)
(* A host is the sequence of its labels after canonicalHost; <<>> stands   *)
(* for an authority that validHostname refuses.  A host pattern            *)
(* is [wild, labels]: wild for a leading "*.".  A path is a sequence of    *)
(* characters.  Reasons are left out: no decision depends on one.          *)
(***************************************************************************)
EXTENDS Glob

NoHost == <<>>
isHostname(host) == host # NoHost

\* Type Rule: an absent "active" means enabled; no methods or no prefixes
\* means any.
enabled(rule) == rule.active # "no"

\* Type Decision.  observe is set by the supply chain only, malformed by the
\* proxy only.
Decide(allow, kind) ==
  [allow |-> allow, kind |-> kind, malformed |-> FALSE, observe |-> FALSE]

hostMatches(pattern, host) ==
  /\ isHostname(host) /\ pattern.labels # <<>>
  /\ IF pattern.wild THEN IsStrictSuffix(pattern.labels, host)
     ELSE pattern.labels = host

\* A block with no globs blocks the whole host.
Whole(block) == block.globs = {}

Hits(block, host, path) ==
  /\ hostMatches(block.host, host)
  /\ Whole(block) \/ \E g \in block.globs : globMatches(g, path)

\* The first block that hits, 0 when there is none.
blocked(p, host, path) ==
  LET I == {i \in DOMAIN p.blocked : Hits(p.blocked[i], host, path)}
  IN IF I = {} THEN 0 ELSE Leftmost(I)

permits(p, host, method, path) ==
  \E r \in p.rules :
    /\ enabled(r) /\ hostMatches(r.host, host)
    /\ r.methods = {} \/ method \in r.methods
    /\ r.prefixes = {} \/ \E q \in r.prefixes : IsPrefix(q, path)

Check(p, host, method, path) ==
  IF ~isHostname(host) THEN Decide(FALSE, "deny_policy")
  ELSE IF blocked(p, host, path) # 0 THEN Decide(FALSE, "deny_blocklist")
  ELSE IF permits(p, host, method, path) THEN Decide(TRUE, "allow")
  ELSE Decide(FALSE, "deny_policy")

\* Slip: any block that hits the empty path refuses the tunnel, so a glob that
\* matches everything under one path closes the host.
CheckTunnelAnyBlock(p, host) ==
  IF ~isHostname(host) THEN Decide(FALSE, "deny_policy")
  ELSE IF \E b \in {p.blocked[i] : i \in DOMAIN p.blocked} : hostMatches(b.host, host)
    THEN Decide(FALSE, "deny_blocklist")
  ELSE IF \E r \in p.rules : enabled(r) /\ hostMatches(r.host, host)
    THEN Decide(TRUE, "allow")
  ELSE Decide(FALSE, "deny_policy")

\* The empty path is what blocked is asked about; only a block of the whole
\* host refuses the tunnel.
CheckTunnel(p, host) ==
  LET i == blocked(p, host, <<>>)
  IN IF ~isHostname(host) THEN Decide(FALSE, "deny_policy")
     ELSE IF i # 0 /\ Whole(p.blocked[i]) THEN Decide(FALSE, "deny_blocklist")
     ELSE IF \E r \in p.rules : enabled(r) /\ hostMatches(r.host, host)
       THEN Decide(TRUE, "allow")
     ELSE Decide(FALSE, "deny_policy")
=============================================================================
