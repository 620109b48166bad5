-------------------------------- MODULE Proxy --------------------------------
(***************************************************************************)
(* The enforcing proxy (src/proxy.go, src/transparent.go, src/mode.go):    *)
(* handlers of concurrent connections decide requests under one policy,    *)
(* count them in the end-of-run tally, note refusals to the reporter, and  *)
(* refuse or forward.                                                      *)
(*                                                                         *)
(* Four routes lead in: "proxy" (absolute-form HTTP), "connect" (CONNECT,  *)
(* then TLS), and, redirected by the kernel, "http" (port 80) and "tls"    *)
(* (port 443, named by the SNI).  A handler holds one lock at a time, so a *)
(* step of it is what it does between two locks: tally under p.mu, note    *)
(* under r.mu, and the decision and the forwarding outside of both.        *)
(***************************************************************************)
EXTENDS SupplyChain, RegistryPath, Functions, FiniteSets

CONSTANTS
  Conns,       \* connections, each with the goroutine that serves it
  Routes,      \* the routes in use
  Hosts,       \* valid hosts, as label sequences
  BadNames,    \* {NoHost} when a client may send an SNI that is no hostname
  Paths,       \* paths that decode
  Policies,    \* the policies a run may have been started with
  Supplies,    \* the supply-chain documents a run may have been started with
  Modes,       \* subset of {"enforce", "monitor"}
  MaxHours,    \* bound on the hours a behaviour lasts
  MaxTargets,  \* mode.go maxSummaryTargets (500)
  MaxRequests  \* bound on the connections and requests made in a behaviour

ASSUME ProxyAssumption ==
  /\ Routes \subseteq {"proxy", "connect", "http", "tls"}
  /\ NoHost \notin Hosts /\ BadNames \subseteq {NoHost}
  /\ Modes \subseteq {"enforce", "monitor"}
  /\ MaxTargets \in Nat /\ MaxRequests \in Nat /\ MaxHours \in Nat
  /\ \A s \in Supplies : s.posture.generated \in Int /\ s.posture.staleHours \in Nat \ {0}

VARIABLES
  policy, supply, mode,  \* fixed when the guard starts
  now,                   \* the hour
  conn,                  \* what each connection's goroutine is about to do
  allowed, observed, refusals, order, summaryDropped,  \* the tally, under p.mu
  noted,                 \* refusals noted to the reporter, per target
  requests,              \* connections and requests made so far
  upstream,              \* history: requests forwarded
  answered,              \* history: decisions answered with a 403
  opens,                 \* history: refused tunnels, per target
  installed              \* history: forwarded requests with an observed finding

tallied == <<allowed, observed, refusals, order, summaryDropped>>
started == <<policy, supply, mode>>
history == <<upstream, answered, opens, installed>>
vars == <<started, now, conn, tallied, noted, requests, history>>

\* A request target that does not decode, and the empty path of a CONNECT.
BadPath == <<"%">>
NoPath == <<>>

malformedHost == [Decide(FALSE, "deny_policy") EXCEPT !.malformed = TRUE]
malformedPath == malformedHost

\* What a refusal is counted under: host, method, path.
Target(host, method, path) == <<host, method, path>>
Targets ==
  {Target(h, "GET", p) : h \in Hosts \cup {NoHost}, p \in Paths \cup {BadPath}}
    \cup {Target(h, "CONNECT", NoPath) : h \in Hosts \cup {NoHost}}

\* Paths decode; a process holds finitely many connections, and what they name
\* is read from heads that net/http bounds in length.
ASSUME TargetsAssumption ==
  BadPath \notin Paths /\ IsFiniteSet(Conns) /\ IsFiniteSet(Targets)

Idle == [at |-> "idle", route |-> "proxy", tunnel |-> NoHost, path |-> NoPath,
         host |-> NoHost, decision |-> Decide(TRUE, "allow"),
         target |-> Target(NoHost, "CONNECT", NoPath), yes |-> "idle", no |-> "idle",
         hour |-> 0]

Init ==
  /\ policy \in Policies /\ supply \in Supplies /\ mode \in Modes
  /\ now = 0
  /\ conn = [c \in Conns |-> Idle]
  /\ allowed = 0 /\ observed = 0 /\ summaryDropped = 0 /\ order = <<>>
  /\ refusals = [t \in Targets |-> 0] /\ noted = [t \in Targets |-> 0]
  /\ requests = 0
  /\ upstream = {} /\ answered = {} /\ installed = 0
  /\ opens = [t \in Targets |-> 0]

-----------------------------------------------------------------------------
(* record: tally, then note, and the one place where the modes differ.      *)

\* Slips: an observed finding opens the way for every refusal; monitor mode
\* lets the unidentifiable through; monitor mode refuses what it should report.
ProceedsOnAnyRefusal(d) == d.allow \/ ~d.malformed
ProceedsMalformed(d) == d.allow \/ mode = "monitor" \/ d.observe
ProceedsOnFindingsOnly(d) == d.allow \/ (d.observe /\ ~d.malformed)

Proceeds(d) == d.allow \/ ((mode = "monitor" \/ d.observe) /\ ~d.malformed)

\* The goroutine of c calls record and goes on to yes or to no.
Record(c, entry, d, target, yes, no) ==
  conn' = [conn EXCEPT ![c] = [entry EXCEPT !.at = "tally", !.decision = d,
                                 !.target = target, !.yes = yes, !.no = no]]

\* Slip: only what is really refused is noted to the reporter.
NotedDenialsOnly(d) == IF Proceeds(d) THEN 0 ELSE 1

\* What one record tells the reporter: every refusal, observed or not.
NotedFor(d) == IF d.allow THEN 0 ELSE 1

\* Slip: a finding counts as observed only the first time it is listed.
ObservedIfNew(d, t) == IF d.observe /\ mode # "monitor" /\ refusals[t] = 0 THEN 1 ELSE 0

ObservedFor(d, t) == IF d.observe /\ mode # "monitor" THEN 1 ELSE 0

\* Slip: past the cap nothing is counted, not even for a target in the list.
ListTargetOrReturn(t) ==
  \/ /\ Len(order) < MaxTargets
     /\ refusals' = [refusals EXCEPT ![t] = @ + 1]
     /\ order' = IF refusals[t] = 0 THEN Append(order, t) ELSE order
     /\ UNCHANGED summaryDropped
  \/ /\ Len(order) >= MaxTargets
     /\ UNCHANGED <<refusals, order, summaryDropped>>

ListTarget(t) ==
  \/ /\ refusals[t] > 0
     /\ refusals' = [refusals EXCEPT ![t] = @ + 1]
     /\ UNCHANGED <<order, summaryDropped>>
  \/ /\ refusals[t] = 0 /\ Len(order) < MaxTargets
     /\ refusals' = [refusals EXCEPT ![t] = 1]
     /\ order' = Append(order, t)
     /\ UNCHANGED summaryDropped
  \/ /\ refusals[t] = 0 /\ Len(order) >= MaxTargets
     /\ summaryDropped' = summaryDropped + 1
     /\ UNCHANGED <<refusals, order>>

Tally(c) ==
  LET d == conn[c].decision
      t == conn[c].target
  IN /\ conn[c].at = "tally"
     /\ conn' = [conn EXCEPT ![c].at = IF d.allow THEN conn[c].yes ELSE "note"]
     /\ \/ /\ d.allow /\ allowed' = allowed + 1
           /\ UNCHANGED <<observed, refusals, order, summaryDropped>>
        \/ /\ ~d.allow /\ ListTarget(t)
           /\ observed' = observed + ObservedFor(d, t)
           /\ UNCHANGED allowed
     /\ UNCHANGED <<started, now, noted, requests, history>>

Note(c) ==
  LET d == conn[c].decision
  IN /\ conn[c].at = "note"
     /\ noted' = [noted EXCEPT ![conn[c].target] = @ + NotedFor(d)]
     /\ conn' = [conn EXCEPT ![c].at = IF Proceeds(d) THEN conn[c].yes
                                       ELSE conn[c].no]
     /\ UNCHANGED <<started, now, tallied, requests, history>>

-----------------------------------------------------------------------------
(* The decision on one request.                                             *)

Arrive == requests < MaxRequests /\ requests' = requests + 1

\* authority, then path, then policy.  The host of a request inside a tunnel
\* is the tunnel's when the client names none.
Decision(malformed, host, path) ==
  IF malformed THEN malformedHost
  ELSE IF path = BadPath THEN malformedPath
  ELSE Check(policy, host, "GET", path)

\* What the blocklist says of a fetch: only tarballs are decided.
finding(host, path) ==
  LET pkg == parseRegistryPath(path, supply.posture.prefixes)
      hit == decide(supply, pkg)
  IN IF ~covers(supply, host) \/ ~pkg.ok \/ hit = NoHit THEN "none"
     ELSE IF hit.block THEN "block" ELSE "observe"

\* Slip: a stale document never closes the registry.
checkSupplyEverFresh(host, path) == finding(host, path)

\* The supply chain's word on a request, read against the clock each time.
checkSupply(host, path) ==
  IF /\ covers(supply, host) /\ supply.posture.onStale = "block_registry"
     /\ stale(supply, now)
  THEN "block" ELSE finding(host, path)

\* Redirected plain HTTP is forwarded without asking the supply chain.
AfterPolicy(route) == IF route = "http" THEN "send" ELSE "supply"

Handle(c, entry, malformed, host, path) ==
  Record(c, [entry EXCEPT !.host = host, !.path = path, !.hour = now],
         Decision(malformed, host, path), Target(host, "GET", path),
         AfterPolicy(entry.route), "refuse")

\* ServeHTTP and transparentHTTP: one request of a plain connection.
Request(c) ==
  /\ conn[c].at = "idle" /\ Arrive
  /\ \E route \in Routes \cap {"proxy", "http"}, host \in Hosts \cup {NoHost},
        path \in Paths \cup {BadPath} :
       Handle(c, [Idle EXCEPT !.route = route], host = NoHost, host, path)
  /\ UNCHANGED <<started, now, tallied, noted, history>>

\* serveTunnel: a request of a terminated TLS connection, with a Host header
\* (that parses or not) or without one.
TunnelRequest(c) ==
  /\ conn[c].at = "tunnel" /\ Arrive
  /\ \E path \in Paths \cup {BadPath} :
       \/ \E host \in Hosts \cup {NoHost} :
            Handle(c, conn[c], host = NoHost, host, path)
       \/ Handle(c, conn[c], FALSE, conn[c].tunnel, path)
  /\ UNCHANGED <<started, now, tallied, noted, history>>

Supply(c) ==
  LET entry == conn[c]
      verdict == checkSupply(entry.host, entry.path)
      d == [Decide(FALSE, IF verdict = "block" THEN "deny_supply_chain"
                          ELSE "monitor_supply_chain")
              EXCEPT !.observe = verdict # "block"]
  IN /\ entry.at = "supply"
     /\ \/ verdict = "none" /\ conn' = [conn EXCEPT ![c].at = "send"]
        \/ verdict # "none" /\ Record(c, entry, d, entry.target, "send", "refuse")
     /\ UNCHANGED <<started, now, tallied, noted, requests, history>>

-----------------------------------------------------------------------------
(* Opening a tunnel.  Only a refused one is recorded.                       *)

Open(c, route, malformed, host) ==
  LET d == IF malformed THEN malformedHost ELSE CheckTunnel(policy, host)
      entry == [Idle EXCEPT !.route = route, !.tunnel = host]
      t == Target(host, "CONNECT", NoPath)
  IN IF d.allow
     THEN conn' = [conn EXCEPT ![c] = [entry EXCEPT !.at = "tunnel"]]
          /\ UNCHANGED opens
     ELSE Record(c, entry, d, t, "tunnel", "dead")
          /\ opens' = [opens EXCEPT ![t] = @ + 1]

\* handleConnect: the authority of the CONNECT line parses or not.
Connect(c) ==
  /\ conn[c].at = "idle" /\ "connect" \in Routes /\ Arrive
  /\ \E host \in Hosts \cup {NoHost} : Open(c, "connect", host = NoHost, host)
  /\ UNCHANGED <<started, now, tallied, noted, upstream, answered, installed>>

\* serveTransparentTLS: the SNI is not parsed; without one the handshake fails
\* and the connection ends.
Hello(c) ==
  /\ conn[c].at = "idle" /\ "tls" \in Routes /\ Arrive
  /\ LET t == Target(NoHost, "CONNECT", NoPath)
     IN \/ \E host \in Hosts \cup BadNames : Open(c, "tls", FALSE, host)
        \/ /\ Record(c, [Idle EXCEPT !.route = "tls"], malformedHost, t, "idle", "idle")
           /\ opens' = [opens EXCEPT ![t] = @ + 1]
  /\ UNCHANGED <<started, now, tallied, noted, upstream, answered, installed>>

\* Slip: the request answered with the tunnel's refusal is recorded as well.
serveRefusalsRecording(c) ==
  /\ conn[c].at = "dead"
  /\ answered' = answered \cup {conn[c].decision}
  /\ Record(c, conn[c], conn[c].decision, conn[c].target, "idle", "idle")
  /\ UNCHANGED <<started, now, tallied, noted, requests, upstream, opens, installed>>

\* serveRefusals: one request is answered with the tunnel's refusal.
serveRefusals(c) ==
  /\ conn[c].at = "dead"
  /\ answered' = answered \cup {conn[c].decision}
  /\ conn' = [conn EXCEPT ![c] = Idle]
  /\ UNCHANGED <<started, now, tallied, noted, requests, upstream, opens, installed>>

-----------------------------------------------------------------------------
(* The end of a request or of a connection.                                 *)

\* A 403.  A tunnel is closed after it; a plain connection has nothing left.
Refuse(c) ==
  /\ conn[c].at = "refuse"
  /\ answered' = answered \cup {conn[c].decision}
  /\ conn' = [conn EXCEPT ![c] = Idle]
  /\ UNCHANGED <<started, now, tallied, noted, requests, upstream, opens, installed>>

\* roundTrip.  A tunnel serves on, or is closed after an error or on request.
Send(c) ==
  LET entry == conn[c]
  IN /\ entry.at = "send"
     /\ upstream' = upstream \cup {[host |-> entry.host, path |-> entry.path,
                                    route |-> entry.route, hour |-> entry.hour]}
     /\ installed' = installed + (IF entry.decision.observe THEN 1 ELSE 0)
     /\ \/ conn' = [conn EXCEPT ![c] = Idle]
        \/ /\ entry.route \in {"connect", "tls"}
           /\ conn' = [conn EXCEPT ![c] = [Idle EXCEPT !.at = "tunnel",
                                   !.route = entry.route, !.tunnel = entry.tunnel]]
     /\ UNCHANGED <<started, now, tallied, noted, requests, answered, opens>>

\* The client goes away, or the refused tunnel's read deadline passes.
Hangup(c) ==
  /\ conn[c].at \in {"tunnel", "dead"}
  /\ conn' = [conn EXCEPT ![c] = Idle]
  /\ UNCHANGED <<started, now, tallied, noted, requests, history>>

Hour ==
  /\ now < MaxHours /\ now' = now + 1
  /\ UNCHANGED <<started, conn, tallied, noted, requests, history>>

Next ==
  \/ \E c \in Conns :
       \/ Request(c) \/ Connect(c) \/ Hello(c) \/ TunnelRequest(c)
       \/ Tally(c) \/ Note(c) \/ Supply(c) \/ serveRefusals(c)
       \/ Refuse(c) \/ Send(c) \/ Hangup(c)
  \/ Hour

Spec == Init /\ [][Next]_vars

-----------------------------------------------------------------------------
(* Properties.                                                              *)

permitted(u) == Check(policy, u.host, "GET", u.path).allow
found(u) == finding(u.host, u.path)

\* mode.go:8: in enforce mode a request the policy refuses never reaches the
\* origin, on any route, nor one for a blocked package on the routes that ask.
\* A finding that is only to be reported opens the way for nothing else.
EnforceHolds ==
  mode = "enforce" =>
    \A u \in upstream :
      /\ permitted(u)
      /\ u.route # "http" => found(u) # "block"

\* proxy.go:163: where the organization closes the registry on a stale document,
\* no request that arrives after the threshold reaches it, on a connection that
\* was opened before it either.  A document that says no time has no threshold.
StaleRegistryIsClosed ==
  mode = "enforce" /\ supply.posture.onStale = "block_registry" =>
    \A u \in upstream :
      covers(supply, u.host) /\ u.route # "http" /\ supply.posture.generated # Unknown
        => u.hour <= supply.posture.generated + supply.posture.staleHours

\* proxy.go:403, mode.go:9: nothing that enforce would have refused goes through
\* unseen.  Whatever was let through against the policy, or with a finding, had
\* been noted to the reporter before.
NothingUnseen ==
  \A u \in upstream :
    ~permitted(u) \/ (u.route # "http" /\ found(u) # "none")
      => noted[Target(u.host, "GET", u.path)] > 0

\* mode.go:24: a request the guard cannot identify is forwarded in no mode.
UnidentifiedStaysHere ==
  \A u \in upstream : isHostname(u.host) /\ u.path # BadPath

\* mode.go:9: monitor mode answers 403 to the unidentifiable only.
MonitorRefusesOnlyTheUnidentified ==
  mode = "monitor" => \A d \in answered : d.malformed

InNote(t) == Cardinality({c \in Conns : conn[c].at = "note" /\ conn[c].target = t})

\* mode.go:77: the summary and the console are told the same events.  The list
\* names each refused target once, in the count of what was noted or is about
\* to be, and what found no place in the list is counted apart.
TallyAgreesWithReports ==
  /\ ToSet(order) = {t \in Targets : refusals[t] > 0}
  /\ Len(order) = Cardinality(ToSet(order)) /\ Len(order) <= MaxTargets
  /\ \A t \in ToSet(order) : refusals[t] <= noted[t] + InNote(t)
  /\ SumFunctionOnSet(refusals, Targets) + summaryDropped
       = SumFunction([t \in Targets |-> noted[t] + InNote(t)])

\* mode.go:88, mode.go:161: in an enforcing run, what the summary counts as
\* reported only is what is forwarded nevertheless, and no more.
ObservedAreForwarded ==
  mode = "enforce" =>
    observed = installed + Cardinality({c \in Conns :
      conn[c].decision.observe /\ conn[c].at \in {"note", "send"}})

\* proxy.go:385, proxy.go:399: a refused tunnel is recorded once, however many
\* requests are made on it, and a tunnel that is let through is not recorded.
RefusedTunnelRecordedOnce ==
  \A h \in Hosts \cup {NoHost} :
    LET t == Target(h, "CONNECT", NoPath)
    IN opens[t] = noted[t] + Cardinality({c \in Conns :
         conn[c].target = t /\ conn[c].at \in {"tally", "note"}})

\* docs/reference.md: every fetch of a blocked package is refused, on any route.
EveryFetchDecided ==
  mode = "enforce" => \A u \in upstream : found(u) # "block"
=============================================================================
