---------------------------- MODULE Proxy_proofs ----------------------------
(***************************************************************************)
(* Proofs about Proxy, for every set of connections, hosts and paths,      *)
(* every policy and document, and any number of requests and hours: what   *)
(* reaches an origin, and what the summary and the console are told.       *)
(***************************************************************************)
EXTENDS Proxy, Policy_proofs

-----------------------------------------------------------------------------
(* The inductive invariant: what a connection carries to the upstream.       *)

Named == Hosts \cup {NoHost}

Decisions ==
  [allow : BOOLEAN, malformed : BOOLEAN, observe : BOOLEAN,
   kind : {"allow", "deny_policy", "deny_blocklist", "deny_supply_chain", "monitor_supply_chain"}]

Places == {"idle", "tally", "note", "supply", "send", "refuse", "tunnel", "dead"}

Carriers ==
  [at : Places, route : {"proxy", "connect", "http", "tls"}, tunnel : Named,
   path : Paths \cup {BadPath, NoPath}, host : Named, decision : Decisions,
   target : Targets, yes : Places, no : Places, hour : Nat]

\* What goes to the same host and path is decided alike all the time.
OnTarget(e) == e.target = Target(e.host, "GET", e.path)

\* A request the policy let through, or that was noted and may pass.
Passed(e) ==
  /\ OnTarget(e)
  /\ mode = "enforce" => permitted(e)
  /\ ~permitted(e) => noted[e.target] > 0

\* A request that arrived before the registry was closed, if it is closed at all.
InTime(u) ==
  supply.posture.onStale = "block_registry" /\ covers(supply, u.host)
    /\ supply.posture.generated # Unknown
      => u.hour <= supply.posture.generated + supply.posture.staleHours

\* A request that may be sent.
Cleared(e) ==
  /\ Passed(e)
  /\ e.route # "http" =>
       /\ mode = "enforce" => found(e) # "block" /\ InTime(e)
       /\ found(e) # "none" => noted[e.target] > 0

\* The record of the policy's decision, and that of a finding.
RecordsPolicy(e) ==
  /\ e.yes = AfterPolicy(e.route) /\ ~e.decision.observe /\ OnTarget(e)
  /\ e.decision.allow => permitted(e)
RecordsFinding(e) ==
  /\ e.yes = "send" /\ e.route # "http" /\ Passed(e) /\ ~e.decision.allow
  /\ e.decision.observe => found(e) # "block" /\ InTime(e)

Carries(e) ==
  /\ e.at \in {"tally", "note"} =>
       \/ e.no = "refuse" /\ (RecordsPolicy(e) \/ RecordsFinding(e))
       \/ e.yes \in {"tunnel", "idle"} /\ e.no \in {"dead", "idle"}
  /\ e.at = "note" => ~e.decision.allow
  /\ e.at = "supply" => Passed(e) /\ e.route # "http"
  /\ e.at = "send" => Cleared(e)

Typed ==
  /\ conn \in [Conns -> Carriers] /\ noted \in [Targets -> Nat] /\ now \in Nat
  /\ \A c \in Conns : conn[c].hour <= now
  /\ supply \in Supplies
  /\ \A u \in upstream : Target(u.host, "GET", u.path) \in Targets

Inv ==
  /\ Typed /\ \A c \in Conns : Carries(conn[c])
  /\ EnforceHolds /\ NothingUnseen /\ StaleRegistryIsClosed

-----------------------------------------------------------------------------
(* Decisions do not change while the guard runs.                             *)

\* What was permitted or found once still is.
LEMMA DecisionsStay ==
  ASSUME UNCHANGED started
  PROVE  /\ mode' = mode
         /\ \A e : permitted(e)' = permitted(e) /\ found(e)' = found(e)
                  /\ InTime(e)' = InTime(e)
BY DEF started, permitted, found, finding, InTime

\* A step that only adds to what was noted leaves what the others carry.
LEMMA CarriesStays ==
  ASSUME Typed, UNCHANGED started, NEW e \in Carriers, Carries(e),
         \A t \in Targets : noted'[t] >= noted[t], noted' \in [Targets -> Nat]
  PROVE  Carries(e)'
<1>1. mode' = mode /\ permitted(e)' = permitted(e) /\ found(e)' = found(e)
      /\ InTime(e)' = InTime(e)
  BY DecisionsStay
<1>2. e.target \in Targets /\ (noted[e.target] > 0 => noted'[e.target] > 0)
  BY DEF Typed, Carriers
<1>3. Passed(e) => Passed(e)'
  BY <1>1, <1>2 DEF Passed, OnTarget
<1>4. Cleared(e) => Cleared(e)'
  BY <1>1, <1>2, <1>3 DEF Cleared
<1> QED
  BY <1>1, <1>3, <1>4 DEF Carries, RecordsPolicy, RecordsFinding, OnTarget, AfterPolicy

\* A step of one connection keeps what the others carry.
LEMMA OthersStay ==
  ASSUME Inv, UNCHANGED started, NEW c \in Conns,
         conn' \in [Conns -> Carriers], \A d \in Conns \ {c} : conn'[d] = conn[d],
         Carries(conn[c])',
         \A t \in Targets : noted'[t] >= noted[t], noted' \in [Targets -> Nat]
  PROVE  \A d \in Conns : Carries(conn[d])'
<1>1. ASSUME NEW d \in Conns \ {c} PROVE Carries(conn[d])'
  <2>1. PICK e \in Carriers : e = conn[d] /\ e = conn'[d]
    BY DEF Inv, Typed
  <2>2. Carries(e)
    BY <2>1 DEF Inv
  <2>3. Carries(e)'
    BY <2>2, CarriesStays DEF Inv
  <2> QED
    BY <2>1, <2>3
<1> QED
  BY <1>1

\* The requests sent before are as good as they were.
LEMMA UpstreamStays ==
  ASSUME Inv, UNCHANGED started,
         \A t \in Targets : noted'[t] >= noted[t], noted' \in [Targets -> Nat],
         \A u \in upstream' \ upstream :
           /\ Target(u.host, "GET", u.path) \in Targets
           /\ mode = "enforce" => permitted(u) /\ (u.route # "http" => found(u) # "block" /\ InTime(u))
           /\ ~permitted(u) \/ (u.route # "http" /\ found(u) # "none")
                => noted'[Target(u.host, "GET", u.path)] > 0
  PROVE  /\ \A u \in upstream' : Target(u.host, "GET", u.path) \in Targets
         /\ EnforceHolds' /\ NothingUnseen' /\ StaleRegistryIsClosed'
<1>1. mode' = mode /\ \A u : permitted(u)' = permitted(u) /\ found(u)' = found(u)
                           /\ InTime(u)' = InTime(u)
  BY DecisionsStay
<1>2. ASSUME NEW u \in upstream'
      PROVE  /\ Target(u.host, "GET", u.path) \in Targets
             /\ mode = "enforce" => permitted(u) /\ (u.route # "http" => found(u) # "block" /\ InTime(u))
             /\ ~permitted(u) \/ (u.route # "http" /\ found(u) # "none")
                  => noted'[Target(u.host, "GET", u.path)] > 0
  <2>1. CASE u \in upstream
    <3>1. Target(u.host, "GET", u.path) \in Targets
      BY <2>1 DEF Inv, Typed
    <3>2. noted[Target(u.host, "GET", u.path)] > 0 => noted'[Target(u.host, "GET", u.path)] > 0
      BY <3>1 DEF Inv, Typed
    <3> QED
      BY <2>1, <3>1, <3>2 DEF Inv, EnforceHolds, NothingUnseen, StaleRegistryIsClosed, InTime
  <2>2. CASE u \notin upstream
    BY <1>2, <2>2
  <2> QED
    BY <2>1, <2>2
<1>3. EnforceHolds'
  BY <1>1, <1>2 DEF EnforceHolds
<1>4. NothingUnseen'
  BY <1>1, <1>2 DEF NothingUnseen
<1>5. StaleRegistryIsClosed'
  BY <1>1, <1>2 DEF StaleRegistryIsClosed, InTime
<1> QED
  BY <1>2, <1>3, <1>4, <1>5

\* A step of connection c that sends nothing.
LEMMA ConnStep ==
  ASSUME Inv, UNCHANGED <<started, upstream>>, NEW c \in Conns,
         conn' \in [Conns -> Carriers], \A d \in Conns \ {c} : conn'[d] = conn[d],
         Carries(conn[c])', conn'[c].hour <= now', now' \in Nat, now' >= now,
         \A t \in Targets : noted'[t] >= noted[t], noted' \in [Targets -> Nat]
  PROVE  Inv'
<1>1. \A d \in Conns : Carries(conn[d])'
  BY OthersStay
<1>2. /\ \A u \in upstream' : Target(u.host, "GET", u.path) \in Targets
      /\ EnforceHolds' /\ NothingUnseen' /\ StaleRegistryIsClosed'
  BY UpstreamStays
<1>3. Typed'
  <2>1. ASSUME NEW d \in Conns PROVE conn'[d].hour <= now'
    BY DEF Inv, Typed, Carriers
  <2> QED
    BY <1>2, <2>1 DEF Inv, Typed, started, Targets, Target, BadPath, NoPath
<1> QED
  BY <1>1, <1>2, <1>3 DEF Inv

-----------------------------------------------------------------------------
(* Decisions, and the steps that make them.                                  *)

\* The policy alone never reports without refusing.
LEMMA PolicyDecisions ==
  /\ malformedHost \in Decisions /\ ~malformedHost.observe /\ ~malformedHost.allow
  /\ \A p, host, method, path :
       Check(p, host, method, path) \in Decisions /\ ~Check(p, host, method, path).observe
  /\ \A p, host : CheckTunnel(p, host) \in Decisions
<1> DEFINE Unreported == {Decide(TRUE, "allow"), Decide(FALSE, "deny_policy"),
                     Decide(FALSE, "deny_blocklist")}
<1>1. \A d \in Unreported : d \in Decisions /\ ~d.observe
  <2>1. ASSUME NEW allow \in BOOLEAN,
               NEW kind \in {"allow", "deny_policy", "deny_blocklist"}
        PROVE  Decide(allow, kind) \in Decisions /\ ~Decide(allow, kind).observe
    BY DEF Decide, Decisions
  <2> QED
    BY <2>1
<1>2. malformedHost \in Decisions /\ ~malformedHost.observe /\ ~malformedHost.allow
  BY DEF Decide, Decisions, malformedHost
<1>3. \A p, host, method, path : Check(p, host, method, path) \in Unreported
  BY DEF Check
<1>4. \A p, host : CheckTunnel(p, host) \in Unreported
  BY DEF CheckTunnel
<1> HIDE DEF Unreported
<1> QED
  BY <1>1, <1>2, <1>3, <1>4

\* The targets of requests and of tunnels.
LEMMA TargetsOf ==
  /\ \A host \in Named, path \in Paths \cup {BadPath} : Target(host, "GET", path) \in Targets
  /\ \A host \in Named : Target(host, "CONNECT", NoPath) \in Targets
BY DEF Targets, Named

\* The connection that has nothing to do.
LEMMA IdleEntry ==
  Idle \in Carriers /\ Idle.at = "idle" /\ Idle.hour = 0
<1>1. Decide(TRUE, "allow") \in Decisions
  BY DEF Decide, Decisions
<1>2. NoHost \in Named /\ Target(NoHost, "CONNECT", NoPath) \in Targets
  BY TargetsOf DEF Named
<1> QED
  BY <1>1, <1>2 DEF Idle, Carriers, Places

\* A request that is about to be recorded.
LEMMA HandleKeeps ==
  ASSUME Inv, NEW c \in Conns, NEW entry \in Carriers, NEW malformed, NEW host \in Named,
         NEW path \in Paths \cup {BadPath}, Handle(c, entry, malformed, host, path),
         UNCHANGED <<started, now, noted, upstream>>
  PROVE  Inv'
<1> DEFINE d == Decision(malformed, host, path)
           x == [entry EXCEPT !.host = host, !.path = path, !.hour = now, !.at = "tally",
                   !.decision = d, !.target = Target(host, "GET", path),
                   !.yes = AfterPolicy(entry.route), !.no = "refuse"]
<1>1. conn' = [conn EXCEPT ![c] = x]
  BY DEF Handle, Record, Carriers
<1>2. d \in Decisions /\ ~d.observe
      /\ (d.allow => Check(policy, host, "GET", path).allow)
  BY PolicyDecisions DEF Decision, malformedPath
<1>3. Target(host, "GET", path) \in Targets
  BY DEF Targets, Named
<1>0. now \in Nat /\ AfterPolicy(entry.route) \in Places
  BY DEF Inv, Typed, AfterPolicy, Places
<1>4. x \in Carriers
  BY <1>0, <1>2, <1>3 DEF Carriers, Places
<1>5. x.at = "tally" /\ x.no = "refuse" /\ x.yes = AfterPolicy(x.route) /\ x.decision = d
      /\ x.host = host /\ x.path = path /\ x.target = Target(host, "GET", path)
      /\ x.hour = now
  BY DEF Carriers
<1>6. conn' \in [Conns -> Carriers] /\ conn'[c] = x /\ \A e \in Conns \ {c} : conn'[e] = conn[e]
  BY <1>1, <1>4 DEF Inv, Typed
<1>7. Carries(conn[c])'
  BY <1>2, <1>5, <1>6 DEF Carries, RecordsPolicy, OnTarget, permitted, AfterPolicy, started
<1>8. conn'[c].hour <= now' /\ now' \in Nat /\ now' >= now
  BY <1>5, <1>6 DEF Inv, Typed
<1>9. noted' \in [Targets -> Nat] /\ \A t \in Targets : noted'[t] >= noted[t]
  BY DEF Inv, Typed
<1> HIDE DEF x, d
<1> QED
  BY <1>6, <1>7, <1>8, <1>9, ConnStep

\* A step that gives connection c the entry x and does nothing else.
LEMMA EntryStep ==
  ASSUME Inv, UNCHANGED <<started, upstream, now, noted>>, NEW c \in Conns,
         NEW x \in Carriers, Carries(x), x.hour <= now,
         conn' = [conn EXCEPT ![c] = x]
  PROVE  Inv'
<1>1. conn' \in [Conns -> Carriers] /\ conn'[c] = x /\ \A d \in Conns \ {c} : conn'[d] = conn[d]
  BY DEF Inv, Typed
<1>2. Carries(x)'
  BY CarriesStays DEF Inv, Typed
<1>3. Carries(conn[c])'
  BY <1>1, <1>2
<1> QED
  BY <1>1, <1>3, ConnStep DEF Inv, Typed

\* A connection that goes on to another place takes along what it carries.
LEMMA Moved ==
  ASSUME NEW e \in Carriers, NEW place \in Places, NEW x, x = [e EXCEPT !.at = place]
  PROVE  /\ x \in Carriers /\ x.at = place
         /\ x.route = e.route /\ x.decision = e.decision /\ x.target = e.target
         /\ x.yes = e.yes /\ x.no = e.no /\ x.hour = e.hour
         /\ Passed(x) <=> Passed(e)
         /\ Cleared(x) <=> Cleared(e)
         /\ RecordsPolicy(x) <=> RecordsPolicy(e)
         /\ RecordsFinding(x) <=> RecordsFinding(e)
<1>1. /\ x \in Carriers /\ x.at = place
      /\ x.route = e.route /\ x.decision = e.decision /\ x.target = e.target
      /\ x.yes = e.yes /\ x.no = e.no /\ x.host = e.host /\ x.path = e.path
      /\ x.hour = e.hour
  BY DEF Carriers
<1>2. permitted(x) = permitted(e) /\ found(x) = found(e) /\ OnTarget(x) = OnTarget(e)
      /\ InTime(x) = InTime(e)
  BY <1>1 DEF permitted, found, OnTarget, InTime
<1>3. Passed(x) <=> Passed(e)
  BY <1>1, <1>2 DEF Passed
<1>4. Cleared(x) <=> Cleared(e)
  BY <1>1, <1>2, <1>3 DEF Cleared
<1>5. RecordsPolicy(x) <=> RecordsPolicy(e)
  BY <1>1, <1>2 DEF RecordsPolicy
<1>6. RecordsFinding(x) <=> RecordsFinding(e)
  BY <1>1, <1>2, <1>3 DEF RecordsFinding
<1> QED
  BY <1>1, <1>3, <1>4, <1>5, <1>6

-----------------------------------------------------------------------------
(* The steps, one lemma each.                                                *)

LEMMA RequestKeeps ==
  ASSUME Inv, NEW c \in Conns, Request(c)
  PROVE  Inv'
<1>1. PICK route \in Routes \cap {"proxy", "http"}, host \in Hosts \cup {NoHost},
           path \in Paths \cup {BadPath} :
        Handle(c, [Idle EXCEPT !.route = route], host = NoHost, host, path)
  BY DEF Request
<1>2. [Idle EXCEPT !.route = route] \in Carriers
  BY IdleEntry DEF Carriers
<1> QED
  BY <1>1, <1>2, HandleKeeps DEF Request, history, Named

LEMMA TunnelRequestKeeps ==
  ASSUME Inv, NEW c \in Conns, TunnelRequest(c)
  PROVE  Inv'
<1>1. conn[c] \in Carriers /\ conn[c].tunnel \in Named
  BY DEF Inv, Typed, Carriers
<1>2. PICK path \in Paths \cup {BadPath} :
        \/ \E host \in Hosts \cup {NoHost} : Handle(c, conn[c], host = NoHost, host, path)
        \/ Handle(c, conn[c], FALSE, conn[c].tunnel, path)
  BY DEF TunnelRequest
<1>3. UNCHANGED <<started, now, noted, upstream>>
  BY DEF TunnelRequest, history
<1>4. CASE \E host \in Hosts \cup {NoHost} : Handle(c, conn[c], host = NoHost, host, path)
  BY <1>1, <1>3, <1>4, HandleKeeps DEF Named
<1>5. CASE Handle(c, conn[c], FALSE, conn[c].tunnel, path)
  BY <1>1, <1>3, <1>5, HandleKeeps
<1> QED
  BY <1>2, <1>4, <1>5

LEMMA TallyKeeps ==
  ASSUME Inv, NEW c \in Conns, Tally(c)
  PROVE  Inv'
<1> DEFINE e == conn[c]
           place == IF e.decision.allow THEN e.yes ELSE "note"
           x == [e EXCEPT !.at = place]
<1>1. e \in Carriers /\ e.at = "tally" /\ Carries(e) /\ e.hour <= now
  BY DEF Inv, Typed, Tally
<1>2. place \in Places
  BY <1>1 DEF Carriers, Places
<1>3. conn' = [conn EXCEPT ![c] = x]
  BY DEF Tally
<1> HIDE DEF e, place, x
<1>4. x = [e EXCEPT !.at = place]
  BY DEF x
<1>5. /\ x \in Carriers /\ x.at = place
      /\ x.route = e.route /\ x.decision = e.decision /\ x.yes = e.yes /\ x.no = e.no /\ x.hour = e.hour
      /\ Passed(x) <=> Passed(e)
      /\ RecordsPolicy(x) <=> RecordsPolicy(e)
      /\ RecordsFinding(x) <=> RecordsFinding(e)
  BY <1>1, <1>2, <1>4, Moved
<1>6. ASSUME ~e.decision.allow PROVE Carries(x)
  <2>1. place = "note"
    BY <1>6 DEF place
  <2> QED
    BY <1>1, <1>5, <1>6, <2>1 DEF Carries
<1>7. ASSUME e.decision.allow PROVE Carries(x)
  <2>1. place = e.yes
    BY <1>7 DEF place
  <2>2. CASE RecordsPolicy(e)
    <3>1. Passed(x)
      BY <1>5, <1>7, <2>2 DEF RecordsPolicy, Passed
    <3>2. place = AfterPolicy(x.route)
      BY <1>5, <2>1, <2>2 DEF RecordsPolicy
    <3>3. Carries(x)
      BY <1>5, <3>1, <3>2 DEF Carries, Cleared, AfterPolicy
    <3> QED
      BY <3>3
  <2>3. CASE e.yes \in {"tunnel", "idle"}
    BY <1>5, <2>1, <2>3 DEF Carries
  <2> QED
    BY <1>1, <1>7, <2>2, <2>3 DEF Carries, RecordsFinding
<1>8. Carries(x)
  BY <1>6, <1>7
<1> QED
  BY <1>1, <1>3, <1>5, <1>8, EntryStep DEF Tally, history

LEMMA NoteKeeps ==
  ASSUME Inv, NEW c \in Conns, Note(c)
  PROVE  Inv'
<1> DEFINE e == conn[c]
           place == IF Proceeds(e.decision) THEN e.yes ELSE e.no
<1>1. e \in Carriers /\ e.at = "note" /\ Carries(e) /\ ~e.decision.allow
      /\ e.hour <= now
  BY DEF Inv, Typed, Note, Carries
<1>2. place \in Places
  BY <1>1 DEF Carriers
<1>3. PICK x : x = [e EXCEPT !.at = place] /\ conn' = [conn EXCEPT ![c] = x]
  BY DEF Note
<1>4. e.target \in Targets /\ noted' = [noted EXCEPT ![e.target] = @ + 1]
  BY <1>1 DEF Note, NotedFor, Carriers
<1>5. UNCHANGED <<started, now, upstream>>
  BY DEF Note, history
<1> HIDE DEF e, place
<1>6. x \in Carriers /\ x.at = place /\ x.route = e.route /\ x.target = e.target
      /\ x.decision = e.decision /\ (RecordsPolicy(x) <=> RecordsPolicy(e))
      /\ (RecordsFinding(x) <=> RecordsFinding(e)) /\ x.yes = e.yes /\ x.no = e.no
      /\ x.hour = e.hour
  BY <1>1, <1>2, <1>3, Moved
<1>7. noted' \in [Targets -> Nat] /\ noted'[x.target] > 0
      /\ \A t \in Targets : noted'[t] >= noted[t]
  BY <1>4, <1>6 DEF Inv, Typed
<1>8. mode' = mode /\ permitted(x)' = permitted(x) /\ found(x)' = found(x)
      /\ InTime(x)' = InTime(x)
  BY <1>5, DecisionsStay
<1>9. conn' \in [Conns -> Carriers] /\ conn'[c] = x
       /\ \A d \in Conns \ {c} : conn'[d] = conn[d]
  BY <1>3, <1>6 DEF Inv, Typed
<1>10. ASSUME Proceeds(e.decision), RecordsPolicy(e) PROVE Carries(x)'
  <2>1. mode # "enforce" /\ place = AfterPolicy(x.route) /\ OnTarget(x)
    BY <1>1, <1>6, <1>10 DEF Proceeds, RecordsPolicy, place
  <2>2. Passed(x)'
    BY <1>7, <1>8, <2>1 DEF Passed, OnTarget
  <2>3. Cleared(x)'
    BY <1>7, <1>8, <2>1, <2>2 DEF Cleared
  <2>4. x.at \in {"send", "supply"} /\ (x.at = "supply" => x.route # "http")
    BY <1>6, <2>1 DEF AfterPolicy
  <2> QED
    BY <2>2, <2>3, <2>4 DEF Carries
<1>11. ASSUME Proceeds(e.decision), RecordsFinding(e) PROVE Carries(x)'
  <2>1. place = "send" /\ x.route # "http" /\ Passed(x)
        /\ (x.decision.observe => found(x) # "block" /\ InTime(x))
    BY <1>6, <1>11 DEF RecordsFinding, place
  <2>2. mode = "enforce" => found(x) # "block" /\ InTime(x)
    BY <1>1, <1>6, <1>11, <2>1 DEF Proceeds
  <2>3. Passed(x)'
    BY <1>7, <1>8, <2>1 DEF Passed, OnTarget
  <2>4. Cleared(x)'
    BY <1>7, <1>8, <2>1, <2>2, <2>3 DEF Cleared
  <2> QED
    BY <1>6, <2>1, <2>4 DEF Carries
<1>12. x.at \in {"refuse", "tunnel", "idle", "dead"} => Carries(x)'
  BY DEF Carries
<1>13. Carries(x)'
  BY <1>1, <1>6, <1>10, <1>11, <1>12 DEF Carries, place
<1>14. Carries(conn[c])'
  BY <1>9, <1>13
<1> QED
  BY <1>1, <1>5, <1>6, <1>7, <1>9, <1>14, ConnStep DEF Inv, Typed

LEMMA SupplyKeeps ==
  ASSUME Inv, NEW c \in Conns, Supply(c)
  PROVE  Inv'
<1> DEFINE e == conn[c]
           verdict == checkSupply(e.host, e.path)
           d == [Decide(FALSE, IF verdict = "block" THEN "deny_supply_chain"
                               ELSE "monitor_supply_chain")
                   EXCEPT !.observe = verdict # "block"]
<1>1. e \in Carriers /\ e.at = "supply" /\ Passed(e) /\ e.route # "http"
      /\ e.hour <= now
  BY DEF Inv, Typed, Supply, Carries
<1>2. verdict # "block" => found(e) = verdict /\ InTime(e)
  <2>1. supply.posture.generated \in Int /\ supply.posture.staleHours \in Nat \ {0}
    BY ProxyAssumption DEF Inv, Typed
  <2>2. e.hour \in Nat /\ now \in Nat
    BY <1>1 DEF Carriers, Inv, Typed
  <2>3. ~stale(supply, now) /\ supply.posture.generated # Unknown
          => e.hour <= supply.posture.generated + supply.posture.staleHours
    BY <1>1, <2>1, <2>2 DEF stale
  <2> QED
    BY <2>3 DEF checkSupply, found, finding, InTime
<1>3. UNCHANGED <<started, upstream, now, noted>>
  BY DEF Supply, history
<1>4. CASE verdict = "none" /\ conn' = [conn EXCEPT ![c].at = "send"]
  <2>1. PICK x : x = [e EXCEPT !.at = "send"]
    OBVIOUS
  <2>2. x \in Carriers /\ x.at = "send" /\ (Cleared(x) <=> Cleared(e)) /\ x.hour = e.hour
    BY <1>1, <2>1, Moved DEF Places
  <2>3. Carries(x)
    BY <1>1, <1>2, <1>4, <2>2 DEF Carries, Cleared
  <2>4. conn' = [conn EXCEPT ![c] = x]
    BY <1>4, <2>1
  <2> QED
    BY <1>1, <1>3, <2>2, <2>3, <2>4, EntryStep
<1>5. CASE Record(c, e, d, e.target, "send", "refuse")
  <2>1. PICK x : x = [e EXCEPT !.at = "tally", !.decision = d, !.target = e.target,
                        !.yes = "send", !.no = "refuse"]
    OBVIOUS
  <2>2. d \in Decisions /\ ~d.allow /\ (d.observe => verdict # "block")
    BY DEF Decide, Decisions
  <2> HIDE DEF d, verdict
  <2>3. x \in Carriers /\ x.at = "tally" /\ x.decision = d /\ x.target = e.target
        /\ x.yes = "send" /\ x.no = "refuse" /\ x.route = e.route
        /\ x.host = e.host /\ x.path = e.path /\ x.hour = e.hour
    BY <1>1, <2>1, <2>2 DEF Carriers, Places
  <2>4. permitted(x) = permitted(e) /\ found(x) = found(e) /\ OnTarget(x) = OnTarget(e)
        /\ InTime(x) = InTime(e)
    BY <2>3 DEF permitted, found, OnTarget, InTime
  <2>5. Passed(x)
    BY <1>1, <2>3, <2>4 DEF Passed
  <2>6. RecordsFinding(x)
    BY <1>1, <1>2, <2>2, <2>3, <2>4, <2>5 DEF RecordsFinding
  <2>7. Carries(x)
    BY <2>3, <2>6 DEF Carries
  <2>8. conn' = [conn EXCEPT ![c] = x]
    BY <1>5, <2>1 DEF Record
  <2> QED
    BY <1>1, <1>3, <2>3, <2>7, <2>8, EntryStep
<1> QED
  BY <1>4, <1>5 DEF Supply

\* What a refused tunnel is recorded as leads into no request.
LEMMA TunnelRecordKeeps ==
  ASSUME Inv, UNCHANGED <<started, upstream, now, noted>>, NEW c \in Conns,
         NEW entry \in Carriers, entry.hour = 0, NEW d \in Decisions, NEW host \in Named,
         NEW yes \in {"tunnel", "idle"}, NEW no \in {"dead", "idle"},
         Record(c, entry, d, Target(host, "CONNECT", NoPath), yes, no)
  PROVE  Inv'
<1>1. PICK x : x = [entry EXCEPT !.at = "tally", !.decision = d,
                      !.target = Target(host, "CONNECT", NoPath), !.yes = yes, !.no = no]
  OBVIOUS
<1>2. Target(host, "CONNECT", NoPath) \in Targets
  BY TargetsOf
<1>3. x \in Carriers /\ x.at = "tally" /\ x.yes = yes /\ x.no = no
      /\ x.hour = 0
  BY <1>1, <1>2 DEF Carriers, Places
<1>4. Carries(x)
  BY <1>3 DEF Carries
<1>5. conn' = [conn EXCEPT ![c] = x]
  BY <1>1 DEF Record
<1>6. x.hour <= now
  BY <1>3 DEF Inv, Typed
<1> QED
  BY <1>3, <1>4, <1>5, <1>6, EntryStep

LEMMA OpenKeeps ==
  ASSUME Inv, UNCHANGED <<started, upstream, now, noted>>, NEW c \in Conns,
         NEW route \in {"connect", "tls"}, NEW malformed, NEW host \in Named,
         Open(c, route, malformed, host)
  PROVE  Inv'
<1> DEFINE d == IF malformed THEN malformedHost ELSE CheckTunnel(policy, host)
           entry == [Idle EXCEPT !.route = route, !.tunnel = host]
<1>1. d \in Decisions
  BY PolicyDecisions
<1>2. entry \in Carriers /\ entry.hour = 0
  BY IdleEntry DEF Carriers
<1>3. CASE conn' = [conn EXCEPT ![c] = [entry EXCEPT !.at = "tunnel"]]
  <2> HIDE DEF entry
  <2>1. PICK x : x = [entry EXCEPT !.at = "tunnel"]
    OBVIOUS
  <2>2. x \in Carriers /\ x.at = "tunnel" /\ x.hour <= now
    BY <1>2, <2>1, Moved DEF Places, Inv, Typed
  <2>3. Carries(x) /\ conn' = [conn EXCEPT ![c] = x]
    BY <1>3, <2>1, <2>2 DEF Carries
  <2> QED
    BY <2>2, <2>3, EntryStep
<1>4. CASE Record(c, entry, d, Target(host, "CONNECT", NoPath), "tunnel", "dead")
  BY <1>1, <1>2, <1>4, TunnelRecordKeeps
<1> QED
  BY <1>3, <1>4 DEF Open

LEMMA ConnectKeeps ==
  ASSUME Inv, NEW c \in Conns, Connect(c)
  PROVE  Inv'
<1>1. PICK host \in Named : Open(c, "connect", host = NoHost, host)
  BY DEF Connect, Named
<1>2. UNCHANGED <<started, upstream, now, noted>>
  BY DEF Connect
<1> QED
  BY <1>1, <1>2, OpenKeeps

LEMMA HelloKeeps ==
  ASSUME Inv, NEW c \in Conns, Hello(c)
  PROVE  Inv'
<1>1. UNCHANGED <<started, upstream, now, noted>>
  BY DEF Hello
<1>2. CASE \E host \in Hosts \cup BadNames : Open(c, "tls", FALSE, host)
  <2>1. PICK host \in Named : Open(c, "tls", FALSE, host)
    BY <1>2, ProxyAssumption DEF Named
  <2> QED
    BY <1>1, <2>1, OpenKeeps
<1>3. CASE Record(c, [Idle EXCEPT !.route = "tls"], malformedHost,
                  Target(NoHost, "CONNECT", NoPath), "idle", "idle")
  <2>1. [Idle EXCEPT !.route = "tls"] \in Carriers
        /\ [Idle EXCEPT !.route = "tls"].hour = 0 /\ NoHost \in Named
    BY IdleEntry DEF Carriers, Named
  <2>2. malformedHost \in Decisions
    BY PolicyDecisions
  <2> QED
    BY <1>1, <1>3, <2>1, <2>2, TunnelRecordKeeps
<1> QED
  BY <1>2, <1>3 DEF Hello

\* The end of a request, or of a connection, without anything sent.
LEMMA EndKeeps ==
  ASSUME Inv, NEW c \in Conns, serveRefusals(c) \/ Refuse(c) \/ Hangup(c)
  PROVE  Inv'
<1>1. conn' = [conn EXCEPT ![c] = Idle] /\ UNCHANGED <<started, upstream, now, noted>>
  BY DEF serveRefusals, Refuse, Hangup, history
<1>2. Idle \in Carriers /\ Carries(Idle) /\ Idle.hour <= now
  BY IdleEntry DEF Carries, Inv, Typed
<1> QED
  BY <1>1, <1>2, EntryStep

LEMMA SendKeeps ==
  ASSUME Inv, NEW c \in Conns, Send(c)
  PROVE  Inv'
<1> DEFINE e == conn[c]
           u == [host |-> e.host, path |-> e.path, route |-> e.route, hour |-> e.hour]
<1>1. e \in Carriers /\ Cleared(e)
  BY DEF Inv, Typed, Send, Carries
<1>2. UNCHANGED <<started, now, noted>> /\ upstream' = upstream \cup {u}
  BY DEF Send
<1>3. /\ Target(u.host, "GET", u.path) \in Targets
      /\ mode = "enforce" => permitted(u) /\ (u.route # "http" => found(u) # "block" /\ InTime(u))
      /\ ~permitted(u) \/ (u.route # "http" /\ found(u) # "none")
           => noted[Target(u.host, "GET", u.path)] > 0
  <2>1. e.target \in Targets
    BY <1>1 DEF Carriers
  <2>2. permitted(u) = permitted(e) /\ found(u) = found(e) /\ InTime(u) = InTime(e)
        /\ u.route = e.route /\ Target(u.host, "GET", u.path) = Target(e.host, "GET", e.path)
    BY DEF permitted, found, InTime
  <2> HIDE DEF u, e
  <2> QED
    BY <1>1, <2>1, <2>2 DEF Cleared, Passed, OnTarget
<1>4. noted' \in [Targets -> Nat] /\ \A t \in Targets : noted'[t] >= noted[t]
  BY <1>2 DEF Inv, Typed
<1>5. /\ \A w \in upstream' : Target(w.host, "GET", w.path) \in Targets
      /\ EnforceHolds' /\ NothingUnseen' /\ StaleRegistryIsClosed'
  <2> HIDE DEF u
  <2>1. \A w \in upstream' \ upstream : w = u
    BY <1>2
  <2> QED
    BY <1>2, <1>3, <1>4, <2>1, UpstreamStays
<1>6. PICK x \in Carriers : conn' = [conn EXCEPT ![c] = x] /\ x.at \in {"idle", "tunnel"} /\ x.hour = 0
  <2>1. CASE conn' = [conn EXCEPT ![c] = Idle]
    BY <2>1, IdleEntry
  <2>2. CASE conn' = [conn EXCEPT ![c] = [Idle EXCEPT !.at = "tunnel", !.route = e.route,
                                            !.tunnel = e.tunnel]]
    <3>1. [Idle EXCEPT !.at = "tunnel", !.route = e.route, !.tunnel = e.tunnel] \in Carriers
      BY <1>1, IdleEntry DEF Carriers, Places
    <3>2. /\ [Idle EXCEPT !.at = "tunnel", !.route = e.route, !.tunnel = e.tunnel].at = "tunnel"
          /\ [Idle EXCEPT !.at = "tunnel", !.route = e.route, !.tunnel = e.tunnel].hour = 0
      BY IdleEntry DEF Carriers
    <3> QED
      BY <2>2, <3>1, <3>2
  <2> QED
    BY <2>1, <2>2 DEF Send
<1>7. conn' \in [Conns -> Carriers] /\ conn'[c] = x
      /\ \A d \in Conns \ {c} : conn'[d] = conn[d]
  BY <1>6 DEF Inv, Typed
<1>8. Carries(conn[c])'
  BY <1>6, <1>7 DEF Carries
<1>9. \A d \in Conns : Carries(conn[d])'
  BY <1>2, <1>4, <1>7, <1>8, OthersStay
<1>10. Typed'
  <2>1. ASSUME NEW d \in Conns PROVE conn'[d].hour <= now'
    BY <1>2, <1>6, <1>7 DEF Inv, Typed
  <2> QED
    BY <2>1, <1>2, <1>4, <1>5, <1>7 DEF Typed, Inv, started, Targets, Target, BadPath, NoPath
<1> QED
  BY <1>5, <1>9, <1>10 DEF Inv

-----------------------------------------------------------------------------
(* Theorems.                                                                 *)

\* A step of no connection: an hour passes, or nothing happens.
LEMMA OtherwiseKeeps ==
  ASSUME Inv, Hour \/ UNCHANGED vars
  PROVE  Inv'
<1>1. UNCHANGED <<started, conn, noted, upstream>> /\ now' \in Nat /\ now' >= now
  BY DEF Hour, vars, history, Inv, Typed
<1>2. \A t \in Targets : noted'[t] >= noted[t]
  BY <1>1 DEF Inv, Typed
<1>3. noted' \in [Targets -> Nat]
  BY <1>1 DEF Inv, Typed
<1>4. Typed'
  <2>1. ASSUME NEW c \in Conns PROVE conn'[c].hour <= now'
    BY <1>1 DEF Inv, Typed, Carriers
  <2> QED
    BY <1>1, <2>1 DEF Inv, Typed, started, Targets, Target, BadPath, NoPath
<1>5. ASSUME NEW c \in Conns PROVE Carries(conn[c])'
  <2>1. PICK e \in Carriers : e = conn[c] /\ e = conn'[c] /\ Carries(e)
    BY <1>1 DEF Inv, Typed
  <2>2. Carries(e)'
    BY <1>1, <1>2, <1>3, <2>1, CarriesStays DEF Inv
  <2> QED
    BY <2>1, <2>2
<1>6. EnforceHolds' /\ NothingUnseen' /\ StaleRegistryIsClosed'
  BY <1>1, <1>2, <1>3, UpstreamStays
<1> QED
  BY <1>4, <1>5, <1>6 DEF Inv

\* The invariant at the start.
LEMMA InvInit ==
  ASSUME Init
  PROVE  Inv
<1>1. conn \in [Conns -> Carriers] /\ \A c \in Conns : conn[c].at = "idle" /\ conn[c].hour = 0
  BY IdleEntry DEF Init
<1>2. \A c \in Conns : Carries(conn[c])
  BY <1>1 DEF Carries
<1>3. noted \in [Targets -> Nat] /\ now \in Nat /\ upstream = {} /\ supply \in Supplies /\ now = 0
  BY DEF Init
<1> QED
  BY <1>1, <1>2, <1>3 DEF Inv, Typed, EnforceHolds, NothingUnseen, StaleRegistryIsClosed

\* The step of the induction.
LEMMA InvStep ==
  ASSUME Inv, [Next]_vars
  PROVE  Inv'
<1>1. ASSUME NEW c \in Conns,
             \/ Request(c) \/ Connect(c) \/ Hello(c) \/ TunnelRequest(c)
             \/ Tally(c) \/ Note(c) \/ Supply(c) \/ serveRefusals(c)
             \/ Refuse(c) \/ Send(c) \/ Hangup(c)
      PROVE  Inv'
  BY <1>1, RequestKeeps, ConnectKeeps, HelloKeeps, TunnelRequestKeeps, TallyKeeps,
     NoteKeeps, SupplyKeeps, SendKeeps, EndKeeps
<1> QED
  BY <1>1, OtherwiseKeeps DEF Next

\* What a connection carries to the upstream was decided, and noted, before.
THEOREM Invariance == Spec => []Inv
<1>1. Init => Inv
  BY InvInit
<1>2. Inv /\ [Next]_vars => Inv'
  BY InvStep
<1> QED
  BY <1>1, <1>2, PTL DEF Spec

\* In enforce mode no request reaches the origin that the policy refuses, nor
\* one for a blocked package on the routes that ask the supply chain, whatever
\* the handlers of other connections do in between.
THEOREM EnforceHoldsAlways == Spec => []EnforceHolds
<1>1. Inv => EnforceHolds
  BY DEF Inv
<1> QED
  BY <1>1, Invariance, PTL

\* Whatever is forwarded against the policy, or with a finding, was noted to the
\* reporter before it was forwarded.
THEOREM NothingGoesUnseen == Spec => []NothingUnseen
<1>1. Inv => NothingUnseen
  BY DEF Inv
<1> QED
  BY <1>1, Invariance, PTL

\* Where a stale document closes the registry, no request that arrived after the
\* threshold is forwarded to it, on a connection from before the threshold either.
THEOREM StaleRegistryStaysClosed == Spec => []StaleRegistryIsClosed
<1>1. Inv => StaleRegistryIsClosed
  BY DEF Inv
<1> QED
  BY <1>1, Invariance, PTL


-----------------------------------------------------------------------------
(* The kinds of step.  x is what the entry of connection c becomes.          *)

counts == <<tallied, noted, opens, installed>>

\* The name of a request inside a tunnel is the client's or the tunnel's.
Begins(c, x) ==
  /\ conn[c].at \in {"idle", "tunnel"} /\ x.at = "tally"
  /\ x.no = "refuse" /\ x.yes = AfterPolicy(x.route)
  /\ ~x.decision.observe /\ OnTarget(x)
  /\ \/ x.decision.malformed /\ ~x.decision.allow
     \/ /\ ~x.decision.malformed /\ x.path # BadPath
        /\ x.host \in Hosts \/ (conn[c].at = "tunnel" /\ x.host = conn[c].tunnel)
  /\ IF conn[c].at = "idle" THEN x.route \in {"proxy", "http"}
     ELSE x.route = conn[c].route /\ x.tunnel = conn[c].tunnel
  /\ UNCHANGED <<counts, upstream, answered>>

Opens(c, x) ==
  /\ conn[c].at = "idle" /\ x.at = "tunnel" /\ x.tunnel \in Hosts \cup BadNames
  /\ UNCHANGED <<counts, upstream, answered>>

Rejects(c, x) ==
  /\ conn[c].at = "idle" /\ x.at = "tally"
  /\ \/ x.no = "dead" /\ x.yes = "tunnel"
     \/ x.no = "idle" /\ x.yes = "idle"
  /\ ~x.decision.allow /\ ~x.decision.observe
  /\ x.decision.malformed \/ x.tunnel \in Hosts \cup BadNames
  /\ x.target \in {Target(h, "CONNECT", NoPath) : h \in Named}
  /\ opens' = [opens EXCEPT ![x.target] = @ + 1]
  /\ UNCHANGED <<tallied, noted, installed, upstream, answered>>

\* What a connection keeps when it only goes on to another place.
Same(x, e) ==
  /\ x.route = e.route /\ x.tunnel = e.tunnel /\ x.host = e.host /\ x.path = e.path
  /\ x.decision = e.decision /\ x.target = e.target /\ x.yes = e.yes /\ x.no = e.no

Tallies(c, x) ==
  /\ conn[c].at = "tally" /\ Same(x, conn[c])
  /\ \/ /\ x.decision.allow /\ x.at = x.yes
        /\ UNCHANGED <<observed, refusals, order, summaryDropped>>
     \/ /\ ~x.decision.allow /\ x.at = "note" /\ ListTarget(x.target)
        /\ observed' = observed + ObservedFor(x.decision, x.target)
  /\ UNCHANGED <<noted, history>>

Notes(c, x) ==
  /\ conn[c].at = "note" /\ Same(x, conn[c])
  /\ x.at = IF Proceeds(x.decision) THEN x.yes ELSE x.no
  /\ noted' = [noted EXCEPT ![x.target] = @ + 1]
  /\ UNCHANGED <<tallied, history>>

Clears(c, x) ==
  /\ conn[c].at = "supply" /\ x.at = "send" /\ Same(x, conn[c])
  /\ UNCHANGED <<counts, upstream, answered>>

Finds(c, x) ==
  /\ conn[c].at = "supply" /\ x.at = "tally" /\ x.no = "refuse" /\ x.yes = "send"
  /\ ~x.decision.allow /\ ~x.decision.malformed
  /\ x.route = conn[c].route /\ x.tunnel = conn[c].tunnel
  /\ x.host = conn[c].host /\ x.path = conn[c].path /\ x.target = conn[c].target
  /\ UNCHANGED <<counts, upstream, answered>>

Ends(c, x) ==
  /\ conn[c].at \in {"refuse", "dead", "tunnel"} /\ x.at = "idle"
  /\ \/ UNCHANGED answered
     \/ conn[c].at # "tunnel" /\ answered' = answered \cup {conn[c].decision}
  /\ UNCHANGED <<counts, upstream>>

Sends(c, x) ==
  /\ conn[c].at = "send"
  /\ \/ x.at = "idle"
     \/ /\ x.at = "tunnel" /\ conn[c].route \in {"connect", "tls"}
        /\ x.tunnel = conn[c].tunnel
  /\ \E u \in [host : {conn[c].host}, path : {conn[c].path},
               route : {conn[c].route}, hour : {conn[c].hour}] :
       upstream' = upstream \cup {u}
  /\ installed' = installed + (IF conn[c].decision.observe THEN 1 ELSE 0)
  /\ UNCHANGED <<tallied, noted, opens, answered>>

Kind(c, x) ==
  \/ Begins(c, x) \/ Opens(c, x) \/ Rejects(c, x) \/ Tallies(c, x) \/ Notes(c, x)
  \/ Clears(c, x) \/ Finds(c, x) \/ Ends(c, x) \/ Sends(c, x)

\* Connection c's entry becomes x, and no other entry changes.
Becomes(c, x) == conn' = [conn EXCEPT ![c] = x]

-----------------------------------------------------------------------------
(* Every step is of one kind.                                                *)

\* The policy marks nothing as malformed and reports nothing it permits.
LEMMA PolicyMarks ==
  /\ malformedHost.malformed /\ ~malformedHost.allow /\ ~malformedHost.observe
  /\ \A p, host, method, path :
       ~Check(p, host, method, path).malformed /\ ~Check(p, host, method, path).observe
  /\ \A p, host : ~CheckTunnel(p, host).malformed /\ ~CheckTunnel(p, host).observe
<1>1. \A allow, kind : ~Decide(allow, kind).malformed /\ ~Decide(allow, kind).observe
  BY DEF Decide
<1>2. malformedHost.malformed /\ ~malformedHost.allow /\ ~malformedHost.observe
  BY DEF Decide, malformedHost
<1> QED
  BY <1>1, <1>2 DEF Check, CheckTunnel

\* A request begins.
LEMMA HandleIsBegins ==
  ASSUME Inv, NEW c \in Conns, NEW entry \in Carriers, NEW malformed \in BOOLEAN,
         NEW host \in Named, NEW path \in Paths \cup {BadPath},
         Handle(c, entry, malformed, host, path),
         conn[c].at \in {"idle", "tunnel"},
         ~malformed => host \in Hosts \/ (conn[c].at = "tunnel" /\ host = conn[c].tunnel),
         IF conn[c].at = "idle" THEN entry.route \in {"proxy", "http"}
         ELSE entry = conn[c],
         UNCHANGED <<tallied, noted, history>>
  PROVE  \E x \in Carriers : Becomes(c, x) /\ Begins(c, x)
<1> DEFINE d == Decision(malformed, host, path)
<1>1. PICK x : x = [entry EXCEPT !.host = host, !.path = path, !.hour = now, !.at = "tally",
                      !.decision = d, !.target = Target(host, "GET", path),
                      !.yes = AfterPolicy(entry.route), !.no = "refuse"]
  OBVIOUS
<1>2. Becomes(c, x)
  BY <1>1 DEF Handle, Record, Carriers, Becomes
<1>3. /\ d \in Decisions /\ ~d.observe
      /\ \/ d.malformed /\ ~d.allow
         \/ ~d.malformed /\ ~malformed /\ path # BadPath
  BY PolicyDecisions, PolicyMarks DEF Decision, malformedPath
<1>4. Target(host, "GET", path) \in Targets
  BY TargetsOf
<1> HIDE DEF d
<1>5. x \in Carriers
  BY <1>1, <1>3, <1>4 DEF Carriers, Places, AfterPolicy, Inv, Typed
<1>6. /\ x.at = "tally" /\ x.no = "refuse" /\ x.yes = AfterPolicy(x.route)
      /\ x.decision = d /\ x.host = host /\ x.path = path /\ x.route = entry.route
      /\ x.tunnel = entry.tunnel /\ x.target = Target(x.host, "GET", x.path)
  BY <1>1 DEF Carriers
<1>7. Begins(c, x)
  BY <1>3, <1>6 DEF Begins, OnTarget, counts, history
<1> QED
  BY <1>2, <1>5, <1>7

LEMMA RequestKind ==
  ASSUME Inv, NEW c \in Conns, Request(c)
  PROVE  \E x \in Carriers : Becomes(c, x) /\ Kind(c, x)
<1>1. PICK route \in Routes \cap {"proxy", "http"}, host \in Named,
           path \in Paths \cup {BadPath} :
        Handle(c, [Idle EXCEPT !.route = route], host = NoHost, host, path)
  BY DEF Request, Named
<1>2. PICK entry : entry = [Idle EXCEPT !.route = route]
  OBVIOUS
<1>3. entry \in Carriers /\ entry.route \in {"proxy", "http"}
  BY <1>2, IdleEntry DEF Carriers
<1>4. Handle(c, entry, host = NoHost, host, path)
  BY <1>1, <1>2
<1>5. conn[c].at = "idle" /\ UNCHANGED <<tallied, noted, history>>
  BY DEF Request
<1>6. \E x \in Carriers : Becomes(c, x) /\ Begins(c, x)
  BY <1>3, <1>4, <1>5, HandleIsBegins DEF Named
<1> QED
  BY <1>6 DEF Kind

LEMMA TunnelRequestKind ==
  ASSUME Inv, NEW c \in Conns, TunnelRequest(c)
  PROVE  \E x \in Carriers : Becomes(c, x) /\ Kind(c, x)
<1>1. /\ conn[c] \in Carriers /\ conn[c].at = "tunnel" /\ conn[c].tunnel \in Named
      /\ UNCHANGED <<tallied, noted, history>>
  BY DEF Inv, Typed, Carriers, TunnelRequest
<1>2. PICK path \in Paths \cup {BadPath} :
        \/ \E host \in Named : Handle(c, conn[c], host = NoHost, host, path)
        \/ Handle(c, conn[c], FALSE, conn[c].tunnel, path)
  BY DEF TunnelRequest, Named
<1>3. CASE \E host \in Named : Handle(c, conn[c], host = NoHost, host, path)
  <2>1. PICK host \in Named : Handle(c, conn[c], host = NoHost, host, path)
    BY <1>3
  <2>2. \E x \in Carriers : Becomes(c, x) /\ Begins(c, x)
    BY <1>1, <2>1, HandleIsBegins DEF Named
  <2> QED
    BY <2>2 DEF Kind
<1>4. CASE Handle(c, conn[c], FALSE, conn[c].tunnel, path)
  <2>1. \E x \in Carriers : Becomes(c, x) /\ Begins(c, x)
    BY <1>1, <1>4, HandleIsBegins
  <2> QED
    BY <2>1 DEF Kind
<1> QED
  BY <1>2, <1>3, <1>4

\* The entry of a refused tunnel.
LEMMA RecordIsRejects ==
  ASSUME Inv, NEW c \in Conns, conn[c].at = "idle",
         NEW entry \in Carriers, NEW d \in Decisions, NEW host \in Named,
         NEW yes \in Places, NEW no \in Places,
         \/ no = "dead" /\ yes = "tunnel"
         \/ no = "idle" /\ yes = "idle",
         ~d.allow, ~d.observe, d.malformed \/ entry.tunnel \in Hosts \cup BadNames,
         Record(c, entry, d, Target(host, "CONNECT", NoPath), yes, no),
         opens' = [opens EXCEPT ![Target(host, "CONNECT", NoPath)] = @ + 1],
         UNCHANGED <<tallied, noted, installed, upstream, answered>>
  PROVE  \E x \in Carriers : Becomes(c, x) /\ Kind(c, x)
<1> DEFINE t == Target(host, "CONNECT", NoPath)
<1>1. PICK x : x = [entry EXCEPT !.at = "tally", !.decision = d, !.target = t,
                      !.yes = yes, !.no = no]
  OBVIOUS
<1>2. t \in Targets /\ t \in {Target(h, "CONNECT", NoPath) : h \in Named}
  BY TargetsOf
<1>3. opens' = [opens EXCEPT ![t] = @ + 1]
  OBVIOUS
<1>4. Becomes(c, x)
  BY <1>1 DEF Record, Becomes
<1> HIDE DEF t
<1>5. x \in Carriers
  BY <1>1, <1>2 DEF Carriers, Places
<1>6. /\ x.at = "tally" /\ x.decision = d /\ x.target = t /\ x.yes = yes /\ x.no = no
      /\ x.tunnel = entry.tunnel
  BY <1>1 DEF Carriers
<1>7. Rejects(c, x)
  BY <1>2, <1>3, <1>6 DEF Rejects
<1> QED
  BY <1>4, <1>5, <1>7 DEF Kind

LEMMA OpenKind ==
  ASSUME Inv, NEW c \in Conns, conn[c].at = "idle",
         NEW route \in {"connect", "tls"}, NEW malformed \in BOOLEAN, NEW host \in Named,
         malformed \/ host \in Hosts \cup BadNames, Open(c, route, malformed, host),
         UNCHANGED <<tallied, noted, installed, upstream, answered>>
  PROVE  \E x \in Carriers : Becomes(c, x) /\ Kind(c, x)
<1> DEFINE d == IF malformed THEN malformedHost ELSE CheckTunnel(policy, host)
<1>1. PICK entry : entry = [Idle EXCEPT !.route = route, !.tunnel = host]
  OBVIOUS
<1>2. entry \in Carriers /\ entry.tunnel = host
  BY <1>1, IdleEntry DEF Carriers
<1>3. d \in Decisions /\ ~d.observe /\ (malformed => d.malformed /\ ~d.allow)
  BY PolicyDecisions, PolicyMarks
<1>4. CASE d.allow
  <2>1. PICK x : x = [entry EXCEPT !.at = "tunnel"]
    OBVIOUS
  <2>2. x \in Carriers /\ x.at = "tunnel" /\ x.tunnel = host
    BY <1>2, <2>1 DEF Carriers, Places
  <2>3. Becomes(c, x) /\ UNCHANGED opens
    BY <1>1, <1>4, <2>1 DEF Open, Becomes
  <2>4. Opens(c, x)
    BY <1>3, <1>4, <2>2, <2>3 DEF Opens, counts
  <2> QED
    BY <2>2, <2>3, <2>4 DEF Kind
<1>5. CASE ~d.allow
  <2>1. /\ Record(c, entry, d, Target(host, "CONNECT", NoPath), "tunnel", "dead")
        /\ opens' = [opens EXCEPT ![Target(host, "CONNECT", NoPath)] = @ + 1]
    BY <1>1, <1>5 DEF Open
  <2>2. d.malformed \/ entry.tunnel \in Hosts \cup BadNames
    BY <1>2, <1>3
  <2>3. "tunnel" \in Places /\ "dead" \in Places
    BY DEF Places
  <2> HIDE DEF d
  <2> QED
    BY <1>2, <1>3, <1>5, <2>1, <2>2, <2>3, RecordIsRejects
<1> QED
  BY <1>4, <1>5

LEMMA ConnectKind ==
  ASSUME Inv, NEW c \in Conns, Connect(c)
  PROVE  \E x \in Carriers : Becomes(c, x) /\ Kind(c, x)
<1>1. PICK host \in Named : Open(c, "connect", host = NoHost, host)
  BY DEF Connect, Named
<1>2. conn[c].at = "idle" /\ UNCHANGED <<tallied, noted, installed, upstream, answered>>
  BY DEF Connect
<1>3. host = NoHost \/ host \in Hosts \cup BadNames
  BY DEF Named
<1> QED
  BY <1>1, <1>2, <1>3, OpenKind

LEMMA HelloKind ==
  ASSUME Inv, NEW c \in Conns, Hello(c)
  PROVE  \E x \in Carriers : Becomes(c, x) /\ Kind(c, x)
<1>1. conn[c].at = "idle" /\ UNCHANGED <<tallied, noted, installed, upstream, answered>>
  BY DEF Hello
<1>2. CASE \E host \in Hosts \cup BadNames : Open(c, "tls", FALSE, host)
  <2>1. PICK host \in Hosts \cup BadNames : Open(c, "tls", FALSE, host)
    BY <1>2
  <2>2. host \in Named
    BY ProxyAssumption DEF Named
  <2> QED
    BY <1>1, <2>1, <2>2, OpenKind
<1>3. CASE ~(\E host \in Hosts \cup BadNames : Open(c, "tls", FALSE, host))
  <2>1. PICK entry : entry = [Idle EXCEPT !.route = "tls"]
    OBVIOUS
  <2>2. entry \in Carriers
    BY <2>1, IdleEntry DEF Carriers
  <2>3. /\ Record(c, entry, malformedHost, Target(NoHost, "CONNECT", NoPath), "idle", "idle")
        /\ opens' = [opens EXCEPT ![Target(NoHost, "CONNECT", NoPath)] = @ + 1]
    BY <1>3, <2>1 DEF Hello
  <2>4. NoHost \in Named /\ "idle" \in Places
    BY DEF Named, Places
  <2> QED
    BY <1>1, <2>2, <2>3, <2>4, PolicyDecisions, PolicyMarks, RecordIsRejects
<1> QED
  BY <1>2, <1>3

\* An entry that only moves.
LEMMA MovedSame ==
  ASSUME NEW e \in Carriers, NEW place \in Places, NEW x, x = [e EXCEPT !.at = place]
  PROVE  x \in Carriers /\ x.at = place /\ Same(x, e)
BY DEF Carriers, Same

LEMMA TallyKind ==
  ASSUME Inv, NEW c \in Conns, Tally(c)
  PROVE  \E x \in Carriers : Becomes(c, x) /\ Kind(c, x)
<1> DEFINE place == IF conn[c].decision.allow THEN conn[c].yes ELSE "note"
<1>1. conn[c] \in Carriers /\ conn[c].at = "tally"
  BY DEF Inv, Typed, Tally
<1>2. place \in Places
  BY <1>1 DEF Carriers, Places
<1>3. PICK x : x = [conn[c] EXCEPT !.at = place]
  OBVIOUS
<1>4. Becomes(c, x)
  BY <1>3 DEF Tally, Becomes
<1>5. x \in Carriers /\ x.at = place /\ Same(x, conn[c])
  BY <1>1, <1>2, <1>3, MovedSame
<1>6. Tallies(c, x)
  <2>1. x.decision = conn[c].decision /\ x.target = conn[c].target /\ x.yes = conn[c].yes
    BY <1>5 DEF Same
  <2> QED
    BY <1>1, <1>5, <2>1 DEF Tally, Tallies
<1> QED
  BY <1>4, <1>5, <1>6 DEF Kind

LEMMA NoteKind ==
  ASSUME Inv, NEW c \in Conns, Note(c)
  PROVE  \E x \in Carriers : Becomes(c, x) /\ Kind(c, x)
<1> DEFINE place == IF Proceeds(conn[c].decision) THEN conn[c].yes ELSE conn[c].no
<1>1. conn[c] \in Carriers /\ conn[c].at = "note" /\ ~conn[c].decision.allow
  BY DEF Inv, Typed, Note, Carries
<1>2. place \in Places
  BY <1>1 DEF Carriers
<1>3. PICK x : x = [conn[c] EXCEPT !.at = place]
  OBVIOUS
<1>4. Becomes(c, x)
  BY <1>3 DEF Note, Becomes
<1>5. x \in Carriers /\ x.at = place /\ Same(x, conn[c])
  BY <1>1, <1>2, <1>3, MovedSame
<1>6. Notes(c, x)
  <2>1. x.decision = conn[c].decision /\ x.target = conn[c].target
        /\ x.yes = conn[c].yes /\ x.no = conn[c].no
    BY <1>5 DEF Same
  <2>2. noted' = [noted EXCEPT ![conn[c].target] = @ + 1]
        /\ UNCHANGED <<tallied, history>>
    BY <1>1 DEF Note, NotedFor
  <2> QED
    BY <1>1, <1>5, <2>1, <2>2 DEF Notes
<1> QED
  BY <1>4, <1>5, <1>6 DEF Kind

LEMMA SupplyKind ==
  ASSUME Inv, NEW c \in Conns, Supply(c)
  PROVE  \E x \in Carriers : Becomes(c, x) /\ Kind(c, x)
<1> DEFINE e == conn[c]
           verdict == checkSupply(e.host, e.path)
           d == [Decide(FALSE, IF verdict = "block" THEN "deny_supply_chain"
                               ELSE "monitor_supply_chain")
                   EXCEPT !.observe = verdict # "block"]
<1>1. e \in Carriers /\ e.at = "supply"
  BY DEF Inv, Typed, Supply
<1>2. UNCHANGED <<counts, upstream, answered>>
  BY DEF Supply, counts, history
<1>3. CASE conn' = [conn EXCEPT ![c].at = "send"]
  <2>1. PICK x : x = [e EXCEPT !.at = "send"]
    OBVIOUS
  <2>2. x \in Carriers /\ x.at = "send" /\ Same(x, e)
    BY <1>1, <2>1, MovedSame DEF Places
  <2>3. Becomes(c, x)
    BY <1>3, <2>1 DEF Becomes
  <2>4. Clears(c, x)
    BY <1>1, <1>2, <2>2 DEF Clears
  <2> QED
    BY <2>2, <2>3, <2>4 DEF Kind
<1>4. CASE Record(c, e, d, e.target, "send", "refuse")
  <2>1. PICK x : x = [e EXCEPT !.at = "tally", !.decision = d, !.target = e.target,
                        !.yes = "send", !.no = "refuse"]
    OBVIOUS
  <2>2. d \in Decisions /\ ~d.allow /\ ~d.malformed
    BY DEF Decide, Decisions
  <2>3. Becomes(c, x)
    BY <1>4, <2>1 DEF Record, Becomes
  <2> HIDE DEF d, verdict
  <2>4. x \in Carriers /\ x.at = "tally" /\ x.decision = d /\ x.target = e.target
        /\ x.yes = "send" /\ x.no = "refuse" /\ x.route = e.route /\ x.tunnel = e.tunnel
        /\ x.host = e.host /\ x.path = e.path
    BY <1>1, <2>1, <2>2 DEF Carriers, Places
  <2>5. Finds(c, x)
    BY <1>1, <1>2, <2>2, <2>4 DEF Finds
  <2> QED
    BY <2>3, <2>4, <2>5 DEF Kind
<1> QED
  BY <1>3, <1>4 DEF Supply

LEMMA EndKind ==
  ASSUME Inv, NEW c \in Conns, serveRefusals(c) \/ Refuse(c) \/ Hangup(c)
  PROVE  \E x \in Carriers : Becomes(c, x) /\ Kind(c, x)
<1>1. Becomes(c, Idle) /\ Idle \in Carriers /\ Idle.at = "idle"
  BY IdleEntry DEF serveRefusals, Refuse, Hangup, Becomes
<1>2. conn[c].at \in {"refuse", "dead", "tunnel"} /\ UNCHANGED <<counts, upstream>>
  BY DEF serveRefusals, Refuse, Hangup, counts, history
<1>3. \/ UNCHANGED answered
      \/ conn[c].at # "tunnel" /\ answered' = answered \cup {conn[c].decision}
  BY DEF serveRefusals, Refuse, Hangup, history
<1>4. Ends(c, Idle)
  BY <1>1, <1>2, <1>3 DEF Ends
<1> QED
  BY <1>1, <1>4 DEF Kind

LEMMA SendKind ==
  ASSUME Inv, NEW c \in Conns, Send(c)
  PROVE  \E x \in Carriers : Becomes(c, x) /\ Kind(c, x)
<1> DEFINE e == conn[c]
           u == [host |-> e.host, path |-> e.path, route |-> e.route, hour |-> e.hour]
<1>1. /\ e \in Carriers /\ e.at = "send" /\ upstream' = upstream \cup {u}
      /\ installed' = installed + (IF e.decision.observe THEN 1 ELSE 0)
      /\ UNCHANGED <<tallied, noted, opens, answered>>
  BY DEF Inv, Typed, Send
<1>2. u \in [host : {e.host}, path : {e.path}, route : {e.route}, hour : {e.hour}]
  OBVIOUS
<1>3. CASE conn' = [conn EXCEPT ![c] = Idle]
  <2>1. Sends(c, Idle)
    BY <1>1, <1>2, IdleEntry DEF Sends
  <2> QED
    BY <1>3, <2>1, IdleEntry DEF Becomes, Kind
<1>4. CASE /\ e.route \in {"connect", "tls"}
           /\ conn' = [conn EXCEPT ![c] = [Idle EXCEPT !.at = "tunnel",
                                   !.route = e.route, !.tunnel = e.tunnel]]
  <2>1. PICK x : x = [Idle EXCEPT !.at = "tunnel", !.route = e.route, !.tunnel = e.tunnel]
    OBVIOUS
  <2>2. x \in Carriers /\ x.at = "tunnel" /\ x.tunnel = e.tunnel
    BY <1>1, <2>1, IdleEntry DEF Carriers, Places
  <2>3. Becomes(c, x)
    BY <1>4, <2>1 DEF Becomes
  <2>4. Sends(c, x)
    BY <1>1, <1>2, <1>4, <2>2 DEF Sends
  <2> QED
    BY <2>2, <2>3, <2>4 DEF Kind
<1> QED
  BY <1>3, <1>4 DEF Send

\* A step changes the entry of one connection, in one of the nine ways, or no
\* entry and no count at all.
LEMMA StepKind ==
  ASSUME Inv, [Next]_vars
  PROVE  /\ UNCHANGED started
         /\ \/ \E c \in Conns, x \in Carriers : Becomes(c, x) /\ Kind(c, x)
            \/ UNCHANGED <<conn, counts, upstream, answered>>
<1>1. ASSUME NEW c \in Conns,
             \/ Request(c) \/ Connect(c) \/ Hello(c) \/ TunnelRequest(c)
             \/ Tally(c) \/ Note(c) \/ Supply(c) \/ serveRefusals(c)
             \/ Refuse(c) \/ Send(c) \/ Hangup(c)
      PROVE  \E x \in Carriers : Becomes(c, x) /\ Kind(c, x)
  BY <1>1, RequestKind, ConnectKind, HelloKind, TunnelRequestKind, TallyKind, NoteKind,
     SupplyKind, EndKind, SendKind
<1>2. CASE Hour \/ UNCHANGED vars
  BY <1>2 DEF Hour, vars, counts, history, started
<1>3. UNCHANGED started
  BY DEF Next, Request, Connect, Hello, TunnelRequest, Tally, Note, Supply,
     serveRefusals, Refuse, Send, Hangup, Hour, vars
<1> QED
  BY <1>1, <1>2, <1>3 DEF Next

-----------------------------------------------------------------------------
(* What each entry says of the decision it carries.                          *)

TunnelTargets == {Target(h, "CONNECT", NoPath) : h \in Named}

\* A request is recorded under its own target, a refused tunnel under the
\* tunnel's; only a finding is reported without being refused.
RecordsRequest(e) ==
  /\ e.no = "refuse" /\ e.target \notin TunnelTargets
  /\ \/ e.yes \in {"supply", "send"} /\ ~e.decision.observe
     \/ e.yes = "send"
RecordsTunnel(e) ==
  /\ ~e.decision.allow /\ ~e.decision.observe
  /\ \/ e.no = "dead" /\ e.yes = "tunnel"
     \/ e.no = "idle" /\ e.yes = "idle"

Marked(e) ==
  /\ e.at \in {"tally", "note"} =>
       /\ RecordsRequest(e) \/ RecordsTunnel(e)
       /\ e.decision.malformed \/ e.decision.observe => ~e.decision.allow
       /\ ~(e.decision.malformed /\ e.decision.observe)
  /\ e.at = "note" => ~e.decision.allow
  /\ e.at = "supply" => ~e.decision.observe /\ e.target \notin TunnelTargets
  /\ e.at \in {"refuse", "dead"} => (mode = "monitor" => e.decision.malformed)

\* Who a request is for is known before it may pass, on a tunnel that was let
\* through as well.
Tunnelled(e) == e.route \in {"connect", "tls"} => e.tunnel \in Hosts \cup BadNames
Names(e) == e.host \in Hosts \cup BadNames /\ e.path # BadPath

Identified(e) ==
  /\ e.at = "tunnel" => e.tunnel \in Hosts \cup BadNames
  /\ e.at \in {"tally", "note"} /\ e.no = "refuse" =>
       Tunnelled(e) /\ (e.decision.malformed \/ Names(e))
  /\ e.at \in {"tally", "note"} /\ e.no = "dead" =>
       e.decision.malformed \/ e.tunnel \in Hosts \cup BadNames
  /\ e.at \in {"supply", "send"} => Tunnelled(e) /\ Names(e)

MarkedInv ==
  /\ Inv
  /\ \A c \in Conns : Marked(conn[c]) /\ Identified(conn[c])
  /\ MonitorRefusesOnlyTheUnidentified
  /\ \A u \in upstream : u.host \in Hosts \cup BadNames /\ u.path # BadPath

\* A connection takes part in no more than what its kind of step says.
LEMMA KindMarks ==
  ASSUME MarkedInv, NEW c \in Conns, NEW x \in Carriers, Kind(c, x)
  PROVE  Marked(x) /\ Identified(x)
<1> DEFINE e == conn[c]
<1>1. e \in Carriers /\ Marked(e) /\ Identified(e)
  BY DEF MarkedInv, Inv, Typed
<1> HIDE DEF e
<1>2. CASE Begins(c, x)
  <2>1. x.target \notin TunnelTargets
    BY <1>2 DEF Begins, OnTarget, TunnelTargets, Target
  <2>2. x.yes \in {"supply", "send"}
    BY <1>2 DEF Begins, AfterPolicy
  <2>3. Marked(x)
    BY <1>2, <2>1, <2>2 DEF Begins, Marked, RecordsRequest
  <2>4. Identified(x)
    BY <1>1, <1>2 DEF e, Begins, Identified, Tunnelled, Names
  <2> QED
    BY <2>3, <2>4
<1>3. CASE Opens(c, x)
  BY <1>3 DEF Opens, Marked, Identified
<1>4. CASE Rejects(c, x)
  BY <1>4 DEF Rejects, Marked, RecordsTunnel, Identified
<1>5. CASE Tallies(c, x)
  <2>1. e.at = "tally" /\ Same(x, e) /\ x.at = (IF x.decision.allow THEN x.yes ELSE "note")
    BY <1>5 DEF Tallies, e
  <2>2. Marked(x)
    BY <1>1, <2>1 DEF Same, Marked, RecordsRequest, RecordsTunnel
  <2>3. Identified(x)
    BY <1>1, <2>1 DEF Same, Marked, RecordsRequest, RecordsTunnel, Identified, Tunnelled, Names
  <2> QED
    BY <2>2, <2>3
<1>6. CASE Notes(c, x)
  <2>1. e.at = "note" /\ Same(x, e) /\ ~x.decision.allow
        /\ x.at = (IF Proceeds(x.decision) THEN x.yes ELSE x.no)
    BY <1>1, <1>6 DEF Notes, Same, Marked, e
  <2>2. Proceeds(x.decision) => ~x.decision.malformed
    BY <2>1 DEF Proceeds
  <2>3. mode = "monitor" /\ ~Proceeds(x.decision) => x.decision.malformed
    BY DEF Proceeds
  <2>4. Marked(x)
    BY <1>1, <2>1, <2>3 DEF Same, Marked, RecordsRequest, RecordsTunnel
  <2>5. Identified(x)
    BY <1>1, <2>1, <2>2 DEF Same, Marked, RecordsRequest, RecordsTunnel, Identified, Tunnelled, Names
  <2> QED
    BY <2>4, <2>5
<1>7. CASE Clears(c, x)
  BY <1>1, <1>7 DEF e, Clears, Same, Marked, Identified, Tunnelled, Names
<1>8. CASE Finds(c, x)
  <2>1. Marked(x)
    BY <1>1, <1>8 DEF e, Finds, Marked, RecordsRequest
  <2>2. Identified(x)
    BY <1>1, <1>8 DEF e, Finds, Identified, Tunnelled, Names
  <2> QED
    BY <2>1, <2>2
<1>9. CASE Ends(c, x)
  BY <1>9 DEF Ends, Marked, Identified
<1>10. CASE Sends(c, x)
  <2>1. x.at = "tunnel" => x.tunnel \in Hosts \cup BadNames
    BY <1>1, <1>10 DEF e, Sends, Identified, Tunnelled
  <2> QED
    BY <1>10, <2>1 DEF Sends, Marked, Identified
<1> QED
  BY <1>2, <1>3, <1>4, <1>5, <1>6, <1>7, <1>8, <1>9, <1>10 DEF Kind

\* The others do not look at what one connection does.
LEMMA OthersMarked ==
  ASSUME UNCHANGED started, NEW e, Marked(e), Identified(e)
  PROVE  Marked(e)' /\ Identified(e)'
BY DEF started, Marked, RecordsRequest, RecordsTunnel, TunnelTargets, Target, NoPath, Named,
       Identified, Tunnelled, Names, BadPath

\* What is answered, and what is sent, by the connection that does it.
LEMMA MarkedStep ==
  ASSUME MarkedInv, [Next]_vars
  PROVE  MarkedInv'
<1>1. UNCHANGED started /\ Inv'
  BY StepKind, InvStep DEF MarkedInv
<1>2. CASE UNCHANGED <<conn, counts, upstream, answered>>
  <2>1. ASSUME NEW c \in Conns PROVE Marked(conn[c])' /\ Identified(conn[c])'
    <3>1. PICK e : e = conn[c] /\ e = conn'[c]
      BY <1>2
    <3>2. Marked(e)' /\ Identified(e)'
      BY <1>1, <3>1, OthersMarked DEF MarkedInv
    <3> QED
      BY <3>1, <3>2
  <2> QED
    BY <1>1, <1>2, <2>1 DEF MarkedInv, MonitorRefusesOnlyTheUnidentified, started, BadPath
<1>3. CASE \E c \in Conns, x \in Carriers : Becomes(c, x) /\ Kind(c, x)
  <2>1. PICK c \in Conns, x \in Carriers : Becomes(c, x) /\ Kind(c, x)
    BY <1>3
  <2>2. Marked(x) /\ Identified(x)
    BY <2>1, KindMarks
  <2>3. conn'[c] = x /\ \A d \in Conns \ {c} : conn'[d] = conn[d]
    BY <2>1 DEF Becomes, MarkedInv, Inv, Typed
  <2>4. ASSUME NEW d \in Conns PROVE Marked(conn[d])' /\ Identified(conn[d])'
    <3>1. PICK e : e = conn'[d]
      OBVIOUS
    <3>2. Marked(e) /\ Identified(e)
      BY <2>2, <2>3, <3>1 DEF MarkedInv
    <3>3. Marked(e)' /\ Identified(e)'
      BY <1>1, <3>2, OthersMarked
    <3> QED
      BY <3>1, <3>3
  <2>5. Marked(conn[c]) /\ Identified(conn[c])
    BY DEF MarkedInv
  <2>6. ASSUME NEW d \in answered' \ answered PROVE mode = "monitor" => d.malformed
    <3>1. conn[c].at \in {"refuse", "dead"} /\ d = conn[c].decision
      BY <2>1, <2>6 DEF Kind, Begins, Opens, Rejects, Tallies, Notes, Clears, Finds, Ends,
                        Sends, history
    <3> QED
      BY <2>5, <3>1 DEF Marked
  <2>7. ASSUME NEW u \in upstream' \ upstream
        PROVE  u.host \in Hosts \cup BadNames /\ u.path # BadPath
    <3>1. Sends(c, x)
      BY <2>1, <2>7 DEF Kind, Begins, Opens, Rejects, Tallies, Notes, Clears, Finds, Ends,
                        history
    <3>2. conn[c].at = "send" /\ u.host = conn[c].host /\ u.path = conn[c].path
      BY <2>7, <3>1 DEF Sends
    <3> QED
      BY <2>5, <3>2 DEF Identified, Names
  <2>8. MonitorRefusesOnlyTheUnidentified'
    BY <1>1, <2>6 DEF MarkedInv, MonitorRefusesOnlyTheUnidentified, started
  <2>9. \A u \in upstream' : u.host \in Hosts \cup BadNames /\ u.path # BadPath
    BY <2>7 DEF MarkedInv
  <2> QED
    BY <1>1, <2>4, <2>8, <2>9 DEF MarkedInv, BadPath
<1> QED
  BY <1>2, <1>3, StepKind DEF MarkedInv

\* The invariant at the start.
LEMMA MarkedInit ==
  ASSUME Init
  PROVE  MarkedInv
<1>1. Inv /\ answered = {} /\ upstream = {}
  BY InvInit DEF Init
<1>2. \A c \in Conns : conn[c].at = "idle"
  BY IdleEntry DEF Init
<1>3. \A c \in Conns : Marked(conn[c]) /\ Identified(conn[c])
  BY <1>2 DEF Marked, Identified
<1> QED
  BY <1>1, <1>3 DEF MarkedInv, MonitorRefusesOnlyTheUnidentified

\* Every entry is marked and identified, and so is what was sent and answered.
THEOREM MarkedInvariance == Spec => []MarkedInv
<1>1. Init => MarkedInv
  BY MarkedInit
<1>2. MarkedInv /\ [Next]_vars => MarkedInv'
  BY MarkedStep
<1> QED
  BY <1>1, <1>2, PTL DEF Spec

\* In monitor mode a 403 answers nothing but a request, or a tunnel, whose host
\* or path the guard cannot make out, on every route and whatever the policy and
\* the supply chain say.
THEOREM MonitorOnlyReports == Spec => []MonitorRefusesOnlyTheUnidentified
<1>1. MarkedInv => MonitorRefusesOnlyTheUnidentified
  BY DEF MarkedInv
<1> QED
  BY <1>1, MarkedInvariance, PTL

\* Where no client sends an SNI that is no hostname, no request is forwarded, in
\* any mode, that the guard could not identify.
THEOREM IdentifiedBeforeSent ==
  ASSUME BadNames = {}
  PROVE  Spec => []UnidentifiedStaysHere
<1>1. MarkedInv => UnidentifiedStaysHere
  BY ProxyAssumption DEF MarkedInv, UnidentifiedStaysHere, isHostname
<1> QED
  BY <1>1, MarkedInvariance, PTL

-----------------------------------------------------------------------------
(* The counts of observed findings and of refused tunnels.                   *)

One(is) == IF is THEN 1 ELSE 0

CountsTyped ==
  /\ refusals \in [Targets -> Nat] /\ opens \in [Targets -> Nat]
  /\ order \in Seq(Targets)
  /\ summaryDropped \in Nat /\ observed \in Nat /\ installed \in Nat

\* The entries that stand between two of the counts.
Watched(e) == e.decision.observe /\ e.at \in {"note", "send"}
InRecord(e, t) == e.target = t /\ e.at \in {"tally", "note"}
Noting(e, t) == e.at = "note" /\ e.target = t

\* A set that differs from another in one element at most has as many elements,
\* or one more or less.
LEMMA PartChanges ==
  ASSUME NEW S, IsFiniteSet(S), NEW A \in SUBSET S, NEW B \in SUBSET S, NEW x,
         A \ {x} = B \ {x}
  PROVE  /\ Cardinality(A) \in Nat /\ Cardinality(B) \in Nat
         /\ Cardinality(B) + One(x \in A) = Cardinality(A) + One(x \in B)
<1> DEFINE R == A \ {x}
<1>1. IsFiniteSet(A) /\ IsFiniteSet(B) /\ IsFiniteSet(R)
  BY FS_Subset
<1>2. Cardinality(A) \in Nat /\ Cardinality(B) \in Nat /\ Cardinality(R) \in Nat
  BY <1>1, FS_CardinalityType
<1>3. x \notin R
  OBVIOUS
<1>4. Cardinality(R \cup {x}) = Cardinality(R) + 1
  BY <1>1, <1>3, FS_AddElement
<1>5. A = (IF x \in A THEN R \cup {x} ELSE R) /\ B = (IF x \in B THEN R \cup {x} ELSE R)
  OBVIOUS
<1> HIDE DEF R
<1>6. /\ Cardinality(A) = Cardinality(R) + One(x \in A)
      /\ Cardinality(B) = Cardinality(R) + One(x \in B)
  <2>1. ASSUME NEW T, T = (IF x \in T THEN R \cup {x} ELSE R)
        PROVE  Cardinality(T) = Cardinality(R) + One(x \in T)
    BY <1>2, <1>4, <2>1 DEF One
  <2> QED
    BY <1>5, <2>1
<1>7. One(x \in A) \in Nat /\ One(x \in B) \in Nat
  BY DEF One
<1> QED
  BY <1>2, <1>6, <1>7

\* The same of the entries in some state, when one connection takes a step.
LEMMA EntriesChange ==
  ASSUME Inv, NEW c \in Conns, NEW x \in Carriers, Becomes(c, x), NEW States
  PROVE  LET A == {d \in Conns : conn[d] \in States}
             B == {d \in Conns : conn'[d] \in States}
         IN /\ Cardinality(A) \in Nat /\ Cardinality(B) \in Nat
            /\ Cardinality(B) + One(conn[c] \in States) = Cardinality(A) + One(x \in States)
<1> DEFINE A == {d \in Conns : conn[d] \in States}
           B == {d \in Conns : conn'[d] \in States}
<1>1. conn'[c] = x /\ \A d \in Conns \ {c} : conn'[d] = conn[d]
  BY DEF Becomes, Inv, Typed
<1>2. A \ {c} = B \ {c} /\ (c \in A <=> conn[c] \in States) /\ (c \in B <=> x \in States)
  BY <1>1
<1>3. One(c \in A) = One(conn[c] \in States) /\ One(c \in B) = One(x \in States)
  BY <1>2 DEF One
<1>4. A \in SUBSET Conns /\ B \in SUBSET Conns
  OBVIOUS
<1> HIDE DEF A, B
<1>5. /\ Cardinality(A) \in Nat /\ Cardinality(B) \in Nat
      /\ Cardinality(B) + One(c \in A) = Cardinality(A) + One(c \in B)
  BY <1>2, <1>4, TargetsAssumption, PartChanges
<1> QED
  BY <1>3, <1>5 DEF A, B

\* A step adds to the observed findings what it adds to those on their way, and
\* to those installed.
LEMMA ObservedMoves ==
  ASSUME MarkedInv, CountsTyped, mode = "enforce",
         NEW c \in Conns, NEW x \in Carriers, Kind(c, x)
  PROVE  /\ observed' \in Nat /\ installed' \in Nat
         /\ observed' + installed + One(Watched(conn[c]))
              = observed + installed' + One(Watched(x))
<1> DEFINE e == conn[c]
<1>1. Marked(e)
  BY DEF MarkedInv
<1>2. observed \in Nat /\ installed \in Nat
  BY DEF CountsTyped
<1> HIDE DEF e
<1>3. ASSUME UNCHANGED <<observed, installed>>, ~Watched(e), ~Watched(x)
      PROVE  /\ observed' \in Nat /\ installed' \in Nat
             /\ observed' + installed + One(Watched(e)) = observed + installed' + One(Watched(x))
  BY <1>2, <1>3 DEF One
<1>4. CASE Begins(c, x)
  BY <1>3, <1>4 DEF e, Begins, counts, tallied, Watched
<1>5. CASE Opens(c, x)
  BY <1>3, <1>5 DEF e, Opens, counts, tallied, Watched
<1>6. CASE Rejects(c, x)
  BY <1>3, <1>6 DEF e, Rejects, tallied, Watched
<1>7. CASE Tallies(c, x)
  <2>1. e.at = "tally" /\ Same(x, e) /\ installed' = installed /\ ~Watched(e)
    BY <1>7 DEF Tallies, Watched, history, e
  <2>2. CASE x.decision.allow
    BY <1>1, <1>3, <1>7, <2>1, <2>2 DEF Tallies, Same, Marked, Watched
  <2>3. CASE ~x.decision.allow
    <3>1. x.at = "note" /\ observed' = observed + One(x.decision.observe)
      BY <1>7, <2>3 DEF Tallies, ObservedFor, One
    <3>2. Watched(x) <=> x.decision.observe
      BY <3>1 DEF Watched
    <3> QED
      BY <1>2, <2>1, <3>1, <3>2 DEF One, e
  <2> QED
    BY <2>2, <2>3
<1>8. CASE Notes(c, x)
  <2>1. e.at = "note" /\ Same(x, e) /\ UNCHANGED <<observed, installed>>
        /\ x.at = (IF Proceeds(x.decision) THEN x.yes ELSE x.no)
    BY <1>8 DEF Notes, tallied, history, e
  <2>2. CASE x.decision.observe
    <3>1. x.at = "send" /\ Watched(x) /\ Watched(e)
      BY <1>1, <2>1, <2>2 DEF Same, Marked, RecordsRequest, RecordsTunnel, Proceeds, Watched
    <3> QED
      BY <1>2, <2>1, <3>1 DEF One, e
  <2>3. CASE ~x.decision.observe
    <3>1. ~Watched(e) /\ ~Watched(x)
      BY <2>1, <2>3 DEF Same, Watched
    <3> QED
      BY <1>3, <2>1, <3>1 DEF e
  <2> QED
    BY <2>2, <2>3
<1>9. CASE Clears(c, x)
  BY <1>1, <1>3, <1>9 DEF e, Clears, counts, tallied, Same, Marked, Watched
<1>10. CASE Finds(c, x)
  BY <1>3, <1>10 DEF e, Finds, counts, tallied, Watched
<1>11. CASE Ends(c, x)
  BY <1>3, <1>11 DEF e, Ends, counts, tallied, Watched
<1>12. CASE Sends(c, x)
  <2>1. observed' = observed /\ installed' = installed + One(Watched(e)) /\ ~Watched(x)
    BY <1>12 DEF e, Sends, tallied, Watched, One
  <2>2. One(Watched(e)) \in Nat /\ One(Watched(x)) = 0
    BY <2>1 DEF One
  <2> QED
    BY <1>2, <2>1, <2>2 DEF e
<1> QED
  BY <1>4, <1>5, <1>6, <1>7, <1>8, <1>9, <1>10, <1>11, <1>12 DEF Kind, e

\* A step adds to the refused tunnels what it adds to those in the hands of
\* record, and to those noted.
LEMMA RefusedMoves ==
  ASSUME MarkedInv, CountsTyped, NEW t \in TunnelTargets,
         NEW c \in Conns, NEW x \in Carriers, Kind(c, x)
  PROVE  /\ opens'[t] \in Nat /\ noted'[t] \in Nat
         /\ opens'[t] + noted[t] + One(InRecord(conn[c], t))
              = opens[t] + noted'[t] + One(InRecord(x, t))
<1> DEFINE e == conn[c]
<1>1. Marked(e) /\ e \in Carriers
  BY DEF MarkedInv, Inv, Typed
<1>2. t \in Targets /\ opens[t] \in Nat /\ noted[t] \in Nat
  BY TargetsOf DEF CountsTyped, TunnelTargets, MarkedInv, Inv, Typed
<1> HIDE DEF e
<1>3. ASSUME UNCHANGED <<opens, noted>>, InRecord(e, t) <=> InRecord(x, t)
      PROVE  /\ opens'[t] \in Nat /\ noted'[t] \in Nat
             /\ opens'[t] + noted[t] + One(InRecord(e, t)) = opens[t] + noted'[t] + One(InRecord(x, t))
  BY <1>2, <1>3 DEF One
<1>4. CASE Begins(c, x)
  <2>1. x.target # t
    BY <1>4 DEF Begins, OnTarget, TunnelTargets, Target
  <2> QED
    BY <1>3, <1>4, <2>1 DEF e, Begins, counts, InRecord
<1>5. CASE Opens(c, x)
  BY <1>3, <1>5 DEF e, Opens, counts, InRecord
<1>6. CASE Rejects(c, x)
  <2>1. noted' = noted /\ ~InRecord(e, t) /\ (InRecord(x, t) <=> x.target = t)
    BY <1>6 DEF e, Rejects, InRecord
  <2>2. opens' = [opens EXCEPT ![x.target] = @ + 1]
    BY <1>6 DEF Rejects
  <2>3. opens'[t] = opens[t] + One(x.target = t)
    BY <1>2, <2>2 DEF CountsTyped, One
  <2> QED
    BY <1>2, <2>1, <2>3 DEF One, e
<1>7. CASE Tallies(c, x)
  <2>1. e.at = "tally" /\ Same(x, e) /\ UNCHANGED <<opens, noted>>
        /\ x.at = (IF x.decision.allow THEN x.yes ELSE "note")
    BY <1>7 DEF Tallies, history, e
  <2>2. InRecord(e, t) <=> InRecord(x, t)
    BY <1>1, <2>1 DEF Same, InRecord, Marked, RecordsRequest, RecordsTunnel
  <2> QED
    BY <1>3, <2>1, <2>2 DEF e
<1>8. CASE Notes(c, x)
  <2>1. e.at = "note" /\ Same(x, e) /\ opens' = opens
        /\ x.at \in {x.yes, x.no} /\ noted' = [noted EXCEPT ![x.target] = @ + 1]
    BY <1>8 DEF Notes, history, e
  <2>2. (InRecord(e, t) <=> x.target = t) /\ ~InRecord(x, t)
    BY <1>1, <2>1 DEF Same, InRecord, Marked, RecordsRequest, RecordsTunnel
  <2>3. noted'[t] = noted[t] + One(x.target = t)
    BY <1>2, <2>1 DEF MarkedInv, Inv, Typed, One
  <2> QED
    BY <1>2, <2>1, <2>2, <2>3 DEF One, e
<1>9. CASE Clears(c, x)
  BY <1>3, <1>9 DEF e, Clears, counts, InRecord
<1>10. CASE Finds(c, x)
  BY <1>1, <1>3, <1>10 DEF e, Finds, counts, InRecord, Marked
<1>11. CASE Ends(c, x)
  BY <1>3, <1>11 DEF e, Ends, counts, InRecord
<1>12. CASE Sends(c, x)
  BY <1>3, <1>12 DEF e, Sends, InRecord
<1> QED
  BY <1>4, <1>5, <1>6, <1>7, <1>8, <1>9, <1>10, <1>11, <1>12 DEF Kind, e

-----------------------------------------------------------------------------
(* The list of refused targets, and what found no place in it.               *)

\* What was noted of a target, or is about to be.
Reported(t) == noted[t] + InNote(t)
Reports == [t \in Targets |-> Reported(t)]

ListInv ==
  /\ ToSet(order) = {t \in Targets : refusals[t] > 0}
  /\ Len(order) = Cardinality(ToSet(order)) /\ Len(order) <= MaxTargets
  /\ \A t \in Targets : refusals[t] <= Reported(t)
  /\ SumFunctionOnSet(refusals, Targets) + summaryDropped = SumFunctionOnSet(Reports, Targets)

\* What was reported is counted in numbers.
LEMMA ReportedType ==
  ASSUME Inv
  PROVE  \A t \in Targets : InNote(t) \in Nat /\ Reported(t) \in Nat
<1> SUFFICES ASSUME NEW t \in Targets PROVE InNote(t) \in Nat /\ Reported(t) \in Nat
  OBVIOUS
<1>1. IsFiniteSet({c \in Conns : conn[c].at = "note" /\ conn[c].target = t})
  BY TargetsAssumption, FS_Subset
<1>2. InNote(t) \in Nat
  BY <1>1, FS_CardinalityType DEF InNote
<1> QED
  BY <1>2 DEF Reported, Inv, Typed

\* A connection that takes up or gives up a report changes the count by it.
LEMMA InNoteMoves ==
  ASSUME Inv, NEW c \in Conns, NEW x \in Carriers, Becomes(c, x), NEW t \in Targets
  PROVE  /\ InNote(t) \in Nat /\ InNote(t)' \in Nat
         /\ InNote(t)' + One(Noting(conn[c], t)) = InNote(t) + One(Noting(x, t))
<1> DEFINE States == {e \in Carriers : Noting(e, t)}
           A == {d \in Conns : conn[d] \in States}
           B == {d \in Conns : conn'[d] \in States}
<1>1. conn \in [Conns -> Carriers] /\ conn' \in [Conns -> Carriers]
  BY DEF Inv, Typed, Becomes
<1>2. InNote(t) = Cardinality(A) /\ InNote(t)' = Cardinality(B)
  <2>1. A = {d \in Conns : conn[d].at = "note" /\ conn[d].target = t}
    BY <1>1 DEF Noting
  <2>2. B = {d \in Conns : conn'[d].at = "note" /\ conn'[d].target = t}
    BY <1>1 DEF Noting
  <2> QED
    BY <2>1, <2>2 DEF InNote
<1>3. /\ One(conn[c] \in States) = One(Noting(conn[c], t))
      /\ One(x \in States) = One(Noting(x, t))
  BY <1>1 DEF One
<1> HIDE DEF States
<1>4. /\ Cardinality(A) \in Nat /\ Cardinality(B) \in Nat
      /\ Cardinality(B) + One(conn[c] \in States) = Cardinality(A) + One(x \in States)
  BY EntriesChange
<1> QED
  BY <1>2, <1>3, <1>4

\* What is noted stays a number.
LEMMA NotedType ==
  ASSUME Inv, NEW c \in Conns, NEW x \in Carriers, Kind(c, x)
  PROVE  noted' \in [Targets -> Nat]
<1>1. noted' = noted \/ noted' = [noted EXCEPT ![x.target] = @ + 1]
  BY DEF Kind, Begins, Opens, Rejects, Tallies, Notes, Clears, Finds, Ends, Sends, counts
<1> QED
  BY <1>1 DEF Inv, Typed, Carriers

\* A step lists one refusal and puts it before the reporter, or does neither.
LEMMA ReportsMove ==
  ASSUME MarkedInv, NEW c \in Conns, NEW x \in Carriers, Becomes(c, x), Kind(c, x)
  PROVE  \/ /\ UNCHANGED <<refusals, order, summaryDropped>>
            /\ \A t \in Targets : Reported(t)' = Reported(t)
         \/ /\ ListTarget(x.target)
            /\ \A t \in Targets : Reported(t)' = Reported(t) + One(x.target = t)
<1> DEFINE e == conn[c]
<1>1. /\ e \in Carriers /\ Marked(e)
      /\ noted \in [Targets -> Nat] /\ noted' \in [Targets -> Nat]
  BY NotedType DEF MarkedInv, Inv, Typed
<1>2. \A t \in Targets : /\ InNote(t) \in Nat /\ InNote(t)' \in Nat
                         /\ InNote(t)' + One(Noting(e, t)) = InNote(t) + One(Noting(x, t))
  BY InNoteMoves DEF MarkedInv
<1> HIDE DEF e
<1>3. ASSUME UNCHANGED <<refusals, order, summaryDropped, noted>>, e.at # "note", x.at # "note"
      PROVE  /\ UNCHANGED <<refusals, order, summaryDropped>>
             /\ \A t \in Targets : Reported(t)' = Reported(t)
  <2>1. ASSUME NEW t \in Targets PROVE Reported(t)' = Reported(t)
    <3>1. One(Noting(e, t)) = 0 /\ One(Noting(x, t)) = 0
      BY <1>3 DEF One, Noting
    <3>2. InNote(t)' = InNote(t)
      BY <1>2, <3>1
    <3> QED
      BY <1>3, <3>2 DEF Reported
  <2> QED
    BY <1>3, <2>1
<1>4. CASE Tallies(c, x)
  <2>1. e.at = "tally" /\ Same(x, e) /\ noted' = noted
    BY <1>4 DEF Tallies, e
  <2>2. CASE x.decision.allow
    <3>1. x.at # "note" /\ UNCHANGED <<refusals, order, summaryDropped>>
      BY <1>1, <1>4, <2>1, <2>2 DEF Tallies, Same, Marked, RecordsRequest, RecordsTunnel
    <3> QED
      BY <1>3, <2>1, <3>1
  <2>3. CASE ~x.decision.allow
    <3>1. x.at = "note" /\ ListTarget(x.target)
      BY <1>4, <2>3 DEF Tallies
    <3>2. ASSUME NEW t \in Targets PROVE Reported(t)' = Reported(t) + One(x.target = t)
      <4>1. One(Noting(e, t)) = 0 /\ One(Noting(x, t)) = One(x.target = t)
            /\ One(x.target = t) \in Nat
        BY <2>1, <3>1 DEF One, Noting
      <4>2. InNote(t)' = InNote(t) + One(x.target = t)
        BY <1>2, <4>1
      <4>3. noted[t] \in Nat
        BY <1>1
      <4> QED
        BY <1>2, <2>1, <4>1, <4>2, <4>3 DEF Reported
    <3> QED
      BY <3>1, <3>2
  <2> QED
    BY <2>2, <2>3
<1>5. CASE Notes(c, x)
  <2>1. e.at = "note" /\ Same(x, e) /\ UNCHANGED <<refusals, order, summaryDropped>>
        /\ x.at \in {x.yes, x.no} /\ noted' = [noted EXCEPT ![x.target] = @ + 1]
    BY <1>5 DEF Notes, tallied, e
  <2>2. x.at # "note"
    BY <1>1, <2>1 DEF Same, Marked, RecordsRequest, RecordsTunnel
  <2>3. ASSUME NEW t \in Targets PROVE Reported(t)' = Reported(t)
    <3>1. One(Noting(x, t)) = 0 /\ One(Noting(e, t)) = One(x.target = t)
          /\ One(x.target = t) \in Nat
      BY <2>1, <2>2 DEF One, Noting, Same
    <3>2. noted'[t] = noted[t] + One(x.target = t) /\ noted[t] \in Nat
      BY <1>1, <2>1 DEF One
    <3>3. InNote(t)' + One(x.target = t) = InNote(t)
      BY <1>2, <3>1
    <3> QED
      BY <1>2, <3>1, <3>2, <3>3 DEF Reported
  <2> QED
    BY <2>1, <2>3
<1>6. CASE ~Tallies(c, x) /\ ~Notes(c, x)
  <2>1. UNCHANGED <<refusals, order, summaryDropped, noted>> /\ e.at # "note" /\ x.at # "note"
    BY <1>6 DEF Kind, Begins, Opens, Rejects, Clears, Finds, Ends, Sends, counts, tallied, e
  <2> QED
    BY <1>3, <2>1
<1> QED
  BY <1>4, <1>5, <1>6

\* A target that is appended is listed with the others.
LEMMA AppendLists ==
  ASSUME NEW S, NEW s \in Seq(S), NEW t \in S
  PROVE  Append(s, t) \in Seq(S) /\ Len(Append(s, t)) = Len(s) + 1
         /\ ToSet(Append(s, t)) = ToSet(s) \cup {t}
<1>1. /\ Append(s, t) \in Seq(S) /\ Len(Append(s, t)) = Len(s) + 1
      /\ \A i \in 1..Len(s) : Append(s, t)[i] = s[i]
      /\ Append(s, t)[Len(s) + 1] = t
  OBVIOUS
<1>2. /\ ToSet(s) = {s[i] : i \in 1..Len(s)}
      /\ ToSet(Append(s, t)) = {Append(s, t)[i] : i \in 1..(Len(s) + 1)}
  BY <1>1 DEF ToSet
<1>3. Len(s) \in Nat
  OBVIOUS
<1> QED
  BY <1>1, <1>2, <1>3

\* A refusal is listed, or counted as one that found no place.
LEMMA ListStep ==
  ASSUME MarkedInv, CountsTyped, ListInv, NEW t \in Targets, ListTarget(t),
         \A s \in Targets : Reported(s)' = Reported(s) + One(s = t)
  PROVE  /\ ListInv'
         /\ refusals' \in [Targets -> Nat] /\ order' \in Seq(Targets) /\ summaryDropped' \in Nat
<1> DEFINE total == SumFunctionOnSet(refusals, Targets)
           reports == SumFunctionOnSet(Reports, Targets)
<1>1. \A s \in Targets : Reported(s) \in Nat /\ Reported(s)' \in Nat
  <2>1. \A s \in Targets : Reported(s) \in Nat /\ One(s = t) \in Nat
    BY ReportedType DEF MarkedInv, One
  <2> QED
    BY <2>1
<1>2. reports \in Nat /\ reports' \in Nat /\ reports' = reports + 1
  <2>1. Reports' = [s \in Targets |-> Reported(s)']
    BY DEF Reports, Targets, Target, BadPath, NoPath
  <2>2. PICK f : f = Reports
    OBVIOUS
  <2>3. PICK g : g = Reports'
    OBVIOUS
  <2>4. \A s \in Targets : f[s] \in Nat /\ g[s] \in Nat
    BY <1>1, <2>1, <2>2, <2>3 DEF Reports
  <2>5. (\A s \in Targets \ {t} : f[s] = g[s]) /\ g[t] = f[t] + 1
    BY <1>1, <2>1, <2>2, <2>3 DEF Reports, One
  <2>6. /\ SumFunctionOnSet(f, Targets) \in Nat /\ SumFunctionOnSet(g, Targets) \in Nat
        /\ SumFunctionOnSet(g, Targets) + f[t] = SumFunctionOnSet(f, Targets) + g[t]
    BY <2>4, <2>5, TargetsAssumption, SumChangesAt
  <2>7. reports = SumFunctionOnSet(f, Targets) /\ reports' = SumFunctionOnSet(g, Targets)
    BY <2>2, <2>3 DEF Targets, Target, BadPath, NoPath
  <2> HIDE DEF reports
  <2>8. PICK a \in Nat, b \in Nat : a = reports /\ b = reports' /\ b + f[t] = a + g[t]
    BY <2>6, <2>7
  <2>9. f[t] \in Nat /\ g[t] = f[t] + 1
    BY <2>4, <2>5
  <2> QED
    BY <2>8, <2>9
<1>3. /\ refusals \in [Targets -> Nat] /\ order \in Seq(Targets) /\ summaryDropped \in Nat
      /\ total \in Nat
  BY TargetsAssumption, SumType DEF CountsTyped
<1>4. ASSUME refusals' = [refusals EXCEPT ![t] = @ + 1]
      PROVE  total' \in Nat /\ total' = total + 1
  <2>1. PICK g : g = refusals'
    OBVIOUS
  <2>2. /\ \A s \in Targets : g[s] \in Nat /\ refusals[s] \in Nat
        /\ \A s \in Targets \ {t} : refusals[s] = g[s]
        /\ g[t] = refusals[t] + 1
    BY <1>3, <1>4, <2>1
  <2>3. /\ total \in Nat /\ SumFunctionOnSet(g, Targets) \in Nat
        /\ SumFunctionOnSet(g, Targets) + refusals[t] = total + g[t]
    BY <2>2, TargetsAssumption, SumChangesAt
  <2>4. total' = SumFunctionOnSet(g, Targets)
    BY <2>1 DEF Targets, Target, BadPath, NoPath
  <2> HIDE DEF total
  <2>5. PICK a \in Nat, b \in Nat : a = total /\ b = total' /\ b + refusals[t] = a + g[t]
    BY <2>3, <2>4
  <2> QED
    BY <2>2, <2>5
<1>5. ASSUME ToSet(order') = {s \in Targets : refusals'[s] > 0},
             Len(order') = Cardinality(ToSet(order')), Len(order') <= MaxTargets,
             \A s \in Targets : refusals'[s] <= Reported(s)',
             total' + summaryDropped' = reports'
      PROVE  ListInv'
  BY <1>5 DEF ListInv, Targets, Target, BadPath, NoPath
<1>6. PICK a \in Nat, r \in Nat, k \in Nat :
        a = total /\ r = reports /\ k = summaryDropped /\ a + k = r /\ reports' = r + 1
  BY <1>2, <1>3 DEF ListInv
<1> HIDE DEF total, reports
<1>7. IsFiniteSet(ToSet(order)) /\ ToSet(order) \subseteq Targets
  <2>1. ToSet(order) \subseteq Targets
    BY DEF ListInv
  <2> QED
    BY <2>1, TargetsAssumption, FS_Subset
<1>8. CASE refusals[t] > 0 /\ refusals' = [refusals EXCEPT ![t] = @ + 1]
           /\ UNCHANGED <<order, summaryDropped>>
  <2>1. total' + summaryDropped' = reports'
    BY <1>4, <1>6, <1>8
  <2>2. refusals' \in [Targets -> Nat]
    BY <1>3, <1>8
  <2>3. {s \in Targets : refusals'[s] > 0} = {s \in Targets : refusals[s] > 0}
    BY <1>3, <1>8
  <2>4. \A s \in Targets : refusals'[s] <= Reported(s)'
    BY <1>1, <1>3, <1>8 DEF ListInv, One
  <2> QED
    BY <1>3, <1>5, <1>8, <2>1, <2>2, <2>3, <2>4 DEF ListInv
<1>9. CASE refusals[t] = 0 /\ Len(order) < MaxTargets
           /\ refusals' = [refusals EXCEPT ![t] = 1] /\ order' = Append(order, t)
           /\ UNCHANGED summaryDropped
  <2>1. total' + summaryDropped' = reports'
    BY <1>3, <1>4, <1>6, <1>9
  <2>2. refusals' \in [Targets -> Nat]
    BY <1>3, <1>9
  <2>3. {s \in Targets : refusals'[s] > 0} = {s \in Targets : refusals[s] > 0} \cup {t}
    BY <1>3, <1>9
  <2>4. \A s \in Targets : refusals'[s] <= Reported(s)'
    BY <1>1, <1>3, <1>9 DEF ListInv, One
  <2>5. /\ order' \in Seq(Targets) /\ Len(order') = Len(order) + 1
        /\ ToSet(order') = ToSet(order) \cup {t}
    BY <1>3, <1>9, AppendLists
  <2>6. Cardinality(ToSet(order) \cup {t}) = Cardinality(ToSet(order)) + 1
    <3>1. t \notin ToSet(order)
      BY <1>9 DEF ListInv
    <3> QED
      BY <1>7, <3>1, FS_AddElement
  <2>7. Len(order') <= MaxTargets
    BY <1>3, <1>9, <2>5, ProxyAssumption
  <2>8. ToSet(order') = {s \in Targets : refusals'[s] > 0}
    BY <2>3, <2>5 DEF ListInv
  <2>9. Len(order') = Cardinality(ToSet(order'))
    BY <2>5, <2>6 DEF ListInv
  <2>10. ListInv'
    BY <1>5, <2>1, <2>4, <2>7, <2>8, <2>9
  <2> QED
    BY <1>3, <1>9, <2>2, <2>5, <2>10
<1>10. CASE summaryDropped' = summaryDropped + 1 /\ UNCHANGED <<refusals, order>>
  <2>1. total' = total
    BY <1>10 DEF total, Targets, Target, BadPath, NoPath
  <2>2. total' + summaryDropped' = reports'
    BY <1>6, <1>10, <2>1
  <2>3. \A s \in Targets : refusals'[s] <= Reported(s)'
    <3> SUFFICES ASSUME NEW s \in Targets PROVE refusals[s] <= Reported(s) + One(s = t)
      BY <1>10
    <3>1. refusals[s] \in Nat /\ Reported(s) \in Nat /\ refusals[s] <= Reported(s)
          /\ One(s = t) \in Nat
      BY <1>1, <1>3 DEF ListInv, One
    <3> QED
      BY <3>1
  <2>4. /\ ToSet(order') = {s \in Targets : refusals'[s] > 0}
        /\ Len(order') = Cardinality(ToSet(order')) /\ Len(order') <= MaxTargets
    BY <1>10 DEF ListInv
  <2>5. ListInv'
    BY <1>5, <2>2, <2>3, <2>4
  <2> QED
    BY <1>3, <1>10, <2>5
<1> QED
  BY <1>8, <1>9, <1>10 DEF ListTarget

-----------------------------------------------------------------------------
(* Theorems about the counts.                                                *)

CountedInv ==
  /\ MarkedInv /\ CountsTyped
  /\ ObservedAreForwarded /\ RefusedTunnelRecordedOnce /\ ListInv

\* The numbers stay numbers.
LEMMA CountsStayTyped ==
  ASSUME CountsTyped, NEW c \in Conns, NEW x \in Carriers, Kind(c, x)
  PROVE  opens' \in [Targets -> Nat] /\ observed' \in Nat /\ installed' \in Nat
<1>1. x.target \in Targets
  BY DEF Carriers
<1>2. opens' = opens \/ opens' = [opens EXCEPT ![x.target] = @ + 1]
  BY DEF Kind, Begins, Opens, Rejects, Tallies, Notes, Clears, Finds, Ends, Sends,
         counts, history
<1>3. opens' \in [Targets -> Nat]
  BY <1>1, <1>2 DEF CountsTyped
<1>4. observed' = observed \/ observed' = observed + ObservedFor(x.decision, x.target)
  BY DEF Kind, Begins, Opens, Rejects, Tallies, Notes, Clears, Finds, Ends, Sends,
         counts, tallied
<1>5. ObservedFor(x.decision, x.target) \in Nat
  BY DEF ObservedFor
<1>6. installed' = installed
      \/ installed' = installed + (IF conn[c].decision.observe THEN 1 ELSE 0)
  BY DEF Kind, Begins, Opens, Rejects, Tallies, Notes, Clears, Finds, Ends, Sends,
         counts, history
<1>7. observed' \in Nat
  BY <1>4, <1>5 DEF CountsTyped
<1>8. installed' \in Nat
  BY <1>6 DEF CountsTyped
<1> QED
  BY <1>3, <1>7, <1>8

LEMMA ObservedStep ==
  ASSUME MarkedInv, CountsTyped, ObservedAreForwarded, mode' = mode,
         NEW c \in Conns, NEW x \in Carriers, Becomes(c, x), Kind(c, x)
  PROVE  ObservedAreForwarded'
<1> SUFFICES ASSUME mode = "enforce"
    PROVE  observed' = installed' + Cardinality({d \in Conns :
             conn'[d].decision.observe /\ conn'[d].at \in {"note", "send"}})
  BY DEF ObservedAreForwarded
<1> DEFINE States == {e \in Carriers : Watched(e)}
           A == {d \in Conns : conn[d] \in States}
           B == {d \in Conns : conn'[d] \in States}
<1>1. conn \in [Conns -> Carriers] /\ conn' \in [Conns -> Carriers]
  BY DEF MarkedInv, Inv, Typed, Becomes
<1>2. /\ A = {d \in Conns : conn[d].decision.observe /\ conn[d].at \in {"note", "send"}}
      /\ B = {d \in Conns : conn'[d].decision.observe /\ conn'[d].at \in {"note", "send"}}
  BY <1>1 DEF Watched
<1>3. /\ One(conn[c] \in States) = One(Watched(conn[c]))
      /\ One(x \in States) = One(Watched(x))
  BY <1>1 DEF One
<1> HIDE DEF States
<1>4. /\ Cardinality(A) \in Nat /\ Cardinality(B) \in Nat
      /\ Cardinality(B) + One(conn[c] \in States) = Cardinality(A) + One(x \in States)
  BY EntriesChange DEF MarkedInv
<1>5. observed' + installed + One(Watched(conn[c])) = observed + installed' + One(Watched(x))
      /\ observed' \in Nat /\ installed' \in Nat
  BY ObservedMoves
<1>6. observed = installed + Cardinality(A) /\ installed \in Nat
  BY <1>2 DEF ObservedAreForwarded, CountsTyped
<1>7. One(Watched(conn[c])) \in Nat /\ One(Watched(x)) \in Nat
  BY DEF One
<1> HIDE DEF A, B
<1>8. observed' = installed' + Cardinality(B)
  BY <1>3, <1>4, <1>5, <1>6, <1>7
<1> QED
  BY <1>2, <1>8

LEMMA RefusedStep ==
  ASSUME MarkedInv, CountsTyped, RefusedTunnelRecordedOnce,
         NEW c \in Conns, NEW x \in Carriers, Becomes(c, x), Kind(c, x)
  PROVE  RefusedTunnelRecordedOnce'
<1> SUFFICES ASSUME NEW h \in Named, NEW t, t = Target(h, "CONNECT", NoPath)
    PROVE  opens'[t] = noted'[t] + Cardinality({d \in Conns :
             conn'[d].target = t /\ conn'[d].at \in {"tally", "note"}})
  BY DEF RefusedTunnelRecordedOnce, Named, Target, NoPath
<1> DEFINE States == {e \in Carriers : InRecord(e, t)}
           A == {d \in Conns : conn[d] \in States}
           B == {d \in Conns : conn'[d] \in States}
<1>1. conn \in [Conns -> Carriers] /\ conn' \in [Conns -> Carriers]
  BY DEF MarkedInv, Inv, Typed, Becomes
<1>2. /\ A = {d \in Conns : conn[d].target = t /\ conn[d].at \in {"tally", "note"}}
      /\ B = {d \in Conns : conn'[d].target = t /\ conn'[d].at \in {"tally", "note"}}
  BY <1>1 DEF InRecord
<1>3. /\ One(conn[c] \in States) = One(InRecord(conn[c], t))
      /\ One(x \in States) = One(InRecord(x, t))
  BY <1>1 DEF One
<1> HIDE DEF States
<1>4. /\ Cardinality(A) \in Nat /\ Cardinality(B) \in Nat
      /\ Cardinality(B) + One(conn[c] \in States) = Cardinality(A) + One(x \in States)
  BY EntriesChange DEF MarkedInv
<1>5. t \in TunnelTargets /\ t \in Targets
  BY TargetsOf DEF TunnelTargets
<1>6. /\ opens'[t] \in Nat /\ noted'[t] \in Nat
      /\ opens'[t] + noted[t] + One(InRecord(conn[c], t))
           = opens[t] + noted'[t] + One(InRecord(x, t))
  BY <1>5, RefusedMoves
<1>7. opens[t] = noted[t] + Cardinality(A) /\ noted[t] \in Nat
  BY <1>2, <1>5 DEF RefusedTunnelRecordedOnce, Named, MarkedInv, Inv, Typed
<1>8. One(InRecord(conn[c], t)) \in Nat /\ One(InRecord(x, t)) \in Nat
  BY DEF One
<1> HIDE DEF A, B
<1>9. Cardinality(B) + One(InRecord(conn[c], t)) = Cardinality(A) + One(InRecord(x, t))
  BY <1>3, <1>4
<1>10. opens'[t] = noted'[t] + Cardinality(B)
  BY <1>4, <1>6, <1>7, <1>8, <1>9
<1> QED
  BY <1>2, <1>10

\* The list when nothing is listed.
LEMMA ListStays ==
  ASSUME ListInv, UNCHANGED <<refusals, order, summaryDropped>>,
         \A t \in Targets : Reported(t)' = Reported(t)
  PROVE  ListInv'
<1>1. Reports' = Reports
  BY DEF Reports, Targets, Target, BadPath, NoPath
<1>2. /\ SumFunctionOnSet(Reports, Targets)' = SumFunctionOnSet(Reports, Targets)
      /\ SumFunctionOnSet(refusals, Targets)' = SumFunctionOnSet(refusals, Targets)
  BY <1>1 DEF Targets, Target, BadPath, NoPath
<1>3. ASSUME NEW t \in Targets PROVE refusals'[t] <= Reported(t)'
  BY DEF ListInv
<1>4. ToSet(order)' = ToSet(order) /\ \A t : refusals'[t] = refusals[t]
  OBVIOUS
<1> QED
  BY <1>2, <1>3, <1>4 DEF ListInv, Targets, Target, BadPath, NoPath

LEMMA CountedStep ==
  ASSUME CountedInv, [Next]_vars
  PROVE  CountedInv'
<1>1. MarkedInv' /\ mode' = mode
  BY MarkedStep, StepKind DEF CountedInv, MarkedInv, started
<1>2. CASE UNCHANGED <<conn, counts, upstream, answered>>
  <2>1. \A t \in Targets : Reported(t)' = Reported(t)
    BY <1>2 DEF Reported, InNote, counts
  <2>2. ListInv'
    BY <1>2, <2>1, ListStays DEF CountedInv, counts, tallied
  <2>3. CountsTyped'
    BY <1>2 DEF CountedInv, CountsTyped, counts, tallied, Targets, Target, BadPath, NoPath
  <2>4. ObservedAreForwarded' /\ RefusedTunnelRecordedOnce'
    BY <1>1, <1>2 DEF CountedInv, ObservedAreForwarded, RefusedTunnelRecordedOnce, counts,
       tallied, Target, NoPath
  <2> QED
    BY <1>1, <2>2, <2>3, <2>4 DEF CountedInv
<1>3. CASE \E c \in Conns, x \in Carriers : Becomes(c, x) /\ Kind(c, x)
  <2>1. PICK c \in Conns, x \in Carriers : Becomes(c, x) /\ Kind(c, x)
    BY <1>3
  <2>2. opens' \in [Targets -> Nat] /\ observed' \in Nat /\ installed' \in Nat
    BY <2>1, CountsStayTyped DEF CountedInv
  <2>3. ObservedAreForwarded' /\ RefusedTunnelRecordedOnce'
    BY <1>1, <2>1, ObservedStep, RefusedStep DEF CountedInv
  <2>4. ListInv' /\ refusals' \in [Targets -> Nat] /\ order' \in Seq(Targets)
        /\ summaryDropped' \in Nat
    <3>1. CASE /\ UNCHANGED <<refusals, order, summaryDropped>>
               /\ \A t \in Targets : Reported(t)' = Reported(t)
      BY <3>1, ListStays DEF CountedInv, CountsTyped
    <3>2. CASE /\ ListTarget(x.target)
               /\ \A t \in Targets : Reported(t)' = Reported(t) + One(x.target = t)
      <4>1. x.target \in Targets
        BY DEF Carriers
      <4>2. \A t \in Targets : Reported(t)' = Reported(t) + One(t = x.target)
        BY <3>2 DEF One
      <4> QED
        BY <3>2, <4>1, <4>2, ListStep DEF CountedInv
    <3> QED
      BY <2>1, <3>1, <3>2, ReportsMove DEF CountedInv
  <2>5. CountsTyped'
    BY <2>2, <2>4 DEF CountsTyped, Targets, Target, BadPath, NoPath
  <2> QED
    BY <1>1, <2>3, <2>4, <2>5 DEF CountedInv
<1> QED
  BY <1>2, <1>3, StepKind DEF CountedInv, MarkedInv

LEMMA CountedInit ==
  ASSUME Init
  PROVE  CountedInv
<1>1. MarkedInv
  BY MarkedInit
<1>2. /\ refusals = [t \in Targets |-> 0] /\ noted = [t \in Targets |-> 0]
      /\ opens = [t \in Targets |-> 0] /\ order = <<>>
      /\ observed = 0 /\ installed = 0 /\ summaryDropped = 0
      /\ \A c \in Conns : conn[c].at = "idle"
  BY IdleEntry DEF Init
<1>3. CountsTyped
  BY <1>2 DEF CountsTyped
<1>4. Cardinality({}) = 0 /\ ToSet(order) = {}
  BY <1>2, FS_EmptySet DEF ToSet
<1>5. ObservedAreForwarded
  <2>1. {c \in Conns : conn[c].decision.observe /\ conn[c].at \in {"note", "send"}} = {}
    BY <1>2
  <2>2. Cardinality({c \in Conns : conn[c].decision.observe /\ conn[c].at \in {"note", "send"}}) = 0
    BY <1>4, <2>1
  <2> QED
    BY <1>2, <2>2 DEF ObservedAreForwarded
<1>6. RefusedTunnelRecordedOnce
  <2> SUFFICES ASSUME NEW h \in Named, NEW t, t = Target(h, "CONNECT", NoPath)
      PROVE  opens[t] = noted[t] + Cardinality({d \in Conns :
               conn[d].target = t /\ conn[d].at \in {"tally", "note"}})
    BY DEF RefusedTunnelRecordedOnce, Named
  <2>1. {d \in Conns : conn[d].target = t /\ conn[d].at \in {"tally", "note"}} = {}
    BY <1>2
  <2>2. t \in Targets
    BY TargetsOf
  <2> QED
    BY <1>2, <1>4, <2>1, <2>2
<1>7. ListInv
  <2>1. \A t \in Targets : Reported(t) = 0 /\ refusals[t] = 0
    <3> SUFFICES ASSUME NEW t \in Targets PROVE Reported(t) = 0 /\ refusals[t] = 0
      OBVIOUS
    <3>1. {c \in Conns : conn[c].at = "note" /\ conn[c].target = t} = {}
      BY <1>2
    <3> QED
      BY <1>2, <1>4, <3>1 DEF Reported, InNote
  <2>2. SumFunctionOnSet(refusals, Targets) = 0 /\ SumFunctionOnSet(Reports, Targets) = 0
    BY <2>1, TargetsAssumption, SumZero DEF Reports
  <2>3. {t \in Targets : refusals[t] > 0} = {}
    BY <2>1
  <2>4. Len(order) = 0 /\ Cardinality(ToSet(order)) = 0 /\ 0 <= MaxTargets
    <3>1. Len(order) = 0
      BY <1>2
    <3>2. Cardinality(ToSet(order)) = 0
      BY <1>4
    <3>3. 0 <= MaxTargets
      BY ProxyAssumption
    <3> QED
      BY <3>1, <3>2, <3>3
  <2>5. \A t \in Targets : refusals[t] <= Reported(t)
    BY <2>1
  <2>6. SumFunctionOnSet(refusals, Targets) + summaryDropped = SumFunctionOnSet(Reports, Targets)
    BY <1>2, <2>2
  <2> QED
    BY <1>4, <2>3, <2>4, <2>5, <2>6 DEF ListInv
<1> QED
  BY <1>1, <1>3, <1>5, <1>6, <1>7 DEF CountedInv

\* What is tallied, noted, opened and sent agrees, whatever the connections do.
THEOREM CountedInvariance == Spec => []CountedInv
<1>1. Init => CountedInv
  BY CountedInit
<1>2. CountedInv /\ [Next]_vars => CountedInv'
  BY CountedStep
<1> QED
  BY <1>1, <1>2, PTL DEF Spec

\* In an enforcing run the summary's count of findings that were only reported
\* is the number of the forwarded requests that had one, and of those that are on
\* their way: every one is forwarded, and no refused one is counted.
THEOREM ObservedFindingsGoOn == Spec => []ObservedAreForwarded
<1>1. CountedInv => ObservedAreForwarded
  BY DEF CountedInv
<1> QED
  BY <1>1, CountedInvariance, PTL

\* Every refused tunnel is noted once, when it is opened, and never again for
\* the request that is made on it.
THEOREM RefusedTunnelsAreNotedOnce == Spec => []RefusedTunnelRecordedOnce
<1>1. CountedInv => RefusedTunnelRecordedOnce
  BY DEF CountedInv
<1> QED
  BY <1>1, CountedInvariance, PTL

\* The summary and the reporter are told the same refusals: the list holds each
\* refused target once and within its cap, counts no target more often than it
\* was noted, and what it does not hold is counted apart, to the last one.
THEOREM SummaryMatchesReports == Spec => []TallyAgreesWithReports
<1>1. CountedInv => TallyAgreesWithReports
  <2> SUFFICES ASSUME CountedInv PROVE TallyAgreesWithReports
    OBVIOUS
  <2>1. SumFunction([t \in Targets |-> noted[t] + InNote(t)])
          = SumFunctionOnSet(Reports, Targets)
    BY DEF SumFunction, Reports, Reported
  <2> QED
    BY <2>1 DEF CountedInv, ListInv, TallyAgreesWithReports, Reported
<1> QED
  BY <1>1, CountedInvariance, PTL
=============================================================================
