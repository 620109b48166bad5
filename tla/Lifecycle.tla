----------------------------- MODULE Lifecycle -----------------------------
(***************************************************************************)
(* The life of guards on one machine (src/serve.go, src/exec.go,           *)
(* src/redirect_linux.go, src/installca.go): what each puts on the machine *)
(* on the way up (files, ports, a system CA, kernel rules) and takes off   *)
(* on the way out, step by step, while others do the same.                 *)
(*                                                                         *)
(* All guards use the default paths and ports, so they share the CA file,  *)
(* the state file, the proxy port and the two transparent ports; --ca-out, *)
(* --ready-file and --port would only take a guard out of some of that.    *)
(* What a guard does with traffic is in Proxy, its reporter in Guard.      *)
(***************************************************************************)
EXTENDS Redirect, Integers

CONSTANTS
  Guards,
  None,       \* no guard
  Earlier,    \* a guard of an earlier job that was killed
  Machines,   \* the invocations, [Guards -> invocation]
  Hosts,      \* what the host offers
  MaxFaults,  \* bound on commands and writes that fail for no reason of ours
  MaxKills    \* bound on guards killed from outside

Anyone == Guards \cup {None, Earlier}

\* opts: the subcommand (exec, serve, or serve --wrap), and its flags; local is
\* --policy <file>.  exec looks at none of the other flags, and --wrap excludes
\* --detach.
Invocations ==
  {i \in [cmd : {"exec", "serve", "wrap"}, local : BOOLEAN, detach : BOOLEAN, transparent : BOOLEAN,
          installCA : BOOLEAN, redirect : BOOLEAN, exempt : SUBSET {"cidr", "typo"}] :
     (i.detach => i.cmd = "serve") /\ (i.transparent => i.cmd # "exec")}

ASSUME LifecycleAssumption ==
  /\ None \notin Guards /\ Earlier \notin Guards /\ None # Earlier
  /\ \A m \in Machines : \A g \in Guards : m[g] \in Invocations
  /\ Hosts \subseteq [loopback6 : BOOLEAN, routable6 : BOOLEAN, ip6tables : BOOLEAN]
  /\ MaxFaults \in Nat /\ MaxKills \in Nat

VARIABLES
  opts, host,  \* chosen at the beginning
  at,          \* where each guard stands
  job,         \* the iptables commands it has still to run, and their family
  cleanup,     \* g.cleanup
  own,         \* v6: its listeners cover IPv6; marked: it marks its own sockets
  failed,      \* why goTransparent or writeState gave up, "" if it did not
  parent,      \* the process that runs detach
  port, web,   \* who listens on the proxy port and on the transparent ports
  table,       \* the nat tables
  file,        \* whose CA, state and trust anchor the files hold
  trusted,     \* whose CA the system bundle holds
  faults, kills

machine == <<port, web, table, file, trusted>>
process == <<at, job, cleanup, own, failed>>
vars == <<opts, host, machine, process, parent, faults, kills>>

Dead == {"off", "exited", "killed"}

Init ==
  /\ opts \in Machines /\ host \in Hosts
  /\ at = [g \in Guards |-> "off"]
  /\ job = [g \in Guards |-> [family |-> "v4", cmds |-> <<>>]]
  /\ cleanup = [g \in Guards |-> <<>>]
  /\ own = [g \in Guards |-> [v6 |-> FALSE, marked |-> FALSE]]
  /\ failed = [g \in Guards |-> ""] /\ parent = [g \in Guards |-> "none"]
  /\ port = None /\ web = [w \in Webs |-> [f \in Families |-> None]]
  /\ table = [f \in Families |-> NoTable]
  /\ \E left \in {None, Earlier} : file = [ca |-> left, state |-> left, anchor |-> None]
  /\ trusted = None /\ faults = 0 /\ kills = 0

\* A write or a command fails.
Fault == faults < MaxFaults /\ faults' = faults + 1
Works == UNCHANGED faults

Go(g, place) == at' = [at EXCEPT ![g] = place]

ClosePort(g) == port' = IF port = g THEN None ELSE port
CloseWeb(g) ==
  web' = [w \in Webs |-> [f \in Families |-> IF web[w][f] = g THEN None ELSE web[w][f]]]

\* g.stop() after an error.
Fail(g, why) == Go(g, "cleanup") /\ failed' = [failed EXCEPT ![g] = why]

-----------------------------------------------------------------------------
(* The way up: resolvePolicy, startGuard.                                    *)

Launch(g) ==
  /\ at[g] = "off" /\ Go(g, "pull")
  /\ parent' = [parent EXCEPT ![g] = IF opts[g].detach THEN "clear" ELSE "none"]
  /\ UNCHANGED <<opts, host, machine, job, cleanup, own, failed, faults, kills>>

\* The console is asked over port 443 like any other host, and before anything is
\* marked: the hooks of a killed guard send the request to a port nobody answers.
CutOff(f) == Redirected(table[f], {"tls"}) /\ web.tls[f] = None
ConsoleReachable == ~CutOff("v4") \/ (host.routable6 /\ ~CutOff("v6"))

\* The policy is read, or pulled and verified, or the process ends.
Pull(g) ==
  /\ at[g] = "pull"
  /\ \/ (opts[g].local \/ ConsoleReachable) /\ Go(g, "ca")
     \/ Go(g, "exited")
  /\ UNCHANGED <<opts, host, machine, job, cleanup, own, failed, parent, faults, kills>>

WriteCA(g) ==
  /\ at[g] = "ca"
  /\ \/ Works /\ file' = [file EXCEPT !.ca = g] /\ Go(g, "listen")
     \/ Fault /\ UNCHANGED file /\ Go(g, "exited")
  /\ UNCHANGED <<opts, host, port, web, table, trusted, job, cleanup, own, failed, parent, kills>>

\* exec takes a port the kernel chooses.  A port that is taken ends the process,
\* which removes the CA file.
Listen(g) ==
  /\ at[g] = "listen"
  /\ IF opts[g].cmd = "exec" THEN UNCHANGED <<port, file>> /\ Go(g, "start")
     ELSE IF port = None
     THEN /\ port' = g /\ UNCHANGED file
          /\ Go(g, IF opts[g].transparent THEN "http" ELSE "publish")
     ELSE UNCHANGED port /\ file' = [file EXCEPT !.ca = None] /\ Go(g, "exited")
  /\ UNCHANGED <<opts, host, web, table, trusted, job, cleanup, own, failed, parent, faults, kills>>

-----------------------------------------------------------------------------
(* goTransparent: the listeners, the system CA, the redirect.                *)

\* loopbackListeners: IPv4 is required, IPv6 is not.
BothLoopbacks(g, w) ==
  [f \in Families |->
     IF f = "v4" \/ (host.loopback6 /\ web[w][f] = None) THEN g ELSE web[w][f]]

BindHTTP(g) ==
  /\ at[g] = "http"
  /\ IF web.http.v4 # None THEN Fail(g, "taken") /\ UNCHANGED web
     ELSE /\ web' = [web EXCEPT !["http"] = BothLoopbacks(g, "http")]
          /\ Go(g, "tls") /\ UNCHANGED failed
  /\ UNCHANGED <<opts, host, port, table, file, trusted, job, cleanup, own, parent, faults, kills>>

AfterTrust(g) == IF opts[g].redirect THEN "mark" ELSE "publish"

BindTLS(g) ==
  /\ at[g] = "tls"
  /\ IF web.tls.v4 # None
     THEN Fail(g, "taken") /\ CloseWeb(g) /\ UNCHANGED <<cleanup, own>>
     ELSE /\ web' = [web EXCEPT !["tls"] = BothLoopbacks(g, "tls")]
          /\ own' = [own EXCEPT ![g].v6 = web'.http.v6 = g /\ web'.tls.v6 = g]
          /\ cleanup' = [cleanup EXCEPT ![g] = <<"listeners">>]
          /\ Go(g, IF opts[g].installCA THEN "anchor" ELSE AfterTrust(g))
          /\ UNCHANGED failed
  /\ UNCHANGED <<opts, host, port, table, file, trusted, job, parent, faults, kills>>

\* installSystemCA.
WriteAnchor(g) ==
  /\ at[g] = "anchor"
  /\ \/ Works /\ file' = [file EXCEPT !.anchor = g] /\ Go(g, "refresh") /\ UNCHANGED failed
     \/ Fault /\ Fail(g, "fault") /\ UNCHANGED file
  /\ UNCHANGED <<opts, host, port, web, table, trusted, job, cleanup, own, parent, kills>>

Refresh(g) ==
  /\ at[g] = "refresh"
  /\ \/ /\ Works /\ trusted' = file.anchor /\ Go(g, AfterTrust(g))
        /\ cleanup' = [cleanup EXCEPT ![g] = Append(@, "trust")]
        /\ UNCHANGED <<file, failed>>
     \/ /\ Fault /\ file' = [file EXCEPT !.anchor = None] /\ Fail(g, "fault")
        /\ UNCHANGED <<trusted, cleanup>>
  /\ UNCHANGED <<opts, host, port, web, table, job, own, parent, kills>>

Installing == {"clear", "install", "undo", "close"}
Removing == {"clear", "undo", "close", "unredirect"}

\* Slip: nothing is removed for IPv6.
JobV4Only(g, family, cmds) ==
  job' = [job EXCEPT ![g] =
            [family |-> family,
             cmds |-> IF family = "v6" /\ cmds = Removal THEN <<>> ELSE cmds]]

Job(g, family, cmds) == job' = [job EXCEPT ![g] = [family |-> family, cmds |-> cmds]]

\* enableSocketMarking, and the beginning of installRedirect: what an earlier
\* guard may have left is taken out.
Mark(g) ==
  /\ at[g] = "mark"
  /\ own' = [own EXCEPT ![g].marked = TRUE]
  /\ Go(g, "clear") /\ Job(g, "v4", Removal)
  /\ UNCHANGED <<opts, host, machine, cleanup, failed, parent, faults, kills>>

\* One iptables command.  A removal unhooks as long as it can and ignores what
\* fails; an installation ends at its first failure, and undoes what it did.
Iptables(g) ==
  /\ at[g] \in Installing \cup Removing /\ job[g].cmds # <<>>
  /\ LET f == job[g].family
         cmd == Head(job[g].cmds)
         refused == ~Accepts(table[f], cmd) \/ (f = "v6" /\ ~host.ip6tables)
     IN \/ /\ ~refused /\ Works
           /\ table' = [table EXCEPT ![f] = After(@, cmd)]
           /\ IF cmd = "-D" THEN UNCHANGED job ELSE Job(g, f, Tail(job[g].cmds))
           /\ UNCHANGED <<at, failed>>
        \/ /\ IF refused THEN Works ELSE Fault
           /\ UNCHANGED table
           /\ IF at[g] = "install"
              THEN /\ Job(g, f, IF cmd = "-N" THEN <<>> ELSE Removal) /\ Go(g, "undo")
                   /\ failed' = [failed EXCEPT ![g] = IF refused THEN "refused" ELSE "fault"]
              ELSE Job(g, f, Tail(job[g].cmds)) /\ UNCHANGED <<at, failed>>
  /\ UNCHANGED <<opts, host, port, web, file, trusted, cleanup, own, parent, kills>>

Covered(g) ==
  /\ Go(g, "publish") /\ failed' = [failed EXCEPT ![g] = ""]
  /\ cleanup' = [cleanup EXCEPT ![g] = Append(@, "redirect")]
  /\ UNCHANGED job

\* Slips: a missing IPv6 redirect is only a warning; the IPv4 one stays behind.
NoV6Warns(g) == Covered(g)

NoV6LeavesV4(g) ==
  IF host.routable6 THEN Fail(g, "v6") /\ UNCHANGED <<job, cleanup>>
  ELSE Covered(g)

\* Without an IPv6 redirect: refuse where IPv6 could leave the host.
NoV6(g) ==
  IF host.routable6
  THEN /\ Go(g, "close") /\ Job(g, "v4", Removal)
       /\ failed' = [failed EXCEPT ![g] = "v6"] /\ UNCHANGED cleanup
  ELSE Covered(g)

\* installRedirect, between one family's commands and what follows them.
Proceed(g) ==
  /\ at[g] \in Installing /\ job[g].cmds = <<>>
  /\ LET f == job[g].family
     IN CASE at[g] = "clear" /\ f = "v4" ->
               Job(g, "v6", Removal) /\ UNCHANGED <<at, failed, cleanup>>
          [] at[g] = "clear" /\ f = "v6" ->
               IF "typo" \in opts[g].exempt
               THEN Fail(g, "typo") /\ UNCHANGED <<job, cleanup>>
               ELSE /\ Go(g, "install") /\ Job(g, "v4", Creation(opts[g].exempt))
                    /\ UNCHANGED <<failed, cleanup>>
          [] at[g] = "install" /\ f = "v4" ->
               IF own[g].v6
               THEN Job(g, "v6", Creation({})) /\ UNCHANGED <<at, failed, cleanup>>
               ELSE NoV6(g)
          [] at[g] = "install" /\ f = "v6" -> Covered(g)
          [] at[g] = "undo" /\ f = "v6" -> NoV6(g)
          [] OTHER -> Fail(g, failed[g]) /\ UNCHANGED <<job, cleanup>>
  /\ UNCHANGED <<opts, host, machine, own, parent, faults, kills>>

-----------------------------------------------------------------------------
(* Ready, and the way out.                                                   *)

\* writeState; nothing handles a signal yet.
Publish(g) ==
  /\ at[g] = "publish"
  /\ \/ /\ Works /\ file' = [file EXCEPT !.state = g] /\ UNCHANGED failed
        /\ Go(g, IF opts[g].cmd = "wrap" THEN "start" ELSE "notify")
     \/ Fault /\ Fail(g, "fault") /\ UNCHANGED file
  /\ UNCHANGED <<opts, host, port, web, table, trusted, job, cleanup, own, parent, kills>>

Notify(g) ==
  /\ at[g] = "notify" /\ Go(g, "serving")
  /\ UNCHANGED <<opts, host, machine, job, cleanup, own, failed, parent, faults, kills>>

\* SIGINT or SIGTERM.
Signal(g) ==
  /\ at[g] = "serving" /\ Go(g, "cleanup")
  /\ UNCHANGED <<opts, host, machine, job, cleanup, own, failed, parent, faults, kills>>

\* runChild of exec and --wrap; the command may not start.
StartChild(g) ==
  /\ at[g] = "start" /\ \E to \in {"build", "cleanup"} : Go(g, to)
  /\ UNCHANGED <<opts, host, machine, job, cleanup, own, failed, parent, faults, kills>>

ChildEnds(g) ==
  /\ at[g] = "build" /\ Go(g, "cleanup")
  /\ UNCHANGED <<opts, host, machine, job, cleanup, own, failed, parent, faults, kills>>

\* stop: what was installed last is removed first.
Latest(g) == Last(cleanup[g])

StopListeners(g) ==
  /\ Latest(g) = "listeners" /\ CloseWeb(g)
  /\ UNCHANGED <<port, file, at, job, faults>>

Untrust(g) ==
  /\ Latest(g) = "trust"
  /\ \/ Works /\ file' = [file EXCEPT !.anchor = None] /\ Go(g, "rebuild")
     \/ Fault /\ UNCHANGED <<file, at>>
  /\ UNCHANGED <<port, web, job>>

Unredirect(g) ==
  /\ Latest(g) = "redirect" /\ Go(g, "unredirect") /\ Job(g, "v4", Removal)
  /\ UNCHANGED <<port, web, file, faults>>

\* Slips: in the order of installation; without moving on.
CleanupInOrder(g) ==
  /\ at[g] = "cleanup" /\ cleanup[g] # <<>>
  /\ LET first == Head(cleanup[g])
     IN CASE first = "listeners" -> CloseWeb(g) /\ UNCHANGED <<port, file, at, job, faults>>
          [] first = "trust" -> /\ Works /\ file' = [file EXCEPT !.anchor = None]
                                /\ Go(g, "rebuild") /\ UNCHANGED <<port, web, job>>
          [] OTHER -> /\ Go(g, "unredirect") /\ Job(g, "v4", Removal)
                      /\ UNCHANGED <<port, web, file, faults>>
  /\ cleanup' = [cleanup EXCEPT ![g] = Tail(@)]
  /\ UNCHANGED <<opts, host, table, trusted, own, failed, parent, kills>>

CleanupAgain(g) ==
  /\ at[g] = "cleanup" /\ cleanup[g] # <<>>
  /\ StopListeners(g) \/ Untrust(g) \/ Unredirect(g)
  /\ UNCHANGED <<cleanup, opts, host, table, trusted, own, failed, parent, kills>>

Cleanup(g) ==
  /\ at[g] = "cleanup" /\ cleanup[g] # <<>>
  /\ StopListeners(g) \/ Untrust(g) \/ Unredirect(g)
  /\ cleanup' = [cleanup EXCEPT ![g] = Front(@)]
  /\ UNCHANGED <<opts, host, table, trusted, own, failed, parent, kills>>

Rebuild(g) ==
  /\ at[g] = "rebuild" /\ Go(g, "cleanup")
  /\ \/ Works /\ trusted' = file.anchor
     \/ Fault /\ UNCHANGED trusted
  /\ UNCHANGED <<opts, host, port, web, table, file, job, cleanup, own, failed, parent, kills>>

\* removeRedirect in stop: both families, whatever fails.
Unredirected(g) ==
  /\ at[g] = "unredirect" /\ job[g].cmds = <<>>
  /\ IF job[g].family = "v4" THEN Job(g, "v6", Removal) /\ UNCHANGED at
     ELSE Go(g, "cleanup") /\ UNCHANGED job
  /\ UNCHANGED <<opts, host, machine, cleanup, own, failed, parent, faults, kills>>

Shutdown(g) ==
  /\ at[g] = "cleanup" /\ cleanup[g] = <<>>
  /\ ClosePort(g) /\ Go(g, "flushing")
  /\ UNCHANGED <<opts, host, web, table, file, trusted, job, cleanup, own, failed, parent, faults, kills>>

\* The reporter is closed, and the CA removed by its path unless a bare serve
\* wrote it.
RemoveCA(g) ==
  /\ at[g] = "flushing"
  /\ file' = [file EXCEPT !.ca = IF opts[g].cmd = "serve" THEN @ ELSE None]
  /\ Go(g, IF opts[g].cmd = "serve" /\ failed[g] = "" THEN "unpublish" ELSE "exited")
  /\ UNCHANGED <<opts, host, port, web, table, trusted, job, cleanup, own, failed, parent, faults, kills>>

\* The deferred removal of the state file, by its path.
Unpublish(g) ==
  /\ at[g] = "unpublish" /\ Go(g, "exited")
  /\ file' = [file EXCEPT !.state = None]
  /\ UNCHANGED <<opts, host, port, web, table, trusted, job, cleanup, own, failed, parent, faults, kills>>

-----------------------------------------------------------------------------
(* Killed, and the parent of detach.                                         *)

\* The process ends where it stands, its sockets with it: SIGKILL, or a SIGTERM
\* that nothing handles (before Notify, and once runChild has returned).
Die(g) ==
  /\ at' = [at EXCEPT ![g] = IF @ \in Dead THEN @ ELSE "killed"]
  /\ IF at[g] \in Dead THEN UNCHANGED <<port, web>> ELSE ClosePort(g) /\ CloseWeb(g)

Kill(g) ==
  /\ at[g] \notin Dead /\ kills < MaxKills /\ kills' = kills + 1
  /\ Die(g)
  /\ UNCHANGED <<opts, host, table, file, trusted, job, cleanup, own, failed, parent, faults>>

\* Slip: the state file of an earlier guard stays.
ParentWaits(g) ==
  /\ parent[g] = "clear" /\ parent' = [parent EXCEPT ![g] = "poll"]
  /\ UNCHANGED <<opts, host, machine, process, faults, kills>>

\* The state file is removed once the child has been started.
ParentClears(g) ==
  /\ parent[g] = "clear" /\ parent' = [parent EXCEPT ![g] = "poll"]
  /\ file' = [file EXCEPT !.state = None]
  /\ UNCHANGED <<opts, host, port, web, table, trusted, process, faults, kills>>

\* Any state file will do.
ParentSees(g) ==
  /\ parent[g] = "poll" /\ file.state # None
  /\ parent' = [parent EXCEPT ![g] = "ok"]
  /\ UNCHANGED <<opts, host, machine, process, faults, kills>>

\* 30 seconds are over: the child is killed, whatever it is doing.
ParentGivesUp(g) ==
  /\ parent[g] = "poll" /\ parent' = [parent EXCEPT ![g] = "failed"]
  /\ Die(g)
  /\ UNCHANGED <<opts, host, table, file, trusted, job, cleanup, own, failed, faults, kills>>

Rise(g) ==
  \/ Pull(g) \/ WriteCA(g) \/ Listen(g) \/ BindHTTP(g) \/ BindTLS(g)
  \/ WriteAnchor(g) \/ Refresh(g) \/ Mark(g) \/ Iptables(g) \/ Proceed(g)
  \/ Publish(g) \/ Notify(g) \/ StartChild(g)

Fall(g) ==
  \/ Cleanup(g) \/ Rebuild(g) \/ Iptables(g) \/ Unredirected(g)
  \/ Shutdown(g) \/ RemoveCA(g) \/ Unpublish(g)

Outside(g) ==
  \/ Launch(g) \/ Signal(g) \/ ChildEnds(g) \/ Kill(g)
  \/ ParentClears(g) \/ ParentSees(g) \/ ParentGivesUp(g)

Next == \E g \in Guards : Rise(g) \/ Fall(g) \/ Outside(g)

Spec == Init /\ [][Next]_vars

\* A process that can go on does.  Nothing obliges anyone to launch, to signal or
\* to kill a guard, or a build to end.
FairSpec == Spec /\ \A g \in Guards : WF_vars(Rise(g) \/ Fall(g))

-----------------------------------------------------------------------------
(* Properties.                                                              *)

Rising == {"pull", "ca", "listen", "http", "tls", "anchor", "refresh", "mark",
           "clear", "install", "undo", "close", "publish"}
Up == {"notify", "serving", "start", "build"}

\* Whether a connection of the build, or of guard g, is redirected.
BuildRedirected(f, w) == Redirected(table[f], {w})
OwnRedirected(g, f, w) ==
  Redirected(table[f], IF own[g].marked THEN {"mark", w} ELSE {w})

NobodyKilled == \A g \in Guards : at[g] # "killed"

\* serve.go:198, 216: as long as nobody is killed, what is redirected arrives at a
\* guard that listens on that family's port and whose CA the system trusts, at
\* every point of the way up and out, with one command failing anywhere.
RedirectLands ==
  NobodyKilled /\ faults <= 1 => \A f \in Families, w \in Webs :
    BuildRedirected(f, w) =>
      /\ web[w][f] # None
      /\ opts[web[w][f]].installCA => trusted = web[w][f]

\* redirect.go:56, serve.go:268: once a guard marks its sockets it never has its own
\* upstream connections redirected to itself, whatever was killed and whatever failed.
\* It listens before it marks and before it clears what an earlier guard left
\* (serve.go:244-270), and never marks without --redirect: until then it does proxy to
\* itself over the hooks of a killed guard, and over those of one that left in order
\* only if two commands failed.
NoSelfLoop ==
  \A g \in Guards, f \in Families, w \in Webs :
    web[w][f] = g /\ OwnRedirected(g, f, w) =>
      ~own[g].marked /\ (NobodyKilled => faults > 1)

\* redirect_linux.go:108: a guard that is up in transparent mode covers every
\* family traffic could leave over, whatever others on the machine tried since.
NoFamilyUncovered ==
  \A g \in Guards : at[g] \in Up /\ opts[g].transparent /\ opts[g].redirect =>
    \A f \in Families, w \in Webs :
      f = "v4" \/ host.routable6 => BuildRedirected(f, w)

\* serve.go:115: when all guards have left in order, the machine is as it was:
\* no chain, no trusted CA, no port.
CleanExit ==
  (\A g \in Guards : at[g] \in {"off", "exited"}) /\ faults = 0 =>
    /\ \A f \in Families : table[f] = NoTable
    /\ file.anchor = None /\ trusted = None
    /\ port = None /\ \A w \in Webs, f \in Families : web[w][f] = None

\* redirect_linux.go:91: what a killed guard left in the tables, of either family and at
\* any point of its installation or removal, never makes a command of the next
\* installation fail, for a guard that gets that far (a host without ip6tables fails
\* them on its own account).
LeftoversDoNotBlock ==
  faults = 0 => \A g \in Guards : at[g] = "install" /\ job[g].cmds # <<>> =>
    Accepts(table[job[g].family], Head(job[g].cmds))

\* serve.go:528: detach returns success only once its guard is up, where no other
\* guard publishes a state file in the directory.
DetachMeansUp ==
  \A g \in Guards :
    /\ parent[g] = "ok" /\ \A h \in Guards \ {g} : opts[h].cmd = "exec"
    => at[g] \notin Rising

\* serve.go:193: a guard that begins to stop comes to its end, undoing what it
\* installed on the way, unless it is killed.
StopEnds == \A g \in Guards : at[g] = "cleanup" ~> at[g] \in Dead

\* exec.go:82: "so two jobs on one runner never collide": while the build of an
\* exec runs, the CA file it was pointed at holds its guard's CA.
JobsDoNotCollide ==
  \A g \in Guards : at[g] = "build" => file.ca = g
=============================================================================
