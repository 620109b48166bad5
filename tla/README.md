# deter-guard in TLA+

deter-guard is an egress proxy that stands in front of a CI build. It pulls a
signed egress policy and a signed supply-chain document, decides every request
of the build under them, refuses or (in monitor mode) only reports, tells an
administrators' console what it refused, and prints a summary at the end.

This directory holds TLA+ modules of its core, TLC configurations that check
them on small instances, and TLAPS proofs. `PROJECT.json` maps each definition
to the source lines it stands for.

## The system

| Part | Source | State | Operations | What makes it correct |
| --- | --- | --- | --- | --- |
| Refusal reporter | `report.go` | windows, drop count, batch number, one goroutine | note, tick, stop, post with retries, Close | nothing lost or counted twice; a retry is idempotent; the last refusals get out |
| Egress policy | `policy.go` | immutable | Check, CheckTunnel, globs | default deny; blocks win; a refused tunnel hides nothing |
| Proxy and modes | `proxy.go`, `transparent.go`, `mode.go` | tally under `p.mu`, a goroutine per connection | four routes in, record, refuse, forward | enforce holds on every route; nothing unseen; summary and console agree |
| Supply chain | `supplychain.go` | index and posture, immutable | parse, decide, registry paths, versions | blocks what the posture selects, in any order of lines |
| Shutdown | `serve.go` `stop`, `action/post.js` | the guard server | Shutdown, summary, Close, exit; the action waits and leaves | the summary is final, the console agrees with it, and nobody leaves before the flush |
| Canonicalisation | `canonical.go` | none | splitAuthority, cleanPath | decide on what is sent |
| Startup | `main.go`, `exec.go`, `oidc.go`, `api.go`, `loadpolicy.go`, `verify.go`, `supplychainpull.go` | credentials, token, keys | authenticate, exchange, pull, verify | what is enforced was signed; which failure ends a run, and with which code |
| Lifecycle | `serve.go`, `exec.go`, `envcmd.go` | CA file, state file, ports, child | serve, exec, wrap, detach, signals | what was put on the machine comes off again |
| Redirect | `redirect*.go` | kernel rules | install, remove | no family redirected without a guard, none left open |
| Certificate authority, trust stores, privileges, `env`, the action's other scripts | `ca.go`, `installca.go`, `roots.go`, `dropprivs*.go`, `envcmd.go`, `action/` | files | - | see "Not modelled" |

Handlers call `record`, which takes `p.mu` for the tally and, after releasing
it, `r.mu` for the reporter; nobody holds two locks. The reporter's goroutine
takes `r.mu` only to swap the windows and posts outside it. `stop` runs
`http.Server.Shutdown` (5 s), prints the summary under `p.mu`, and calls
`reporter.Close` (20 s). CONNECT tunnels are hijacked from the server and
redirected TLS connections never belonged to it, so Shutdown waits for neither.
On the way up, a process makes its calls
to the console under one deadline of 30 s, and `detach` gives its child 30 s in
all. At the end of a job, `action/post.js` signals the guard and looks for it once
a second, 25 times.

Hard behaviours: handlers interleave between the locks; a post may time out and
still arrive; Close may give up on a flush, and the action on the guard; a
document goes stale in the middle of a build; the walk over supply-chain entries
overwrites its answer; any call of the startup may fail in any way, and the code
must tell a bad signature from a bad network; several guards share files on one
machine, and each may fail or be killed at any point of its installation.
`PROJECT.json` "hazards" lists each at its line, with the property that watches
it or the reason none does.

## Modules

| Module | What it is |
| --- | --- |
| `Reporter` | the reporter, its timers, the network and the console |
| `RefusalLedger` | what the reporter promises a reader of the console; `Reporter` refines it |
| `Guard` | `stop` composed with `Reporter`, with handlers that are recording, and with the action that waits for the guard |
| `Startup` | from the command line to a policy and a document that may be enforced, or an exit code |
| `Strings`, `Glob`, `Policy` | searching, the greedy glob walk, the two decisions |
| `Proxy` | connections on four routes, both modes, tally, notes, forwarding; decides with `Policy`, `SupplyChain` and `RegistryPath` |
| `Canonical` | authorities and paths, cleaned before anything decides on them |
| `Redirect`, `Lifecycle` | the kernel's nat tables; guards on one machine putting things on it and taking them off |
| `Semver`, `SupplyChain`, `RegistryPath` | version order and ranges; document and decision; tarball paths |
| `Decisions` | the inputs of all pure functions, growing one piece at a time, and what the functions promise of them |
| `MC*` | instances |
| `Sums_proofs` | lemmas: sums over finite sets, least elements, counting |
| `Reporter_proofs` | theorems about the reporter, and that it implements the ledger |
| `Guard_proofs` | theorems about the shutdown; the reporter inside the guard |
| `Proxy_proofs` | theorems about the proxy; its tally, counts and monitor mode |
| `Policy_proofs` | lemmas: searching in texts, folds over them; theorems about the egress decision and the greedy walk |
| `Decisions_proofs` | theorems about paths, authorities, versions, documents, their decision and tarballs |
| `Startup_proofs`, `Lifecycle_proofs` | theorems about one start; about guards that share a machine |

Operators commented as slips (`TakeBatchKeepingDropped`, `ProceedsMalformed`,
...) are what a plausible mistake in the code would make of the operator that
follows. They are used by no specification; replacing the operator by its slip
must break the property that is about it, which shows that the property can
fail.

### Reporter

`windows` maps each key to its count, 0 standing for no window; `loop` is the
goroutine's place (`select`, `posting`, `backoff`, `done`), `closer` that of
Close. `Note`, `Tick`, `Stop`, `Answered`, `TimedOut`, `Resend`, `Close` and
`CloseReturns` are the code's steps between two blocking points. A flush and
the first attempt of its post are one step: between unlocking and sending
nothing else reads the batch. `Deliver` is the console: a request is stored or
not, answered with success, 4xx, 5xx, or not at all, possibly after its client
gave up. `Second` lets one second pass, and only when nobody is ready to run:
time is what decides between a timeout and an answer, so it must not run ahead
of a goroutine that could act. `noted`, `taken`, `shed`, `sent` and `lastBatch`
are history variables.

The console is modelled from what `report.go` relies on: it keeps the first
body of each (reporter, batch).

### Guard

Each handler takes a refusal through its two locks (`TallyRefusal`,
`NoteRefusal`), and `stop` is four actions. `Tracked` handlers are waited for by
`Shutdown`, unless it gives up after five seconds (`expired`); `Hijacked` ones
are not. What the handler decides belongs to `Proxy`.

`clock` counts the seconds since stop began, `GuardSecond` being one second for
every timer that runs: Shutdown's, the reporter's, and the action's. The action
(`post`) signals the guard or is somewhere else (`BeginShutdown` chooses); it
looks (`Look`), sleeps a second, and after `Patience` looks gives up, upon which
the runner may end the guard (`Reap`) in the middle of its flush. 25 s are as
much as Shutdown and Close may take together, so the action outwaits the flush
but for one case, which the property names: four of them were gone before Close
began. In the model it is `Shutdown` that takes them; the cleanups of transparent
mode (`iptables`, the bundle of trusted certificates) take no time in `Guard`, but
the property counts from the beginning of stop, and in the code they come out of the
same five seconds. A signal that `sudo` refuses is not modelled.

### Policy, Glob

A host is its labels, `<<>>` when it did not parse; a path is a sequence of
characters. `globMatches` is the code's walk over the pieces between the
stars, each found at its first occurrence past the last; `Means` is what a
glob means, and is not a translation of anything.

### Proxy

`conn[c].at` says what the goroutine of a connection does next: `tally` (about
to take `p.mu`), `note` (about to take `r.mu`), `supply`, `send`, `refuse`,
`tunnel` (between two requests of a terminated TLS connection) or `dead` (a
refused tunnel that will answer 403). `Record` is one call of `record`: where
the goroutine goes afterwards depends on `Proceeds`, the one place where the
modes differ. The routes are the absolute-form proxy, CONNECT, redirected
HTTP and redirected TLS. Policies and documents are those of `Policy` and
`SupplyChain`: `checkSupply` reads the package off the path with `RegistryPath`,
asks `decide`, and compares the document's time with `now`, which `Hour` moves on.
A host is still a host that parsed or `NoHost`, a path one that decoded or
`BadPath`: how they parse is in `Canonical`.

### Canonical

Texts are sequences of characters; in an escaped path an escape is one
character. `splitAuthority` takes the host and the port of a request apart,
`authorityOf` puts them together again for the upstream, and `cleanPath` keeps
two stacks of segments in step: what is sent, with its escapes, and what is
decided on. `Decisions` builds the targets and edits the authorities.

### Redirect, Lifecycle

`Redirect` is one nat table as iptables sees it: whether the chain is there, its
rules, and the number of hooks in OUTPUT. `redirectRules` and `Removal` are the
commands of the code; `Accepts`, `After` and `Redirected` are the kernel.

In `Lifecycle` each guard walks `runServeCommand` or `runExec`: `at[g]` is the next
call it makes that others can see. Every file written, port bound or refreshed
bundle is an action of its own, and `Iptables` runs a single command, so
another guard can come in between any two of them. `cleanup[g]` is the list that
`stop` takes from its end. A call may fail (`Fault`), a guard may be killed
anywhere (`Kill`; this includes a SIGTERM before `signal.Notify`), and `detach`
is a second process (`parent[g]`) that polls the state file and kills its child
when 30 s are over, whenever that is. All guards use the default paths and
ports, which is how they come to share them; `Init` allows an earlier job's
files. `Invocations` holds what the command lines can ask for: `--wrap` excludes
`--detach`, and `exec` looks at none of the flags of transparent mode.
`--ready-file`, `--ca-out` and other state directories are left out. Traffic
is not simulated: a property asks where a connection would go now.

`RedirectLands` holds while nobody is killed (`NobodyKilled`), for a killed guard
leaves its rules in the kernel and only the next guard takes them out; and while at
most one call has failed (`faults <= 1`), for a removal ignores what fails: with
`-D` and `-F` of one family both failing, a full chain stays hooked under nobody's
ports.

`NoSelfLoop` has no such condition for a guard that marks its sockets. One that does
not yet, or never will (`--transparent` without `--redirect`), is a different
matter: it binds the two transparent ports (serve.go:244-254) before it marks its
sockets and before it clears what an earlier guard left (270-279), so over a killed
guard's hooks its own connections do come back to it in between, although
serve.go:268 and redirect.go:56 are there to prevent that. The property says that
nothing else leads there: a killed guard, or two failing calls. The run reaches such
states.

`LeftoversDoNotBlock` and `CleanExit` speak of machines where no call failed.
`LeftoversDoNotBlock` asks of each command of an installation whether the table of
its family, IPv4 or IPv6, accepts it, whatever killed guards have left there; a host
that has no ip6tables is another matter.

### SupplyChain, Semver, RegistryPath

The document is a header (a record of field words) and a sequence of lines, each a
sequence of characters in which a name part, a version and a flag count as one.
`addEntry` cuts a line up as the code does (`Cut`, `SplitN`, `cutLast` are the
functions of Go's `strings`) and indexes it, skips it or counts it as dropped;
`postureFromHeader` reads the header over the defaults; `decide` walks the
entries of one package, `Better` being one turn of the loop. `Reading` and
`Percent` are what the version expression and `ParseFloat` make of the texts that
occur. `inSpan` follows the code where a bound cannot be read. Paths of tarballs
are sequences of characters with `.tgz` as one.

### Startup

One process: `opts` is its command line with what the files it names hold, `creds`
the credentials in its environment, and `at` the call it makes next. At each call
the console answers with an error below 500 (`denied`), with anything that counts
as no answer (`down`: 5xx, no connection, no JSON, or the deadline that all calls
share), or with any artifact of `Artifacts`: signed bytes, the convenience fields
beside them, a signature by any key over any content of any domain, and the key
it claims. `verify` compares a signature with the key, the domain and the
content, so a signature for another kind of artifact is one of the cases.
`received`, `refused` and `rejected` are history. What a guard does with a policy
is not here: `exec` and `serve` end in `ready`.

`serve --detach` does all of this in a child of its own. Its caller does not see what
the child ends with (`Seen`), but a 1 once the parent has waited 30 s; and a child
that is still waiting for an answer then, or not up yet, is killed (`GiveUp`). The
child's calls share a deadline of 30 s too, so a console that never answers the
pull of the supply-chain document can cost a detached run that has its policy, which
`OnlyThePolicyStopsARun` excludes as `killed`.

The word "pinned" is used in two ways. The policy command, supplychainpull.go:87,
api.go:31 and README.md:104 keep it for a key the operator gave; `exec` and `serve`
say it also of the key the session reported at the exchange (exec.go:202-217,
loadpolicy.go:101), although that key came from the console as well.
`VerifiedIsNotCircular` says which key decides, that a key which came with the message
is never called pinned, and that the looser use is found in `exec` and `serve` only.

## Runs

| Run | Question | Bounds and why they are enough |
| --- | --- | --- |
| `reporter_faulty` | Do refusals survive flush, retry, cap and stop under a faulty network? | 2 keys, 1 window, 3 notes: a full buffer, a drop, a repeated key and several batches all occur; 2 attempts: a retry whose predecessor is still on the wire |
| `guard` | stop against a recording handler, and the action that waits for both: whether the summary is final, the last flush gets one full attempt, the console ends up with the summary, and the action outwaits the flush | the real times (5, 15, 20, 25 s) and 2 attempts, which together exceed Close; answers that come late; 1 tracked handler and 2 notes, for a batch before and one after Close |
| `proxy` | The proxy's promises over both modes, four routes, three policies, three documents | 2 connections interleave between the locks; 2 requests put two requests in a tunnel or race two connections; a list of 1 target is full at once; 2 hours cross a threshold of 1 |
| `decisions` | All decisions on single inputs: policies of at most 2 rules and 2 blocks; globs and paths of at most 5 characters of `a`, `b` and star; targets of at most 7 characters; authorities within 2 edits of four shapes; documents of at most 3 lines with 2 header fields off their defaults; tarball paths within 3 changes | 2 blocks order a block with globs before or after one without; 5 characters hold two middle pieces and their overlaps; 7 hold a name, an encoded dot, a `..` past the root and an empty segment in any order; 3 lines put a note before and after a block, and two classes at odds |
| `startup` | Every command line that decides something, in the foreground and detached, every credential, every answer: what is enforced, and how a run ends | 2 keys and 2 contents: the right one and another, of each of 3 domains |
| `lifecycle` | Two guards on one machine, in transparent mode, detached, around a command, plain, and `exec`, on five hosts (with and without IPv6 loopback, routable IPv6 and ip6tables) | 1 failing call and 1 kill, anywhere: two guards suffice to share every resource, and one failure to take every error path of the installation |

`CHECK_DEADLOCK` is off where the system really stops: the process has exited,
or the bound on requests, notes or edits is used up.

Six runs show where the code does something else than a line of the
repository says; `PROJECT.json` "findings" quotes the lines.

- `proxy_fetch`: redirected plain HTTP is forwarded without asking the supply
  chain, although "every tarball fetch" is decided.
- `proxy_sni`: monitor mode forwards a connection whose SNI is no hostname,
  although the unidentifiable is refused in every mode. The run `proxy` checks
  the same property with SNIs that are hostnames (`BadNames` empty), where it
  holds.
- `guard_tunnel`: a refusal in an open tunnel is recorded after the summary.
- `lifecycle_exec`: two execs on a machine write and remove the same CA file,
  although "two jobs on one runner never collide".
- `startup_exit`: `exec` and `serve` end with 2, "the policy did NOT verify", when
  the console is down or answers nonsense.
- `supply_classes`: a pinned release on monitor hides the enforcing tail entry
  of the same package.

Four more disagreements have no run of their own. They are stated where they were
met, in the properties that had to allow for them:

- `VerifiedIsNotCircular`: `exec` and `serve` call the session's key pinned, against
  supplychainpull.go:87, api.go:31 and README.md:104.
- `UnverifiedIsTwo`, `FailureIsNotMasked`: behind `--detach`, which is how the action
  starts a guard, a policy that does not verify and a failed authentication end in a
  1 (serve.go:586), against the codes of main.go:16-22 and README.md:328.
- `OnlyThePolicyStopsARun`: a supply-chain document that never comes can end a
  detached run, by its parent's deadline, against supplychainpull.go:5.
- `NoSelfLoop`: until it marks its sockets, a guard over a killed one's hooks proxies
  to itself, against serve.go:268.

### Fairness

`guard` and `lifecycle` check liveness. `GuardFairness` asks weak fairness of a
handler that has begun to record (the Go scheduler), of stop once begun, of
the reporter's goroutine, of the action's looks, of time, and of a network that
answers each request it gets, in time or late. Nothing obliges a build to be
refused or a guard to be stopped. `Faults` allows late answers only in that run:
with a network that loses requests or a console that refuses them the reporter
promises no delivery. It has no hijacked handler, for `guard_tunnel` shows that
what those refuse after the summary is in no summary.

`Lifecycle` asks weak fairness of each guard's own steps (`Rise` or `Fall`): a
process that is not waiting runs on, whatever its commands return. Launching,
signals, the end of a build, kills and the parent of a detached guard are free.
`StopEnds` says that a guard which begins to stop gets through its cleanups; how
long `Shutdown` and `Close` take is in `Guard`.

## Proofs

All proofs hold for every value of the constants under the named assumptions of
the modules:

- `ReporterAssumption`: positive cap, attempts and timeouts.
- `GuardAssumption`: one attempt fits into what Close waits (15 s < 20 s), and
  Shutdown into the patience of the action (5 s < 25 s).
- `ProxyAssumption`: routes and modes are known, a document's threshold is positive,
  which `postureFromHeader` sees to.
- `StartupAssumption`, `LifecycleAssumption`: the form of command lines and hosts;
  `None`, `NoKey` and `Earlier` name nothing that exists.
- `KeysAssumption`, `HandlersAssumption`, `TargetsAssumption`: what is summed over
  is finite. A process holds finitely many connections, and what they can name is
  read from heads that `net/http` bounds in length.
- `LinesAssumption`: what the console says in a field of a line keeps clear of the
  character the line is cut at there, which is what makes the format a format. A
  line may have any mark, any ecosystem and any separator, the earlier grammar's
  among them, as the console's own document in `src/testdata` and the tests of the
  parser have them: what this guard does not read it skips or counts as dropped.
- `PackagesAssumption`: the four kinds of flags that `applyFlags` knows, at most one
  probability that reads as a number (of two, `applyFlags` keeps the last, and
  which that is the text of the line decides), no empty version, no `@` in one.
- `FixesAssumption`: a fix given as a flag, where the line has no upper bound of its
  own, lies above what the line catches. Nothing in the code checks this, it is what
  the guard takes the console's word for; `applyFlags` prefers the bound of the
  line because a flag may be about another branch, and for a line without a bound
  it has nothing else. The theorem says that nothing else can mislead.
- `SupplyChainAssumption`: what `semverRE` matches is made of numbers and identifiers,
  a probability is not negative.
- `TextsAssumption`: authorities and paths are texts.
- `MirrorsAssumption`: names and versions in tarball paths are names and versions
  (no `?`, no slash but that of a scope), the package is not called `-`, and the
  first prefix a path begins with is the one it was written for, give or take a
  slash. Both exceptions are real, and small: `parseRegistryPath` looks for the
  first `/-/`, so it does not find the tarball of a package named `-`, and it
  strips the first prefix in the list that fits, so of two mirrors of which one
  continues the other the longer must come first.

What is proved about the policy needs no assumption but that the blocks of a list
are numbered from 1; about globs, target paths and authorities read back, none at
all.

- `TypeCorrect`: the types are inductive by themselves, once they say that a
  backoff has an attempt left.
- `NoteConservation`: `NotesAccounted` is inductive with the types.
- `BatchIdentity`: `OneBodyPerBatch` alone is not inductive, for a retry sends
  the body in flight and nothing says what that is; `BodyInFlight` adds that the
  batch number counts the batches taken and that the body being posted is the
  one recorded under its number.
- `DropsMeanFull`: `CapInv` adds that there are finitely many windows, whatever
  the set of keys, which makes counting them meaningful.
- `DropConservation`, `Refinement`: the ledger and the account of drops are sums,
  over keys, over the batches taken and over those a console stored, and
  `LedgerInv` says that each is finite and that windows and running count make up
  the difference. `Sums_proofs` has what a step does to a sum: a term that
  changes, an element that joins, sums that are compared term by term. Its facts
  are proved by picking a smallest subset that breaks them, since the library's
  principles of induction take operators as parameters. A step of the reporter is
  then a step of `RefusalLedger` (`Refuse` for a note, `Show` for the first copy of a
  batch that the console stores) or changes nothing there.
- `SummaryIsFinal`, `LastFlushIsTried`, `PostOutwaits`: `GuardInv` adds to the
  properties the types, `WaitInv` (how long Close has waited against how long the
  attempt it met has run), `AtRest` (once Shutdown returned in time, no tracked
  handler is in the middle of a refusal) and `InStep` (the clock against the phase
  of stop, the reporter's timer and the looks of the action).
- `AccountsInTheGuard`: a step of the guard is a step of the reporter, none, or its
  end (`ReporterOrReap`), and the end keeps the reporter's accounts as well; so what
  holds of the reporter alone holds in the composition.
- `ConsoleStaysWithinSummary`: `TallyAhead` says that the tally is ahead of what was
  noted by exactly the handlers between the two locks.
- `BlockOverridesPermit`, `AllowedIsPermitted`, `TunnelRefusalSound`,
  `TunnelRefusalAlwaysFinal`: the search for the first block finds one exactly when
  one hits (`BlockedFindsHit`, by well-foundedness of the naturals), and the two decisions are compared on it.
  Nothing depends on what a pattern or a glob matches.
- `EnforceHoldsAlways`, `NothingGoesUnseen`, `StaleRegistryStaysClosed`: none of
  the three is inductive, for a handler takes several steps from the decision to
  the upstream while others interleave. `Inv` says what an entry carries at each
  place: on the way into `supply` a request is permitted, or noted and not
  enforced (`Passed`); on the way into `send` its finding does not refuse it
  either, and it arrived before the registry closed (`Cleared`); and at `tally`
  and `note` the decision being recorded agrees with where the goroutine goes
  next (`RecordsPolicy`, `RecordsFinding`). A step of another connection only
  adds to `noted`, and nothing a decision reads changes but the hour, so what is
  carried stays true (`CarriesStays`). For any number of connections, any
  policies and documents; how hosts match and what `decide` finds is not opened.
- `MonitorOnlyReports`, `IdentifiedBeforeSent`: every step of the proxy is of one of
  nine kinds (`Kind`), by what it does to its connection and to the tally.
  `MarkedInv` says that an entry on its way to a 403 in monitor mode is marked
  unidentified, and that one on its way up is not, unless it came by an SNI that is
  no hostname; `IdentifiedBeforeSent` assumes, as its run does, that none arrives
  (`BadNames = {}`), for `proxy_sni` shows that otherwise it is false.
- `ObservedFindingsGoOn`, `RefusedTunnelsAreNotedOnce`, `SummaryMatchesReports`:
  these count. `CountedInv` has the three, the types of the counters, and
  `ListInv`: the list of the summary holds each counted target once, no more than
  the cap, and what is in it and what found no place add up to what was reported.
- `OnlySignedIsEnforced`, `PinnedWasThereBefore`, `OneKeyForBoth`,
  `FailureIsFinal`, `PolicyDecidesTheRun`, `UnverifiedEndsWithTwo`: `IInv` says
  what the process holds at each place of the startup (`Placed`), under which key
  each of the two artifacts was verified (`Keyed`), and which failures lead to
  which exit code (`Ended`).

- The theorems of `Lifecycle_proofs`: `LifeInv` reads off the place of each guard
  what it holds. `Stacked` is its list of cleanups. `Bound` says who answers on
  which port: a guard that has taken the first transparent port has it alone, and
  everything it does to trust store and kernel comes after that, which is what
  keeps two guards from working on the chains at the same time. `Trusting` says who
  owns the anchor and the bundle. `KernelInv` says of a removal under way what the
  commands that are left will come to (`Removes`, `Gone`), of an installation which
  of the commands have made the chain (`Builds`), and of a guard that is up that
  both ports are redirected (`Laid`); no chain without its return for marked packets
  has any rule (`Proper`). What it promises depends on the number of faults so far:
  a removal without one leaves no chain, one with a single fault leaves a
  chain that is unhooked or empty. `StateInv` is the state file and who polls it.
  Each part is kept by a lemma of its own (`StepBound`, `StepTrusting`,
  `StepKernel`, `StepState`, ...), stated over a step of one guard and what it
  leaves to the others. TLC checked the parts of `LifeInv` as invariants of the run
  `lifecycle`, with two faults as well as one.

The theorems of `Decisions_proofs`, and `GreedyExact`, are about functions that
recurse over texts and lists. The library's induction takes an operator as a
parameter, so it is done over sets instead: `SequencesByInduction` says that a set
which has the empty sequence, and with a sequence its longer ones, has them all,
and the set is then "those of which the claim holds". A fold is shown to satisfy
its recursion first (`...IsSolution`, `...Steps`).

- `GreedyExact`, `GreedyWalkIsAlwaysExact`: a piece between two stars may as well
  be taken at its first occurrence. `Walked` says so of a glob as it grows: the
  beginnings of the text that it means are those that end in its last piece, at or
  past the place where the walk stands after the others. A character more makes
  the last piece longer, and a star moves the walk on.
- `CleanedOnce`, `AlwaysDecidesOnWhatIsSent`: the two stacks of `cleanPath` hold the
  same segments, escaped and not, through any sequence of `.` and `..`
  (`cleanPathForm`); a forwarded path has no segment left that cleaning changes.
- `AuthorityReadBack`, `AuthorityAlwaysKept`: `splitAuthority` undoes `authorityOf`
  for each of the forms a valid host takes, bracketed or not, with a port or
  without; `EditedInv` says that edits keep an authority a text.
- `SpanIsInterval`, `SpansAlwaysIntervals`: `compareSemver` is transitive and total
  over numbers, words, and prereleases of any length, where a number is below a
  word and a prefix below what continues it.
- `NoLineEverDisappears`, `BlockBeatsNote`, `AlwaysBlocksWhatThePostureSelects`,
  `FixIsAlwaysAhead`: `LinesInv` says that the document is what lines of the console
  make of it. From the characters of a line each field is cut out as it was
  written (`Written` undone by `Cut`, `SplitN`, `cutLast`), its flags are read back
  whatever order they are written in, and the index of a longer document is that of
  the shorter with one entry more. `Better` never goes back from a block to a
  note, so the order of the lines does not matter.
- `ReadIsTarball`, `TarballIsRead`, `OnlyTarballsAlwaysRead`: a name has no `/-/` of
  its own and a file no slash, so the first marker is the one that was written,
  and the version is what is left of the file after the base name.

All properties of `reporter_faulty`, `proxy`, `decisions` and `startup`, and all
safety properties of `guard` and `lifecycle`, are so proved.

Only model-checked: liveness (`StopEnds` and what `guard` checks under fairness),
which is beyond this prover. The runs that end in a violation are TLC's as well.

## Not modelled, and the plan

In this order:

1. The names of `Canonical` in `Proxy`, so that a request is a text. The two meet
   only in "parsed or not" and in the text that is decided on and sent, which
   `DecidesOnWhatIsSent` and `AuthorityKeepsHost` are about.
2. `goTransparent` appends to the policy's rules, and `enableSocketMarking`
   replaces the dialer, while the forward proxy is already serving: `Proxy` fixes
   the policy at the start, so a request at that very moment is not modelled.
3. Smaller questions met on the way, each for a closer look: `detach` asks
   `cmd.ProcessState` for a child that has ended, which is nil without a `Wait`, so
   it always waits 30 s for a child that died at once; a child killed at its
   deadline leaves the half-configured machine that `detach` says it avoids; `removeRedirect` never
   returns the error `goTransparent` reports; an encoded `..` at the end of a path
   loses the slash of a directory; over a killed guard's hooks, a guard that pulls
   its policy from the console cannot start, for its request is redirected
   (`ConsoleReachable`) and only the installation, later, would clear them; in a
   monitoring document a later finding replaces a known-exploited one as the
   reason (`Better`), which a comment denies; the end of the authority that
   `serve` logs is counted from the log line, not from the certificate.

Left out for good: the certificate authority (cryptography; its cache may mint
twice, which changes only the number of certificates, and a leaf lives a day from
its making, so it never ends before the authority), embedded roots and the search for a trust store (file copies),
dropping privileges (one lookup in the system's databases, before anything
starts), `env` (it reads the state file and quotes for a shell), the GitHub
action's `main.js` and its annotations, and the claim and ci scripts (one call of
the binary; checks of commit messages).
