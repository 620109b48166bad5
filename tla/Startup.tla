------------------------------- MODULE Startup -------------------------------
(***************************************************************************)
(* From the command line to a policy (src/main.go run, src/exec.go         *)
(* resolvePolicy, src/oidc.go, src/api.go, src/loadpolicy.go,              *)
(* src/supplychainpull.go): one process finds a credential, pulls a signed *)
(* policy and a signed supply-chain document, verifies each under some     *)
(* key, and ends with an exit code or goes on to guard a build.            *)
(*                                                                         *)
(* Every call is a step in which the console may answer anything, or not   *)
(* before the deadline that all calls of a process share.  What the guard  *)
(* does afterwards is in Lifecycle and Proxy.                              *)
(***************************************************************************)
EXTENDS Integers

CONSTANTS
  Keys,         \* public keys
  NoKey,        \* the empty key
  Contents,     \* what a policy or a document may say
  None,         \* no artifact, no signature
  Invocations   \* command lines, with the files they name

Domains == {"policy", "rules", "supply"}
Signatures == [by : Keys, domain : Domains, over : Contents]

\* explicit: DETER_ID_TOKEN; github: the runner's request token; ci: DETER_CI_TOKEN.
Credentials == [explicit : BOOLEAN, github : BOOLEAN, ci : BOOLEAN]

\* A policy or a document that may be enforced, and how it got here.
Accepted ==
  [content : Contents, from : {"file", "console"}, key : Keys \cup {NoKey}, pinned : BOOLEAN]

ASSUME StartupAssumption ==
  /\ NoKey \notin Keys /\ None \notin Contents \cup Signatures \cup Accepted
  /\ \A o \in Invocations :
       /\ o.cmd \in {"claim", "whoami", "policy", "exec", "serve"}
       /\ o.pubkey \in Keys \cup {NoKey}
       /\ {o.console, o.usable, o.noSupplyChain, o.detach} \subseteq BOOLEAN
       /\ o.detach => o.cmd = "serve"
       /\ {o.policyFile, o.supplyFile} \subseteq Contents \cup {"none", "unreadable"}

VARIABLES
  opts, creds,        \* fixed when the process starts
  at,                 \* the call it makes next
  token,              \* "", "session" or "ci"
  sessionKey, served, \* the keys the exchange and the rules response report
  rules, supply,      \* what will be enforced, from Accepted
  reporter,           \* refusals will be reported
  written,            \* what the policy command wrote or printed
  code,               \* the exit code its caller sees
  received,           \* history: signatures that came with an artifact
  refused,            \* history: a policy arrived that did not verify
  rejected            \* history: a credential was tried and failed

input == <<opts, creds>>
pulled == <<rules, supply, reporter, written>>
history == <<received, refused, rejected>>
vars == <<input, at, token, sessionKey, served, pulled, code, history>>

Running == -1

Init ==
  /\ opts \in Invocations /\ creds \in Credentials
  /\ at = "start"
  /\ token = "" /\ sessionKey = NoKey /\ served = NoKey
  /\ rules = None /\ supply = None /\ reporter = FALSE /\ written = None
  /\ code = Running
  /\ received = {} /\ refused = FALSE /\ rejected = {}

\* serve --detach runs all of this in a child of its own, in the background.
Detached == opts.detach

\* The parent does not ask what the child ended with: it waits for a guard that is up,
\* and returns a 1 when the 30 seconds are over.  (The state file of another guard
\* would do; that is Lifecycle's DetachMeansUp.)
Seen(n) == IF Detached THEN 1 ELSE n

Exit(n) == at' = "exited" /\ code' = Seen(n)
Go(place) == at' = place /\ UNCHANGED code

-----------------------------------------------------------------------------
(* verify.go: a signature covers a content under the tag of its artifact.    *)

\* Slip: the tag is left out of what is signed.
verifyUntagged(domain, content, sig, key) == sig.by = key /\ sig.over = content

verify(domain, content, sig, key) == sig = [by |-> key, domain |-> domain, over |-> content]

\* The operator's key, else the one the session reported.
Pinned == IF opts.pubkey # NoKey THEN opts.pubkey ELSE sessionKey

OrElse(key, other) == IF key # NoKey THEN key ELSE other

-----------------------------------------------------------------------------
(* run, up to the first call.                                               *)

Guarding == opts.cmd \in {"exec", "serve"}
Local == Guarding /\ opts.policyFile # "none"

File(content) == [content |-> content, from |-> "file", key |-> NoKey, pinned |-> FALSE]

Begin ==
  /\ at = "start"
  /\ IF ~opts.usable THEN Exit(1) /\ UNCHANGED rules
     ELSE IF Local
     THEN IF opts.policyFile = "unreadable" THEN Exit(1) /\ UNCHANGED rules
          ELSE rules' = File(opts.policyFile) /\ Go("supply")
     ELSE IF opts.console THEN Go("identity") /\ UNCHANGED rules
     ELSE Exit(1) /\ UNCHANGED rules
  /\ UNCHANGED <<input, token, sessionKey, served, supply, reporter, written, history>>

-----------------------------------------------------------------------------
(* authenticate.                                                            *)

Authenticated ==
  Go(CASE Guarding -> "rules" [] opts.cmd = "policy" -> "bundle" [] OTHER -> "whoami")

\* No usable identity: the long-lived token, if there is one.
NoIdentity ==
  IF creds.ci THEN token' = "ci" /\ Authenticated
  ELSE Exit(3) /\ UNCHANGED token

\* getIDToken.
Identity ==
  /\ at = "identity"
  /\ CASE creds.explicit -> Go("exchange") /\ UNCHANGED token
       [] ~creds.explicit /\ creds.github -> Go("github") /\ UNCHANGED token
       [] OTHER -> NoIdentity
  /\ UNCHANGED <<input, sessionKey, served, pulled, history>>

\* fromGitHub: a token, a refusal, or no answer; only a refusal means that there
\* is no identity.
FromGitHub ==
  /\ at = "github"
  /\ \/ Go("exchange") /\ UNCHANGED <<token, rejected>>
     \/ NoIdentity /\ UNCHANGED rejected
     \/ Exit(3) /\ rejected' = rejected \cup {"github"} /\ UNCHANGED token
  /\ UNCHANGED <<input, sessionKey, served, pulled, received, refused>>

\* Slip: an exchange that fails makes way for the long-lived token.
ExchangeOrFallBack ==
  /\ at = "exchange"
  /\ \/ /\ token' = "session" /\ Authenticated
        /\ sessionKey' \in Keys \cup {NoKey} /\ UNCHANGED rejected
     \/ /\ rejected' = rejected \cup {"exchange"}
        /\ NoIdentity /\ UNCHANGED sessionKey
  /\ UNCHANGED <<input, served, pulled, received, refused>>

\* exchangeIDToken: any failure, an unreachable console too, is final.
Exchange ==
  /\ at = "exchange"
  /\ \/ /\ token' = "session" /\ Authenticated
        /\ sessionKey' \in Keys \cup {NoKey} /\ UNCHANGED rejected
     \/ /\ rejected' = rejected \cup {"exchange"}
        /\ Exit(3) /\ UNCHANGED <<token, sessionKey>>
  /\ UNCHANGED <<input, served, pulled, received, refused>>

-----------------------------------------------------------------------------
(* Answers of the console: an error, with a status below 500 ("denied") or   *)
(* otherwise ("down": a 5xx, no connection, the deadline, no JSON), or an    *)
(* artifact: what the signature should cover, the convenience fields beside  *)
(* it, the signature, and the key the console says it is under.              *)

Artifacts ==
  [signed : Contents \cup {None}, beside : Contents, sig : Signatures \cup {None},
   key : Keys \cup {NoKey}]

Receive(a) == received' = received \cup ({a.sig} \ {None})

Verifies(domain, a, key) ==
  a.signed # None /\ a.sig # None /\ verify(domain, a.signed, a.sig, key)

\* Slip: any key at all counts as pinned.
EnforcedAnyKey(content, key) ==
  [content |-> content, from |-> "console", key |-> key, pinned |-> key # NoKey]

Enforced(content, key) ==
  [content |-> content, from |-> "console", key |-> key, pinned |-> Pinned # NoKey]

\* Slip: what is enforced is what stands beside the signed bytes.
BytesBeside(a) == a.beside

\* What is enforced is what was signed.
Bytes(a) == a.signed

\* Slip: a policy that does not verify is a configuration problem.
PullCodeUsage(error) == IF error = "denied" THEN 3 ELSE 1

\* resolvePolicy: every error of the pull that is no answer below 500 is a 2.
PullCode(error) == IF error = "denied" THEN 3 ELSE 2

\* fetchRules, and resolvePolicy after it.  Signed bytes may be no rule set.
PullRules ==
  /\ at = "rules"
  /\ \/ \E error \in {"denied", "down"} :
          /\ Exit(PullCode(error))
          /\ UNCHANGED <<rules, reporter, served, received, refused>>
     \/ \E a \in Artifacts : LET key == OrElse(Pinned, a.key) IN
          /\ Receive(a)
          /\ \/ /\ Verifies("rules", a, key)
                /\ rules' = Enforced(Bytes(a), key) /\ reporter' = TRUE
                /\ served' = a.key /\ Go("supply") /\ UNCHANGED refused
             \/ /\ Verifies("rules", a, key) /\ Exit(PullCode("garbled"))
                /\ UNCHANGED <<rules, reporter, served, refused>>
             \/ /\ ~Verifies("rules", a, key) /\ Exit(PullCode("unverified"))
                /\ refused' = TRUE /\ UNCHANGED <<rules, reporter, served>>
  /\ UNCHANGED <<input, token, sessionKey, supply, written, rejected>>

-----------------------------------------------------------------------------
(* The supply-chain document: whatever happens, the run goes on.             *)

\* Slip: the document's key is always the one the console served.
SupplyKeyServed == served

\* The key the rules were verified with.
SupplyKey == OrElse(Pinned, served)

\* Slip: a document that cannot be had ends the run, as a policy would.
WithoutDocumentNoRun == Exit(2) /\ UNCHANGED supply

WithoutDocument == Go("ready") /\ UNCHANGED supply

NoFetch == opts.noSupplyChain \/ opts.supplyFile # "none" \/ ~opts.console \/ token = ""

\* resolveSupplyChain without a call: switched off, from a file, or no console.
LocalSupply ==
  /\ at = "supply" /\ NoFetch
  /\ IF opts.noSupplyChain \/ opts.supplyFile \in {"none", "unreadable"}
     THEN WithoutDocument
     ELSE supply' = File(opts.supplyFile) /\ Go("ready")
  /\ UNCHANGED <<input, token, sessionKey, served, rules, reporter, written, history>>

\* resolveSupplyChain: the pull.
PullSupply ==
  /\ at = "supply" /\ ~NoFetch
  /\ \/ WithoutDocument /\ UNCHANGED received  \* no answer, or an error
     \/ \E a \in Artifacts :
          /\ Receive(a)
          /\ \/ /\ SupplyKey # NoKey /\ Verifies("supply", a, SupplyKey)
                /\ supply' = Enforced(Bytes(a), SupplyKey) /\ Go("ready")
             \/ WithoutDocument  \* it does not verify, or does not parse
  /\ UNCHANGED <<input, token, sessionKey, served, rules, reporter, written, refused, rejected>>

-----------------------------------------------------------------------------
(* policy, whoami and claim.                                                 *)

\* The policy command: its errors are told apart, and only the operator's key
\* is called pinned.
PullBundle ==
  /\ at = "bundle"
  /\ \/ \E error \in {"denied", "down"} :
          /\ Exit(IF error = "denied" THEN 3 ELSE 1)
          /\ UNCHANGED <<written, received, refused>>
     \/ \E a \in Artifacts :
          LET key == OrElse(Pinned, a.key)
              good == Verifies("policy", a, key)
          IN /\ Receive(a)
             /\ \/ /\ good /\ Exit(0) /\ UNCHANGED refused
                   /\ written' = [Enforced(Bytes(a), key) EXCEPT !.pinned = opts.pubkey # NoKey]
                \/ /\ key = NoKey \/ good  \* no key at all, or the file cannot be written
                   /\ Exit(1) /\ UNCHANGED <<written, refused>>
                \/ /\ key # NoKey /\ ~good
                   /\ Exit(2) /\ refused' = TRUE /\ UNCHANGED written
  /\ UNCHANGED <<input, token, sessionKey, served, rules, supply, reporter, rejected>>

\* whoami and claim: claimReport refuses what no platform signed.
WhoAmI ==
  /\ at = "whoami"
  /\ \/ \E error \in {"denied", "down"} : Exit(IF error = "denied" THEN 3 ELSE 1)
     \/ \E attested \in BOOLEAN :
          Exit(IF opts.cmd = "claim" /\ ~attested THEN 3 ELSE 0)
  /\ UNCHANGED <<input, token, sessionKey, served, pulled, history>>

-----------------------------------------------------------------------------
(* detach.                                                                   *)

\* The parent's 30 seconds are over, while the child waits for an answer under a
\* deadline of 30 seconds of its own, or is not up yet: it is killed.
GiveUp ==
  /\ Detached /\ at \notin {"start", "exited", "killed"}
  /\ at' = "killed" /\ code' = 1
  /\ UNCHANGED <<input, token, sessionKey, served, pulled, history>>

Next ==
  \/ Begin \/ Identity \/ FromGitHub \/ Exchange \/ PullRules
  \/ LocalSupply \/ PullSupply \/ PullBundle \/ WhoAmI
  \/ GiveUp

Spec == Init /\ [][Next]_vars
-----------------------------------------------------------------------------
(* Properties.                                                              *)

FromConsole(x) == x # None /\ x.from = "console"
Signed(x, domain) ==
  FromConsole(x) => [by |-> x.key, domain |-> domain, over |-> x.content] \in received

\* loadpolicy.go:91: the signed bytes are what is enforced, not the fields beside
\* them.  Everything taken from the console has come with a signature over it, for
\* that kind of artifact, by the key the guard names; and nothing is reported under
\* a policy nobody signed (exec.go:153).
EnforcedWasSigned ==
  /\ Signed(rules, "rules") /\ Signed(supply, "supply") /\ Signed(written, "policy")
  /\ reporter => FromConsole(rules)

\* exec.go:199: a message is not verified against a key from the same message where
\* there is another.  The operator's key decides where there is one, then the one the
\* exchange reported; only with neither is it a key the console served with the message,
\* and that one is never called pinned.
\* supplychainpull.go:88, api.go:31 and README.md:104 call only the operator's key
\* pinned.  The policy command does so too; exec and serve say it of the exchange's key
\* as well (exec.go:202-217, loadpolicy.go:101), though it came from the console.  The
\* last conjunct is where they differ: nowhere else is a key of the console's pinned.
VerifiedIsNotCircular ==
  \A x \in {rules, supply, written} : FromConsole(x) =>
    /\ Pinned # NoKey => x.key = Pinned
    /\ x.pinned => Pinned # NoKey
    /\ opts.pubkey # NoKey => x.pinned
    /\ x.pinned /\ opts.pubkey = NoKey => Guarding

\* exec.go:226: the document is verified with the key the policy was verified
\* with, and the two pulls say the same about it.
BothUnderOneKey ==
  FromConsole(rules) /\ FromConsole(supply)
    => supply.key = rules.key /\ supply.pinned = rules.pinned

\* main.go:203: a credential that was tried and failed is never masked by the
\* next one, and ends the process with a 3 (behind --detach its caller sees a 1).
FailureIsNotMasked == rejected # {} => code = Seen(3) /\ token # "ci"

\* supplychainpull.go:5: no policy, no run; but whatever becomes of the document,
\* a run that has its policy goes on.  A detached guard may still be killed by its
\* parent while it waits for the document ("killed", GiveUp).
OnlyThePolicyStopsARun ==
  Guarding => /\ at = "ready" => rules # None
              /\ at = "exited" => rules = None

\* main.go:21: a policy that does not verify ends the process with a 2, and
\* neither reaches a file nor is enforced.  The caller sees the 2, but not of a guard
\* in the background: detach returns a 1 for whatever its child ended with
\* (serve.go:586), against README.md:328, which has 2 for that.
UnverifiedIsTwo ==
  refused => /\ at = "exited" /\ rules = None /\ written = None
             /\ code = IF Detached THEN 1 ELSE 2

\* main.go:21: 2 means that the policy did not verify.
TwoMeansUnverified == code = 2 => refused
=============================================================================
