--------------------------- MODULE Startup_proofs ---------------------------
(***************************************************************************)
(* Proofs about Startup, for every set of keys, contents and command lines *)
(* and every answer of the console.                                        *)
(***************************************************************************)
EXTENDS Startup, TLAPS

-----------------------------------------------------------------------------
(* The inductive invariant: what a process holds at each place it can be at. *)

Calling == {"start", "identity", "github", "exchange", "rules", "bundle", "whoami"}

\* The variables the other parts are read from.
Typed ==
  /\ opts \in Invocations
  /\ at \in Calling \cup {"supply", "ready", "exited", "killed"}
  /\ sessionKey \in Keys \cup {NoKey} /\ served \in Keys \cup {NoKey}
  /\ \A x \in {rules, supply, written} : x \in Accepted \cup {None}

\* A policy is there from its pull on, a document after it, and what the policy
\* command writes only at its end.
Placed ==
  /\ at \in Calling \cup {"exited"} => rules = None
  /\ at \in {"supply", "ready"} => rules # None
  /\ at \in Calling \cup {"supply"} => supply = None
  /\ at # "exited" => written = None /\ ~refused /\ rejected = {}
  /\ at \in {"start", "identity", "github", "exchange"} => token = ""
  /\ at \in {"rules", "supply"} \/ rules # None \/ supply # None => Guarding

\* How the failures of a run end it.
Ended ==
  /\ refused => code = Seen(2) /\ written = None
  /\ rejected # {} => code = Seen(3) /\ token # "ci"

\* Under which key what came from the console was verified.
Keyed ==
  /\ \A x \in {rules, supply} :
       FromConsole(x) => x.key = OrElse(Pinned, served) /\ x.pinned = (Pinned # NoKey)
  /\ FromConsole(written) =>
       /\ written.pinned = (opts.pubkey # NoKey)
       /\ Pinned # NoKey => written.key = Pinned

IInv == Typed /\ Placed /\ Ended /\ Keyed /\ EnforcedWasSigned

-----------------------------------------------------------------------------
(* What the operators of the model return.                                   *)

\* A policy or a document from a file is one, and claims no key.
LEMMA FileAccepted ==
  ASSUME NEW c \in Contents
  PROVE  File(c) \in Accepted /\ File(c) # None /\ ~FromConsole(File(c))
<1>1. File(c) \in Accepted
  BY DEF File, Accepted
<1>2. File(c).from = "file"
  BY DEF File
<1>3. File(c) # None
  BY <1>1, StartupAssumption
<1> QED
  BY <1>1, <1>2, <1>3 DEF FromConsole

\* What verifies came with a signature by the key, for the domain, over what is
\* then enforced.
LEMMA VerifiedArtifact ==
  ASSUME NEW domain, NEW a \in Artifacts, NEW key, Verifies(domain, a, key)
  PROVE  /\ Bytes(a) \in Contents /\ key \in Keys
         /\ [by |-> key, domain |-> domain, over |-> Bytes(a)] \in {a.sig} \ {None}
<1>1. a.sig \in Signatures /\ a.sig # None /\ a.signed \in Contents
  BY DEF Verifies, Artifacts
<1>2. a.sig = [by |-> key, domain |-> domain, over |-> a.signed]
  BY DEF Verifies, verify
<1>3. key \in Keys
  BY <1>1, <1>2 DEF Signatures
<1> QED
  BY <1>1, <1>2, <1>3 DEF Bytes

\* What is enforced from the console names its content, its key and its pinning.
LEMMA EnforcedAccepted ==
  ASSUME NEW c \in Contents, NEW key \in Keys
  PROVE  LET x == Enforced(c, key)
         IN /\ x \in Accepted /\ x # None /\ x.from = "console"
            /\ x.content = c /\ x.key = key /\ x.pinned = (Pinned # NoKey)
<1> DEFINE x == Enforced(c, key)
<1>1. x \in Accepted
  BY DEF Enforced, Accepted
<1>2. x # None
  BY <1>1, StartupAssumption
<1>3. x.from = "console" /\ x.content = c /\ x.key = key /\ x.pinned = (Pinned # NoKey)
  BY DEF Enforced
<1> QED
  BY <1>1, <1>2, <1>3

\* The initial state satisfies the invariant.
LEMMA InitIInv == Init => IInv
BY DEF Init, IInv, Typed, Placed, Ended, Keyed, EnforcedWasSigned, Signed, FromConsole, Calling

-----------------------------------------------------------------------------
(* The steps that pull nothing.                                              *)

\* Begin enforces at most a file.
LEMMA BeginKeeps == ASSUME IInv, Begin PROVE IInv'
<1>1. opts.policyFile = "unreadable" \/ ~Local \/ opts.policyFile \in Contents
  BY StartupAssumption DEF IInv, Typed, Local
<1>2. \/ rules' = None /\ at' \in {"identity", "exited"}
      \/ /\ opts.policyFile \in Contents
         /\ rules' = File(opts.policyFile) /\ at' = "supply" /\ Guarding
  BY <1>1 DEF Begin, Exit, Go, IInv, Placed, Calling, Local
<1>3. rules' \in Accepted \cup {None} /\ ~FromConsole(rules')
      /\ (at' = "supply" => rules' # None /\ Guarding) /\ (at' # "supply" => rules' = None)
      /\ at' \in {"identity", "exited", "supply"}
  BY <1>2, FileAccepted DEF FromConsole
<1>4. UNCHANGED <<input, token, sessionKey, served, supply, reporter, written, history>>
      /\ at = "start"
  BY DEF Begin
<1> QED
  BY <1>3, <1>4 DEF IInv, Typed, Placed, Ended, Keyed, EnforcedWasSigned, Signed,
     FromConsole, Calling, input, history, Pinned, OrElse, Guarding, Local

\* The steps of authentication touch nothing that is pulled: they move on with no
\* failure, or end the process.
LEMMA AuthenticationKeeps ==
  ASSUME IInv, at \in Calling, UNCHANGED <<input, served, pulled, received, refused>>,
         sessionKey' \in Keys \cup {NoKey},
         at' \in Calling \cup {"exited"},
         at' \in {"github", "exchange"} => token' = "",
         at' \notin {"start", "identity"}, at' = "rules" => Guarding,
         rejected' # {} => at' = "exited" /\ code' = Seen(3) /\ token' # "ci"
  PROVE  IInv'
BY DEF IInv, Typed, Placed, Ended, Keyed, EnforcedWasSigned, Signed, FromConsole,
   Calling, input, pulled, Guarding, Seen, Detached

\* Where a process goes once it has a token.
LEMMA AuthenticatedPlace ==
  ASSUME Authenticated
  PROVE  at' \in {"rules", "bundle", "whoami"} /\ (at' = "rules" => Guarding)
BY DEF Authenticated, Go

\* Where it goes without an identity.
LEMMA NoIdentityPlace ==
  ASSUME NoIdentity
  PROVE  at' \in {"rules", "bundle", "whoami", "exited"} /\ (at' = "rules" => Guarding)
BY AuthenticatedPlace DEF NoIdentity, Exit

\* Identity tries nothing that can fail.
LEMMA IdentityKeeps == ASSUME IInv, Identity PROVE IInv'
<1>1. at = "identity" /\ token = "" /\ rejected = {}
  BY DEF Identity, IInv, Placed
<1>2. \/ at' \in {"exchange", "github"} /\ token' = ""
      \/ /\ at' \in {"rules", "bundle", "whoami", "exited"}
         /\ at' = "rules" => Guarding
  BY <1>1, NoIdentityPlace DEF Identity, Go
<1>3. UNCHANGED <<input, sessionKey, served, pulled, history>>
  BY DEF Identity
<1>4. sessionKey' \in Keys \cup {NoKey} /\ at \in Calling /\ rejected' = {}
      /\ UNCHANGED <<received, refused>>
  BY <1>1, <1>3 DEF IInv, Typed, Calling, history
<1> QED
  BY <1>2, <1>3, <1>4, AuthenticationKeeps DEF Calling

\* FromGitHub ends the process when it fails.
LEMMA FromGitHubKeeps == ASSUME IInv, FromGitHub PROVE IInv'
<1>1. at = "github" /\ token = "" /\ rejected = {}
  BY DEF FromGitHub, IInv, Placed
<1>2. \/ at' = "exchange" /\ token' = "" /\ rejected' = {}
      \/ /\ at' \in {"rules", "bundle", "whoami", "exited"} /\ rejected' = {}
         /\ at' = "rules" => Guarding
      \/ at' = "exited" /\ code' = Seen(3) /\ token' = ""
  BY <1>1, NoIdentityPlace DEF FromGitHub, Go, Exit
<1>3. UNCHANGED <<input, served, pulled, received, refused>>
      /\ sessionKey' \in Keys \cup {NoKey} /\ at \in Calling
  BY <1>1 DEF FromGitHub, IInv, Typed, Calling
<1> QED
  BY <1>2, <1>3, AuthenticationKeeps DEF Calling

\* So does Exchange.
LEMMA ExchangeKeeps == ASSUME IInv, Exchange PROVE IInv'
<1>1. at = "exchange" /\ token = "" /\ rejected = {}
  BY DEF Exchange, IInv, Placed
<1>2. \/ /\ at' \in {"rules", "bundle", "whoami"} /\ rejected' = {}
         /\ at' = "rules" => Guarding
      \/ at' = "exited" /\ code' = Seen(3) /\ token' = ""
  BY <1>1, AuthenticatedPlace DEF Exchange, Exit
<1>3. UNCHANGED <<input, served, pulled, received, refused>>
      /\ sessionKey' \in Keys \cup {NoKey} /\ at \in Calling
  BY <1>1 DEF Exchange, IInv, Typed, Calling
<1> QED
  BY <1>2, <1>3, AuthenticationKeeps DEF Calling

\* WhoAmI ends it with nothing pulled.
LEMMA WhoAmIKeeps == ASSUME IInv, WhoAmI PROVE IInv'
<1>1. at = "whoami" /\ at' = "exited" /\ rejected = {}
  BY DEF WhoAmI, Exit, IInv, Placed
<1>2. UNCHANGED <<input, token, sessionKey, served, pulled, history>>
  BY DEF WhoAmI
<1>3. sessionKey' \in Keys \cup {NoKey} /\ at \in Calling /\ rejected' = {}
      /\ UNCHANGED <<received, refused>>
  BY <1>1, <1>2 DEF IInv, Typed, Calling, history
<1> QED
  BY <1>1, <1>2, <1>3, AuthenticationKeeps DEF Calling

-----------------------------------------------------------------------------
(* The pulls.                                                                *)

\* A pull that fails with code n ends the process without a policy.
LEMMA FailedPullKeeps ==
  ASSUME IInv, at \in {"rules", "bundle"}, at' = "exited",
         UNCHANGED <<input, sessionKey, served, pulled, rejected>>,
         received \subseteq received',
         refused' => code' = Seen(2)
  PROVE  IInv'
<1>1. rules = None /\ supply = None /\ written = None /\ rejected = {}
  BY DEF IInv, Placed, Calling
<1>2. EnforcedWasSigned'
  BY <1>1 DEF IInv, EnforcedWasSigned, Signed, FromConsole, pulled
<1> QED
  BY <1>1, <1>2 DEF IInv, Typed, Placed, Ended, Keyed, FromConsole, Calling, input, pulled,
     Guarding, Seen, Detached

\* The policy that is enforced came with a signature for a set of rules.
LEMMA PullRulesKeeps == ASSUME IInv, PullRules PROVE IInv'
<1>1. at = "rules" /\ UNCHANGED <<input, token, sessionKey, supply, written, rejected>>
  BY DEF PullRules
<1>2. rules = None /\ supply = None /\ written = None /\ rejected = {} /\ ~refused
      /\ ~reporter
  BY <1>1 DEF IInv, Placed, Calling, EnforcedWasSigned, FromConsole
<1>3. CASE \E error \in {"denied", "down"} :
             /\ Exit(PullCode(error))
             /\ UNCHANGED <<rules, reporter, served, received, refused>>
  BY <1>1, <1>2, <1>3, FailedPullKeeps DEF Exit, pulled
<1>4. ASSUME NEW a \in Artifacts, Receive(a),
             \/ /\ Verifies("rules", a, OrElse(Pinned, a.key)) /\ Exit(PullCode("garbled"))
                /\ UNCHANGED <<rules, reporter, served, refused>>
             \/ /\ ~Verifies("rules", a, OrElse(Pinned, a.key))
                /\ Exit(PullCode("unverified"))
                /\ refused' = TRUE /\ UNCHANGED <<rules, reporter, served>>
      PROVE  IInv'
  <2>1. at' = "exited" /\ UNCHANGED <<rules, reporter, served>>
        /\ received \subseteq received'
    BY <1>4 DEF Exit, Receive
  <2>2. refused' => code' = Seen(2)
    BY <1>2, <1>4 DEF Exit, PullCode
  <2> QED
    BY <1>1, <2>1, <2>2, FailedPullKeeps DEF pulled
<1>5. ASSUME NEW a \in Artifacts, Receive(a),
             Verifies("rules", a, OrElse(Pinned, a.key)),
             rules' = Enforced(Bytes(a), OrElse(Pinned, a.key)), reporter' = TRUE,
             served' = a.key, Go("supply"), UNCHANGED refused
      PROVE  IInv'
  <2> DEFINE key == OrElse(Pinned, a.key)
  <2>1. /\ Bytes(a) \in Contents /\ key \in Keys
        /\ [by |-> key, domain |-> "rules", over |-> Bytes(a)] \in received'
    BY <1>5, VerifiedArtifact DEF Receive
  <2>2. /\ rules' \in Accepted /\ rules' # None /\ rules'.from = "console"
        /\ rules'.content = Bytes(a) /\ rules'.key = key
        /\ rules'.pinned = (Pinned # NoKey)
    BY <1>5, <2>1, EnforcedAccepted
  <2>3. Pinned' = Pinned /\ OrElse(Pinned, served)' = key
    BY <1>1, <1>5 DEF Pinned, OrElse, input
  <2>4. served' \in Keys \cup {NoKey} /\ at' = "supply"
    BY <1>5 DEF Artifacts, Go
  <2>5. Typed' /\ Placed' /\ Ended'
    BY <1>1, <1>2, <1>5, <2>2, <2>4 DEF IInv, Typed, Placed, Ended, Calling, input, Guarding
  <2>6. Keyed'
    BY <1>1, <1>2, <2>2, <2>3 DEF Keyed, FromConsole
  <2>7. EnforcedWasSigned'
    BY <1>1, <1>2, <1>5, <2>1, <2>2 DEF EnforcedWasSigned, Signed, FromConsole
  <2> QED
    BY <2>5, <2>6, <2>7 DEF IInv
<1> QED
  BY <1>3, <1>4, <1>5 DEF PullRules

\* Whatever happens to the document, the process is ready: with one that came under
\* the key of the policy, with one from a file, or with none.
LEMMA SupplyKeeps ==
  ASSUME IInv, at = "supply", at' = "ready",
         UNCHANGED <<input, token, sessionKey, served, rules, reporter, written,
                     refused, rejected>>,
         received \subseteq received',
         supply' \in Accepted \cup {None},
         FromConsole(supply') =>
           /\ supply'.key = SupplyKey /\ supply'.pinned = (Pinned # NoKey)
           /\ [by |-> supply'.key, domain |-> "supply", over |-> supply'.content] \in received'
  PROVE  IInv'
<1>1. rules # None /\ written = None /\ ~refused /\ rejected = {}
  BY DEF IInv, Placed
<1>2. Pinned' = Pinned /\ OrElse(Pinned, served)' = SupplyKey
  BY DEF Pinned, OrElse, SupplyKey, input
<1>3. Typed' /\ Placed' /\ Ended'
  BY <1>1 DEF IInv, Typed, Placed, Ended, Calling, input, Guarding
<1>4. Keyed'
  BY <1>1, <1>2 DEF IInv, Keyed, FromConsole, SupplyKey
<1>5. EnforcedWasSigned'
  BY <1>1 DEF IInv, EnforcedWasSigned, Signed, FromConsole
<1> QED
  BY <1>3, <1>4, <1>5 DEF IInv

\* A document from a file is not the console's.
LEMMA LocalSupplyKeeps == ASSUME IInv, LocalSupply PROVE IInv'
<1>1. /\ at = "supply" /\ at' = "ready" /\ supply = None
      /\ UNCHANGED <<input, token, sessionKey, served, rules, reporter, written,
                     received, refused, rejected>>
  BY DEF LocalSupply, WithoutDocument, Go, IInv, Placed, history
<1>2. \/ supply' = None
      \/ opts.supplyFile \in Contents /\ supply' = File(opts.supplyFile)
  BY <1>1, StartupAssumption DEF LocalSupply, WithoutDocument, IInv, Typed
<1>3. supply' \in Accepted \cup {None} /\ ~FromConsole(supply')
  BY <1>2, FileAccepted DEF FromConsole
<1> QED
  BY <1>1, <1>3, SupplyKeeps

\* A document that was pulled verified under the key of the policy.
LEMMA PullSupplyKeeps == ASSUME IInv, PullSupply PROVE IInv'
<1>1. /\ at = "supply" /\ supply = None
      /\ UNCHANGED <<input, token, sessionKey, served, rules, reporter, written,
                     refused, rejected>>
  BY DEF PullSupply, IInv, Placed
<1>2. CASE WithoutDocument /\ received \subseteq received'
  BY <1>1, <1>2, SupplyKeeps DEF WithoutDocument, Go, FromConsole
<1>3. ASSUME NEW a \in Artifacts, Receive(a), Verifies("supply", a, SupplyKey),
             supply' = Enforced(Bytes(a), SupplyKey), Go("ready")
      PROVE  IInv'
  <2>1. /\ Bytes(a) \in Contents /\ SupplyKey \in Keys
        /\ [by |-> SupplyKey, domain |-> "supply", over |-> Bytes(a)] \in received'
    BY <1>3, VerifiedArtifact DEF Receive
  <2>2. /\ supply' \in Accepted /\ supply'.content = Bytes(a) /\ supply'.key = SupplyKey
        /\ supply'.pinned = (Pinned # NoKey)
    BY <1>3, <2>1, EnforcedAccepted
  <2>3. received \subseteq received' /\ at' = "ready"
    BY <1>3 DEF Receive, Go
  <2> QED
    BY <1>1, <2>1, <2>2, <2>3, SupplyKeeps
<1> QED
  BY <1>2, <1>3 DEF PullSupply, Receive

\* What the policy command writes was signed as a policy.
LEMMA PullBundleKeeps == ASSUME IInv, PullBundle PROVE IInv'
<1>1. at = "bundle" /\ UNCHANGED <<input, token, sessionKey, served, rules, supply, reporter, rejected>>
  BY DEF PullBundle
<1>2. rules = None /\ supply = None /\ written = None /\ rejected = {} /\ ~refused
  BY <1>1 DEF IInv, Placed, Calling
<1>3. CASE \E error \in {"denied", "down"} :
             /\ Exit(IF error = "denied" THEN 3 ELSE 1)
             /\ UNCHANGED <<written, received, refused>>
  BY <1>1, <1>2, <1>3, FailedPullKeeps DEF Exit, pulled
<1>4. ASSUME NEW a \in Artifacts, Receive(a), UNCHANGED written,
             \/ Exit(1) /\ UNCHANGED refused
             \/ Exit(2) /\ refused' = TRUE
      PROVE  IInv'
  <2>1. at' = "exited" /\ received \subseteq received' /\ (refused' => code' = Seen(2))
    BY <1>2, <1>4 DEF Exit, Receive
  <2> QED
    BY <1>1, <1>4, <2>1, FailedPullKeeps DEF pulled
<1>5. ASSUME NEW a \in Artifacts, Receive(a), Verifies("policy", a, OrElse(Pinned, a.key)),
             Exit(0), UNCHANGED refused,
             written' = [Enforced(Bytes(a), OrElse(Pinned, a.key))
                           EXCEPT !.pinned = opts.pubkey # NoKey]
      PROVE  IInv'
  <2> DEFINE key == OrElse(Pinned, a.key)
             x == Enforced(Bytes(a), key)
  <2>1. /\ Bytes(a) \in Contents /\ key \in Keys
        /\ [by |-> key, domain |-> "policy", over |-> Bytes(a)] \in received'
    BY <1>5, VerifiedArtifact DEF Receive
  <2>2. x = [content |-> Bytes(a), from |-> "console", key |-> key, pinned |-> Pinned # NoKey]
    BY DEF Enforced
  <2>3. written' = [content |-> Bytes(a), from |-> "console", key |-> key,
                    pinned |-> opts.pubkey # NoKey]
    BY <1>5, <2>2
  <2>4. written' \in Accepted /\ written'.content = Bytes(a) /\ written'.key = key
        /\ written'.pinned = (opts.pubkey # NoKey)
    BY <2>1, <2>3 DEF Accepted
  <2>5. Pinned # NoKey => key = Pinned
    BY DEF OrElse
  <2>6. at' = "exited" /\ opts' = opts /\ Pinned' = Pinned
    BY <1>1, <1>5 DEF Exit, input, Pinned
  <2>7. Typed' /\ Placed' /\ Ended'
    BY <1>1, <1>2, <1>5, <2>4, <2>6 DEF IInv, Typed, Placed, Ended, Calling, Seen, Detached
  <2>8. Keyed'
    BY <1>1, <1>2, <2>4, <2>5, <2>6 DEF Keyed, FromConsole
  <2>9. EnforcedWasSigned'
    BY <1>1, <1>2, <2>1, <2>4 DEF IInv, EnforcedWasSigned, Signed, FromConsole
  <2> QED
    BY <2>7, <2>8, <2>9 DEF IInv
<1> QED
  BY <1>3, <1>4, <1>5 DEF PullBundle

\* A child that is killed keeps what it has, and nothing of it failed.
LEMMA GiveUpKeeps == ASSUME IInv, GiveUp PROVE IInv'
<1>1. /\ at # "exited" /\ at' = "killed"
      /\ UNCHANGED <<input, token, sessionKey, served, pulled, history>>
  BY DEF GiveUp
<1>2. EnforcedWasSigned' /\ Keyed'
  BY <1>1 DEF IInv, Keyed, EnforcedWasSigned, Signed, FromConsole, Pinned, OrElse, input,
     pulled, history
<1> QED
  BY <1>1, <1>2 DEF IInv, Typed, Placed, Ended, Calling, input, pulled, history, Guarding

-----------------------------------------------------------------------------
(* The invariant, and what follows from it.                                  *)

\* The invariant holds in every behaviour.
LEMMA Invariance == Spec => []IInv
<1>1. ASSUME IInv, [Next]_vars PROVE IInv'
  <2>1. CASE UNCHANGED vars
    <3>1. UNCHANGED <<opts, at, token, sessionKey, served, rules, supply, written, reporter,
                      code, received, refused, rejected>>
      BY <2>1 DEF vars, input, pulled, history
    <3>2. Typed' /\ Placed' /\ Ended'
      BY <1>1, <3>1 DEF IInv, Typed, Placed, Ended, Calling, Guarding, Seen, Detached
    <3>3. Keyed' /\ EnforcedWasSigned'
      BY <1>1, <3>1 DEF IInv, Keyed, EnforcedWasSigned, Signed, FromConsole, Pinned, OrElse
    <3> QED
      BY <3>2, <3>3 DEF IInv
  <2> QED
    BY <1>1, <2>1, BeginKeeps, IdentityKeeps, FromGitHubKeeps, ExchangeKeeps,
       PullRulesKeeps, LocalSupplyKeeps, PullSupplyKeeps, PullBundleKeeps, WhoAmIKeeps,
       GiveUpKeeps DEF Next
<1> QED
  BY <1>1, InitIInv, PTL DEF Spec

\* loadpolicy.go:91: what is enforced, and what the policy command writes, came with
\* a signature over it for its kind of artifact, by the key the guard names.
THEOREM OnlySignedIsEnforced == Spec => []EnforcedWasSigned
<1>1. IInv => EnforcedWasSigned
  BY DEF IInv
<1> QED
  BY <1>1, Invariance, PTL

\* exec.go:199: the operator's key decides, then the exchange's; a key from the message
\* itself is never called pinned, and the exchange's only by exec and serve.
THEOREM PinnedWasThereBefore == Spec => []VerifiedIsNotCircular
<1>1. IInv => VerifiedIsNotCircular
  <2> SUFFICES ASSUME IInv, NEW x \in {rules, supply, written}, FromConsole(x)
               PROVE  /\ Pinned # NoKey => x.key = Pinned
                      /\ x.pinned => Pinned # NoKey
                      /\ opts.pubkey # NoKey => x.pinned
                      /\ x.pinned /\ opts.pubkey = NoKey => Guarding
    BY DEF VerifiedIsNotCircular
  <2>1. CASE x = written
    BY <2>1 DEF IInv, Keyed, Pinned
  <2>2. CASE x \in {rules, supply}
    <3>1. Guarding
      BY <2>2 DEF IInv, Placed, FromConsole
    <3> QED
      BY <2>2, <3>1 DEF IInv, Keyed, Pinned, OrElse
  <2> QED
    BY <2>1, <2>2
<1> QED
  BY <1>1, Invariance, PTL

\* exec.go:226: the policy and the document were verified with one key.
THEOREM OneKeyForBoth == Spec => []BothUnderOneKey
<1>1. IInv => BothUnderOneKey
  BY DEF IInv, Keyed, BothUnderOneKey
<1> QED
  BY <1>1, Invariance, PTL

\* main.go:203: a credential that failed is not masked by the next one.
THEOREM FailureIsFinal == Spec => []FailureIsNotMasked
<1>1. IInv => FailureIsNotMasked
  BY DEF IInv, Ended, FailureIsNotMasked
<1> QED
  BY <1>1, Invariance, PTL

\* supplychainpull.go:5: a process that may guard has a policy, and only one without
\* ends before that.
THEOREM PolicyDecidesTheRun == Spec => []OnlyThePolicyStopsARun
<1>1. IInv => OnlyThePolicyStopsARun
  BY DEF IInv, Placed, OnlyThePolicyStopsARun
<1> QED
  BY <1>1, Invariance, PTL

\* main.go:21: a policy that does not verify ends the process with a 2, which a caller
\* sees unless the guard is in the background.
THEOREM UnverifiedEndsWithTwo == Spec => []UnverifiedIsTwo
<1>1. IInv => UnverifiedIsTwo
  BY DEF IInv, Placed, Ended, UnverifiedIsTwo, Seen
<1> QED
  BY <1>1, Invariance, PTL
=============================================================================
