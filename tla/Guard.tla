-------------------------------- MODULE Guard --------------------------------
(***************************************************************************)
(* The guard as it stops (src/serve.go stop): handlers that tally and note *)
(* refusals, the reporter, the four steps of stop (shut the server down,   *)
(* print the summary, close the reporter, exit), and the last step of the  *)
(* GitHub action (src/action/post.js), which signals the guard, waits for  *)
(* it to be gone, and lets the runner end the job with whatever is left.   *)
(*                                                                         *)
(* Two kinds of handlers: those whose connection the HTTP server tracks,   *)
(* which Shutdown waits for, and those that took theirs over (a CONNECT    *)
(* tunnel, hijacked in handleConnect, and a redirected TLS connection,     *)
(* never the server's), which nothing waits for.  What a handler decides   *)
(* is in Proxy; here it decides on a refusal.  The cleanups that stop      *)
(* begins with are in Lifecycle and take no time here.                     *)
(***************************************************************************)
EXTENDS Reporter

CONSTANTS
  Tracked,   \* handlers of connections the server tracks
  Hijacked,  \* handlers of tunnels and of redirected TLS connections
  ShutdownTimeout, \* the deadline of Shutdown in stop (5 s)
  PostPolls        \* how often, once a second, post.js looks for the guard (25)

\* One attempt fits into what Close waits, and Shutdown into the action's patience.
ASSUME GuardAssumption ==
  /\ ShutdownTimeout \in Nat /\ PostPolls \in Nat \ {0}
  /\ HttpTimeout < CloseTimeout /\ ShutdownTimeout < PostPolls

Handlers == Tracked \cup Hijacked

\* A process holds finitely many connections.
ASSUME HandlersAssumption == IsFiniteSet(Handlers)

VARIABLES
  handler,   \* what each handler is about to do, and for which target
  phase,     \* where stop stands
  tallied,   \* refusals in the tally, per handler that put them there
  summary,   \* the tally as printed
  clock,     \* seconds since stop began, while Shutdown or post.js waits
  post,      \* post.js: "away", "due" to look, "asleep", "seen" it gone, "gaveup"
  expired,   \* history: Shutdown gave up on an active handler
  took       \* history: seconds until Close was called

handling == <<handler, tallied>>
stopping == <<phase, summary, expired, took>>
waiting  == <<clock, post>>
guard == <<handling, stopping, waiting>>
allVars == <<vars, guard>>

Idle == [at |-> "idle"]

GuardInit ==
  /\ Init
  /\ handler = [h \in Handlers |-> Idle] /\ phase = "serving"
  /\ tallied = [h \in Handlers |-> 0] /\ summary = [h \in Handlers |-> 0]
  /\ clock = 0 /\ post = "away" /\ expired = FALSE /\ took = 0

-----------------------------------------------------------------------------
(* A refusal in a handler: it arrives, p.mu is taken to tally it, then r.mu  *)
(* to note it.  A tunnel that is open stays open through all of stop.        *)

Arrive(h) ==
  /\ handler[h].at = "idle"
  /\ IF h \in Tracked THEN phase = "serving" ELSE closer # "exited"
  /\ TotalOf(noted) + Cardinality({g \in Handlers : handler[g].at # "idle"}) < MaxNotes
  /\ \E k \in Keys :
       handler' = [handler EXCEPT ![h] = [at |-> "tally", key |-> k]]
  /\ UNCHANGED <<vars, tallied, stopping, waiting>>

TallyRefusal(h) ==
  /\ handler[h].at = "tally" /\ closer # "exited"
  /\ handler' = [handler EXCEPT ![h].at = "note"]
  /\ tallied' = [tallied EXCEPT ![h] = @ + 1]
  /\ UNCHANGED <<vars, stopping, waiting>>

NoteRefusal(h) ==
  /\ handler[h].at = "note"
  /\ Note(handler[h].key)
  /\ handler' = [handler EXCEPT ![h] = Idle]
  /\ UNCHANGED <<tallied, stopping, waiting>>

-----------------------------------------------------------------------------
(* stop.                                                                     *)

TrackedIdle == \A h \in Tracked : handler[h].at = "idle"

\* By SIGTERM from the action, or at the end of an exec or by another signal.
BeginShutdown ==
  /\ phase = "serving" /\ phase' = "shutdown"
  /\ post' \in {"away", "due"}
  /\ UNCHANGED <<vars, handling, summary, expired, took, clock>>

\* Slip: the listener is closed and nothing is waited for.
ShutdownAtOnce ==
  /\ phase = "shutdown" /\ phase' = "summary"
  /\ UNCHANGED <<vars, handling, summary, expired, took, waiting>>

\* Shutdown returns when the tracked connections are idle, or after 5 seconds.
Shutdown ==
  /\ phase = "shutdown" /\ phase' = "summary"
  /\ TrackedIdle \/ clock = ShutdownTimeout
  /\ expired' = ~TrackedIdle
  /\ UNCHANGED <<vars, handling, summary, took, waiting>>

LogSummary ==
  /\ phase = "summary" /\ phase' = "close"
  /\ summary' = tallied
  /\ UNCHANGED <<vars, handling, expired, took, waiting>>

CloseReporter ==
  /\ phase = "close" /\ phase' = "closing"
  /\ Close /\ took' = clock
  /\ UNCHANGED <<handling, summary, expired, waiting>>

ReporterStep ==
  /\ Goroutine \/ CloseReturns \/ Exit \/ \E m \in wire : Deliver(m)
  /\ UNCHANGED guard

-----------------------------------------------------------------------------
(* post.js, and the runner after it.                                         *)

\* It looks, and sleeps a second if the guard is there.
Look ==
  /\ post = "due"
  /\ post' = IF closer = "exited" THEN "seen" ELSE "asleep"
  /\ UNCHANGED <<vars, handling, stopping, clock>>

\* The job is over and the runner ends what it left running.
Reap ==
  /\ post = "gaveup" /\ closer \in {"waiting", "returned"}
  /\ closer' = "exited" /\ loop' = "done"
  /\ UNCHANGED <<buffer, final, body, attempt, reply, timer, waited, lastBatch,
                 wire, stored, history, guard>>

\* Slip: it waits just as long as the flush may take.
PatienceOfTheFlush == CloseTimeout

Patience == PostPolls

\* One second, for every timer that runs; never while a step of stop is due.
GuardSecond ==
  /\ \/ Second
     \/ /\ loop \in {"select", "done"} /\ closer \in {"open", "exited"}
        /\ phase = "shutdown" \/ post = "asleep"
        /\ UNCHANGED vars
  /\ phase \notin {"summary", "close"} /\ closer # "returned" /\ post # "due"
  /\ phase = "shutdown" => ~TrackedIdle /\ clock < ShutdownTimeout
  /\ clock' = IF phase = "shutdown" \/ post = "asleep" THEN clock + 1 ELSE clock
  /\ post' = IF post # "asleep" THEN post
             ELSE IF clock' = Patience THEN "gaveup" ELSE "due"
  /\ UNCHANGED <<handling, stopping>>

GuardNext ==
  \/ \E h \in Handlers : Arrive(h) \/ TallyRefusal(h) \/ NoteRefusal(h)
  \/ BeginShutdown \/ Shutdown \/ LogSummary \/ CloseReporter
  \/ ReporterStep \/ Look \/ Reap \/ GuardSecond

\* A handler that began a refusal goes on, stop goes on once begun, and the
\* reporter, the console and time as in Reporter.
GuardFairness ==
  /\ \A h \in Handlers : WF_allVars(TallyRefusal(h) \/ NoteRefusal(h))
  /\ WF_allVars(Shutdown \/ LogSummary \/ CloseReporter)
  /\ WF_allVars(Goroutine /\ UNCHANGED guard)
  /\ WF_allVars(CloseReturns /\ UNCHANGED guard)
  /\ WF_allVars((\E m \in wire : Deliver(m)) /\ UNCHANGED guard)
  /\ WF_allVars(Look) /\ WF_allVars(GuardSecond)

GuardSpec == GuardInit /\ [][GuardNext]_allVars
GuardFairSpec == GuardSpec /\ GuardFairness

-----------------------------------------------------------------------------
(* Properties.                                                              *)

Printed == phase \in {"close", "closing"}

\* serve.go:207: the tally is not printed while it is still being written to, as
\* far as Shutdown can wait: the summary is final for every tracked connection
\* unless one of them outlasted the five seconds.
SummaryIsFinalForTracked ==
  Printed /\ ~expired => \A h \in Tracked : summary[h] = tallied[h]

\* serve.go:104: a refusal in the last moment of a build is still reported.
\* Without tunnels and with a network that loses nothing, the console ends up
\* with exactly the refusals the summary listed, unless Close waited in vain.
ConsoleAgreesWithSummary ==
  phase = "closing" /\ ~expired
    ~> \/ TotalOf(Shown) + Omitted = SumFunctionOnSet(summary, Handlers)
       \/ waited = CloseTimeout

\* action/post.js:62: the guard caps its own flush, and the action waits a little
\* past that.  It gives up, and leaves the flush to a runner that ends the guard,
\* only when stop has used up the little before Close: Shutdown took 4 of its 5 seconds.
\* (The cleanups of transparent mode, serve.go:201-203, come out of the same little.
\* Here they take no time: a guard whose iptables and bundle took 4 seconds to put back
\* would be given up on in the same way.)
PostOutwaitsTheFlush ==
  post = "gaveup" => took + CloseTimeout >= PostPolls - 1

\* serve.go:195: "stop accepting first so nothing new is recorded, then flush".
NothingRecordedAfterSummary ==
  Printed /\ ~expired => \A h \in Handlers : summary[h] = tallied[h]
=============================================================================
