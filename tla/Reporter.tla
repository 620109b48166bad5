------------------------------ MODULE Reporter ------------------------------
(***************************************************************************)
(* The refusal reporter of the guard (src/report.go).                      *)
(*                                                                         *)
(* Request handlers note refusals; identical refusals collapse into one    *)
(* counted window, and past MaxWindows windows a new target is only        *)
(* counted as dropped.  One goroutine takes the windows as a numbered      *)
(* batch, on a ticker and once more when stopped, and posts the batch to   *)
(* the console, retrying with the same body.  Close waits a bounded time   *)
(* for the last flush.  The console, which is not part of this repository, *)
(* stores each batch number of a reporter once; requests and answers may   *)
(* be lost or delayed, and a request may arrive after its client gave up.  *)
(*                                                                         *)
(* Time is counted in seconds and passes only while a timer runs.          *)
(***************************************************************************)
EXTENDS Integers, FiniteSets, Sequences, Functions

CONSTANTS
  Keys,          \* windowKey: (decision, host, method, path)
  MaxWindows,    \* report.go maxWindows (500)
  MaxAttempts,   \* report.go maxAttempts (3)
  HttpTimeout,   \* oidc.go httpTimeout (15 s)
  CloseTimeout,  \* the wait in Close (20 s)
  MaxNotes,      \* bound: refusals noted in a behaviour
  Faults         \* what the network and the console may do wrong

ASSUME ReporterAssumption ==
  /\ MaxWindows \in Nat \ {0}
  /\ MaxAttempts \in Nat \ {0}
  /\ HttpTimeout \in Nat \ {0}
  /\ CloseTimeout \in Nat \ {0}
  /\ MaxNotes \in Nat
  /\ Faults \subseteq {"lost", "delayed", "refused", "failed"}

\* A key is read from the head of a request, which net/http bounds in length.
ASSUME KeysAssumption == IsFiniteSet(Keys)

VARIABLES
  windows,   \* count of each window, 0 when there is no such window
  dropped,   \* refusals counted past the cap since the last flush
  batch,     \* number of the last batch taken
  loop,      \* the goroutine: "select", "posting", "backoff", "done"
  final,     \* the flush in progress is the one the stop channel asked for
  body,      \* the batch being posted
  attempt,   \* attempts made at posting it
  reply,     \* the answer to the current attempt, "none" before it comes
  timer,     \* seconds since the current attempt or sleep began
  closer,    \* Close: "open", "waiting", "returned"; then "exited"
  waited,    \* seconds since Close was called
  lastBatch, \* history: number of the first batch taken after Close, 0 if
             \* Close found a batch in flight
  wire,      \* requests on their way to the console
  stored,    \* the batches the console has stored
  noted,     \* history: refusals noted, per key
  taken,     \* history: refusals handed to a batch, per key
  shed,      \* history: refusals only counted as dropped, per key
  sent       \* history: the batches taken, in order

buffer  == <<windows, dropped, batch>>
poster  == <<loop, final, body, attempt, reply, timer>>
closing == <<closer, waited, lastBatch>>
history == <<noted, taken, shed, sent>>
vars == <<buffer, poster, closing, wire, stored, history>>

TotalOf(f) == SumFunctionOnSet(f, Keys)

Zero == [k \in Keys |-> 0]
Live == {k \in Keys : windows[k] > 0}
Empty == [batch |-> 0, items |-> Zero, dropped |-> 0]
Payload == [batch : Nat, items : [Keys -> Nat], dropped : Nat]
Request == [attempt : Nat, body : Payload]

Init ==
  /\ windows = Zero /\ dropped = 0 /\ batch = 0
  /\ loop = "select" /\ final = FALSE
  /\ body = Empty /\ attempt = 0 /\ reply = "none" /\ timer = 0
  /\ closer = "open" /\ waited = 0 /\ lastBatch = 0
  /\ wire = {} /\ stored = {}
  /\ noted = Zero /\ taken = Zero /\ shed = Zero /\ sent = <<>>

-----------------------------------------------------------------------------
(* The request path.  Handlers of open connections outlive Close: only the  *)
(* exit of the process ends them.                                           *)

Room == Cardinality(Live) < MaxWindows

Note(k) ==
  /\ closer # "exited"
  /\ TotalOf(noted) < MaxNotes
  /\ noted' = [noted EXCEPT ![k] = @ + 1]
  /\ \/ /\ windows[k] > 0 \/ Room
        /\ windows' = [windows EXCEPT ![k] = @ + 1]
        /\ UNCHANGED <<dropped, shed>>
     \/ /\ windows[k] = 0 /\ ~Room
        /\ dropped' = dropped + 1
        /\ shed' = [shed EXCEPT ![k] = @ + 1]
        /\ UNCHANGED windows
  /\ UNCHANGED <<batch, poster, closing, wire, stored, taken, sent>>

-----------------------------------------------------------------------------
(* The goroutine.                                                           *)

Post(n, b) ==
  /\ loop' = "posting" /\ body' = b /\ attempt' = n
  /\ reply' = "none" /\ timer' = 0
  /\ wire' = wire \cup {[attempt |-> n, body |-> b]}

\* Slips: the drop count survives the flush; the windows are only cleared once
\* the console has answered; the drop count is read after it was cleared.
TakeBatchKeepingDropped ==
  LET b == [batch |-> batch + 1, items |-> windows, dropped |-> dropped]
  IN /\ batch' = batch + 1
     /\ windows' = Zero /\ UNCHANGED dropped
     /\ sent' = Append(sent, b)
     /\ taken' = [k \in Keys |-> taken[k] + windows[k]]
     /\ Post(1, b)

TakeBatchKeepingWindows ==
  LET b == [batch |-> batch + 1, items |-> windows, dropped |-> dropped]
  IN /\ batch' = batch + 1
     /\ UNCHANGED windows /\ dropped' = 0
     /\ sent' = Append(sent, b)
     /\ taken' = [k \in Keys |-> taken[k] + windows[k]]
     /\ Post(1, b)

TakeBatchForgettingDropped ==
  LET b == [batch |-> batch + 1, items |-> windows, dropped |-> 0]
  IN /\ batch' = batch + 1
     /\ windows' = Zero /\ dropped' = 0
     /\ sent' = Append(sent, b)
     /\ taken' = [k \in Keys |-> taken[k] + windows[k]]
     /\ Post(1, b)

\* Under the lock: number the batch, copy the windows, clear them.  The first
\* attempt leaves before anything else can happen to the batch.
TakeBatch ==
  LET b == [batch |-> batch + 1, items |-> windows, dropped |-> dropped]
  IN /\ batch' = batch + 1
     /\ windows' = Zero /\ dropped' = 0
     /\ sent' = Append(sent, b)
     /\ taken' = [k \in Keys |-> taken[k] + windows[k]]
     /\ Post(1, b)

\* The ticker arm.  A flush with no window is no step at all.
Tick ==
  /\ loop = "select" /\ Live # {}
  /\ TakeBatch /\ final' = FALSE
  /\ UNCHANGED <<closing, stored, noted, shed>>

\* Slip: the stop arm returns without its flush.
StopUnflushed ==
  /\ loop = "select" /\ closer # "open"
  /\ final' = TRUE /\ loop' = "done"
  /\ UNCHANGED <<buffer, body, attempt, reply, timer, wire, taken, sent,
                 closing, stored, noted, shed>>

\* The stop arm: one last flush, and the goroutine ends.
Stop ==
  /\ loop = "select" /\ closer # "open"
  /\ final' = TRUE
  /\ \/ Live # {} /\ TakeBatch
     \/ /\ Live = {} /\ loop' = "done"
        /\ UNCHANGED <<buffer, body, attempt, reply, timer, wire, taken, sent>>
  /\ UNCHANGED <<closing, stored, noted, shed>>

Finish ==
  /\ loop' = IF final THEN "done" ELSE "select"
  /\ UNCHANGED <<final, body, attempt, reply, timer>>

\* Slip: one attempt too many.
RetryOnceMore ==
  \/ /\ attempt <= MaxAttempts
     /\ loop' = "backoff" /\ timer' = 0 /\ reply' = "none"
     /\ UNCHANGED <<final, body, attempt>>
  \/ attempt > MaxAttempts /\ Finish

Retry ==
  \/ /\ attempt < MaxAttempts
     /\ loop' = "backoff" /\ timer' = 0 /\ reply' = "none"
     /\ UNCHANGED <<final, body, attempt>>
  \/ attempt = MaxAttempts /\ Finish

\* A 2xx or 4xx ends the batch; anything else is tried again.
Answered ==
  /\ loop = "posting"
  /\ \/ reply \in {"ok", "refused"} /\ Finish
     \/ reply = "failed" /\ Retry
  /\ UNCHANGED <<buffer, closing, wire, stored, history>>

\* The context of the request expires and no answer has come.
TimedOut ==
  /\ loop = "posting" /\ reply = "none" /\ timer = HttpTimeout
  /\ Retry
  /\ UNCHANGED <<buffer, closing, wire, stored, history>>

Backoff(n) == 2 ^ n

\* Slips: the retry carries what was noted since; the retry is a new batch.
ResendRefreshed ==
  /\ loop = "backoff" /\ timer = Backoff(attempt)
  /\ Post(attempt + 1, [body EXCEPT !.items = [k \in Keys |-> @[k] + windows[k]]])
  /\ UNCHANGED <<buffer, final, closing, stored, history>>

ResendRenumbered ==
  /\ loop = "backoff" /\ timer = Backoff(attempt)
  /\ batch' = batch + 1
  /\ Post(attempt + 1, [body EXCEPT !.batch = batch + 1])
  /\ UNCHANGED <<windows, dropped, final, closing, stored, history>>

Resend ==
  /\ loop = "backoff" /\ timer = Backoff(attempt)
  /\ Post(attempt + 1, body)
  /\ UNCHANGED <<buffer, final, closing, stored, history>>

-----------------------------------------------------------------------------
(* Close, called once when the proxy has stopped, and the end of the        *)
(* process, which takes the goroutine with it.                              *)

Close ==
  /\ closer = "open"
  /\ closer' = "waiting" /\ lastBatch' = IF loop = "select" THEN batch + 1 ELSE 0
  /\ UNCHANGED <<buffer, poster, waited, wire, stored, history>>

\* Slip: Close waits no longer than one request may take.
CloseReturnsEarly ==
  /\ closer = "waiting"
  /\ loop = "done" \/ waited = HttpTimeout
  /\ closer' = "returned"
  /\ UNCHANGED <<buffer, poster, waited, lastBatch, wire, stored, history>>

CloseReturns ==
  /\ closer = "waiting"
  /\ loop = "done" \/ waited = CloseTimeout
  /\ closer' = "returned"
  /\ UNCHANGED <<buffer, poster, waited, lastBatch, wire, stored, history>>

Exit ==
  /\ closer = "returned"
  /\ closer' = "exited" /\ loop' = "done"
  /\ UNCHANGED <<buffer, final, body, attempt, reply, timer, waited, lastBatch,
                 wire, stored, history>>

-----------------------------------------------------------------------------
(* The console and the network: external.                                   *)

\* The console keeps the first batch it sees under a number.
Keep(b) == stored \cup {c \in {b} : \A s \in stored : s.batch # b.batch}

\* A request reaches the console, or is lost on the way ("lost", not kept),
\* or its answer is ("lost", kept).  A 5xx may come before or after storing.
Deliver(m) ==
  \E answer \in {"ok"} \cup (Faults \ {"delayed"}), keep \in BOOLEAN :
    /\ answer = "ok" => keep
    /\ answer = "refused" => ~keep
    /\ stored' = IF keep THEN Keep(m.body) ELSE stored
    /\ reply' = IF /\ answer # "lost" /\ loop = "posting"
                   /\ m.attempt = attempt /\ m.body.batch = body.batch
                THEN answer ELSE reply
    /\ wire' = wire \ {m}
    /\ UNCHANGED <<buffer, loop, final, body, attempt, timer, closing, history>>

\* One second.  It passes only while a timer runs and none is due, never while
\* a goroutine is ready to run, and with a prompt console ("delayed" is not a
\* fault) not while a request is on its way.
Second ==
  /\ loop \in {"posting", "backoff"} \/ closer = "waiting"
  /\ closer # "exited"
  /\ loop = "posting" => timer < HttpTimeout /\ reply = "none"
  /\ loop = "backoff" => timer < Backoff(attempt)
  /\ closer = "waiting" => loop \notin {"select", "done"} /\ waited < CloseTimeout
  /\ wire = {} \/ "delayed" \in Faults
  /\ timer' = IF loop \in {"posting", "backoff"} THEN timer + 1 ELSE timer
  /\ waited' = IF closer = "waiting" THEN waited + 1 ELSE waited
  /\ UNCHANGED <<buffer, loop, final, body, attempt, reply, closer, lastBatch,
                 wire, stored, history>>

Goroutine == Tick \/ Stop \/ Answered \/ TimedOut \/ Resend

Next ==
  \/ \E k \in Keys : Note(k)
  \/ Goroutine
  \/ Close \/ CloseReturns \/ Exit
  \/ \E m \in wire : Deliver(m)
  \/ Second

\* The scheduler runs a ready goroutine, time passes, and every request meets
\* its fate.  Nothing obliges a build to be refused or a guard to be stopped.
Fairness ==
  /\ WF_vars(Tick \/ Stop) /\ WF_vars(Answered \/ TimedOut \/ Resend)
  /\ WF_vars(CloseReturns)
  /\ WF_vars(\E m \in wire : Deliver(m)) /\ WF_vars(Second)

Spec == Init /\ [][Next]_vars
FairSpec == Spec /\ Fairness

-----------------------------------------------------------------------------
(* Properties.                                                              *)

TypeOK ==
  /\ windows \in [Keys -> Nat] /\ dropped \in Nat /\ batch \in Nat
  /\ loop \in {"select", "posting", "backoff", "done"} /\ final \in BOOLEAN
  /\ body \in Payload /\ attempt \in 0..MaxAttempts /\ timer \in Nat
  /\ loop = "backoff" => attempt < MaxAttempts
  /\ reply \in {"none", "ok", "refused", "failed"}
  /\ closer \in {"open", "waiting", "returned", "exited"}
  /\ waited \in Nat /\ lastBatch \in Nat
  /\ wire \subseteq Request /\ stored \subseteq Payload
  /\ noted \in [Keys -> Nat] /\ taken \in [Keys -> Nat] /\ shed \in [Keys -> Nat]
  /\ sent \in Seq(Payload)

\* report.go:31: known targets keep counting, new ones are dropped past the cap.
\* A drop is only ever counted while the cap is really reached, so a batch that
\* says it is incomplete is full, and flush, which returns early when there is
\* no window, never leaves a drop count behind.
DropsOnlyAtTheCap ==
  /\ Cardinality(Live) <= MaxWindows
  /\ dropped > 0 => Cardinality(Live) = MaxWindows

\* Every refusal noted is in exactly one place: a window, a batch, or the drop
\* count, whatever flushes, retries and the stop do around it.
NotesAccounted ==
  \A k \in Keys : noted[k] = windows[k] + taken[k] + shed[k]

\* report.go:10: (reporter, batch) makes a retry idempotent.  That needs every
\* copy of a batch number, however late it arrives, to carry the windows that
\* were taken under it: a number is never reused and a retry never recomputed.
OneBodyPerBatch ==
  /\ \A m \in wire : m.body.batch \in 1..Len(sent) /\ m.body = sent[m.body.batch]
  /\ \A s \in stored : s.batch \in 1..Len(sent) /\ s = sent[s.batch]

Shown == [k \in Keys |-> SumFunction([s \in stored |-> s.items[k]])]
Omitted == SumFunction([s \in stored |-> s.dropped])

\* The drop counts that go out with the batches, and the one still held, add up
\* to the refusals that found no window: none is sent twice or forgotten.
DropsAccounted ==
  TotalOf(shed) = dropped + SumFunction([i \in DOMAIN sent |-> sent[i].dropped])

\* serve.go:104, report.go:122: when Close finds the reporter idle, the batch
\* that holds the last refusals gets at least one attempt of full length before
\* Close gives up waiting for it.
LastFlushGetsAFullAttempt ==
  closer = "returned" /\ loop = "posting" /\ attempt = 1
    => body.batch # lastBatch

\* The console never shows more refusals than there were, per target and in
\* all, although batches are retried: the module RefusalLedger is implemented.
Ledger == INSTANCE RefusalLedger WITH shown <- Shown, omitted <- Omitted
NeverOvercounted == Ledger!Spec
=============================================================================
