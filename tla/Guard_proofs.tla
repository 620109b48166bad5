---------------------------- MODULE Guard_proofs ----------------------------
(***************************************************************************)
(* Proofs about Guard: what stop, the reporter's timers and post.js        *)
(* promise each other, for every number of handlers and every timeout      *)
(* GuardAssumption allows.                                                 *)
(***************************************************************************)
EXTENDS Guard, Reporter_proofs

-----------------------------------------------------------------------------
(* The inductive invariant.                                                  *)

Refusing == [at : {"idle"}] \cup [at : {"tally", "note"}, key : Keys]

GuardTyped ==
  /\ handler \in [Handlers -> Refusing]
  /\ tallied \in [Handlers -> Nat] /\ summary \in [Handlers -> Nat]
  /\ phase \in {"serving", "shutdown", "summary", "close", "closing"}
  /\ post \in {"away", "due", "asleep", "seen", "gaveup"}
  /\ clock \in Nat /\ took \in Nat /\ expired \in BOOLEAN

\* Once Shutdown returned without giving up, tracked handlers are at rest.
AtRest ==
  phase \in {"summary", "close", "closing"} /\ ~expired
    => TrackedIdle /\ (Printed => \A h \in Tracked : summary[h] = tallied[h])

\* What the clock shows against the reporter's, as long as post.js looks.
InStep ==
  /\ phase = "closing" <=> closer # "open"
  /\ phase = "serving" => post = "away" /\ clock = 0
  /\ phase \in {"shutdown", "summary", "close"} =>
       post \in {"away", "due", "asleep"} /\ clock <= ShutdownTimeout
  /\ phase = "closing" /\ post \in {"due", "asleep"} =>
       /\ closer = "waiting" => clock = took + waited
       /\ closer = "returned" => clock <= took + CloseTimeout
       /\ closer = "exited" =>
            clock <= took + CloseTimeout + (IF post = "due" THEN 1 ELSE 0)
  /\ PostOutwaitsTheFlush

GuardInv == TypeOK /\ WaitInv /\ GuardTyped /\ AtRest /\ InStep

-----------------------------------------------------------------------------
(* The reporter inside the guard: what holds of it by itself still does,     *)
(* although the runner may end it where it stands.                           *)

\* A step of the guard is one of the reporter, none of it, or its end.
LEMMA ReporterOrReap ==
  ASSUME GuardTyped, [GuardNext]_allVars
  PROVE  [Next]_vars \/ Reap
<1>1. CASE UNCHANGED allVars
  BY <1>1 DEF allVars
<1>2. ASSUME NEW h \in Handlers, NoteRefusal(h) PROVE Next
  <2>1. handler[h].key \in Keys
    BY <1>2 DEF NoteRefusal, GuardTyped, Refusing
  <2> QED
    BY <1>2, <2>1 DEF NoteRefusal, Next
<1>3. CASE ReporterStep
  BY <1>3 DEF ReporterStep, Next
<1>4. CASE CloseReporter
  BY <1>4 DEF CloseReporter, Next
<1>5. CASE GuardSecond
  BY <1>5 DEF GuardSecond, Next
<1>6. ASSUME NEW h \in Handlers, Arrive(h) \/ TallyRefusal(h) PROVE UNCHANGED vars
  BY <1>6 DEF Arrive, TallyRefusal
<1>7. CASE BeginShutdown \/ Shutdown \/ LogSummary \/ Look
  BY <1>7 DEF BeginShutdown, Shutdown, LogSummary, Look
<1> QED
  BY <1>1, <1>2, <1>3, <1>4, <1>5, <1>6, <1>7 DEF GuardNext

\* The end of the process keeps the types and what was waited for.
LEMMA ReporterKeeps ==
  ASSUME TypeOK, WaitInv, GuardTyped, [GuardNext]_allVars
  PROVE  TypeOK' /\ WaitInv'
<1>1. CASE [Next]_vars
  BY <1>1, StepTypeOK, StepWaitInv, GuardAssumption
<1>2. CASE Reap
  <2>1. /\ closer' = "exited" /\ loop' = "done"
        /\ UNCHANGED <<buffer, final, body, attempt, reply, timer, waited, lastBatch,
                       wire, stored, history>>
    BY <1>2 DEF Reap
  <2>2. TypeOK'
    BY <2>1 DEF TypeOK, buffer, history
  <2>3. WaitInv'
    BY <2>1 DEF WaitInv, LastFlushGetsAFullAttempt, buffer
  <2> QED
    BY <2>2, <2>3
<1> QED
  BY <1>1, <1>2, ReporterOrReap

-----------------------------------------------------------------------------
(* What a step does to the reporter's Close, to the handlers, and to time.   *)

\* Outside of Close, its return and the exit, closer stays what it is.
LEMMA CloserStays ==
  ASSUME (\E k \in Keys : Note(k)) \/ Goroutine \/ (\E m \in wire : Deliver(m))
  PROVE  UNCHANGED <<closer, waited>>
BY DEF Note, Goroutine, Tick, Stop, Answered, TimedOut, Resend, Deliver, closing

\* The types of the guard, without those of its reporter.
LEMMA StepGuardTyped ==
  ASSUME GuardTyped, [GuardNext]_allVars
  PROVE  GuardTyped'
<1>1. ASSUME UNCHANGED handling,
             summary' \in {summary, tallied},
             phase' \in {"serving", "shutdown", "summary", "close", "closing"},
             post' \in {"away", "due", "asleep", "seen", "gaveup"},
             clock' \in {clock, clock + 1}, took' \in {took, clock}, expired' \in BOOLEAN
      PROVE  GuardTyped'
  BY <1>1 DEF GuardTyped, handling
<1>2. ASSUME NEW h \in Handlers, Arrive(h) PROVE GuardTyped'
  <2>1. PICK k \in Keys : handler' = [handler EXCEPT ![h] = [at |-> "tally", key |-> k]]
    BY <1>2 DEF Arrive
  <2>2. handler' \in [Handlers -> Refusing]
    BY <2>1 DEF GuardTyped, Refusing
  <2> QED
    BY <1>2, <2>2 DEF Arrive, GuardTyped, stopping, waiting
<1>3. ASSUME NEW h \in Handlers, TallyRefusal(h) PROVE GuardTyped'
  <2>1. handler' = [handler EXCEPT ![h].at = "note"] /\ handler[h].at = "tally"
        /\ tallied' = [tallied EXCEPT ![h] = @ + 1]
    BY <1>3 DEF TallyRefusal
  <2>2. [handler[h] EXCEPT !.at = "note"] \in Refusing
    BY <2>1 DEF GuardTyped, Refusing
  <2>3. handler' \in [Handlers -> Refusing] /\ tallied' \in [Handlers -> Nat]
    BY <2>1, <2>2 DEF GuardTyped
  <2> QED
    BY <1>3, <2>3 DEF TallyRefusal, GuardTyped, stopping, waiting
<1>4. ASSUME NEW h \in Handlers, NoteRefusal(h) PROVE GuardTyped'
  <2>1. handler' \in [Handlers -> Refusing]
    BY <1>4 DEF NoteRefusal, GuardTyped, Refusing, Idle
  <2> QED
    BY <1>4, <2>1 DEF NoteRefusal, GuardTyped, stopping, waiting
<1>5. CASE BeginShutdown \/ Shutdown \/ LogSummary \/ CloseReporter
  BY <1>1, <1>5 DEF BeginShutdown, Shutdown, LogSummary, CloseReporter, handling, waiting,
                    GuardTyped
<1>6. CASE ReporterStep \/ Reap \/ UNCHANGED allVars
  BY <1>1, <1>6 DEF ReporterStep, Reap, allVars, guard, stopping, waiting, GuardTyped
<1>7. CASE Look \/ GuardSecond
  BY <1>1, <1>7 DEF Look, GuardSecond, stopping, GuardTyped
<1> QED
  BY <1>2, <1>3, <1>4, <1>5, <1>6, <1>7 DEF GuardNext

-----------------------------------------------------------------------------
(* The summary.                                                              *)

\* Only a serving guard accepts a refusal on a tracked connection, and a handler
\* at rest tallies none.
LEMMA StepAtRest ==
  ASSUME GuardTyped, AtRest, [GuardNext]_allVars
  PROVE  AtRest'
<1>1. ASSUME UNCHANGED <<handler, tallied, summary, phase, expired>> PROVE AtRest'
  BY <1>1 DEF AtRest, TrackedIdle, Printed
<1>2. ASSUME NEW h \in Handlers, Arrive(h) \/ TallyRefusal(h) \/ NoteRefusal(h),
             UNCHANGED <<phase, summary, expired>>
      PROVE  AtRest'
  <2> SUFFICES ASSUME phase \in {"summary", "close", "closing"}, ~expired
               PROVE  AtRest'
    BY <1>2 DEF AtRest
  <2>1. TrackedIdle /\ h \notin Tracked
    BY <1>2 DEF AtRest, TrackedIdle, Arrive, TallyRefusal, NoteRefusal
  <2>2. \A g \in Tracked : handler'[g] = handler[g] /\ tallied'[g] = tallied[g]
    BY <1>2, <2>1 DEF Arrive, TallyRefusal, NoteRefusal, GuardTyped, Handlers
  <2> QED
    BY <1>2, <2>1, <2>2 DEF AtRest, TrackedIdle, Printed
<1>3. CASE BeginShutdown
  BY <1>3 DEF BeginShutdown, AtRest
<1>4. CASE Shutdown
  BY <1>4 DEF Shutdown, AtRest, TrackedIdle, Printed, handling
<1>5. CASE LogSummary \/ CloseReporter
  BY <1>5 DEF LogSummary, CloseReporter, AtRest, TrackedIdle, Printed, handling
<1>6. CASE ReporterStep \/ Look \/ Reap \/ GuardSecond \/ UNCHANGED allVars
  BY <1>1, <1>6 DEF ReporterStep, Look, Reap, GuardSecond, allVars, guard, handling, stopping
<1> QED
  BY <1>2, <1>3, <1>4, <1>5, <1>6
  DEF GuardNext, Arrive, TallyRefusal, NoteRefusal, stopping

-----------------------------------------------------------------------------
(* The clocks.                                                               *)

LEMMA StepInStep ==
  ASSUME TypeOK, WaitInv, GuardTyped, InStep, [GuardNext]_allVars
  PROVE  InStep'
<1> USE GuardAssumption, ReporterAssumption
<1>1. ASSUME UNCHANGED <<closer, waited, phase, took, clock, post>> PROVE InStep'
  BY <1>1 DEF InStep, PostOutwaitsTheFlush
<1>2. ASSUME NEW h \in Handlers, Arrive(h) \/ TallyRefusal(h) \/ NoteRefusal(h)
      PROVE  InStep'
  <2>1. UNCHANGED <<closer, waited>>
    BY <1>2 DEF Arrive, TallyRefusal, NoteRefusal, Note, vars, closing
  <2> QED
    BY <1>1, <1>2, <2>1 DEF Arrive, TallyRefusal, NoteRefusal, stopping, waiting
<1>3. CASE BeginShutdown \/ Shutdown \/ LogSummary
  <2>1. UNCHANGED <<closer, waited, took, clock>>
    BY <1>3 DEF BeginShutdown, Shutdown, LogSummary, vars, closing, waiting
  <2> QED
    BY <1>3, <2>1 DEF BeginShutdown, Shutdown, LogSummary, waiting, InStep,
                      PostOutwaitsTheFlush, GuardTyped
<1>4. CASE CloseReporter
  <2>1. /\ phase = "close" /\ phase' = "closing" /\ closer' = "waiting" /\ waited' = 0
        /\ took' = clock /\ UNCHANGED <<clock, post>>
    BY <1>4 DEF CloseReporter, Close, WaitInv, waiting
  <2> QED
    BY <2>1 DEF InStep, PostOutwaitsTheFlush, GuardTyped
<1>5. CASE ReporterStep
  <2>1. CASE CloseReturns
    BY <1>5, <2>1 DEF ReporterStep, CloseReturns, guard, stopping, waiting, InStep,
                      PostOutwaitsTheFlush, WaitInv, GuardTyped, TypeOK
  <2>2. CASE Exit
    BY <1>5, <2>2 DEF ReporterStep, Exit, guard, stopping, waiting, InStep,
                      PostOutwaitsTheFlush, GuardTyped
  <2>3. CASE Goroutine \/ \E m \in wire : Deliver(m)
    BY <1>1, <1>5, <2>3, CloserStays DEF ReporterStep, guard, stopping, waiting
  <2> QED
    BY <1>5, <2>1, <2>2, <2>3 DEF ReporterStep
<1>6. CASE Look
  BY <1>6 DEF Look, vars, closing, stopping, InStep, PostOutwaitsTheFlush
<1>7. CASE Reap
  BY <1>7 DEF Reap, guard, stopping, waiting, InStep, PostOutwaitsTheFlush
<1>8. CASE GuardSecond
  <2>1. UNCHANGED <<phase, took, closer>>
    BY <1>8 DEF GuardSecond, Second, vars, closing, stopping
  <2>2. waited' = IF closer = "waiting" THEN waited + 1 ELSE waited
    BY <1>8 DEF GuardSecond, Second, vars, closing
  <2>3. closer = "waiting" => waited < CloseTimeout
    BY <1>8 DEF GuardSecond, Second
  <2>4. /\ clock' = IF phase = "shutdown" \/ post = "asleep" THEN clock + 1 ELSE clock
        /\ post' = IF post # "asleep" THEN post
                   ELSE IF clock' = PostPolls THEN "gaveup" ELSE "due"
        /\ phase = "shutdown" => clock < ShutdownTimeout
        /\ post # "due" /\ phase \notin {"summary", "close"} /\ closer # "returned"
    BY <1>8 DEF GuardSecond, Patience
  <2>5. clock \in Nat /\ took \in Nat /\ waited \in Nat
    BY DEF GuardTyped, TypeOK
  <2>6. CASE phase = "serving"
    BY <2>1, <2>2, <2>4, <2>6 DEF InStep, PostOutwaitsTheFlush
  <2>7. CASE phase = "shutdown"
    BY <2>1, <2>2, <2>4, <2>5, <2>7 DEF InStep, PostOutwaitsTheFlush
  <2>8. CASE phase = "closing"
    BY <2>1, <2>2, <2>3, <2>4, <2>5, <2>8 DEF InStep, PostOutwaitsTheFlush, TypeOK
  <2> QED
    BY <2>4, <2>6, <2>7, <2>8 DEF GuardTyped
<1>9. CASE UNCHANGED allVars
  BY <1>1, <1>9 DEF allVars, vars, closing, guard, stopping, waiting
<1> QED
  BY <1>2, <1>3, <1>4, <1>5, <1>6, <1>7, <1>8, <1>9 DEF GuardNext

-----------------------------------------------------------------------------
(* Theorems.                                                                 *)

\* The guard's invariant, over whatever the handlers, the network and post.js do.
THEOREM GuardInvariance == GuardSpec => []GuardInv
<1>1. GuardInit => GuardInv
  <2> SUFFICES ASSUME GuardInit PROVE GuardInv
    OBVIOUS
  <2>1. TypeOK /\ WaitInv
    BY InitTypeOK, InitWaitInv DEF GuardInit
  <2>2. GuardTyped
    BY DEF GuardInit, GuardTyped, Refusing, Idle
  <2>3. AtRest /\ InStep
    BY GuardAssumption DEF GuardInit, Init, AtRest, InStep, PostOutwaitsTheFlush
  <2> QED
    BY <2>1, <2>2, <2>3 DEF GuardInv
<1>2. GuardInv /\ [GuardNext]_allVars => GuardInv'
  BY ReporterKeeps, StepGuardTyped, StepAtRest, StepInStep DEF GuardInv
<1> QED
  BY <1>1, <1>2, PTL DEF GuardSpec

\* serve.go:207: what the summary says of a tracked connection is final, unless
\* Shutdown gave up on one.
THEOREM SummaryIsFinal == GuardSpec => []SummaryIsFinalForTracked
<1>1. GuardInv => SummaryIsFinalForTracked
  BY DEF GuardInv, AtRest, Printed, SummaryIsFinalForTracked
<1> QED
  BY <1>1, GuardInvariance, PTL

\* report.go:122: Close does not give up before the first attempt at the batch it
\* found to be taken has had its full time.
THEOREM LastFlushIsTried == GuardSpec => []LastFlushGetsAFullAttempt
<1>1. GuardInv => LastFlushGetsAFullAttempt
  BY DEF GuardInv, WaitInv
<1> QED
  BY <1>1, GuardInvariance, PTL

\* action/post.js:62: the action gives up on a guard only when Shutdown has used
\* what it waits beyond Close, up to one second.
THEOREM PostOutwaits == GuardSpec => []PostOutwaitsTheFlush
<1>1. GuardInv => PostOutwaitsTheFlush
  BY DEF GuardInv, InStep
<1> QED
  BY <1>1, GuardInvariance, PTL

-----------------------------------------------------------------------------
(* The accounts of the reporter, inside the guard.                           *)

\* What is noted, held, sent, and shown: Reap touches none of it.
Accounts == NotesAccounted /\ BatchInv /\ LedgerInv

\* The reporter's steps keep its accounts, and so does its end.
LEMMA StepAccounts ==
  ASSUME TypeOK, Accounts, GuardTyped, [GuardNext]_allVars
  PROVE  Accounts'
<1>1. CASE [Next]_vars
  BY <1>1, StepNotesAccounted, StepBatchInv, StepLedgerInv DEF Accounts
<1>2. CASE Reap
  <2>1. /\ loop' = "done"
        /\ UNCHANGED <<windows, dropped, batch, body, wire, stored,
                       noted, taken, shed, sent>>
    BY <1>2 DEF Reap, buffer, history
  <2> QED
    BY <2>1 DEF Accounts, NotesAccounted, BatchInv, OneBodyPerBatch, BodyInFlight,
                LedgerInv, DropsAccounted, TakenAccounted, SentItems
<1> QED
  BY <1>1, <1>2, ReporterOrReap

\* The accounts hold throughout.
LEMMA AccountsInvariance == GuardSpec => []Accounts
<1>1. GuardInit => Accounts
  <2> SUFFICES ASSUME GuardInit PROVE Accounts
    OBVIOUS
  <2>1. Init
    BY DEF GuardInit
  <2> QED
    BY <2>1, InitLedgerInv
    DEF Accounts, Init, NotesAccounted, Zero, BatchInv, OneBodyPerBatch, BodyInFlight
<1>2. TypeOK /\ GuardTyped /\ Accounts /\ [GuardNext]_allVars => Accounts'
  BY StepAccounts
<1>3. GuardInv => TypeOK /\ GuardTyped
  BY DEF GuardInv
<1> QED
  BY <1>1, <1>2, <1>3, GuardInvariance, PTL DEF GuardSpec

\* serve.go:104: whatever stop, its timeouts and the end of the job cut short, the
\* reporter inside the guard keeps its accounts and its promise to the console.
THEOREM AccountsInTheGuard ==
  GuardSpec => [](NotesAccounted /\ OneBodyPerBatch /\ DropsAccounted) /\ NeverOvercounted
<1>1. Accounts => NotesAccounted /\ OneBodyPerBatch /\ DropsAccounted
  BY DEF Accounts, BatchInv, LedgerInv
<1>2. TypeOK /\ Accounts => NeverTooMuch
  BY LedgerBounds DEF Accounts
<1>3. GuardInit => Ledger!Init
  BY InitRefines DEF GuardInit
<1>4. /\ TypeOK /\ GuardTyped /\ TypeOK' /\ Accounts' /\ NeverTooMuch'
      /\ [GuardNext]_allVars
      => [Ledger!Next]_(Ledger!vars)
  <2> SUFFICES ASSUME GuardTyped, TypeOK', Accounts', NeverTooMuch', [GuardNext]_allVars
               PROVE  [Ledger!Next]_(Ledger!vars)
    OBVIOUS
  <2>1. CASE [Next]_vars
    BY <2>1, StepRefines DEF Accounts
  <2>2. CASE Reap
    BY <2>2 DEF Reap, history, Ledger!vars, Shown, Omitted
  <2> QED
    BY <2>1, <2>2, ReporterOrReap
<1>5. GuardInv => TypeOK /\ GuardTyped
  BY DEF GuardInv
<1> QED
  BY <1>1, <1>2, <1>3, <1>4, <1>5, GuardInvariance, AccountsInvariance, PTL
     DEF GuardSpec, NeverOvercounted, Ledger!Spec

-----------------------------------------------------------------------------
(* The two counts of a refusal.                                              *)

InNote == {h \in Handlers : handler[h].at = "note"}

\* The tally is what was noted and what is about to be.
TallyAhead == SumFunctionOnSet(tallied, Handlers) = TotalOf(noted) + Cardinality(InNote)

\* The console and the job log count the same refusals, so the console never
\* shows more than the tally; and once the summary is final for every connection,
\* not more than the summary.
ConsoleWithinSummary ==
  /\ TotalOf(Shown) + Omitted <= SumFunctionOnSet(tallied, Handlers)
  /\ Printed /\ ~expired /\ Tracked = Handlers
       => TotalOf(Shown) + Omitted <= SumFunctionOnSet(summary, Handlers)

\* A handler tallies a refusal and notes it once, in this order.
LEMMA StepTallyAhead ==
  ASSUME TypeOK, GuardTyped, TallyAhead, [GuardNext]_allVars
  PROVE  TallyAhead'
<1>0. IsFiniteSet(Handlers) /\ IsFiniteSet(InNote)
  BY HandlersAssumption, FS_Subset DEF InNote
<1>1. ASSUME UNCHANGED <<noted, tallied, handler>> PROVE TallyAhead'
  BY <1>1 DEF TallyAhead, InNote, TotalOf
<1>2. ASSUME NEW h \in Handlers, Arrive(h) PROVE TallyAhead'
  <2>1. PICK k \in Keys : handler' = [handler EXCEPT ![h] = [at |-> "tally", key |-> k]]
    BY <1>2 DEF Arrive
  <2>2. handler[h].at = "idle" /\ UNCHANGED <<noted, tallied>>
    BY <1>2 DEF Arrive, vars, history
  <2>3. InNote' = InNote
    BY <2>1, <2>2 DEF InNote, GuardTyped
  <2> QED
    BY <2>2, <2>3 DEF TallyAhead, TotalOf
<1>3. ASSUME NEW h \in Handlers, TallyRefusal(h) PROVE TallyAhead'
  <2>1. /\ handler[h].at = "tally" /\ noted' = noted
        /\ handler' = [handler EXCEPT ![h].at = "note"]
        /\ tallied' = [tallied EXCEPT ![h] = @ + 1]
    BY <1>3 DEF TallyRefusal, vars, history
  <2>2. InNote' = InNote \cup {h} /\ h \notin InNote
    BY <2>1 DEF InNote, GuardTyped
  <2>3. Cardinality(InNote') = Cardinality(InNote) + 1
    BY <1>0, <2>2, FS_AddElement
  <2>4. /\ \A g \in Handlers : tallied[g] \in Nat /\ tallied'[g] \in Nat
        /\ \A g \in Handlers \ {h} : tallied[g] = tallied'[g]
        /\ tallied'[h] = tallied[h] + 1
    BY <2>1 DEF GuardTyped
  <2>5. /\ SumFunctionOnSet(tallied, Handlers) \in Nat
        /\ SumFunctionOnSet(tallied', Handlers) \in Nat
        /\ SumFunctionOnSet(tallied', Handlers) + tallied[h]
             = SumFunctionOnSet(tallied, Handlers) + tallied'[h]
    BY <1>0, <2>4, SumChangesAt
  <2>6. PICK before \in Nat, after \in Nat, n \in Nat, c \in Nat, mine \in Nat :
          /\ before = SumFunctionOnSet(tallied, Handlers)
          /\ after = SumFunctionOnSet(tallied', Handlers)
          /\ n = TotalOf(noted) /\ c = Cardinality(InNote) /\ mine = tallied[h]
    <3>1. TotalOf(noted) \in Nat
      BY KeysAssumption, SumType DEF TotalOf, TypeOK
    <3> QED
      BY <1>0, <2>4, <2>5, <3>1, FS_CardinalityType
  <2>7. before = n + c
    BY <2>6 DEF TallyAhead
  <2>8. after + mine = before + (mine + 1)
    BY <2>4, <2>5, <2>6
  <2>9. after = n + (c + 1)
    BY <2>7, <2>8
  <2> QED
    BY <2>1, <2>3, <2>6, <2>9 DEF TallyAhead, TotalOf
<1>4. ASSUME NEW h \in Handlers, NoteRefusal(h) PROVE TallyAhead'
  <2> DEFINE k == handler[h].key
  <2>1. /\ handler[h].at = "note" /\ tallied' = tallied
        /\ handler' = [handler EXCEPT ![h] = Idle]
        /\ noted' = [noted EXCEPT ![k] = @ + 1]
    BY <1>4 DEF NoteRefusal, Note
  <2>2. k \in Keys
    BY <2>1 DEF GuardTyped, Refusing
  <2>3. InNote' = InNote \ {h} /\ h \in InNote
    BY <2>1 DEF InNote, GuardTyped, Idle
  <2>4. Cardinality(InNote') = Cardinality(InNote) - 1
    BY <1>0, <2>3, FS_RemoveElement
  <2>5. /\ \A j \in Keys : noted[j] \in Nat /\ noted'[j] \in Nat
        /\ \A j \in Keys \ {k} : noted[j] = noted'[j]
        /\ noted'[k] = noted[k] + 1
    BY <2>1, <2>2 DEF TypeOK
  <2> HIDE DEF k
  <2>6. /\ TotalOf(noted) \in Nat /\ TotalOf(noted') \in Nat
        /\ TotalOf(noted') + noted[k] = TotalOf(noted) + noted'[k]
    BY <2>2, <2>5, KeysAssumption, SumChangesAt DEF TotalOf
  <2>7. PICK before \in Nat, after \in Nat, c \in Nat, mine \in Nat :
          /\ before = TotalOf(noted) /\ after = TotalOf(noted')
          /\ c = Cardinality(InNote) /\ mine = noted[k]
    BY <1>0, <2>2, <2>5, <2>6, FS_CardinalityType
  <2>8. after + mine = before + (mine + 1)
    BY <2>5, <2>6, <2>7
  <2>9. before + c = after + (c - 1)
    BY <2>8
  <2> QED
    BY <2>1, <2>4, <2>7, <2>9 DEF TallyAhead, TotalOf
<1>5. CASE CloseReporter \/ ReporterStep \/ Look \/ Reap \/ GuardSecond
           \/ BeginShutdown \/ Shutdown \/ LogSummary \/ UNCHANGED allVars
  <2>1. UNCHANGED <<tallied, handler>>
    BY <1>5 DEF CloseReporter, ReporterStep, Look, Reap, GuardSecond, BeginShutdown,
                Shutdown, LogSummary, allVars, guard, handling
  <2>2. noted' = noted
    BY <1>5 DEF CloseReporter, Close, ReporterStep, Goroutine, Tick, Stop, Answered,
       TimedOut, Resend, CloseReturns, Exit, Deliver, Look, Reap, GuardSecond, Second,
       BeginShutdown, Shutdown, LogSummary, allVars, vars, history
  <2> QED
    BY <1>1, <2>1, <2>2
<1> QED
  BY <1>2, <1>3, <1>4, <1>5 DEF GuardNext

\* serve.go:207, serve.go:104: the safety half of ConsoleAgreesWithSummary.  The
\* console is told of no refusal the job log does not count.
THEOREM ConsoleStaysWithinSummary == GuardSpec => []ConsoleWithinSummary
<1>1. GuardInit => TallyAhead
  <2> SUFFICES ASSUME GuardInit PROVE TallyAhead
    OBVIOUS
  <2>1. InNote = {}
    BY DEF GuardInit, InNote, Idle
  <2>2. SumFunctionOnSet(tallied, Handlers) = 0
    BY HandlersAssumption, SumZero DEF GuardInit
  <2>3. TotalOf(noted) = 0
    BY KeysAssumption, SumZero DEF TotalOf, GuardInit, Init, Zero
  <2> QED
    BY <2>1, <2>2, <2>3, FS_EmptySet DEF TallyAhead
<1>2. GuardInv /\ TallyAhead /\ [GuardNext]_allVars => TallyAhead'
  BY StepTallyAhead DEF GuardInv
<1>3. GuardInv /\ Accounts /\ TallyAhead => ConsoleWithinSummary
  <2> SUFFICES ASSUME GuardInv, Accounts, TallyAhead PROVE ConsoleWithinSummary
    OBVIOUS
  <2>1. NeverTooMuch /\ TypeOK
    BY LedgerBounds DEF GuardInv, Accounts
  <2>2. IsFiniteSet(InNote)
    BY HandlersAssumption, FS_Subset DEF InNote
  <2>3. PICK shown \in Nat, omit \in Nat, all \in Nat, c \in Nat :
          /\ shown = TotalOf(Shown) /\ omit = Omitted /\ all = TotalOf(noted)
          /\ c = Cardinality(InNote)
    <3>1. TotalOf(Shown) \in Nat /\ TotalOf(noted) \in Nat /\ Omitted \in Nat
      BY <2>1, KeysAssumption, SumType DEF TotalOf, NeverTooMuch, TypeOK
    <3> QED
      BY <2>2, <3>1, FS_CardinalityType
  <2>4. SumFunctionOnSet(tallied, Handlers) = all + c /\ shown + omit <= all
    BY <2>1, <2>3 DEF TallyAhead, NeverTooMuch
  <2>5. TotalOf(Shown) + Omitted <= SumFunctionOnSet(tallied, Handlers)
    BY <2>3, <2>4
  <2>6. ASSUME Printed, ~expired, Tracked = Handlers
        PROVE  SumFunctionOnSet(summary, Handlers) = SumFunctionOnSet(tallied, Handlers)
    <3>1. \A h \in Handlers : summary[h] = tallied[h]
      BY <2>6 DEF GuardInv, AtRest, Printed
    <3> QED
      BY <3>1, HandlersAssumption, SumAgrees
  <2> QED
    BY <2>5, <2>6 DEF ConsoleWithinSummary
<1> QED
  BY <1>1, <1>2, <1>3, GuardInvariance, AccountsInvariance, PTL DEF GuardSpec
=============================================================================
