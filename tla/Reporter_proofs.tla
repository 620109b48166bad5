-------------------------- MODULE Reporter_proofs --------------------------
(***************************************************************************)
(* Proofs about Reporter, for every set of keys, every cap, every number   *)
(* of attempts, every timeout and every fault: types, the batches and, for *)
(* finite sets of keys, the accounts (the drop counts add up, and what the *)
(* console shows implements RefusalLedger).                                *)
(***************************************************************************)
EXTENDS Reporter, FiniteSetTheorems, SequenceTheorems, Sums_proofs, TLAPS

-----------------------------------------------------------------------------
(* Type correctness. *)

\* The empty buffer is typed.
LEMMA ZeroType == Zero \in [Keys -> Nat] /\ Empty \in Payload
BY DEF Zero, Empty, Payload

\* The initial values are typed.
LEMMA InitTypeOK == Init => TypeOK
<1> SUFFICES ASSUME Init PROVE TypeOK
  OBVIOUS
<1>1. sent \in Seq(Payload)
  BY DEF Init
<1>2. body \in Payload /\ windows \in [Keys -> Nat] /\ noted \in [Keys -> Nat]
      /\ taken \in [Keys -> Nat] /\ shed \in [Keys -> Nat]
  BY ZeroType DEF Init
<1>3. attempt \in 0..MaxAttempts /\ loop # "backoff"
  BY ReporterAssumption DEF Init
<1> QED
  BY <1>1, <1>2, <1>3 DEF Init, TypeOK

\* Taking a batch copies typed windows into a typed payload.
LEMMA TakeBatchType ==
  ASSUME TypeOK, TakeBatch
  PROVE  /\ body' \in Payload /\ windows' \in [Keys -> Nat] /\ dropped' = 0
         /\ batch' = batch + 1 /\ taken' \in [Keys -> Nat]
         /\ sent' \in Seq(Payload) /\ wire' \subseteq Request
         /\ loop' = "posting" /\ attempt' = 1 /\ reply' = "none" /\ timer' = 0
<1> DEFINE b == [batch |-> batch + 1, items |-> windows, dropped |-> dropped]
<1>1. b \in Payload
  BY DEF TypeOK, Payload
<1>2. [attempt |-> 1, body |-> b] \in Request
  BY <1>1 DEF Request
<1>3. sent' = Append(sent, b) /\ Post(1, b) /\ windows' = Zero
      /\ taken' = [k \in Keys |-> taken[k] + windows[k]]
      /\ batch' = batch + 1 /\ dropped' = 0
  BY DEF TakeBatch
<1>4. taken' \in [Keys -> Nat]
  BY <1>3 DEF TypeOK
<1>5. sent' \in Seq(Payload)
  BY <1>1, <1>3, AppendProperties DEF TypeOK
<1>6. wire' \subseteq Request /\ body' = b
  BY <1>2, <1>3 DEF Post, TypeOK
<1> QED
  BY <1>1, <1>3, <1>4, <1>5, <1>6, ZeroType DEF Post

\* What that does to a typed state, in the form the proofs of Tick and Stop use.
LEMMA TakeBatchFacts ==
  ASSUME TypeOK, TakeBatch, final' \in BOOLEAN,
         UNCHANGED <<closer, waited, lastBatch, stored, noted, shed>>
  PROVE  TypeOK'
<1>1. /\ body' \in Payload /\ windows' \in [Keys -> Nat] /\ dropped' = 0
      /\ batch' = batch + 1 /\ taken' \in [Keys -> Nat]
      /\ sent' \in Seq(Payload) /\ wire' \subseteq Request
      /\ loop' = "posting" /\ attempt' = 1 /\ reply' = "none" /\ timer' = 0
  BY TakeBatchType
<1> QED
  BY <1>1, ReporterAssumption DEF TypeOK

\* After a failed attempt the poster sleeps, with attempts left, or ends the batch.
LEMMA RetryType ==
  ASSUME TypeOK, Retry
  PROVE  /\ loop' \in {"select", "backoff", "done"} /\ timer' \in Nat
         /\ loop' = "backoff" => attempt < MaxAttempts
         /\ reply' \in {"none", reply}
         /\ UNCHANGED <<final, body, attempt>>
BY DEF TypeOK, Retry, Finish

\* Every action keeps the types: they are inductive by themselves.
LEMMA StepTypeOK == TypeOK /\ [Next]_vars => TypeOK'
<1> SUFFICES ASSUME TypeOK, [Next]_vars PROVE TypeOK'
  OBVIOUS
<1> USE ReporterAssumption
<1>1. ASSUME NEW k \in Keys, Note(k) PROVE TypeOK'
  <2>1. /\ noted' \in [Keys -> Nat] /\ windows' \in [Keys -> Nat]
        /\ shed' \in [Keys -> Nat] /\ dropped' \in Nat
    <3>1. noted' = [noted EXCEPT ![k] = @ + 1]
      BY <1>1 DEF Note
    <3>2. \/ /\ windows' = [windows EXCEPT ![k] = @ + 1]
             /\ UNCHANGED <<dropped, shed>>
          \/ /\ dropped' = dropped + 1 /\ shed' = [shed EXCEPT ![k] = @ + 1]
             /\ UNCHANGED windows
      BY <1>1 DEF Note
    <3>3. /\ windows \in [Keys -> Nat] /\ dropped \in Nat
          /\ shed \in [Keys -> Nat] /\ noted \in [Keys -> Nat]
      BY DEF TypeOK
    <3> QED
      BY <3>1, <3>2, <3>3
  <2>2. UNCHANGED <<batch, poster, closing, wire, stored, taken, sent>>
    BY <1>1 DEF Note
  <2> QED
    BY <2>1, <2>2 DEF TypeOK, poster, closing
<1>2. CASE Tick
  <2>1. TakeBatch
    BY <1>2 DEF Tick
  <2>2. /\ final' \in BOOLEAN
        /\ UNCHANGED <<closer, waited, lastBatch, stored, noted, shed>>
    BY <1>2 DEF Tick, closing
  <2> QED
    BY <2>1, <2>2, TakeBatchFacts
<1>3. CASE Stop
  <2>1. /\ final' \in BOOLEAN
        /\ UNCHANGED <<closer, waited, lastBatch, stored, noted, shed>>
    BY <1>3 DEF Stop, closing
  <2>2. CASE TakeBatch
    BY <2>1, <2>2, TakeBatchFacts
  <2>3. CASE ~TakeBatch
    <3>1. loop' = "done" /\ UNCHANGED <<buffer, body, attempt, reply, timer, wire,
                                        taken, sent>>
      BY <1>3, <2>3 DEF Stop
    <3> QED
      BY <2>1, <3>1 DEF TypeOK, buffer
  <2> QED
    BY <2>2, <2>3
<1>4. CASE Answered
  BY <1>4, RetryType DEF Answered, Finish, TypeOK, buffer, closing, history
<1>5. CASE TimedOut
  BY <1>5, RetryType DEF TimedOut, TypeOK, buffer, closing, history
<1>6. CASE Resend
  <2>1. attempt + 1 \in 0..MaxAttempts
    BY <1>6 DEF Resend, TypeOK
  <2>2. [attempt |-> attempt + 1, body |-> body] \in Request
    BY <2>1 DEF TypeOK, Request
  <2> QED
    BY <1>6, <2>1, <2>2 DEF Resend, Post, TypeOK, buffer, closing, history
<1>7. CASE Close
  BY <1>7 DEF Close, TypeOK, buffer, poster, history
<1>8. CASE CloseReturns
  BY <1>8 DEF CloseReturns, TypeOK, buffer, poster, history
<1>9. CASE Exit
  BY <1>9 DEF Exit, TypeOK, buffer, history
<1>10. ASSUME NEW m \in wire, Deliver(m) PROVE TypeOK'
  <2>1. stored' \subseteq Payload
    BY <1>10 DEF Deliver, Keep, TypeOK, Request
  <2>2. reply' \in {"none", "ok", "refused", "failed"} /\ wire' \subseteq Request
    BY <1>10 DEF Deliver, TypeOK
  <2> QED
    BY <1>10, <2>1, <2>2 DEF Deliver, TypeOK, buffer, closing, history
<1>11. CASE Second
  BY <1>11 DEF Second, TypeOK, buffer, history
<1>12. CASE UNCHANGED vars
  BY <1>12 DEF TypeOK, vars, buffer, poster, closing, history
<1> QED
  BY <1>1, <1>2, <1>3, <1>4, <1>5, <1>6, <1>7, <1>8, <1>9, <1>10, <1>11, <1>12
  DEF Next, Goroutine

\* Every variable keeps its type in every behaviour.
THEOREM TypeCorrect == Spec => []TypeOK
BY InitTypeOK, StepTypeOK, PTL DEF Spec

-----------------------------------------------------------------------------
(* Every note is in one place.  With the types this is inductive by itself. *)

\* Noting moves the total and one place; taking a batch moves windows to batches.
LEMMA StepNotesAccounted ==
  TypeOK /\ NotesAccounted /\ [Next]_vars => NotesAccounted'
<1> SUFFICES ASSUME TypeOK, NotesAccounted, [Next]_vars PROVE NotesAccounted'
  OBVIOUS
<1>1. ASSUME NEW k \in Keys, Note(k) PROVE NotesAccounted'
  <2> SUFFICES ASSUME NEW j \in Keys
               PROVE  noted'[j] = windows'[j] + taken'[j] + shed'[j]
    BY DEF NotesAccounted
  <2>1. noted[j] = windows[j] + taken[j] + shed[j]
    BY DEF NotesAccounted
  <2>5. /\ windows \in [Keys -> Nat] /\ shed \in [Keys -> Nat]
        /\ noted \in [Keys -> Nat] /\ taken \in [Keys -> Nat]
    BY DEF TypeOK
  <2>2. noted' = [noted EXCEPT ![k] = @ + 1] /\ UNCHANGED taken
    BY <1>1 DEF Note
  <2>3. CASE windows' = [windows EXCEPT ![k] = @ + 1] /\ UNCHANGED shed
    BY <2>1, <2>2, <2>3, <2>5
  <2>4. CASE shed' = [shed EXCEPT ![k] = @ + 1] /\ UNCHANGED windows
    BY <2>1, <2>2, <2>4, <2>5
  <2> QED
    BY <1>1, <2>3, <2>4 DEF Note
<1>2. ASSUME TakeBatch, UNCHANGED <<noted, shed>> PROVE NotesAccounted'
  <2>1. /\ windows' = Zero
        /\ taken' = [k \in Keys |-> taken[k] + windows[k]]
    BY <1>2 DEF TakeBatch
  <2> QED
    BY <1>2, <2>1 DEF NotesAccounted, Zero, TypeOK
<1>3. ASSUME UNCHANGED <<windows, noted, taken, shed>> PROVE NotesAccounted'
  BY <1>3 DEF NotesAccounted
<1>4. CASE Tick
  BY <1>2, <1>4 DEF Tick
<1>5. CASE Stop
  BY <1>2, <1>3, <1>5 DEF Stop, buffer
<1>6. CASE Answered \/ TimedOut \/ Resend \/ Close \/ CloseReturns \/ Exit \/ Second
  BY <1>3, <1>6 DEF Answered, TimedOut, Resend, Close, CloseReturns, Exit, Second,
                    buffer, history
<1>7. ASSUME NEW m \in wire, Deliver(m) PROVE NotesAccounted'
  BY <1>3, <1>7 DEF Deliver, buffer, history
<1>8. CASE UNCHANGED vars
  BY <1>3, <1>8 DEF vars, buffer, history
<1> QED
  BY <1>1, <1>4, <1>5, <1>6, <1>7, <1>8 DEF Next, Goroutine

\* No refusal is lost or counted twice between a window, a batch and the drop
\* count.
THEOREM NoteConservation == Spec => []NotesAccounted
<1>1. Init => NotesAccounted
  BY DEF Init, NotesAccounted, Zero
<1> QED
  BY <1>1, TypeCorrect, StepNotesAccounted, PTL DEF Spec

-----------------------------------------------------------------------------
(* A batch number stands for one body.  The invariant has to say besides    *)
(* that the number counts the batches taken and that the body in flight is  *)
(* one of them, or a retry could send something else.                       *)

BodyInFlight ==
  /\ batch = Len(sent)
  /\ loop \in {"posting", "backoff"}
       => body.batch \in 1..Len(sent) /\ body = sent[body.batch]

BatchInv == OneBodyPerBatch /\ BodyInFlight

\* Appending a batch leaves the earlier ones where they were.
LEMMA TakeBatchAppends ==
  ASSUME TypeOK, BatchInv, TakeBatch
  PROVE  LET b == [batch |-> batch + 1, items |-> windows, dropped |-> dropped]
         IN /\ Len(sent') = batch + 1 /\ sent'[batch + 1] = b
            /\ \A i \in 1..Len(sent) : sent'[i] = sent[i]
            /\ batch' = batch + 1 /\ body' = b
            /\ wire' = wire \cup {[attempt |-> 1, body |-> b]}
<1> DEFINE b == [batch |-> batch + 1, items |-> windows, dropped |-> dropped]
<1>1. b \in Payload
  BY DEF TypeOK, Payload
<1>2. sent' = Append(sent, b) /\ batch = Len(sent) /\ sent \in Seq(Payload)
  BY DEF TakeBatch, BatchInv, BodyInFlight, TypeOK
<1>3. Len(sent') = Len(sent) + 1 /\ sent'[Len(sent) + 1] = b
      /\ \A i \in 1..Len(sent) : sent'[i] = sent[i]
  BY <1>1, <1>2, AppendProperties
<1>4. batch' = batch + 1 /\ body' = b /\ wire' = wire \cup {[attempt |-> 1, body |-> b]}
  BY DEF TakeBatch, Post
<1> QED
  BY <1>2, <1>3, <1>4

\* Only taking a batch makes a body, and it is the one recorded under its number.
LEMMA StepBatchInv == TypeOK /\ BatchInv /\ [Next]_vars => BatchInv'
<1> SUFFICES ASSUME TypeOK, BatchInv, [Next]_vars PROVE BatchInv'
  OBVIOUS
<1>0. batch \in Nat /\ Len(sent) \in Nat
  BY LenProperties DEF TypeOK
<1>1. ASSUME TakeBatch, UNCHANGED stored PROVE BatchInv'
  <2> DEFINE b == [batch |-> batch + 1, items |-> windows, dropped |-> dropped]
  <2>1. /\ Len(sent') = batch + 1 /\ sent'[batch + 1] = b
        /\ \A i \in 1..Len(sent) : sent'[i] = sent[i]
        /\ batch' = batch + 1 /\ body' = b
        /\ wire' = wire \cup {[attempt |-> 1, body |-> b]}
    BY <1>1, TakeBatchAppends
  <2>2. batch = Len(sent)
    BY DEF BatchInv, BodyInFlight
  <2>3. BodyInFlight'
    BY <1>0, <2>1 DEF BodyInFlight
  <2>4. ASSUME NEW m \in wire'
        PROVE  m.body.batch \in 1..Len(sent)' /\ m.body = sent'[m.body.batch]
    <3>1. CASE m \in wire
      BY <1>0, <2>1, <2>2, <3>1 DEF BatchInv, OneBodyPerBatch
    <3>2. CASE m = [attempt |-> 1, body |-> b]
      BY <1>0, <2>1, <3>2
    <3> QED
      BY <2>1, <3>1, <3>2
  <2>5. ASSUME NEW s \in stored'
        PROVE  s.batch \in 1..Len(sent)' /\ s = sent'[s.batch]
    BY <1>0, <1>1, <2>1, <2>2 DEF BatchInv, OneBodyPerBatch
  <2> QED
    BY <2>3, <2>4, <2>5 DEF BatchInv, OneBodyPerBatch
<1>2. ASSUME UNCHANGED <<batch, body, wire, stored, sent>>,
             loop' \in {"posting", "backoff"} => loop \in {"posting", "backoff"}
      PROVE  BatchInv'
  BY <1>2 DEF BatchInv, OneBodyPerBatch, BodyInFlight
<1>3. ASSUME NEW k \in Keys, Note(k) PROVE BatchInv'
  BY <1>2, <1>3 DEF Note, poster
<1>4. CASE Tick
  BY <1>1, <1>4 DEF Tick
<1>5. CASE Stop
  BY <1>1, <1>2, <1>5 DEF Stop, buffer
<1>6. CASE Answered \/ TimedOut
  BY <1>2, <1>6 DEF Answered, TimedOut, Retry, Finish, buffer, history
<1>7. CASE Resend
  <2>1. /\ body' = body /\ loop = "backoff" /\ UNCHANGED <<batch, stored, sent>>
        /\ wire' = wire \cup {[attempt |-> attempt + 1, body |-> body]}
    BY <1>7 DEF Resend, Post, buffer, history
  <2> QED
    BY <2>1 DEF BatchInv, OneBodyPerBatch, BodyInFlight
<1>8. CASE Close \/ CloseReturns \/ Exit \/ Second
  BY <1>2, <1>8 DEF Close, CloseReturns, Exit, Second, buffer, poster, history
<1>9. ASSUME NEW m \in wire, Deliver(m) PROVE BatchInv'
  <2>1. /\ wire' \subseteq wire /\ stored' \subseteq stored \cup {m.body}
        /\ UNCHANGED <<batch, loop, body, sent>>
    BY <1>9 DEF Deliver, Keep, buffer, history
  <2> QED
    BY <1>9, <2>1 DEF BatchInv, OneBodyPerBatch, BodyInFlight
<1>10. CASE UNCHANGED vars
  BY <1>2, <1>10 DEF vars, buffer, poster, history
<1> QED
  BY <1>3, <1>4, <1>5, <1>6, <1>7, <1>8, <1>9, <1>10 DEF Next, Goroutine

\* Every copy of a batch, in flight or stored, is the batch taken under that
\* number: what makes the retry idempotent.
THEOREM BatchIdentity == Spec => []OneBodyPerBatch
<1>1. Init => BatchInv
  BY DEF Init, BatchInv, OneBodyPerBatch, BodyInFlight
<1>2. Spec => []BatchInv
  BY <1>1, TypeCorrect, StepBatchInv, PTL DEF Spec
<1> QED
  BY <1>2, PTL DEF BatchInv

-----------------------------------------------------------------------------
(* Drops only at the cap.  That there are finitely many windows, although   *)
(* there may be any number of keys, is what makes counting them meaningful. *)

CapInv == IsFiniteSet(Live) /\ DropsOnlyAtTheCap

\* A note adds a window only below the cap, and a drop only at it.
LEMMA NoteKeepsCap ==
  ASSUME TypeOK, CapInv, NEW k \in Keys, Note(k)
  PROVE  CapInv'
<1>1. MaxWindows \in Nat /\ IsFiniteSet(Live) /\ Cardinality(Live) \in Nat
      /\ Cardinality(Live) <= MaxWindows
      /\ (dropped > 0 => Cardinality(Live) = MaxWindows) /\ dropped \in Nat
  BY ReporterAssumption, FS_CardinalityType DEF CapInv, DropsOnlyAtTheCap, TypeOK
<1>2. CASE /\ windows[k] > 0
           /\ windows' = [windows EXCEPT ![k] = @ + 1] /\ UNCHANGED dropped
  <2>1. Live' = Live
    BY <1>2 DEF Live, TypeOK
  <2> QED
    BY <1>1, <1>2, <2>1 DEF CapInv, DropsOnlyAtTheCap
<1>3. CASE /\ windows[k] = 0 /\ Room
           /\ windows' = [windows EXCEPT ![k] = @ + 1] /\ UNCHANGED dropped
  <2>1. Live' = Live \cup {k} /\ k \notin Live
    BY <1>3 DEF Live, TypeOK
  <2>2. IsFiniteSet(Live') /\ Cardinality(Live') = Cardinality(Live) + 1
    BY <1>1, <2>1, FS_AddElement
  <2>3. Cardinality(Live) < MaxWindows
    BY <1>3 DEF Room
  <2>4. dropped = 0
    BY <1>1, <2>3
  <2> QED
    BY <1>1, <1>3, <2>2, <2>3, <2>4 DEF CapInv, DropsOnlyAtTheCap
<1>4. CASE ~Room /\ UNCHANGED windows
  <2>1. Live' = Live
    BY <1>4 DEF Live
  <2>2. Cardinality(Live) = MaxWindows
    BY <1>1, <1>4 DEF Room
  <2> QED
    BY <1>1, <2>1, <2>2 DEF CapInv, DropsOnlyAtTheCap
<1>5. windows[k] > 0 \/ windows[k] = 0
  BY DEF TypeOK
<1> QED
  BY <1>2, <1>3, <1>4, <1>5 DEF Note

\* A flush empties the windows and the drop count together.
LEMMA StepCapInv == TypeOK /\ CapInv /\ [Next]_vars => CapInv'
<1> SUFFICES ASSUME TypeOK, CapInv, [Next]_vars PROVE CapInv'
  OBVIOUS
<1>1. ASSUME TakeBatch PROVE CapInv'
  <2>1. Live' = {} /\ dropped' = 0
    BY <1>1 DEF TakeBatch, Live, Zero
  <2>2. IsFiniteSet({}) /\ Cardinality({}) = 0
    BY FS_EmptySet
  <2> QED
    BY <2>1, <2>2, ReporterAssumption DEF CapInv, DropsOnlyAtTheCap
<1>2. ASSUME UNCHANGED buffer PROVE CapInv'
  BY <1>2 DEF CapInv, DropsOnlyAtTheCap, Live, buffer
<1>3. CASE Tick
  BY <1>1, <1>3 DEF Tick
<1>4. CASE Stop
  BY <1>1, <1>2, <1>4 DEF Stop
<1>5. CASE Answered \/ TimedOut \/ Resend \/ Close \/ CloseReturns \/ Exit \/ Second
  BY <1>2, <1>5 DEF Answered, TimedOut, Resend, Close, CloseReturns, Exit, Second
<1>6. ASSUME NEW m \in wire, Deliver(m) PROVE CapInv'
  BY <1>2, <1>6 DEF Deliver
<1>7. CASE UNCHANGED vars
  BY <1>2, <1>7 DEF vars
<1> QED
  BY <1>3, <1>4, <1>5, <1>6, <1>7, NoteKeepsCap DEF Next, Goroutine

\* A refusal is counted as dropped only while MaxWindows targets have windows.
THEOREM DropsMeanFull == Spec => []DropsOnlyAtTheCap
<1>1. Init => CapInv
  <2> SUFFICES ASSUME Init PROVE CapInv
    OBVIOUS
  <2>1. Live = {} /\ dropped = 0
    BY DEF Init, Live, Zero
  <2>2. IsFiniteSet({}) /\ Cardinality({}) = 0
    BY FS_EmptySet
  <2> QED
    BY <2>1, <2>2, ReporterAssumption DEF CapInv, DropsOnlyAtTheCap
<1>2. Spec => []CapInv
  BY <1>1, TypeCorrect, StepCapInv, PTL DEF Spec
<1> QED
  BY <1>2, PTL DEF CapInv

-----------------------------------------------------------------------------
(* The last flush.  While Close waits for the batch it found to be taken, no *)
(* time passes; from then on the two timers run together, so that Close does *)
(* not give up before the first attempt has.                                 *)

WaitInv ==
  /\ closer = "open" => waited = 0
  /\ closer = "waiting" => waited <= CloseTimeout
  /\ loop = "posting" => timer <= HttpTimeout
  /\ loop \in {"posting", "backoff"} => attempt > 0
  /\ lastBatch <= batch + 1
  /\ lastBatch = batch + 1 =>
       /\ waited = 0 /\ loop \in {"select", "done"}
       /\ closer \in {"returned", "exited"} => loop = "done"
  /\ loop = "posting" /\ attempt = 1 /\ body.batch = lastBatch => waited <= timer
  /\ LastFlushGetsAFullAttempt

\* Taking a batch starts the timer while nothing has been waited for.
LEMMA TakeBatchWaits ==
  ASSUME TypeOK, WaitInv, loop = "select", TakeBatch,
         UNCHANGED <<closer, waited, lastBatch>>
  PROVE  WaitInv'
<1>1. /\ batch' = batch + 1 /\ loop' = "posting" /\ attempt' = 1 /\ timer' = 0
      /\ body'.batch = batch + 1
  BY DEF TakeBatch, Post
<1>2. lastBatch = batch + 1 => waited = 0 /\ closer # "returned"
  BY DEF WaitInv
<1> QED
  BY <1>1, <1>2, ReporterAssumption DEF WaitInv, LastFlushGetsAFullAttempt, TypeOK

\* A batch that ends, or sleeps before its next attempt, leaves "posting".
LEMMA RetryWaits ==
  ASSUME TypeOK, WaitInv, loop = "posting", Retry \/ Finish,
         UNCHANGED <<closer, waited, lastBatch, batch>>
  PROVE  WaitInv'
<1>1. loop' # "posting" /\ (loop' = "backoff" => attempt' = attempt /\ attempt > 0)
  BY DEF Retry, Finish, WaitInv
<1>2. lastBatch # batch + 1
  BY DEF WaitInv
<1> QED
  BY <1>1, <1>2 DEF WaitInv, LastFlushGetsAFullAttempt

\* When one attempt is shorter than the wait of Close, every step keeps WaitInv.
LEMMA StepWaitInv ==
  ASSUME HttpTimeout < CloseTimeout, TypeOK, WaitInv, [Next]_vars
  PROVE  WaitInv'
<1> USE ReporterAssumption
<1>1. ASSUME UNCHANGED <<closer, waited, lastBatch, batch, loop, body, attempt, timer>>
      PROVE  WaitInv'
  BY <1>1 DEF WaitInv, LastFlushGetsAFullAttempt
<1>2. ASSUME NEW k \in Keys, Note(k) PROVE WaitInv'
  BY <1>1, <1>2 DEF Note, poster, closing
<1>3. CASE Tick
  BY <1>3, TakeBatchWaits DEF Tick, closing
<1>4. CASE Stop
  <2>1. CASE TakeBatch
    BY <1>4, <2>1, TakeBatchWaits DEF Stop, closing
  <2>2. CASE Live = {} /\ loop' = "done" /\ UNCHANGED buffer
    BY <1>4, <2>2 DEF Stop, closing, buffer, WaitInv, LastFlushGetsAFullAttempt
  <2> QED
    BY <1>4, <2>1, <2>2 DEF Stop
<1>5. CASE Answered \/ TimedOut
  BY <1>5, RetryWaits DEF Answered, TimedOut, closing, buffer
<1>6. CASE Resend
  <2>1. /\ loop' = "posting" /\ attempt' = attempt + 1 /\ attempt > 0 /\ timer' = 0
        /\ attempt \in Nat /\ lastBatch # batch + 1
    BY <1>6 DEF Resend, Post, WaitInv, TypeOK
  <2>2. UNCHANGED <<closer, waited, lastBatch, batch>>
    BY <1>6 DEF Resend, closing, buffer
  <2> QED
    BY <2>1, <2>2 DEF WaitInv, LastFlushGetsAFullAttempt
<1>7. CASE Close
  <2>1. waited = 0 /\ lastBatch' = IF loop = "select" THEN batch + 1 ELSE 0
    BY <1>7 DEF Close, WaitInv
  <2>2. batch \in Nat /\ timer \in Nat
    BY DEF TypeOK
  <2> QED
    BY <1>7, <2>1, <2>2
    DEF Close, WaitInv, LastFlushGetsAFullAttempt, buffer, poster
<1>8. CASE CloseReturns
  <2>1. lastBatch = batch + 1 => loop = "done"
    BY <1>8 DEF CloseReturns, WaitInv
  <2>2. ~(loop = "posting" /\ attempt = 1 /\ body.batch = lastBatch)
    BY <1>8 DEF CloseReturns, WaitInv, TypeOK
  <2> QED
    BY <1>8, <2>1, <2>2
    DEF CloseReturns, WaitInv, LastFlushGetsAFullAttempt, buffer, poster
<1>9. CASE Exit
  BY <1>9 DEF Exit, WaitInv, LastFlushGetsAFullAttempt, buffer
<1>10. ASSUME NEW m \in wire, Deliver(m) PROVE WaitInv'
  BY <1>1, <1>10 DEF Deliver, buffer, closing
<1>11. CASE Second
  BY <1>11 DEF Second, WaitInv, LastFlushGetsAFullAttempt, TypeOK, buffer
<1>12. CASE UNCHANGED vars
  BY <1>1, <1>12 DEF vars, buffer, poster, closing
<1> QED
  BY <1>2, <1>3, <1>4, <1>5, <1>6, <1>7, <1>8, <1>9, <1>10, <1>11, <1>12
  DEF Next, Goroutine

\* Nothing has been waited for at the beginning.
LEMMA InitWaitInv == Init => WaitInv
BY DEF Init, WaitInv, LastFlushGetsAFullAttempt


-----------------------------------------------------------------------------
(* What went out with the batches. *)

SentDrops == [i \in DOMAIN sent |-> sent[i].dropped]
SentItems(k) == [i \in DOMAIN sent |-> sent[i].items[k]]

\* The windows handed over are those of the batches taken.
TakenAccounted == \A k \in Keys : taken[k] = SumFunction(SentItems(k))

LedgerInv == DropsAccounted /\ TakenAccounted /\ IsFiniteSet(stored)

\* Sums over the positions of a list that has grown by one.
LEMMA SumOfLonger ==
  ASSUME NEW n \in Nat, NEW f, NEW g,
         DOMAIN f = 1..n, DOMAIN g = 1..(n + 1),
         \A i \in 1..n : f[i] = g[i], \A i \in 1..(n + 1) : g[i] \in Nat
  PROVE  SumFunction(f) \in Nat /\ SumFunction(g) = SumFunction(f) + g[n + 1]
<1>1. /\ 1..(n + 1) = (1..n) \cup {n + 1} /\ n + 1 \notin 1..n
      /\ IsFiniteSet(1..n)
  <2>1. 1..(n + 1) = (1..n) \cup {n + 1} /\ n + 1 \notin 1..n
    OBVIOUS
  <2>2. 1 \in Int /\ n \in Int
    OBVIOUS
  <2>3. IsFiniteSet(1..n)
    BY <2>2, FS_Interval, Zenon
  <2> QED
    BY <2>1, <2>3
<1>2. SumFunctionOnSet(g, 1..(n + 1)) = g[n + 1] + SumFunctionOnSet(g, 1..n)
  BY <1>1, SumWithNew
<1>3. SumFunctionOnSet(f, 1..n) = SumFunctionOnSet(g, 1..n)
  BY <1>1, SumAgrees
<1>4. SumFunctionOnSet(f, 1..n) \in Nat
  BY <1>1, SumType
<1> QED
  BY <1>2, <1>3, <1>4 DEF SumFunction

\* The batches taken are a list of typed payloads, finitely many.
LEMMA SentType ==
  ASSUME TypeOK
  PROVE  /\ DOMAIN sent = 1..Len(sent) /\ Len(sent) \in Nat /\ IsFiniteSet(DOMAIN sent)
         /\ \A i \in DOMAIN sent : sent[i] \in Payload
<1>1. DOMAIN sent = 1..Len(sent) /\ Len(sent) \in Nat
      /\ \A i \in DOMAIN sent : sent[i] \in Payload
  BY LenProperties, ElementOfSeq DEF TypeOK
<1> QED
  BY <1>1, FS_Interval

\* What TakeBatch adds to the two sums.
LEMMA TakeBatchAdds ==
  ASSUME TypeOK, BatchInv, TakeBatch
  PROVE  /\ SumFunction(SentDrops)' = SumFunction(SentDrops) + dropped
         /\ SumFunction(SentDrops) \in Nat
         /\ \A k \in Keys : /\ SumFunction(SentItems(k)) \in Nat
                            /\ SumFunction(SentItems(k))'
                                 = SumFunction(SentItems(k)) + windows[k]
<1> DEFINE n == Len(sent)
           b == [batch |-> batch + 1, items |-> windows, dropped |-> dropped]
<1>1. /\ DOMAIN sent = 1..n /\ n \in Nat /\ batch = n
      /\ \A i \in 1..n : sent[i] \in Payload
  BY SentType DEF BatchInv, BodyInFlight
<1>2. b \in Payload
  BY DEF TypeOK, Payload
<1>3. /\ sent'[n + 1] = b
      /\ \A i \in 1..n : sent'[i] = sent[i]
  BY <1>1, TakeBatchAppends
<1>4. DOMAIN sent' = 1..(n + 1)
  BY <1>2, AppendProperties, LenProperties DEF TypeOK, TakeBatch
<1>5. \A i \in 1..(n + 1) : sent'[i] \in Payload
  BY <1>1, <1>2, <1>3
<1>6. /\ b.dropped = dropped /\ b.items = windows
  OBVIOUS
<1> HIDE DEF b
<1>7. SumFunction(SentDrops)' = SumFunction(SentDrops) + dropped
      /\ SumFunction(SentDrops) \in Nat
  <2> DEFINE f == SentDrops
             g == [i \in DOMAIN sent' |-> sent'[i].dropped]
  <2>1. /\ DOMAIN f = 1..n /\ DOMAIN g = 1..(n + 1) /\ g[n + 1] = dropped
        /\ \A i \in 1..n : f[i] = g[i]
        /\ \A i \in 1..(n + 1) : g[i] \in Nat
    BY <1>1, <1>3, <1>4, <1>5, <1>6 DEF SentDrops, Payload
  <2>2. SumFunction(f) \in Nat /\ SumFunction(g) = SumFunction(f) + g[n + 1]
    <3> HIDE DEF f, g, n
    <3> QED
      BY <1>1, <2>1, SumOfLonger
  <2>3. SumFunction(SentDrops)' = SumFunction(g)
    BY DEF SentDrops, SumFunction
  <2> QED
    BY <2>1, <2>2, <2>3
<1>8. ASSUME NEW k \in Keys
      PROVE  /\ SumFunction(SentItems(k)) \in Nat
             /\ SumFunction(SentItems(k))' = SumFunction(SentItems(k)) + windows[k]
  <2> DEFINE f == SentItems(k)
             g == [i \in DOMAIN sent' |-> sent'[i].items[k]]
  <2>1. /\ DOMAIN f = 1..n /\ DOMAIN g = 1..(n + 1) /\ g[n + 1] = windows[k]
        /\ \A i \in 1..n : f[i] = g[i]
        /\ \A i \in 1..(n + 1) : g[i] \in Nat
    BY <1>1, <1>3, <1>4, <1>5, <1>6 DEF SentItems, Payload
  <2>2. SumFunction(f) \in Nat /\ SumFunction(g) = SumFunction(f) + g[n + 1]
    <3> HIDE DEF f, g, n
    <3> QED
      BY <1>1, <2>1, SumOfLonger
  <2>3. SumFunction(SentItems(k))' = SumFunction(g)
    BY DEF SentItems, SumFunction
  <2> QED
    BY <2>1, <2>2, <2>3
<1> QED
  BY <1>7, <1>8

-----------------------------------------------------------------------------
(* The accounts are inductive. *)

\* A note that finds no window adds one to the drop count and to what was shed.
LEMMA NoteShedsOne ==
  ASSUME TypeOK, NEW k \in Keys, Note(k)
  PROVE  TotalOf(shed') + dropped = TotalOf(shed) + dropped'
<1>1. CASE UNCHANGED <<dropped, shed>>
  <2>1. TotalOf(shed) \in Nat
    BY KeysAssumption, SumType DEF TotalOf, TypeOK
  <2> QED
    BY <1>1, <2>1 DEF TypeOK
<1>2. CASE dropped' = dropped + 1 /\ shed' = [shed EXCEPT ![k] = @ + 1]
  <2>1. /\ \A j \in Keys : shed[j] \in Nat /\ shed'[j] \in Nat
        /\ \A j \in Keys \ {k} : shed[j] = shed'[j]
        /\ shed'[k] = shed[k] + 1
    BY <1>2 DEF TypeOK
  <2> DEFINE before == TotalOf(shed)
             after == TotalOf(shed')
  <2>2. /\ before \in Nat /\ after \in Nat
        /\ after + shed[k] = before + shed'[k]
    BY <2>1, KeysAssumption, SumChangesAt DEF TotalOf
  <2>3. dropped \in Nat /\ shed[k] \in Nat
    BY DEF TypeOK
  <2> HIDE DEF before, after
  <2>4. after + dropped = before + dropped'
    BY <1>2, <2>1, <2>2, <2>3
  <2> QED
    BY <2>4 DEF before, after
<1> QED
  BY <1>1, <1>2 DEF Note

\* Taking a batch moves the drop count and the windows into it.
LEMMA TakeBatchKeepsLedger ==
  ASSUME TypeOK, BatchInv, LedgerInv, TakeBatch, UNCHANGED <<shed, stored>>
  PROVE  LedgerInv'
<1>1. /\ dropped' = 0 /\ dropped \in Nat
      /\ taken' = [k \in Keys |-> taken[k] + windows[k]]
  BY DEF TakeBatch, TypeOK
<1>2. DropsAccounted'
  <2>1. TotalOf(shed) = dropped + SumFunction(SentDrops)
    BY DEF LedgerInv, DropsAccounted, SentDrops
  <2>2. TotalOf(shed)' = dropped' + SumFunction(SentDrops)'
    BY <1>1, <2>1, TakeBatchAdds
  <2> QED
    BY <2>2 DEF DropsAccounted, SentDrops
<1>3. TakenAccounted'
  BY <1>1, TakeBatchAdds DEF LedgerInv, TakenAccounted
<1> QED
  BY <1>2, <1>3 DEF LedgerInv

\* Every action keeps the accounts.
LEMMA StepLedgerInv == TypeOK /\ BatchInv /\ LedgerInv /\ [Next]_vars => LedgerInv'
<1> SUFFICES ASSUME TypeOK, BatchInv, LedgerInv, [Next]_vars PROVE LedgerInv'
  OBVIOUS
<1>1. ASSUME UNCHANGED <<dropped, shed, taken, sent, stored>> PROVE LedgerInv'
  BY <1>1 DEF LedgerInv, DropsAccounted, TakenAccounted, SentItems
<1>2. ASSUME NEW k \in Keys, Note(k) PROVE LedgerInv'
  <2>1. UNCHANGED <<taken, sent, stored>>
    BY <1>2 DEF Note
  <2>2. DropsAccounted'
    <3> DEFINE out == SumFunction(SentDrops)
               before == TotalOf(shed)
               after == TotalOf(shed')
    <3>1. before = dropped + out
      BY DEF LedgerInv, DropsAccounted, SentDrops
    <3>2. after + dropped = before + dropped'
      BY <1>2, NoteShedsOne
    <3>3. dropped \in Nat /\ dropped' \in Nat /\ out \in Nat /\ after \in Nat
      <4>1. TypeOK'
        BY StepTypeOK
      <4>2. TotalOf(shed') \in Nat
        BY <4>1, KeysAssumption, SumType DEF TotalOf, TypeOK
      <4>3. out \in Nat
        BY SentType, SumType DEF SentDrops, SumFunction, Payload
      <4> QED
        BY <4>1, <4>2, <4>3 DEF TypeOK
    <3>5. before \in Nat
      BY <3>1, <3>3
    <3> HIDE DEF out, before, after
    <3>4. after = dropped' + out
      <4>1. PICK a \in Nat, b \in Nat, c \in Nat, d \in Nat, e \in Nat :
              a = before /\ b = after /\ c = dropped /\ d = dropped' /\ e = out
        BY <3>3, <3>5
      <4>2. b + c = a + d /\ a = c + e
        BY <3>1, <3>2, <4>1
      <4>3. b = d + e
        BY <4>2
      <4> QED
        BY <4>1, <4>3
    <3> QED
      BY <2>1, <3>4 DEF DropsAccounted, out, after, SentDrops, TotalOf
  <2> QED
    BY <2>1, <2>2 DEF LedgerInv, TakenAccounted, SentItems
<1>3. CASE Tick
  BY <1>3, TakeBatchKeepsLedger DEF Tick
<1>4. CASE Stop
  BY <1>1, <1>4, TakeBatchKeepsLedger DEF Stop, buffer
<1>5. CASE Answered \/ TimedOut \/ Resend \/ Close \/ CloseReturns \/ Exit \/ Second
  BY <1>1, <1>5 DEF Answered, TimedOut, Resend, Close, CloseReturns, Exit, Second,
                    buffer, history
<1>6. ASSUME NEW m \in wire, Deliver(m) PROVE LedgerInv'
  <2>1. UNCHANGED <<dropped, shed, taken, sent>>
    BY <1>6 DEF Deliver, buffer, history
  <2>2. stored' = stored \/ stored' = Keep(m.body)
    BY <1>6 DEF Deliver
  <2>3. Keep(m.body) = stored \/ Keep(m.body) = stored \cup {m.body}
    BY DEF Keep
  <2>4. IsFiniteSet(stored')
    BY <2>2, <2>3, FS_AddElement DEF LedgerInv
  <2> QED
    BY <2>1, <2>4 DEF LedgerInv, DropsAccounted, TakenAccounted, SentItems
<1>7. CASE UNCHANGED vars
  BY <1>1, <1>7 DEF vars, buffer, history
<1> QED
  BY <1>2, <1>3, <1>4, <1>5, <1>6, <1>7 DEF Next, Goroutine

\* Nothing has been noted or sent at the beginning.
LEMMA InitLedgerInv == Init => LedgerInv
<1> SUFFICES ASSUME Init PROVE LedgerInv
  OBVIOUS
<1>1. DOMAIN sent = {} /\ stored = {} /\ dropped = 0
  BY DEF Init
<1>2. SumFunction(SentDrops) = 0 /\ \A k \in Keys : SumFunction(SentItems(k)) = 0
  BY <1>1, SumEmpty DEF SumFunction, SentDrops, SentItems
<1>3. TotalOf(shed) = 0
  BY KeysAssumption, SumZero DEF TotalOf, Init, Zero
<1>4. DropsAccounted
  BY <1>1, <1>2, <1>3 DEF DropsAccounted, SentDrops
<1>5. TakenAccounted
  BY <1>2 DEF TakenAccounted, Init, Zero
<1> QED
  BY <1>1, <1>4, <1>5, FS_EmptySet DEF LedgerInv

\* The invariants the accounts rest on, together.
LEMMA LedgerInvariance == Spec => [](TypeOK /\ NotesAccounted /\ BatchInv /\ LedgerInv)
<1>1. Init => BatchInv
  BY DEF Init, BatchInv, OneBodyPerBatch, BodyInFlight
<1> QED
  BY <1>1, InitLedgerInv, TypeCorrect, NoteConservation, StepBatchInv, StepLedgerInv,
     PTL DEF Spec

\* The drop counts sent and held add up to the refusals that found no window.
THEOREM DropConservation == Spec => []DropsAccounted
BY LedgerInvariance, PTL DEF LedgerInv

-----------------------------------------------------------------------------
(* What the console shows.  It has stored some of the batches taken, each   *)
(* once, so a sum over the stored batches is carried by their numbers into  *)
(* the sum over all batches.                                                *)

\* Summing a field of the stored batches, or of all the batches taken.
LEMMA StoredSum ==
  ASSUME TypeOK, BatchInv, LedgerInv,
         NEW f, DOMAIN f = stored, NEW g, DOMAIN g = DOMAIN sent,
         \A s \in stored : f[s] = g[s.batch],
         \A i \in DOMAIN sent : g[i] \in Nat
  PROVE  SumFunction(f) \in Nat /\ SumFunction(f) <= SumFunction(g)
<1> DEFINE b == [s \in stored |-> s.batch]
<1>1. \A s \in stored : s.batch \in DOMAIN sent /\ s = sent[s.batch]
  BY SentType DEF BatchInv, OneBodyPerBatch
<1>2. /\ \A s \in stored : b[s] \in DOMAIN sent /\ f[s] = g[b[s]] /\ f[s] \in Nat
      /\ \A s, t \in stored : b[s] = b[t] => s = t
  BY <1>1
<1>3. IsFiniteSet(stored) /\ IsFiniteSet(DOMAIN sent)
  BY SentType DEF LedgerInv
<1> HIDE DEF b
<1>4. SumFunctionOnSet(f, stored) <= SumFunctionOnSet(g, DOMAIN sent)
  BY <1>2, <1>3, SumCarried
<1>5. SumFunctionOnSet(f, stored) \in Nat
  BY <1>2, <1>3, SumType
<1> QED
  BY <1>4, <1>5 DEF SumFunction

\* The console shows no more than was taken and says no more was omitted than
\* went out in the drop counts.
LEMMA ShownAndOmitted ==
  ASSUME TypeOK, BatchInv, LedgerInv
  PROVE  /\ Shown \in [Keys -> Nat] /\ \A k \in Keys : Shown[k] <= taken[k]
         /\ Omitted \in Nat /\ Omitted <= SumFunction(SentDrops)
         /\ SumFunction(SentDrops) \in Nat
<1>1. ASSUME NEW k \in Keys PROVE Shown[k] \in Nat /\ Shown[k] <= taken[k]
  <2> DEFINE f == [s \in stored |-> s.items[k]]
  <2>1. /\ \A s \in stored : f[s] = SentItems(k)[s.batch]
        /\ \A i \in DOMAIN sent : SentItems(k)[i] \in Nat
        /\ DOMAIN SentItems(k) = DOMAIN sent
    BY SentType DEF SentItems, BatchInv, OneBodyPerBatch, Payload
  <2>2. SumFunction(f) \in Nat /\ SumFunction(f) <= SumFunction(SentItems(k))
    BY <2>1, StoredSum
  <2> QED
    BY <2>2 DEF Shown, LedgerInv, TakenAccounted
<1>2. Omitted \in Nat /\ Omitted <= SumFunction(SentDrops)
  <2> DEFINE f == [s \in stored |-> s.dropped]
  <2>1. /\ \A s \in stored : f[s] = SentDrops[s.batch]
        /\ \A i \in DOMAIN sent : SentDrops[i] \in Nat
        /\ DOMAIN SentDrops = DOMAIN sent
    BY SentType DEF SentDrops, BatchInv, OneBodyPerBatch, Payload
  <2>2. SumFunction(f) \in Nat /\ SumFunction(f) <= SumFunction(SentDrops)
    BY <2>1, StoredSum
  <2> QED
    BY <2>2 DEF Omitted
<1>3. SumFunction(SentDrops) \in Nat
  BY SentType, SumType DEF SentDrops, SumFunction, Payload
<1> QED
  BY <1>1, <1>2, <1>3 DEF Shown

NeverTooMuch ==
  /\ Shown \in [Keys -> Nat] /\ Omitted \in Nat
  /\ \A k \in Keys : Shown[k] <= noted[k]
  /\ TotalOf(Shown) + Omitted <= TotalOf(noted)

\* Per target and in all, the console is never ahead of what was noted.
LEMMA LedgerBounds == TypeOK /\ NotesAccounted /\ BatchInv /\ LedgerInv => NeverTooMuch
<1> SUFFICES ASSUME TypeOK, NotesAccounted, BatchInv, LedgerInv PROVE NeverTooMuch
  OBVIOUS
<1> DEFINE inBatches == [k \in Keys |-> taken[k] + shed[k]]
<1>1. \A k \in Keys : /\ Shown[k] \in Nat /\ Shown[k] <= taken[k]
                      /\ taken[k] \in Nat /\ shed[k] \in Nat /\ noted[k] \in Nat
                      /\ windows[k] \in Nat /\ noted[k] = windows[k] + taken[k] + shed[k]
  BY ShownAndOmitted DEF TypeOK, NotesAccounted
<1>2. /\ \A k \in Keys : inBatches[k] \in Nat /\ inBatches[k] <= noted[k]
      /\ \A k \in Keys : inBatches[k] = taken[k] + shed[k]
  BY <1>1
<1> HIDE DEF inBatches
<1>3. TotalOf(Shown) <= TotalOf(taken)
  BY <1>1, KeysAssumption, SumMonotone DEF TotalOf
<1>4. TotalOf(inBatches) = TotalOf(taken) + TotalOf(shed)
  BY <1>1, <1>2, KeysAssumption, SumAdds DEF TotalOf
<1>5. TotalOf(inBatches) <= TotalOf(noted)
  BY <1>1, <1>2, KeysAssumption, SumMonotone DEF TotalOf
<1>6. TotalOf(shed) = dropped + SumFunction(SentDrops)
  BY DEF LedgerInv, DropsAccounted, SentDrops
<1>7. PICK shown \in Nat, out \in Nat, toShed \in Nat, all \in Nat, held \in Nat,
           omit \in Nat, drops \in Nat :
        /\ shown = TotalOf(Shown) /\ out = TotalOf(taken) /\ toShed = TotalOf(shed)
        /\ all = TotalOf(noted) /\ held = dropped
        /\ omit = Omitted /\ drops = SumFunction(SentDrops)
  <2>1. /\ TotalOf(Shown) \in Nat /\ TotalOf(taken) \in Nat
        /\ TotalOf(shed) \in Nat /\ TotalOf(noted) \in Nat
    BY <1>1, KeysAssumption, SumType DEF TotalOf
  <2> QED
    BY <2>1, ShownAndOmitted DEF TypeOK
<1>8. shown <= out /\ out + toShed <= all /\ toShed = held + drops
  BY <1>3, <1>4, <1>5, <1>6, <1>7
<1>9. omit <= drops
  BY <1>7, ShownAndOmitted
<1>10. shown + omit <= all
  BY <1>8, <1>9
<1> QED
  BY <1>1, <1>7, <1>10, ShownAndOmitted DEF NeverTooMuch

-----------------------------------------------------------------------------
(* The reporter implements RefusalLedger. *)

\* The ledger sums as the reporter does.
LEMMA SameTotal == ASSUME NEW f PROVE Ledger!TotalOf(f) = TotalOf(f)
BY Zenon DEF Ledger!TotalOf, TotalOf, SumFunctionOnSet, FoldFunctionOnSet,
   MapThenFoldSet, Ledger!SumFunctionOnSet, Ledger!FoldFunctionOnSet,
   Ledger!MapThenFoldSet

\* The console starts with nothing to show.
LEMMA InitRefines == Init => Ledger!Init
<1> SUFFICES ASSUME Init PROVE Ledger!Init
  OBVIOUS
<1>1. stored = {} /\ noted = [k \in Keys |-> 0]
  BY DEF Init, Zero
<1>2. \A f : DOMAIN f = {} => SumFunction(f) = 0
  BY SumEmpty DEF SumFunction
<1>3. Shown = [k \in Keys |-> 0] /\ Omitted = 0
  BY <1>1, <1>2 DEF Shown, Omitted
<1> QED
  BY <1>1, <1>3 DEF Ledger!Init

\* Storing a batch takes nothing from the console.
LEMMA MoreIsShown ==
  ASSUME TypeOK', IsFiniteSet(stored'), stored \subseteq stored'
  PROVE  /\ \A k \in Keys : Shown[k] <= Shown'[k]
         /\ Omitted <= Omitted'
<1>1. ASSUME NEW f, DOMAIN f = stored, NEW g, DOMAIN g = stored',
             \A s \in stored : f[s] = g[s], \A s \in stored' : g[s] \in Nat
      PROVE  SumFunction(f) <= SumFunction(g)
  <2>1. IsFiniteSet(stored)
    BY FS_Subset
  <2>2. SumFunctionOnSet(f, stored) = SumFunctionOnSet(g, stored)
    BY <1>1, <2>1, SumAgrees
  <2>3. SumFunctionOnSet(g, stored) <= SumFunctionOnSet(g, stored')
    BY <1>1, SumOfPart
  <2> QED
    BY <1>1, <2>2, <2>3 DEF SumFunction
<1>2. ASSUME NEW k \in Keys PROVE Shown[k] <= Shown'[k]
  <2> DEFINE f == [s \in stored |-> s.items[k]]
             g == [s \in stored' |-> s.items[k]]
  <2>1. \A s \in stored' : g[s] \in Nat
    BY DEF TypeOK, Payload
  <2>2. DOMAIN f = stored /\ DOMAIN g = stored' /\ \A s \in stored : f[s] = g[s]
    OBVIOUS
  <2>3. SumFunction(f) <= SumFunction(g)
    <3> HIDE DEF f, g
    <3> QED
      BY <1>1, <2>1, <2>2
  <2> QED
    BY <2>3 DEF Shown
<1>3. Omitted <= Omitted'
  <2> DEFINE f == [s \in stored |-> s.dropped]
             g == [s \in stored' |-> s.dropped]
  <2>1. \A s \in stored' : g[s] \in Nat
    BY DEF TypeOK, Payload
  <2>2. DOMAIN f = stored /\ DOMAIN g = stored' /\ \A s \in stored : f[s] = g[s]
    OBVIOUS
  <2>3. SumFunction(f) <= SumFunction(g)
    <3> HIDE DEF f, g
    <3> QED
      BY <1>1, <2>1, <2>2
  <2> QED
    BY <2>3 DEF Omitted
<1> QED
  BY <1>2, <1>3

\* A note is a refusal, a request that reaches the console shows more of what
\* was noted, and nothing else is seen of the reporter.
LEMMA StepRefines ==
  TypeOK' /\ LedgerInv' /\ NeverTooMuch' /\ [Next]_vars => [Ledger!Next]_(Ledger!vars)
<1> SUFFICES ASSUME TypeOK', LedgerInv', NeverTooMuch', [Next]_vars
             PROVE  [Ledger!Next]_(Ledger!vars)
  OBVIOUS
<1>1. ASSUME UNCHANGED <<noted, stored>> PROVE UNCHANGED Ledger!vars
  BY <1>1 DEF Ledger!vars, Shown, Omitted
<1>2. ASSUME NEW k \in Keys, Note(k) PROVE Ledger!Refuse
  <2>1. noted' = [noted EXCEPT ![k] = @ + 1] /\ stored' = stored
    BY <1>2 DEF Note
  <2>2. UNCHANGED <<Shown, Omitted>>
    BY <2>1 DEF Shown, Omitted
  <2> QED
    BY <2>1, <2>2 DEF Ledger!Refuse
<1>3. ASSUME NEW m \in wire, Deliver(m) PROVE Ledger!Show
  <2>1. noted' = noted /\ stored \subseteq stored'
    BY <1>3 DEF Deliver, Keep, history
  <2>2. /\ \A k \in Keys : Shown[k] <= Shown'[k]
        /\ Omitted <= Omitted'
    BY <2>1, MoreIsShown DEF LedgerInv
  <2>3. /\ Shown' \in [Keys -> Nat] /\ Omitted' \in Nat
        /\ \A k \in Keys : Shown'[k] <= noted[k]
        /\ Ledger!TotalOf(Shown') + Omitted' <= Ledger!TotalOf(noted)
    BY <2>1, SameTotal DEF NeverTooMuch, TotalOf
  <2> QED
    BY <2>1, <2>2, <2>3 DEF Ledger!Show
<1>4. CASE Goroutine \/ Close \/ CloseReturns \/ Exit \/ Second \/ UNCHANGED vars
  BY <1>1, <1>4 DEF Goroutine, Tick, Stop, Answered, TimedOut, Resend, Close,
     CloseReturns, Exit, Second, vars, history
<1> QED
  BY <1>2, <1>3, <1>4 DEF Next, Ledger!Next

\* However often batches are retried, lost or late, the console never shows
\* more refusals than there were, nor takes any back: the ledger is implemented.
THEOREM Refinement == Spec => NeverOvercounted
BY LedgerInvariance, LedgerBounds, InitRefines, StepRefines, PTL
   DEF Spec, NeverOvercounted, Ledger!Spec
=============================================================================
