------------------------ MODULE CircuitBreaker_proofs ------------------------
(***************************************************************************)
(* For any number of concurrent calls, any threshold, timeout and number   *)
(* of attempts: the circuit opens only after failures in a row, and a      *)
(* failing endpoint gets a bounded number of requests in any time that is  *)
(* as long as the timeout. The invariant behind both accounts for each of  *)
(* the requests in that time: it has failed and is counted, or waits for   *)
(* its answer; and while the circuit is open, nothing is sent. Every call  *)
(* has a bounded number of steps to take.                                  *)
(***************************************************************************)
EXTENDS CircuitBreaker, FiniteSetTheorems, TLAPS

\* The requests that wait for their answer.
Sent == {c \in Calls : calls[c].phase = "sent"}

\* The circuit is open exactly from Threshold failures on.
OpenAtThreshold == circuit.open <=> circuit.failures >= Threshold

\* The circuit counts no failure that the streak leaves out.
StreakCovers == circuit.failures <= streak \/ streak = Threshold

\* In a longer time there are no fewer requests.
Rising == \A k \in 1 .. ResetTimeout : sent[k - 1] <= sent[k]

\* An open circuit has let no request through since the failure it saw last.
Quiet == circuit.open => \A k \in Ages : k < age => sent[k] = 0

\* Each request has failed or waits.
Accounted == sent[ResetTimeout] <= circuit.failures + Cardinality(Sent)

Inv ==
  /\ TypeOK /\ OpenAtThreshold /\ StreakCovers
  /\ Rising /\ Quiet /\ Accounted /\ SentBounded

\* There are finitely many requests to wait for.
LEMMA SentFinite == IsFiniteSet(Sent) /\ Cardinality(Sent) \in Nat
<1>1. IsFiniteSet(Sent)
  BY FS_Subset, BreakerAssumption DEF Sent
<1> QED
  BY <1>1, FS_CardinalityType

\* There are never more of them than calls.
LEMMA SentAtMost == Cardinality(Sent) <= Cardinality(Calls) /\ Cardinality(Calls) \in Nat
<1>1. Cardinality(Sent) <= Cardinality(Calls)
  BY FS_Subset, BreakerAssumption DEF Sent
<1> QED
  BY <1>1, FS_CardinalityType, BreakerAssumption

\* What a failing answer leaves of the circuit.
LEMMA FailedCircuit ==
  ASSUME TypeOK, NEW c \in Calls, Fail(c)
  PROVE  /\ circuit' \in [open : BOOLEAN, failures : Nat]
         /\ circuit'.failures = circuit.failures + 1
         /\ circuit'.open <=> circuit.open \/ circuit.failures + 1 >= Threshold
<1> DEFINE opened == circuit.open \/ circuit.failures + 1 >= Threshold
<1>1. opened \in BOOLEAN /\ circuit.failures + 1 \in Nat
  BY DEF TypeOK
<1>2. circuit' = [open |-> opened, failures |-> circuit.failures + 1]
  <2> HIDE DEF opened
  <2>1. FailureRecorded = [circuit EXCEPT !.failures = circuit.failures + 1, !.open = opened]
    BY DEF FailureRecorded, opened
  <2> QED
    BY <1>1, <2>1 DEF Fail, TypeOK
<1> HIDE DEF opened
<1>3. circuit' \in [open : BOOLEAN, failures : Nat] /\ circuit'.failures = circuit.failures + 1
  BY <1>1, <1>2
<1>4. circuit'.open <=> opened
  BY <1>2
<1> QED
  BY <1>3, <1>4 DEF opened

\* The type invariant is inductive.
LEMMA TypeInductive == TypeOK /\ [Next]_breakerVars => TypeOK'
<1> SUFFICES ASSUME TypeOK, [Next]_breakerVars PROVE TypeOK'
  OBVIOUS
<1> USE BreakerAssumption
<1>1. ASSUME NEW c \in Calls PROVE AfterException(c) \in
        [Calls -> [phase : {"idle", "ready", "sent", "backoff"}, attempt : 0 .. MaxAttempts]]
  BY DEF TypeOK, AfterException, Idle
<1>2. CASE Tick
  <2>1. ASSUME NEW k \in Ages PROVE (IF k = 0 THEN 0 ELSE sent[k - 1]) \in Nat
    BY <2>1 DEF TypeOK, Ages
  <2>2. sent' \in [Ages -> Nat]
    BY <1>2, <2>1 DEF Tick
  <2> QED
    BY <1>2, <2>2 DEF TypeOK, Tick
<1>3. ASSUME NEW c \in Calls, Begin(c) PROVE TypeOK'
  BY <1>3 DEF TypeOK, Begin
<1>4. ASSUME NEW c \in Calls, Request(c) PROVE TypeOK'
  BY <1>4 DEF TypeOK, Request, Closed
<1>5. ASSUME NEW c \in Calls, Block(c) PROVE TypeOK'
  BY <1>1, <1>5 DEF TypeOK, Block
<1>6. ASSUME NEW c \in Calls, Retry(c) PROVE TypeOK'
  BY <1>6 DEF TypeOK, Retry
<1>7. ASSUME NEW c \in Calls, Succeed(c) PROVE TypeOK'
  <2>1. circuit' \in [open : BOOLEAN, failures : Nat]
    BY <1>7 DEF TypeOK, Succeed, SuccessRecorded
  <2>2. calls' \in [Calls -> [phase : {"idle", "ready", "sent", "backoff"},
                             attempt : 0 .. MaxAttempts]]
    BY <1>7 DEF TypeOK, Succeed, Idle
  <2> QED
    BY <1>7, <2>1, <2>2 DEF TypeOK, Succeed
<1>8. ASSUME NEW c \in Calls, Fail(c) PROVE TypeOK'
  BY <1>1, <1>8, FailedCircuit DEF TypeOK, Fail
<1>9. CASE UNCHANGED breakerVars
  BY <1>9 DEF TypeOK, breakerVars
<1> QED
  BY <1>2, <1>3, <1>4, <1>5, <1>6, <1>7, <1>8, <1>9 DEF Next, Attempt, Answer

\* Failures and openness go together, and each counted failure is in the streak.
LEMMA CircuitInductive ==
  TypeOK /\ OpenAtThreshold /\ StreakCovers /\ [Next]_breakerVars
    => OpenAtThreshold' /\ StreakCovers'
<1> SUFFICES ASSUME TypeOK, OpenAtThreshold, StreakCovers, [Next]_breakerVars
             PROVE  OpenAtThreshold' /\ StreakCovers'
  OBVIOUS
<1> USE BreakerAssumption DEF TypeOK, OpenAtThreshold, StreakCovers
<1>1. CASE UNCHANGED <<circuit, streak>>
  BY <1>1
<1>2. ASSUME NEW c \in Calls, Request(c) PROVE OpenAtThreshold' /\ StreakCovers'
  BY <1>2 DEF Request, Closed
<1>3. ASSUME NEW c \in Calls, Succeed(c) PROVE OpenAtThreshold' /\ StreakCovers'
  BY <1>3 DEF Succeed, SuccessRecorded
<1>4. ASSUME NEW c \in Calls, Fail(c) PROVE OpenAtThreshold' /\ StreakCovers'
  BY <1>4, FailedCircuit DEF Fail
<1> QED
  BY <1>1, <1>2, <1>3, <1>4 DEF Next, Tick, Begin, Attempt, Block, Retry, Answer, breakerVars

\* What is sent within a time rises with it, and an open circuit lets nothing through
\* (is_open), whether time passes or requests are made and answered.
LEMMA QuietInductive ==
  TypeOK /\ Rising /\ Quiet /\ [Next]_breakerVars => Rising' /\ Quiet'
<1> SUFFICES ASSUME TypeOK, Rising, Quiet, [Next]_breakerVars PROVE Rising' /\ Quiet'
  OBVIOUS
<1>0. ResetTimeout \in Nat /\ age \in Nat /\ sent \in [Ages -> Nat] /\ Ages = 0 .. ResetTimeout
  BY BreakerAssumption DEF TypeOK, Ages
<1>1. CASE UNCHANGED <<circuit, age, sent>>
  BY <1>1 DEF Rising, Quiet
<1>2. CASE Tick
  <2>1. \A k \in Ages : sent'[k] = IF k = 0 THEN 0 ELSE sent[k - 1]
    BY <1>2 DEF Tick
  <2>2. Rising'
    <3> SUFFICES ASSUME NEW k \in 1 .. ResetTimeout PROVE sent'[k - 1] <= sent'[k]
      BY DEF Rising
    <3>1. k \in Ages /\ k - 1 \in Ages
      BY <1>0
    <3>2. sent'[k] = sent[k - 1] /\ sent[k - 1] \in Nat
      <4>1. k # 0
        BY <1>0
      <4>2. sent'[k] = sent[k - 1]
        BY <2>1, <3>1, <4>1
      <4> QED
        BY <1>0, <3>1, <4>2
    <3>3. CASE k = 1
      BY <2>1, <3>1, <3>2, <3>3
    <3>4. CASE k # 1
      <4>1. k - 1 \in 1 .. ResetTimeout /\ sent'[k - 1] = sent[(k - 1) - 1]
        BY <1>0, <2>1, <3>1, <3>4
      <4> QED
        BY <3>2, <4>1 DEF Rising
    <3> QED
      BY <3>3, <3>4
  <2>3. Quiet'
    <3> SUFFICES ASSUME circuit.open, NEW k \in Ages, k < age' PROVE sent'[k] = 0
      BY <1>2 DEF Tick, Quiet
    <3>1. CASE k = 0
      BY <2>1, <3>1
    <3>2. CASE k # 0
      <4>1. k - 1 \in Ages /\ k - 1 < age
        BY <1>0, <1>2, <3>2 DEF Tick
      <4> QED
        BY <2>1, <3>2, <4>1 DEF Quiet
    <3> QED
      BY <3>1, <3>2
  <2> QED
    BY <2>2, <2>3
<1>3. ASSUME NEW c \in Calls, Request(c) PROVE Rising' /\ Quiet'
  <2>1. \A k \in Ages : sent'[k] = sent[k] + 1
    BY <1>3 DEF Request
  <2>2. Rising'
    <3> SUFFICES ASSUME NEW k \in 1 .. ResetTimeout PROVE sent'[k - 1] <= sent'[k]
      BY DEF Rising
    <3>1. k \in Ages /\ k - 1 \in Ages /\ sent[k - 1] <= sent[k]
      BY <1>0 DEF Rising
    <3> QED
      BY <1>0, <2>1, <3>1
  <2>3. ~ circuit'.open
    BY <1>3 DEF Request, Closed
  <2> QED
    BY <2>2, <2>3 DEF Quiet
<1>4. ASSUME NEW c \in Calls, Succeed(c) PROVE Rising' /\ Quiet'
  <2>1. \A k \in Ages : sent'[k] = 0
    BY <1>4 DEF Succeed
  <2> QED
    BY <1>0, <2>1 DEF Rising, Quiet
<1>5. ASSUME NEW c \in Calls, Fail(c) PROVE Rising' /\ Quiet'
  <2>1. age' = 0 /\ sent' = sent
    BY <1>5 DEF Fail
  <2> QED
    BY <1>0, <2>1 DEF Rising, Quiet
<1> QED
  BY <1>1, <1>2, <1>3, <1>4, <1>5 DEF Next, Begin, Attempt, Block, Retry, Answer, breakerVars

\* Each request is accounted for, and their number is bounded.
LEMMA SentInductive == Inv /\ [Next]_breakerVars => Accounted' /\ SentBounded'
<1> SUFFICES ASSUME Inv, [Next]_breakerVars PROVE Accounted' /\ SentBounded'
  OBVIOUS
<1>1. Cardinality(Sent) \in Nat /\ IsFiniteSet(Sent) /\ Cardinality(Calls) \in Nat
  BY SentFinite, SentAtMost
<1>2. /\ ResetTimeout \in Nat /\ Threshold \in Nat \ {0}
      /\ age \in Nat /\ circuit.failures \in Nat
      /\ sent \in [Ages -> Nat] /\ ResetTimeout \in Ages /\ sent[ResetTimeout] \in Nat
  BY BreakerAssumption DEF Inv, TypeOK, Ages
<1>3. ASSUME Sent' = Sent, UNCHANGED circuit, sent'[ResetTimeout] \in Nat,
             sent'[ResetTimeout] <= sent[ResetTimeout]
      PROVE  Accounted' /\ SentBounded'
  BY <1>1, <1>2, <1>3 DEF Inv, Accounted, SentBounded
<1>4. CASE Tick
  <2>1. sent'[ResetTimeout] = IF ResetTimeout = 0 THEN 0 ELSE sent[ResetTimeout - 1]
    BY <1>2, <1>4 DEF Tick
  <2>2. sent'[ResetTimeout] \in Nat /\ sent'[ResetTimeout] <= sent[ResetTimeout]
    BY <1>2, <2>1 DEF Inv, Rising, Ages
  <2> QED
    BY <1>3, <1>4, <2>2 DEF Tick, Sent
<1>5. ASSUME NEW c \in Calls, Request(c) PROVE Accounted' /\ SentBounded'
  <2>1. Sent' = Sent \cup {c} /\ c \notin Sent
    BY <1>5 DEF Inv, TypeOK, Request, Sent
  <2>2. Cardinality(Sent') = Cardinality(Sent) + 1
    BY <1>1, <2>1, FS_AddElement
  <2>3. Sent' \in SUBSET Calls
    BY DEF Sent
  <2>4. Cardinality(Sent') <= Cardinality(Calls)
    BY <2>3, FS_Subset, BreakerAssumption
  <2>5. sent'[ResetTimeout] = sent[ResetTimeout] + 1
    BY <1>2, <1>5 DEF Request
  <2>6. CASE circuit.open
    <3>1. circuit'.failures = 0 /\ age > ResetTimeout
      BY <1>2, <1>5, <2>6 DEF Request, Blocking, Closed
    <3>2. sent[ResetTimeout] = 0
      BY <1>2, <2>6, <3>1 DEF Inv, Quiet
    <3>3. sent'[ResetTimeout] = 1
      BY <2>5, <3>2
    <3> QED
      BY <1>1, <1>2, <2>2, <2>4, <3>1, <3>3 DEF Accounted, SentBounded
  <2>7. CASE ~ circuit.open
    <3>1. circuit' = circuit /\ circuit.failures <= Threshold - 1
      BY <1>2, <1>5, <2>7 DEF Request, Inv, OpenAtThreshold
    <3> QED
      BY <1>1, <1>2, <2>2, <2>4, <2>5, <3>1 DEF Inv, Accounted, SentBounded
  <2> QED
    BY <2>6, <2>7
<1>6. ASSUME NEW c \in Calls, Succeed(c) PROVE Accounted' /\ SentBounded'
  <2>1. Sent' \in SUBSET Calls
    BY DEF Sent
  <2>2. Cardinality(Sent') \in Nat
    BY <2>1, FS_Subset, FS_CardinalityType, BreakerAssumption
  <2>3. sent'[ResetTimeout] = 0
    BY <1>2, <1>6 DEF Succeed
  <2>4. circuit'.failures = 0
    BY <1>6 DEF Succeed, SuccessRecorded, Inv, TypeOK
  <2> QED
    BY <1>1, <1>2, <2>2, <2>3, <2>4 DEF Accounted, SentBounded
<1>7. ASSUME NEW c \in Calls, Fail(c) PROVE Accounted' /\ SentBounded'
  <2>1. Sent' = Sent \ {c} /\ c \in Sent
    BY <1>7 DEF Inv, TypeOK, Fail, AfterException, Idle, Sent
  <2>2. Cardinality(Sent') = Cardinality(Sent) - 1
    BY <1>1, <2>1, FS_RemoveElement
  <2>3. circuit'.failures = circuit.failures + 1 /\ sent' = sent
    BY <1>7, FailedCircuit DEF Inv, Fail
  <2> QED
    BY <1>1, <1>2, <2>2, <2>3 DEF Inv, Accounted, SentBounded
<1>8. ASSUME NEW c \in Calls, Begin(c) \/ Block(c) \/ Retry(c) PROVE Sent' = Sent
  BY <1>8 DEF Inv, TypeOK, Begin, Block, Retry, AfterException, Idle, Sent
<1>9. CASE UNCHANGED breakerVars
  BY <1>2, <1>3, <1>9 DEF breakerVars, Sent
<1> QED
  BY <1>2, <1>3, <1>4, <1>5, <1>6, <1>7, <1>8, <1>9
  DEF Next, Attempt, Answer, Begin, Block, Retry

\* The initial states satisfy the invariant.
LEMMA InvInitially == Init => Inv
<1> SUFFICES ASSUME Init PROVE Inv
  OBVIOUS
<1> USE BreakerAssumption
<1>1. TypeOK /\ OpenAtThreshold /\ StreakCovers
  BY DEF Init, TypeOK, OpenAtThreshold, StreakCovers, Closed, Idle
<1>2. \A k \in Ages : sent[k] = 0
  BY DEF Init
<1>3. Rising /\ Quiet
  BY <1>2 DEF Init, Rising, Quiet, Closed, Ages
<1>4. Accounted /\ SentBounded
  <2>1. sent[ResetTimeout] = 0 /\ circuit.failures = 0
    BY <1>2 DEF Init, Closed, Ages
  <2> QED
    BY <2>1, SentFinite, SentAtMost DEF Accounted, SentBounded
<1> QED
  BY <1>1, <1>3, <1>4 DEF Inv

\* The invariant holds throughout.
LEMMA InvCorrect == Spec => []Inv
<1>1. Inv /\ [Next]_breakerVars => Inv'
  BY TypeInductive, CircuitInductive, QuietInductive, SentInductive DEF Inv
<1> QED
  BY <1>1, InvInitially, PTL DEF Spec

\* The circuit, the calls and what is counted about them have their types (the state
\* of _CircuitState and of the retries around it).
THEOREM TypeCorrect == Spec => []TypeOK
<1>1. Inv => TypeOK
  BY DEF Inv
<1> QED
  BY <1>1, InvCorrect, PTL

\* The circuit is open only after Threshold failing answers in a row, however the answers
\* of concurrent calls fall (record_failure, record_success and is_open).
THEOREM OpenCorrect == Spec => []OpenMeansFailing
<1>1. Inv => OpenMeansFailing
  BY BreakerAssumption DEF Inv, TypeOK, OpenAtThreshold, StreakCovers, OpenMeansFailing
<1> QED
  BY <1>1, InvCorrect, PTL

\* In no ResetTimeout of time without a good answer does the endpoint get more requests
\* than those that open the circuit and what may be under way by then: neither a circuit
\* that closes, nor one that starts anew with many calls waiting, lets more through
\* (resilient; is_open measures the time from the last failure).
THEOREM SentCorrect == Spec => []SentBounded
<1>1. Inv => SentBounded
  BY DEF Inv
<1> QED
  BY <1>1, InvCorrect, PTL

-----------------------------------------------------------------------------
(* Calls come to an end *)

\* The steps that a call can still take at most: three for an attempt to come.
StepsLeft(c) ==
  3 * (MaxAttempts - calls[c].attempt) +
    (CASE calls[c].phase = "backoff" -> 3
       [] calls[c].phase = "ready" -> 2
       [] calls[c].phase = "sent" -> 1
       [] OTHER -> 0)

\* The measure is a number for a call under way.
LEMMA StepsLeftTyped ==
  ASSUME TypeOK, NEW c \in Calls
  PROVE  StepsLeft(c) \in 0 .. 3 * MaxAttempts + 3
<1>1. /\ MaxAttempts \in Nat
      /\ calls[c].attempt \in 0 .. MaxAttempts
      /\ calls[c].phase \in {"idle", "ready", "sent", "backoff"}
  BY BreakerAssumption DEF TypeOK
<1> QED
  BY <1>1 DEF StepsLeft

\* A step of a call is one less for it to take, or its last.
CountsDown(c) ==
  calls'[c] # calls[c] /\ calls[c].phase # "idle" =>
    calls'[c].phase = "idle" \/ StepsLeft(c)' < StepsLeft(c)

\* An attempt that raised costs the call a step, whether it was blocked or failed.
LEMMA ExceptionCounts ==
  ASSUME TypeOK, NEW c \in Calls, calls[c].phase \in {"ready", "sent"},
         calls' = AfterException(c)
  PROVE  calls'[c].phase = "idle" \/ StepsLeft(c)' < StepsLeft(c)
<1>1. /\ MaxAttempts \in Nat
      /\ calls[c].attempt \in 0 .. MaxAttempts
  BY BreakerAssumption DEF TypeOK
<1>2. CASE calls[c].attempt < MaxAttempts
  <2>1. calls'[c] = [phase |-> "backoff", attempt |-> calls[c].attempt + 1]
    BY <1>2 DEF TypeOK, AfterException
  <2>2. calls'[c].phase = "backoff" /\ calls'[c].attempt = calls[c].attempt + 1
    BY <2>1
  <2> QED
    BY <1>1, <2>2 DEF StepsLeft
<1>3. CASE ~ (calls[c].attempt < MaxAttempts)
  BY <1>3 DEF TypeOK, AfterException, Idle
<1> QED
  BY <1>2, <1>3

\* No step of another call, and no answer or timeout, gives a call more to do.
LEMMA StepCounts == TypeOK /\ [Next]_breakerVars => \A c \in Calls : CountsDown(c)
<1> SUFFICES ASSUME TypeOK, [Next]_breakerVars, NEW c \in Calls,
                    calls'[c] # calls[c], calls[c].phase # "idle"
             PROVE  calls'[c].phase = "idle" \/ StepsLeft(c)' < StepsLeft(c)
  BY DEF CountsDown
<1>1. PICK d \in Calls : Begin(d) \/ Attempt(d) \/ Answer(d)
  BY DEF Next, Tick, breakerVars
<1>2. d = c
  <2> SUFFICES ASSUME d # c PROVE calls'[c] = calls[c]
    OBVIOUS
  <2> QED
    BY <1>1 DEF TypeOK, Begin, Attempt, Answer, Request, Block, Retry, Succeed, Fail, AfterException
<1>3. /\ MaxAttempts \in Nat
      /\ calls[c].attempt \in 0 .. MaxAttempts
  BY BreakerAssumption DEF TypeOK
<1>4. CASE Begin(c)
  BY <1>4 DEF Begin
<1>5. CASE Request(c)
  <2>1. calls[c].phase = "ready" /\ calls'[c].phase = "sent" /\ calls'[c].attempt = calls[c].attempt
    BY <1>5 DEF Request, TypeOK
  <2> QED
    BY <1>3, <2>1 DEF StepsLeft
<1>6. CASE Retry(c)
  <2>1. calls[c].phase = "backoff" /\ calls'[c].phase = "ready" /\ calls'[c].attempt = calls[c].attempt
    BY <1>6 DEF Retry, TypeOK
  <2> QED
    BY <1>3, <2>1 DEF StepsLeft
<1>7. CASE Block(c)
  BY <1>7, ExceptionCounts DEF Block
<1>8. CASE Succeed(c)
  BY <1>8 DEF Succeed, TypeOK, Idle
<1>9. CASE Fail(c)
  BY <1>9, ExceptionCounts DEF Fail
<1> QED
  BY <1>1, <1>2, <1>4, <1>5, <1>6, <1>7, <1>8, <1>9 DEF Attempt, Answer

\* A call that begins has less than three steps for each attempt before it, and no more later.
StepsBounded == \A c \in Calls : calls[c].phase # "idle" => StepsLeft(c) < 3 * MaxAttempts

\* Begin is the only step that gives a call something to do (the loop of resilient).
LEMMA StepsStayBounded == TypeOK /\ StepsBounded /\ [Next]_breakerVars => StepsBounded'
<1> SUFFICES ASSUME TypeOK, StepsBounded, [Next]_breakerVars, NEW c \in Calls,
                    calls'[c].phase # "idle"
             PROVE  StepsLeft(c)' < 3 * MaxAttempts
  BY DEF StepsBounded
<1>1. CountsDown(c)
  BY StepCounts
<1>2. MaxAttempts \in Nat \ {0}
  BY BreakerAssumption
<1>3. StepsLeft(c) \in Nat /\ StepsLeft(c)' \in Nat
  BY <1>2, StepsLeftTyped, TypeInductive DEF StepsLeft, TypeOK
<1>4. CASE calls'[c] = calls[c]
  BY <1>4 DEF StepsBounded, StepsLeft
<1>5. CASE calls'[c] # calls[c] /\ calls[c].phase # "idle"
  BY <1>1, <1>2, <1>3, <1>5 DEF CountsDown, StepsBounded
<1>6. CASE calls'[c] # calls[c] /\ calls[c].phase = "idle"
  <2>1. Begin(c)
    BY <1>6 DEF Next, Tick, breakerVars, TypeOK, Begin, Attempt, Answer, Request, Block, Retry,
                Succeed, Fail, AfterException
  <2>2. calls'[c].phase = "ready" /\ calls'[c].attempt = 1
    BY <2>1 DEF Begin, TypeOK
  <2> QED
    BY <1>2, <2>2 DEF StepsLeft
<1> QED
  BY <1>4, <1>5, <1>6

\* Every step of a call brings it nearer to its end, which it reaches, blocked, failing or
\* answered, in fewer than 3 * max_attempts steps, whatever other calls do to the circuit
\* (the loop of resilient). That it steps at all is fairness, and CallsEnd.
THEOREM AttemptsCountDown ==
  Spec => [](TypeOK /\ StepsBounded) /\ [][\A c \in Calls : CountsDown(c)]_breakerVars
<1>1. Init => StepsBounded
  BY DEF Init, Idle, StepsBounded
<1> QED
  BY <1>1, StepCounts, StepsStayBounded, TypeCorrect, PTL DEF Spec
=============================================================================
