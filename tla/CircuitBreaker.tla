--------------------------- MODULE CircuitBreaker ---------------------------
(***************************************************************************)
(* The breaker of the exchange's API (resilient, _CircuitState): calls     *)
(* that share one circuit, each with a number of attempts. Between the     *)
(* request and its answer the other calls go on: the circuit may have been *)
(* opened, closed or reset when an answer is recorded. A blocked attempt   *)
(* counts as one, like one that failed.                                    *)
(***************************************************************************)
EXTENDS Naturals, FiniteSets

CONSTANTS
  Calls,        \* calls of decorated functions that may be under way at a time
  Threshold,    \* THRESHOLD
  ResetTimeout, \* RESET_TIMEOUT, in ticks
  MaxAttempts   \* max_attempts

ASSUME BreakerAssumption ==
  /\ IsFiniteSet(Calls)
  /\ {Threshold, MaxAttempts} \subseteq Nat \ {0}
  /\ ResetTimeout \in Nat

VARIABLES
  circuit,  \* open and failure_count
  age,      \* ticks since last_failure_time, up to the first after the timeout
  calls,    \* each call's phase and attempt
  streak,   \* auxiliary: failing answers since the last good one, up to Threshold
  sent      \* auxiliary: sent[k] is the number of requests at most k ticks ago, since the
            \* last good answer

breakerVars == <<circuit, age, calls, streak, sent>>

Closed == [open |-> FALSE, failures |-> 0]

Idle == [phase |-> "idle", attempt |-> 0]

\* From a request to the end of the timeout.
Ages == 0 .. ResetTimeout

Init ==
  /\ circuit = Closed
  /\ age = ResetTimeout + 1
  /\ calls = [c \in Calls |-> Idle]
  /\ streak = 0
  /\ sent = [k \in Ages |-> 0]

Tick ==
  /\ age' = IF age <= ResetTimeout THEN age + 1 ELSE age
  /\ sent' = [k \in Ages |-> IF k = 0 THEN 0 ELSE sent[k - 1]]
  /\ UNCHANGED <<circuit, calls, streak>>

\* is_open
Blocking == circuit.open /\ age <= ResetTimeout

Begin(c) ==
  /\ calls[c].phase = "idle"
  /\ calls' = [calls EXCEPT ![c] = [phase |-> "ready", attempt |-> 1]]
  /\ UNCHANGED <<circuit, age, streak, sent>>

\* The circuit is closed, or open for long enough: then it starts anew, with any number of
\* calls (the comment of line 68 speaks of one probe).
Request(c) ==
  /\ calls[c].phase = "ready"
  /\ ~Blocking
  /\ circuit' = IF circuit.open THEN Closed ELSE circuit
  /\ sent' = [k \in Ages |-> sent[k] + 1]
  /\ calls' = [calls EXCEPT ![c].phase = "sent"]
  /\ UNCHANGED <<age, streak>>

EndlessAttempts(c) ==  \* mutant: attempts are not counted
  [calls EXCEPT ![c].phase = "backoff"]

OneMoreAttempt(c) ==  \* mutant: <= for <
  [calls EXCEPT ![c] =
     IF @.attempt <= MaxAttempts THEN [phase |-> "backoff", attempt |-> @.attempt + 1] ELSE Idle]

\* The attempt raised: wait and try again, or give up.
AfterException(c) ==
  [calls EXCEPT ![c] =
     IF @.attempt < MaxAttempts THEN [phase |-> "backoff", attempt |-> @.attempt + 1] ELSE Idle]

\* CircuitOpenError
Block(c) ==
  /\ calls[c].phase = "ready"
  /\ Blocking
  /\ calls' = AfterException(c)
  /\ UNCHANGED <<circuit, age, streak, sent>>

Retry(c) ==
  /\ calls[c].phase = "backoff"
  /\ calls' = [calls EXCEPT ![c].phase = "ready"]
  /\ UNCHANGED <<circuit, age, streak, sent>>

\* record_success
HalfClosed == [circuit EXCEPT !.open = FALSE]  \* mutant: the failures stay

SuccessRecorded == [circuit EXCEPT !.open = FALSE, !.failures = 0]

Succeed(c) ==
  /\ calls[c].phase = "sent"
  /\ circuit' = SuccessRecorded
  /\ calls' = [calls EXCEPT ![c] = Idle]
  /\ streak' = 0
  /\ sent' = [k \in Ages |-> 0]
  /\ UNCHANGED age

\* record_failure
FailureRecorded ==
  [circuit EXCEPT !.failures = @ + 1, !.open = @ \/ circuit.failures + 1 >= Threshold]

UntimedFail(c) ==  \* mutant: last_failure_time stays
  /\ calls[c].phase = "sent"
  /\ circuit' = FailureRecorded
  /\ calls' = AfterException(c)
  /\ streak' = IF streak < Threshold THEN streak + 1 ELSE streak
  /\ UNCHANGED <<age, sent>>

Fail(c) ==
  /\ calls[c].phase = "sent"
  /\ circuit' = FailureRecorded
  /\ age' = 0
  /\ calls' = AfterException(c)
  /\ streak' = IF streak < Threshold THEN streak + 1 ELSE streak
  /\ UNCHANGED sent

Attempt(c) == Request(c) \/ Block(c) \/ Retry(c)

Answer(c) == Succeed(c) \/ Fail(c)

Next == Tick \/ \E c \in Calls : Begin(c) \/ Attempt(c) \/ Answer(c)

Spec == Init /\ [][Next]_breakerVars

\* The event loop runs every call on, and every request is answered or times out.
FairSpec == Spec /\ \A c \in Calls : WF_breakerVars(Attempt(c)) /\ WF_breakerVars(Answer(c))

-----------------------------------------------------------------------------
\* Types of _CircuitState and of the calls: no attempt goes past max_attempts.
TypeOK ==
  /\ circuit \in [open : BOOLEAN, failures : Nat]
  /\ age \in 0 .. ResetTimeout + 1
  /\ calls \in [Calls -> [phase : {"idle", "ready", "sent", "backoff"}, attempt : 0 .. MaxAttempts]]
  /\ streak \in 0 .. Threshold
  /\ sent \in [Ages -> Nat]

\* The circuit is open only after as many failing answers in a row as it takes,
\* however the answers of concurrent calls fall: "consecutive failures before tripping".
OpenMeansFailing == circuit.open => streak = Threshold

\* A failing endpoint is not hammered: in no ResetTimeout of time without a good answer
\* does it get more requests than those that open the circuit and what may be under way
\* by then, the calls that a circuit which starts anew lets through included.
SentBounded == sent[ResetTimeout] <= Threshold - 1 + Cardinality(Calls)

\* Every call comes to an end, blocked or not.
CallsEnd == \A c \in Calls : calls[c].phase = "ready" ~> calls[c].phase = "idle"
=============================================================================
