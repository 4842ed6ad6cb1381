--------------------------- MODULE CircuitBreaker ---------------------------
(***************************************************************************)
(* One backend's circuit breaker (inferroute/circuit_breaker.py).  Its     *)
(* four Redis keys are shared by every request of every gateway replica,   *)
(* and each `await` on Redis is a point where another request may run, so  *)
(* each action below is one Redis command together with the local code     *)
(* that follows it up to the next command.                                 *)
(*                                                                         *)
(* The clock is abstracted to what the code compares: `age` is the number  *)
(* of ticks since opened_at was written, saturating at RecoveryTimeout.    *)
(***************************************************************************)
EXTENDS Integers

CONSTANTS
    Workers,           \* requests in flight; a worker serves one after another
    FailureThreshold,  \* CB_FAILURE_THRESHOLD
    SuccessThreshold,  \* CB_SUCCESS_THRESHOLD
    RecoveryTimeout,   \* CB_RECOVERY_TIMEOUT_S, in ticks
    Chaos,             \* whether operators use POST /v1/chaos/inject
    MaxErrors          \* bound on the Redis errors of a behaviour

ASSUME ThresholdAssumption ==
    /\ FailureThreshold \in Nat \ {0}
    /\ SuccessThreshold \in Nat \ {0}
    /\ RecoveryTimeout \in Nat
    /\ Chaos \in BOOLEAN
    /\ MaxErrors \in Nat

VARIABLES
    state,         \* the :state key; an absent key reads as CLOSED
    failCount,     \* the :fail_count key
    successCount,  \* the :success_count key
    age,           \* age of the :opened_at key, Never while it is absent
    pc,            \* where each worker is
    errors,        \* Redis errors so far
    crossed        \* auxiliary: methods overlapped since all were last done

vars == <<state, failCount, successCount, age, pc, errors, crossed>>

Never == -1

States == {"CLOSED", "OPEN", "HALF_OPEN"}

InCall    == {"calling", "probing"}           \* allowed; the backend call runs
InAllow   == {"a_opened", "a_half", "a_succ"} \* inside allow_request
InSuccess == {"s_incr", "s_reset"}            \* inside record_success
InFailure == {"f_incr"}                       \* inside record_failure
InOpen    == {"o_state", "o_time", "o_fail", "o_succ"}  \* inside _open
InClose   == {"c_state", "c_fail", "c_succ"}            \* inside _close

\* Between the first and the last Redis command of a method.
Inside == InAllow \cup InSuccess \cup InFailure \cup InOpen \cup InClose

Phases == {"idle"} \cup InCall \cup Inside

TypeOK ==
    /\ state \in States
    /\ failCount \in Nat
    /\ successCount \in Nat
    /\ age \in {Never} \cup 0..RecoveryTimeout
    /\ pc \in [Workers -> Phases]
    /\ errors \in 0..MaxErrors
    /\ crossed \in BOOLEAN

Init ==
    /\ state = "CLOSED"
    /\ failCount = 0
    /\ successCount = 0
    /\ age = Never
    /\ pc = [w \in Workers |-> "idle"]
    /\ errors = 0
    /\ crossed = FALSE

\* Every step of a worker; `crossed` only records what the steps did.
Goto(w, phase) ==
    /\ pc' = [pc EXCEPT ![w] = phase]
    /\ crossed' = \E u \in Workers :
                     /\ pc'[u] \in Inside
                     /\ crossed \/ \E v \in Workers \ {u} : pc'[v] \in Inside

-----------------------------------------------------------------------------
(* allow_request *)

\* The state read decides; HALF_OPEN admits everyone who reads it.
AskState(w) ==
    /\ pc[w] = "idle"
    /\ \/ state = "CLOSED"    /\ Goto(w, "calling")
       \/ state = "HALF_OPEN" /\ Goto(w, "probing")
       \/ state = "OPEN"      /\ Goto(w, "a_opened")
    /\ UNCHANGED <<state, failCount, successCount, age, errors>>

\* A missing opened_at admits the request and leaves the state OPEN.
AskOpenedAt(w) ==
    /\ pc[w] = "a_opened"
    /\ \/ age = Never                       /\ Goto(w, "calling")
       \/ age = RecoveryTimeout             /\ Goto(w, "a_half")
       \/ age \in 0..(RecoveryTimeout - 1)  /\ Goto(w, "idle")
    /\ UNCHANGED <<state, failCount, successCount, age, errors>>

\* Fault: the state is written under the name the documentation uses.
MisspellHalfOpen(w) ==
    /\ pc[w] = "a_half"
    /\ state' = "HALF-OPEN"
    /\ Goto(w, "a_succ")
    /\ UNCHANGED <<failCount, successCount, age, errors>>

EnterHalfOpen(w) ==
    /\ pc[w] = "a_half"
    /\ state' = "HALF_OPEN"
    /\ Goto(w, "a_succ")
    /\ UNCHANGED <<failCount, successCount, age, errors>>

ResetProbes(w) ==
    /\ pc[w] = "a_succ"
    /\ successCount' = 0
    /\ Goto(w, "probing")
    /\ UNCHANGED <<state, failCount, age, errors>>

-----------------------------------------------------------------------------
(* The caller.  Routing asks every candidate's breaker and uses one of     *)
(* them, and fallback calls are made without asking.                       *)

NotChosen(w) ==
    /\ pc[w] \in InCall
    /\ Goto(w, "idle")
    /\ UNCHANGED <<state, failCount, successCount, age, errors>>

CallUnasked(w) ==
    /\ pc[w] = "idle"
    /\ Goto(w, "calling")
    /\ UNCHANGED <<state, failCount, successCount, age, errors>>

-----------------------------------------------------------------------------
(* record_success *)

RecordSuccess(w) ==
    /\ pc[w] \in InCall
    /\ \/ state = "HALF_OPEN" /\ Goto(w, "s_incr")
       \/ state = "CLOSED"    /\ Goto(w, "s_reset")
       \/ state = "OPEN"      /\ Goto(w, "idle")
    /\ UNCHANGED <<state, failCount, successCount, age, errors>>

\* Fault: reaching the threshold clears the counters but not the state.
CountSuccessOnly(w) ==
    /\ pc[w] = "s_incr"
    /\ successCount' = successCount + 1
    /\ Goto(w, IF successCount' >= SuccessThreshold THEN "c_fail" ELSE "idle")
    /\ UNCHANGED <<state, failCount, age, errors>>

CountSuccess(w) ==
    /\ pc[w] = "s_incr"
    /\ successCount' = successCount + 1
    /\ Goto(w, IF successCount' >= SuccessThreshold THEN "c_state" ELSE "idle")
    /\ UNCHANGED <<state, failCount, age, errors>>

ForgetFailures(w) ==
    /\ pc[w] = "s_reset"
    /\ failCount' = 0
    /\ Goto(w, "idle")
    /\ UNCHANGED <<state, successCount, age, errors>>

(* record_failure *)

RecordFailure(w) ==
    /\ pc[w] \in InCall
    /\ \/ state = "HALF_OPEN" /\ Goto(w, "o_state")
       \/ state = "CLOSED"    /\ Goto(w, "f_incr")
       \/ state = "OPEN"      /\ Goto(w, "idle")
    /\ UNCHANGED <<state, failCount, successCount, age, errors>>

\* Fault: a count that reached the threshold before is left to whoever did it.
CountFailureOnce(w) ==
    /\ pc[w] = "f_incr"
    /\ IF failCount < FailureThreshold
       THEN /\ failCount' = failCount + 1
            /\ Goto(w, IF failCount' >= FailureThreshold THEN "o_state" ELSE "idle")
       ELSE Goto(w, "idle") /\ UNCHANGED failCount
    /\ UNCHANGED <<state, successCount, age, errors>>

\* Fault: the threshold is compared one failure too early.
CountFailureEarly(w) ==
    /\ pc[w] = "f_incr"
    /\ failCount' = failCount + 1
    /\ Goto(w, IF failCount' + 1 >= FailureThreshold THEN "o_state" ELSE "idle")
    /\ UNCHANGED <<state, successCount, age, errors>>

CountFailure(w) ==
    /\ pc[w] = "f_incr"
    /\ failCount' = failCount + 1
    /\ Goto(w, IF failCount' >= FailureThreshold THEN "o_state" ELSE "idle")
    /\ UNCHANGED <<state, successCount, age, errors>>

-----------------------------------------------------------------------------
(* _open, also entered by the operator's POST /v1/chaos/inject *)

ChaosInject(w) ==
    /\ Chaos
    /\ pc[w] = "idle"
    /\ Goto(w, "o_state")
    /\ UNCHANGED <<state, failCount, successCount, age, errors>>

OpenState(w) ==
    /\ pc[w] = "o_state"
    /\ state' = "OPEN"
    /\ Goto(w, "o_time")
    /\ UNCHANGED <<failCount, successCount, age, errors>>

OpenTime(w) ==
    /\ pc[w] = "o_time"
    /\ age' = 0
    /\ Goto(w, "o_fail")
    /\ UNCHANGED <<state, failCount, successCount, errors>>

OpenFailCount(w) ==
    /\ pc[w] = "o_fail"
    /\ failCount' = 0
    /\ Goto(w, "o_succ")
    /\ UNCHANGED <<state, successCount, age, errors>>

OpenSuccessCount(w) ==
    /\ pc[w] = "o_succ"
    /\ successCount' = 0
    /\ Goto(w, "idle")
    /\ UNCHANGED <<state, failCount, age, errors>>

(* _close *)

CloseState(w) ==
    /\ pc[w] = "c_state"
    /\ state' = "CLOSED"
    /\ Goto(w, "c_fail")
    /\ UNCHANGED <<failCount, successCount, age, errors>>

CloseFailCount(w) ==
    /\ pc[w] = "c_fail"
    /\ failCount' = 0
    /\ Goto(w, "c_succ")
    /\ UNCHANGED <<state, successCount, age, errors>>

\* Fault: closing leaves the count of successful probes.
CloseKeepingSuccesses(w) ==
    /\ pc[w] = "c_succ"
    /\ Goto(w, "idle")
    /\ UNCHANGED <<state, failCount, successCount, age, errors>>

CloseSuccessCount(w) ==
    /\ pc[w] = "c_succ"
    /\ successCount' = 0
    /\ Goto(w, "idle")
    /\ UNCHANGED <<state, failCount, age, errors>>

-----------------------------------------------------------------------------
(* A Redis error ends the current method: allow_request answers True, the  *)
(* record methods give up with the keys they have written so far.  A        *)
(* command applied although its reply was lost is the command's own action *)
(* followed by this one.  A gateway that dies mid-method leaves the same   *)
(* keys behind.                                                            *)
RedisError(w) ==
    /\ errors < MaxErrors
    /\ errors' = errors + 1
    /\ \/ pc[w] \in {"idle"} \cup InAllow /\ Goto(w, "calling")
       \/ pc[w] \in InCall \cup InSuccess \cup InFailure \cup InOpen \cup InClose
          /\ Goto(w, "idle")
    /\ UNCHANGED <<state, failCount, successCount, age>>

Tick ==
    /\ age \in 0..(RecoveryTimeout - 1)
    /\ age' = age + 1
    /\ UNCHANGED <<state, failCount, successCount, pc, errors, crossed>>

-----------------------------------------------------------------------------

\* The steps of a method already begun.
Proceed(w) ==
    \/ AskOpenedAt(w) \/ EnterHalfOpen(w) \/ ResetProbes(w)
    \/ CountSuccess(w) \/ ForgetFailures(w) \/ CountFailure(w)
    \/ OpenState(w) \/ OpenTime(w) \/ OpenFailCount(w) \/ OpenSuccessCount(w)
    \/ CloseState(w) \/ CloseFailCount(w) \/ CloseSuccessCount(w)

Record(w) == RecordSuccess(w) \/ RecordFailure(w)

Next ==
    \/ Tick
    \/ \E w \in Workers :
          \/ AskState(w) \/ NotChosen(w) \/ CallUnasked(w)
          \/ Record(w) \/ Proceed(w)
          \/ ChaosInject(w) \/ RedisError(w)

Spec == Init /\ [][Next]_vars

\* The event loop runs every method it has begun, time passes, and traffic
\* goes on: requests keep asking the breaker and keep reporting outcomes,
\* with no assumption on which.
Fairness ==
    /\ WF_vars(Tick)
    /\ \A w \in Workers :
          /\ WF_vars(Proceed(w))
          /\ SF_vars(AskState(w))
          /\ SF_vars(Record(w))

FairSpec == Spec /\ Fairness

-----------------------------------------------------------------------------
(* Properties *)

Busy(phases) == \E w \in Workers : pc[w] \in phases

\* A tripped counter is acted upon: while no Redis command has failed, a
\* fail_count at its threshold means some request is still carrying out
\* _open, however many other requests reset, close or half-open in between.
NoLostTrip ==
    errors = 0 /\ failCount >= FailureThreshold
        => Busy({"o_state", "o_time", "o_fail"})

\* The same for recovery: a success_count at its threshold means a request
\* is still carrying out _close (or an _open that clears the counter).
NoLostRecovery ==
    errors = 0 /\ successCount >= SuccessThreshold => Busy(InClose)

\* An OPEN breaker has an opened_at to recover by, except while the request
\* that opened it is between its first two writes.
OpenHasTimestamp ==
    errors = 0 /\ state = "OPEN" /\ age = Never => Busy({"o_time"})

\* No interleaving of the commands loses a transition that is due.
NothingLost == NoLostTrip /\ NoLostRecovery /\ OpenHasTimestamp

CountsFailure == \E w \in Workers :
    pc[w] # pc'[w] /\ pc'[w] \in {"f_incr", "o_state"}

CountsSuccess == \E w \in Workers :
    pc[w] # pc'[w] /\ pc'[w] \in InSuccess

\* OPEN without a timestamp: everyone is admitted and no report is counted.
StuckOpen == errors > 0 /\ state = "OPEN" /\ age = Never

\* Self-healing: once failures and trips stop, the breaker closes for good,
\* whatever stale writes were still in flight.  The one exception is a first
\* trip that a Redis error cut off between its two writes.
HealsWhenHealthy ==
    <>[][~CountsFailure]_vars => <>[](state = "CLOSED" \/ StuckOpen)

\* Protection: while calls only fail, the breaker is OPEN again and again,
\* also after a Redis error interrupted a trip.
TripsWhenFailing == <>[][~CountsSuccess]_vars => []<>(state = "OPEN")

\* The contract the keys are compared with.  A method in progress counts as
\* done: its first write decides the transition.
Contract == INSTANCE BreakerContract WITH
    state <- IF Busy(InOpen) THEN "OPEN"
             ELSE IF Busy(InClose) THEN "CLOSED"
             ELSE IF Busy({"a_half", "a_succ"}) THEN "HALF_OPEN" ELSE state,
    failures <- IF Busy(InOpen \cup InClose) THEN 0 ELSE failCount,
    successes <- IF Busy(InOpen \cup InClose \cup {"a_half", "a_succ"})
                 THEN 0 ELSE successCount,
    age <- IF Busy({"o_state", "o_time"}) THEN 0 ELSE age

Moves(from, to) == \E w \in Workers :
    pc[w] # pc'[w] /\ pc[w] \in from /\ pc'[w] \in to

\* The steps at which an operator's trip, a failure and a success take effect.
OperatorTrips   == Moves({"idle"}, {"o_state"})
FailureCounted  == Moves(InFailure, Phases) \/ Moves(InCall, {"o_state"})
SuccessCounted  == Moves(InSuccess, Phases)

OneTransition ==
    /\ OperatorTrips  => Contract!OperatorTrip
    /\ FailureCounted => Contract!Failure
    /\ SuccessCounted => Contract!Success
    /\ ~(OperatorTrips \/ FailureCounted \/ SuccessCounted) => Contract!Unreported

\* However many calls are in flight, and whatever earlier overlaps and Redis
\* errors left in the keys: while no two methods overlap and no command
\* fails, every step is exactly one transition of the documented state
\* machine.  A counted failure is a Failure and a counted success a Success,
\* and only an operator trips the breaker out of turn.
UncrossedMeetsContract ==
    /\ Contract!Init
    /\ [][~crossed /\ ~crossed' /\ errors' = errors => OneTransition]_vars

-----------------------------------------------------------------------------
(* What the documentation says *)

\* circuit_breaker.py: "HALF_OPEN - one probe request is allowed through".
SingleProbe ==
    \A v, w \in Workers : pc[v] = "probing" /\ pc[w] = "probing" => v = w

\* circuit_breaker.py: "OPEN - backend is bypassed for recovery_timeout
\* seconds": an OPEN breaker does not turn HALF_OPEN before that.
BypassedUntilTimeout ==
    [][state = "OPEN" /\ state' = "HALF_OPEN" => age = RecoveryTimeout]_vars

\* failure-injection.md: "After CB_RECOVERY_TIMEOUT_S the circuit breaker
\* enters the HALF-OPEN state": a breaker that is not tripped again does not
\* stay OPEN for ever.
OpenIsLeft == <>[][~CountsFailure]_vars => []<>(state # "OPEN")
=============================================================================
