----------------------- MODULE CircuitBreaker_proofs -----------------------
(***************************************************************************)
(* Proofs about CircuitBreaker for any workers, thresholds and timeout.    *)
(* Each of the three safety properties says that an unfinished transition  *)
(* is in somebody's hands, so the argument is the same for all of them:    *)
(* a step of one worker leaves the others' program counters alone, and the *)
(* worker that holds the transition either keeps holding it or finishes it.*)
(***************************************************************************)
EXTENDS CircuitBreaker, TLAPS

\* The inductive invariant: the properties themselves, with the types.
IInv == TypeOK /\ NoLostTrip /\ NoLostRecovery /\ OpenHasTimestamp

\* A worker's move keeps a set of phases occupied unless it leaves the set.
LEMMA BusyKept ==
    ASSUME NEW w \in Workers, NEW phase, NEW S, TypeOK, Goto(w, phase),
           Busy(S), pc[w] \in S => phase \in S
    PROVE  Busy(S)'
<1>1. PICK v \in Workers : pc[v] \in S
  BY DEF Busy
<1>2. pc'[v] \in S
  BY <1>1 DEF TypeOK, Goto
<1> QED
  BY <1>2 DEF Busy

\* A worker's move occupies the phase it goes to.
LEMMA BusyEntered ==
    ASSUME NEW w \in Workers, NEW phase, NEW S, TypeOK, Goto(w, phase), phase \in S
    PROVE  Busy(S)'
BY DEF TypeOK, Goto, Busy

\* A worker's move keeps the types of what it moves.
LEMMA GotoTyped ==
    ASSUME NEW w \in Workers, NEW phase \in Phases, TypeOK, Goto(w, phase)
    PROVE  pc' \in [Workers -> Phases] /\ crossed' \in BOOLEAN
<1>1. pc' \in [Workers -> Phases]
  BY DEF Goto, TypeOK
<1>2. crossed' \in BOOLEAN
  BY DEF Goto
<1> QED
  BY <1>1, <1>2

\* The types of the keys, and of what a move does not touch.
KeysTyped ==
    /\ state \in States
    /\ failCount \in Nat
    /\ successCount \in Nat
    /\ age \in {Never} \cup 0..RecoveryTimeout
    /\ errors \in 0..MaxErrors

\* Every reachable state is well typed: initially, and after each step.
LEMMA TypeStep == TypeOK /\ [Next]_vars => TypeOK'
<1> SUFFICES ASSUME TypeOK, [Next]_vars PROVE TypeOK'
  OBVIOUS
<1> USE ThresholdAssumption
<1>k. KeysTyped /\ pc \in [Workers -> Phases] /\ crossed \in BOOLEAN
  BY DEF TypeOK, KeysTyped
<1>m. ASSUME NEW w \in Workers, NEW phase \in Phases, KeysTyped', Goto(w, phase)
      PROVE  TypeOK'
  BY <1>m, GotoTyped DEF TypeOK, KeysTyped
<1>h. \A phase \in {"idle", "calling", "probing", "a_opened", "a_half", "a_succ", "s_incr",
              "s_reset", "f_incr", "o_state", "o_time", "o_fail", "o_succ", "c_state",
              "c_fail", "c_succ"} : phase \in Phases
  BY DEF Phases, InCall, Inside, InAllow, InSuccess, InFailure, InOpen, InClose
<1>t. CASE Tick
  <2>1. KeysTyped' /\ UNCHANGED <<pc, crossed>>
    BY <1>t, <1>k DEF Tick, KeysTyped, Never
  <2> QED
    BY <2>1, <1>k DEF TypeOK, KeysTyped
<1>w. ASSUME NEW w \in Workers,
             AskState(w) \/ NotChosen(w) \/ CallUnasked(w) \/ Record(w)
               \/ ChaosInject(w) \/ RedisError(w)
      PROVE  TypeOK'
  <2>1. KeysTyped'
    BY <1>w, <1>k DEF AskState, NotChosen, CallUnasked, Record, RecordSuccess,
                RecordFailure, ChaosInject, RedisError, KeysTyped
  <2>2. \E phase \in Phases : Goto(w, phase)
    BY <1>w, <1>h DEF AskState, NotChosen, CallUnasked, Record, RecordSuccess,
                RecordFailure, ChaosInject, RedisError
  <2> QED
    BY <2>1, <2>2, <1>m
<1>p. ASSUME NEW w \in Workers, Proceed(w) PROVE TypeOK'
  <2>1. KeysTyped'
    BY <1>p, <1>k DEF Proceed, AskOpenedAt, EnterHalfOpen, ResetProbes, CountSuccess,
                ForgetFailures, CountFailure, OpenState, OpenTime, OpenFailCount,
                OpenSuccessCount, CloseState, CloseFailCount, CloseSuccessCount,
                KeysTyped, States
  <2>2. \E phase \in Phases : Goto(w, phase)
    BY <1>p, <1>h DEF Proceed, AskOpenedAt, EnterHalfOpen, ResetProbes, CountSuccess,
                ForgetFailures, CountFailure, OpenState, OpenTime, OpenFailCount,
                OpenSuccessCount, CloseState, CloseFailCount, CloseSuccessCount
  <2> QED
    BY <2>1, <2>2, <1>m
<1>u. CASE UNCHANGED vars
  BY <1>u DEF vars, TypeOK
<1> QED
  BY <1>t, <1>w, <1>p, <1>u DEF Next

\* The initial state is well typed.
LEMMA TypeInit == Init => TypeOK
<1> SUFFICES ASSUME Init PROVE TypeOK
  OBVIOUS
<1>1. pc \in [Workers -> Phases]
  BY DEF Init, Phases
<1>2. crossed \in BOOLEAN
  BY DEF Init
<1> QED
  BY <1>1, <1>2, ThresholdAssumption DEF Init, TypeOK, States, Never

\* Types, for every behaviour.
THEOREM TypeCorrect == Spec => []TypeOK
  BY TypeInit, TypeStep, PTL DEF Spec

-----------------------------------------------------------------------------

\* The phases in which a worker still owes the key its write.
Tripping == {"o_state", "o_time", "o_fail"}

\* A counter at its failure threshold stays in the hands of a tripping worker.
LEMMA TripStep ==
    ASSUME TypeOK, NoLostTrip, [Next]_vars
    PROVE  NoLostTrip'
<1> USE ThresholdAssumption
<1> SUFFICES ASSUME errors' = 0, failCount' >= FailureThreshold
             PROVE  Busy(Tripping)'
  BY DEF NoLostTrip, Busy, Tripping
<1>h. ASSUME errors = 0, failCount >= FailureThreshold PROVE Busy(Tripping)
  BY <1>h DEF NoLostTrip, Busy, Tripping
<1>t. CASE Tick
  BY <1>t, <1>h DEF Tick, Busy
<1>u. CASE UNCHANGED vars
  BY <1>u, <1>h DEF vars, Busy
<1>a. ASSUME NEW w \in Workers,
             AskState(w) \/ NotChosen(w) \/ CallUnasked(w) \/ ChaosInject(w)
      PROVE  Busy(Tripping)'
  BY <1>a, <1>h, BusyKept
     DEF AskState, NotChosen, CallUnasked, ChaosInject, InCall, Tripping
<1>r. ASSUME NEW w \in Workers, Record(w) PROVE Busy(Tripping)'
  BY <1>r, <1>h, BusyKept DEF Record, RecordSuccess, RecordFailure, InCall, Tripping
<1>e. ASSUME NEW w \in Workers, RedisError(w) PROVE FALSE
  BY <1>e DEF RedisError, TypeOK
<1>p. ASSUME NEW w \in Workers, Proceed(w) PROVE Busy(Tripping)'
  <2>1. CASE AskOpenedAt(w) \/ EnterHalfOpen(w) \/ ResetProbes(w)
    BY <2>1, <1>h, BusyKept DEF AskOpenedAt, EnterHalfOpen, ResetProbes, Tripping
  <2>2. CASE CountSuccess(w)
    BY <2>2, <1>h, BusyKept DEF CountSuccess, Tripping
  <2>3. CASE CountFailure(w)
    <3>1. failCount' = failCount + 1 /\ Goto(w, "o_state")
      BY <2>3 DEF CountFailure
    <3> QED
      BY <3>1, BusyEntered DEF Tripping
  <2>4. CASE ForgetFailures(w) \/ OpenFailCount(w) \/ CloseFailCount(w)
    BY <2>4 DEF ForgetFailures, OpenFailCount, CloseFailCount
  <2>5. CASE OpenState(w) \/ OpenTime(w)
    BY <2>5, BusyEntered DEF OpenState, OpenTime, Tripping
  <2>6. CASE OpenSuccessCount(w) \/ CloseState(w) \/ CloseSuccessCount(w)
    BY <2>6, <1>h, BusyKept DEF OpenSuccessCount, CloseState, CloseSuccessCount, Tripping
  <2> QED
    BY <1>p, <2>1, <2>2, <2>3, <2>4, <2>5, <2>6 DEF Proceed
<1> QED
  BY <1>t, <1>u, <1>a, <1>r, <1>e, <1>p DEF Next

\* A success counter at its threshold stays in the hands of a closing worker.
LEMMA RecoveryStep ==
    ASSUME TypeOK, NoLostRecovery, [Next]_vars
    PROVE  NoLostRecovery'
<1> USE ThresholdAssumption
<1> SUFFICES ASSUME errors' = 0, successCount' >= SuccessThreshold
             PROVE  Busy(InClose)'
  BY DEF NoLostRecovery, Busy, InClose
<1>h. ASSUME errors = 0, successCount >= SuccessThreshold PROVE Busy(InClose)
  BY <1>h DEF NoLostRecovery
<1>t. CASE Tick
  BY <1>t, <1>h DEF Tick, Busy
<1>u. CASE UNCHANGED vars
  BY <1>u, <1>h DEF vars, Busy
<1>a. ASSUME NEW w \in Workers,
             AskState(w) \/ NotChosen(w) \/ CallUnasked(w) \/ ChaosInject(w)
      PROVE  Busy(InClose)'
  BY <1>a, <1>h, BusyKept
     DEF AskState, NotChosen, CallUnasked, ChaosInject, InCall, InClose
<1>r. ASSUME NEW w \in Workers, Record(w) PROVE Busy(InClose)'
  BY <1>r, <1>h, BusyKept DEF Record, RecordSuccess, RecordFailure, InCall, InClose
<1>e. ASSUME NEW w \in Workers, RedisError(w) PROVE FALSE
  BY <1>e DEF RedisError, TypeOK
<1>p. ASSUME NEW w \in Workers, Proceed(w) PROVE Busy(InClose)'
  <2>1. CASE AskOpenedAt(w) \/ EnterHalfOpen(w)
    BY <2>1, <1>h, BusyKept DEF AskOpenedAt, EnterHalfOpen, InClose
  <2>2. CASE CountSuccess(w)
    <3>1. successCount' = successCount + 1 /\ Goto(w, "c_state")
      BY <2>2 DEF CountSuccess
    <3> QED
      BY <3>1, BusyEntered DEF InClose
  <2>3. CASE CountFailure(w) \/ ForgetFailures(w)
    BY <2>3, <1>h, BusyKept DEF CountFailure, ForgetFailures, InClose
  <2>4. CASE ResetProbes(w) \/ OpenSuccessCount(w) \/ CloseSuccessCount(w)
    BY <2>4 DEF ResetProbes, OpenSuccessCount, CloseSuccessCount
  <2>5. CASE OpenState(w) \/ OpenTime(w) \/ OpenFailCount(w)
    BY <2>5, <1>h, BusyKept DEF OpenState, OpenTime, OpenFailCount, InClose
  <2>6. CASE CloseState(w) \/ CloseFailCount(w)
    BY <2>6, BusyEntered DEF CloseState, CloseFailCount, InClose
  <2> QED
    BY <1>p, <2>1, <2>2, <2>3, <2>4, <2>5, <2>6 DEF Proceed
<1> QED
  BY <1>t, <1>u, <1>a, <1>r, <1>e, <1>p DEF Next

\* An OPEN state without opened_at stays in the hands of the worker that is
\* about to write it.
LEMMA TimestampStep ==
    ASSUME TypeOK, OpenHasTimestamp, [Next]_vars
    PROVE  OpenHasTimestamp'
<1> USE ThresholdAssumption
<1> SUFFICES ASSUME errors' = 0, state' = "OPEN", age' = Never
             PROVE  Busy({"o_time"})'
  BY DEF OpenHasTimestamp, Busy
<1>h. ASSUME errors = 0, state = "OPEN", age = Never PROVE Busy({"o_time"})
  BY <1>h DEF OpenHasTimestamp
<1>t. CASE Tick
  BY <1>t DEF Tick, Never
<1>u. CASE UNCHANGED vars
  BY <1>u, <1>h DEF vars, Busy
<1>a. ASSUME NEW w \in Workers,
             AskState(w) \/ NotChosen(w) \/ CallUnasked(w) \/ ChaosInject(w)
      PROVE  Busy({"o_time"})'
  BY <1>a, <1>h, BusyKept DEF AskState, NotChosen, CallUnasked, ChaosInject, InCall
<1>r. ASSUME NEW w \in Workers, Record(w) PROVE Busy({"o_time"})'
  BY <1>r, <1>h, BusyKept DEF Record, RecordSuccess, RecordFailure, InCall
<1>e. ASSUME NEW w \in Workers, RedisError(w) PROVE FALSE
  BY <1>e DEF RedisError, TypeOK
<1>p. ASSUME NEW w \in Workers, Proceed(w) PROVE Busy({"o_time"})'
  <2>1. CASE AskOpenedAt(w) \/ ResetProbes(w)
    BY <2>1, <1>h, BusyKept DEF AskOpenedAt, ResetProbes
  <2>2. CASE CountSuccess(w) \/ CountFailure(w) \/ ForgetFailures(w)
    BY <2>2, <1>h, BusyKept DEF CountSuccess, CountFailure, ForgetFailures
  <2>3. CASE EnterHalfOpen(w) \/ CloseState(w)
    BY <2>3 DEF EnterHalfOpen, CloseState
  <2>4. CASE OpenState(w)
    BY <2>4, BusyEntered DEF OpenState
  <2>5. CASE OpenTime(w)
    BY <2>5 DEF OpenTime, Never
  <2>6. CASE OpenFailCount(w) \/ OpenSuccessCount(w)
    BY <2>6, <1>h, BusyKept DEF OpenFailCount, OpenSuccessCount
  <2>7. CASE CloseFailCount(w) \/ CloseSuccessCount(w)
    BY <2>7, <1>h, BusyKept DEF CloseFailCount, CloseSuccessCount
  <2> QED
    BY <1>p, <2>1, <2>2, <2>3, <2>4, <2>5, <2>6, <2>7 DEF Proceed
<1> QED
  BY <1>t, <1>u, <1>a, <1>r, <1>e, <1>p DEF Next

\* No trip and no recovery is ever lost between requests, and no breaker is
\* left OPEN without the time to recover by, whatever the number of requests
\* and the thresholds, as long as Redis answers.
THEOREM TransitionsKept == Spec => []NothingLost
<1>1. Init => IInv
  BY TypeInit, ThresholdAssumption
     DEF Init, IInv, NoLostTrip, NoLostRecovery, OpenHasTimestamp
<1>2. IInv /\ [Next]_vars => IInv'
  BY TypeStep, TripStep, RecoveryStep, TimestampStep DEF IInv
<1>3. IInv => NothingLost
  BY DEF IInv, NothingLost
<1> QED
  BY <1>1, <1>2, <1>3, PTL DEF Spec

-----------------------------------------------------------------------------
(* The contract, for methods that nobody crosses.                           *)

\* The set of phases in which a method has read or written a key already.
LEMMA InsideIs ==
    Inside = {"a_opened", "a_half", "a_succ", "s_incr", "s_reset", "f_incr",
              "o_state", "o_time", "o_fail", "o_succ", "c_state", "c_fail", "c_succ"}
BY DEF Inside, InAllow, InSuccess, InFailure, InOpen, InClose

\* What a worker inside a method knows of the keys, if nobody but it has
\* written them since it read the state, or since its own first write.
KnowsKeys(w) ==
    /\ pc[w] \in {"a_opened", "o_time", "o_fail", "o_succ"} => state = "OPEN"
    /\ pc[w] \in {"a_succ", "s_incr"} => state = "HALF_OPEN"
    /\ pc[w] \in {"s_reset", "f_incr", "c_fail", "c_succ"} => state = "CLOSED"
    /\ pc[w] \in {"o_succ", "c_succ"} => failCount = 0

\* Two methods at once are recorded, and until then each knows its keys.
CrossInv ==
    /\ TypeOK
    /\ \A u, v \in Workers : pc[u] \in Inside /\ pc[v] \in Inside => u = v \/ crossed
    /\ ~crossed => \A w \in Workers : KnowsKeys(w)

\* All the others are outside their methods, before and after the step.
Lone(w) == \A u \in Workers \ {w} : pc[u] \notin Inside /\ pc'[u] \notin Inside

\* A worker that takes a step of a method is alone in one, if nobody crosses.
LEMMA AloneInside ==
    ASSUME NEW w \in Workers, NEW phase, CrossInv, Goto(w, phase), ~crossed, ~crossed',
           pc[w] \in Inside \/ phase \in Inside
    PROVE  Lone(w)
<1>1. pc'[w] = phase /\ \A u \in Workers \ {w} : pc'[u] = pc[u]
  BY DEF CrossInv, TypeOK, Goto
<1> QED
  BY <1>1 DEF CrossInv, Goto, Lone

\* The keys as the contract sees them.
SeenState(w) ==
    IF pc[w] \in InOpen THEN "OPEN"
    ELSE IF pc[w] \in InClose THEN "CLOSED"
    ELSE IF pc[w] \in {"a_half", "a_succ"} THEN "HALF_OPEN" ELSE state
SeenFailures(w) == IF pc[w] \in InOpen \cup InClose THEN 0 ELSE failCount
SeenSuccesses(w) ==
    IF pc[w] \in InOpen \cup InClose \cup {"a_half", "a_succ"} THEN 0 ELSE successCount
SeenAge(w) == IF pc[w] \in {"o_state", "o_time"} THEN 0 ELSE age

Seen(w) == <<SeenState(w), SeenFailures(w), SeenSuccesses(w), SeenAge(w)>>

\* The refinement mapping of the contract.
Mapping ==
    <<IF Busy(InOpen) THEN "OPEN"
      ELSE IF Busy(InClose) THEN "CLOSED"
      ELSE IF Busy({"a_half", "a_succ"}) THEN "HALF_OPEN" ELSE state,
      IF Busy(InOpen \cup InClose) THEN 0 ELSE failCount,
      IF Busy(InOpen \cup InClose \cup {"a_half", "a_succ"}) THEN 0 ELSE successCount,
      IF Busy({"o_state", "o_time"}) THEN 0 ELSE age>>

\* The refinement mapping is what a lone worker does.
LEMMA SeenIsMapping ==
    ASSUME NEW w \in Workers, Lone(w)
    PROVE  Seen(w) = Mapping /\ Seen(w)' = Mapping'
<1>1. ASSUME NEW S, S \subseteq Inside
      PROVE  (Busy(S) <=> pc[w] \in S) /\ (Busy(S)' <=> pc'[w] \in S)
  BY <1>1 DEF Busy, Lone
<1>2. /\ InOpen \subseteq Inside /\ InClose \subseteq Inside
      /\ {"a_half", "a_succ"} \subseteq Inside /\ {"o_state", "o_time"} \subseteq Inside
      /\ InOpen \cup InClose \subseteq Inside
      /\ InOpen \cup InClose \cup {"a_half", "a_succ"} \subseteq Inside
  BY DEF Inside, InAllow, InOpen
<1>3. /\ Busy(InOpen) <=> pc[w] \in InOpen
      /\ Busy(InClose) <=> pc[w] \in InClose
      /\ Busy({"a_half", "a_succ"}) <=> pc[w] \in {"a_half", "a_succ"}
      /\ Busy({"o_state", "o_time"}) <=> pc[w] \in {"o_state", "o_time"}
      /\ Busy(InOpen \cup InClose) <=> pc[w] \in InOpen \cup InClose
      /\ Busy(InOpen \cup InClose \cup {"a_half", "a_succ"})
           <=> pc[w] \in InOpen \cup InClose \cup {"a_half", "a_succ"}
  BY <1>1, <1>2
<1>4. /\ Busy(InOpen)' <=> pc'[w] \in InOpen
      /\ Busy(InClose)' <=> pc'[w] \in InClose
      /\ Busy({"a_half", "a_succ"})' <=> pc'[w] \in {"a_half", "a_succ"}
      /\ Busy({"o_state", "o_time"})' <=> pc'[w] \in {"o_state", "o_time"}
      /\ Busy(InOpen \cup InClose)' <=> pc'[w] \in InOpen \cup InClose
      /\ Busy(InOpen \cup InClose \cup {"a_half", "a_succ"})'
           <=> pc'[w] \in InOpen \cup InClose \cup {"a_half", "a_succ"}
  BY <1>1, <1>2
<1>5. Seen(w) = Mapping
  BY <1>3 DEF Seen, SeenState, SeenFailures, SeenSuccesses, SeenAge, Mapping
<1>6. Seen(w)' = Mapping'
  BY <1>4 DEF Seen, SeenState, SeenFailures, SeenSuccesses, SeenAge, Mapping
<1> QED
  BY <1>5, <1>6

\* The contract's transitions, of the keys as they are seen.
SeenTrip(w) ==
    SeenState(w)' = "OPEN" /\ SeenFailures(w)' = 0 /\ SeenSuccesses(w)' = 0 /\ SeenAge(w)' = 0

SeenFailure(w) ==
    \/ SeenState(w) = "CLOSED" /\ SeenFailures(w) + 1 >= FailureThreshold /\ SeenTrip(w)
    \/ /\ SeenState(w) = "CLOSED" /\ SeenFailures(w) + 1 < FailureThreshold
       /\ SeenFailures(w)' = SeenFailures(w) + 1
       /\ UNCHANGED <<SeenState(w), SeenSuccesses(w), SeenAge(w)>>
    \/ SeenState(w) = "HALF_OPEN" /\ SeenTrip(w)

SeenSuccess(w) ==
    \/ /\ SeenState(w) = "CLOSED" /\ SeenFailures(w)' = 0
       /\ UNCHANGED <<SeenState(w), SeenSuccesses(w), SeenAge(w)>>
    \/ /\ SeenState(w) = "HALF_OPEN" /\ SeenSuccesses(w) + 1 >= SuccessThreshold
       /\ SeenState(w)' = "CLOSED" /\ SeenFailures(w)' = 0 /\ SeenSuccesses(w)' = 0
       /\ SeenAge(w)' = SeenAge(w)
    \/ /\ SeenState(w) = "HALF_OPEN" /\ SeenSuccesses(w) + 1 < SuccessThreshold
       /\ SeenSuccesses(w)' = SeenSuccesses(w) + 1
       /\ UNCHANGED <<SeenState(w), SeenFailures(w), SeenAge(w)>>

SeenProbe(w) ==
    /\ SeenState(w) = "OPEN" /\ SeenAge(w) = RecoveryTimeout
    /\ SeenState(w)' = "HALF_OPEN" /\ SeenSuccesses(w)' = 0
    /\ UNCHANGED <<SeenFailures(w), SeenAge(w)>>

\* The steps at which an outcome or an operator takes effect, for one worker.
Trips(w)    == pc[w] = "idle" /\ pc'[w] = "o_state"
Fails(w)    == pc[w] \in InFailure \/ (pc[w] \in InCall /\ pc'[w] = "o_state")
Succeeds(w) == pc[w] \in InSuccess

\* A lone worker that knows its keys makes exactly one transition per step.
LEMMA SeenStep ==
    ASSUME NEW w \in Workers, TypeOK, KnowsKeys(w), errors' = errors,
           AskState(w) \/ NotChosen(w) \/ CallUnasked(w) \/ Record(w) \/ Proceed(w)
             \/ ChaosInject(w)
    PROVE  /\ KnowsKeys(w)'
           /\ pc'[w] # pc[w]
           /\ Trips(w) => SeenTrip(w)
           /\ Fails(w) => SeenFailure(w)
           /\ Succeeds(w) => SeenSuccess(w)
           /\ ~(Trips(w) \/ Fails(w) \/ Succeeds(w)) => SeenProbe(w) \/ UNCHANGED Seen(w)
<1> USE ThresholdAssumption DEF KnowsKeys, Trips, Fails, Succeeds
<1>0. pc[w] \in Phases /\ pc \in [Workers -> Phases] /\ failCount \in Nat
        /\ successCount \in Nat /\ age \in {-1} \cup 0..RecoveryTimeout /\ state \in States
  BY DEF TypeOK, Never
<1> USE DEF Seen, SeenState, SeenFailures, SeenSuccesses, SeenAge, SeenTrip, SeenFailure,
            SeenSuccess, SeenProbe, InCall, InSuccess, InFailure, InOpen, InClose
<1>a. CASE AskState(w) \/ NotChosen(w) \/ CallUnasked(w)
  BY <1>0, <1>a DEF AskState, NotChosen, CallUnasked, Goto
<1>c. CASE ChaosInject(w)
  BY <1>0, <1>c DEF ChaosInject, Goto
<1>r. CASE Record(w)
  BY <1>0, <1>r DEF Record, RecordSuccess, RecordFailure, Goto
<1>p. CASE Proceed(w)
  <2>1. CASE AskOpenedAt(w)
    BY <1>0, <2>1 DEF AskOpenedAt, Goto
  <2>2. CASE EnterHalfOpen(w) \/ ResetProbes(w)
    BY <1>0, <2>2 DEF EnterHalfOpen, ResetProbes, Goto
  <2>3. CASE CountSuccess(w)
    BY <1>0, <2>3 DEF CountSuccess, Goto
  <2>4. CASE ForgetFailures(w)
    BY <1>0, <2>4 DEF ForgetFailures, Goto
  <2>5. CASE CountFailure(w)
    BY <1>0, <2>5 DEF CountFailure, Goto
  <2>6. CASE OpenState(w) \/ OpenTime(w)
    BY <1>0, <2>6 DEF OpenState, OpenTime, Goto
  <2>7. CASE OpenFailCount(w) \/ OpenSuccessCount(w)
    BY <1>0, <2>7 DEF OpenFailCount, OpenSuccessCount, Goto
  <2>8. CASE CloseState(w) \/ CloseFailCount(w) \/ CloseSuccessCount(w)
    BY <1>0, <2>8 DEF CloseState, CloseFailCount, CloseSuccessCount, Goto
  <2> QED
    BY <1>p, <2>1, <2>2, <2>3, <2>4, <2>5, <2>6, <2>7, <2>8 DEF Proceed
<1> QED
  BY <1>a, <1>c, <1>r, <1>p

\* Whatever a worker does, it moves.
LEMMA WorkerMoves ==
    ASSUME NEW w \in Workers,
           AskState(w) \/ NotChosen(w) \/ CallUnasked(w) \/ Record(w) \/ Proceed(w)
             \/ ChaosInject(w) \/ RedisError(w)
    PROVE  \E phase : Goto(w, phase)
BY DEF AskState, NotChosen, CallUnasked, Record, RecordSuccess, RecordFailure, ChaosInject,
       RedisError, Proceed, AskOpenedAt, EnterHalfOpen, ResetProbes, CountSuccess,
       ForgetFailures, CountFailure, OpenState, OpenTime, OpenFailCount, OpenSuccessCount,
       CloseState, CloseFailCount, CloseSuccessCount

\* Only a Redis error changes the number of errors.
LEMMA ErrorsKept ==
    ASSUME NEW w \in Workers,
           AskState(w) \/ NotChosen(w) \/ CallUnasked(w) \/ Record(w) \/ Proceed(w)
             \/ ChaosInject(w)
    PROVE  errors' = errors
BY DEF AskState, NotChosen, CallUnasked, Record, RecordSuccess, RecordFailure, ChaosInject,
       Proceed, AskOpenedAt, EnterHalfOpen, ResetProbes, CountSuccess, ForgetFailures,
       CountFailure, OpenState, OpenTime, OpenFailCount, OpenSuccessCount, CloseState,
       CloseFailCount, CloseSuccessCount

\* Keys are written from inside a method only.
LEMMA OutsideWritesNothing ==
    ASSUME NEW w \in Workers, pc[w] \notin Inside,
           AskState(w) \/ NotChosen(w) \/ CallUnasked(w) \/ Record(w) \/ Proceed(w)
             \/ ChaosInject(w) \/ RedisError(w)
    PROVE  UNCHANGED <<state, failCount, successCount, age>>
BY InsideIs
   DEF AskState, NotChosen, CallUnasked, Record, RecordSuccess, RecordFailure, ChaosInject,
       RedisError, Proceed, AskOpenedAt, EnterHalfOpen, ResetProbes, CountSuccess,
       ForgetFailures, CountFailure, OpenState, OpenTime, OpenFailCount, OpenSuccessCount,
       CloseState, CloseFailCount, CloseSuccessCount

\* A step of one worker, if nobody crosses it, keeps the invariant.
LEMMA CrossStep ==
    ASSUME CrossInv, [Next]_vars
    PROVE  CrossInv'
<1>1. TypeOK'
  BY TypeStep DEF CrossInv
<1>2. ASSUME NEW w \in Workers, NEW phase, Goto(w, phase)
      PROVE  \A u, v \in Workers :
                pc'[u] \in Inside /\ pc'[v] \in Inside => u = v \/ crossed'
  BY <1>2 DEF Goto
<1>3. ASSUME NEW w \in Workers, NEW phase, Goto(w, phase), ~crossed', KnowsKeys(w)',
             Lone(w) \/ UNCHANGED <<state, failCount>>
      PROVE  \A u \in Workers : KnowsKeys(u)'
  <2> SUFFICES ASSUME NEW u \in Workers, u # w, pc'[u] \in Inside
               PROVE  KnowsKeys(u)'
    BY <1>3, InsideIs DEF KnowsKeys
  <2>1. pc'[u] = pc[u]
    BY <1>3 DEF Goto, CrossInv, TypeOK
  <2>2. ~crossed
    BY <1>3 DEF Goto
  <2> QED
    BY <1>3, <2>1, <2>2 DEF Lone, CrossInv, KnowsKeys
<1>t. CASE Tick
  BY <1>1, <1>t DEF Tick, CrossInv, KnowsKeys
<1>u. CASE UNCHANGED vars
  BY <1>1, <1>u DEF vars, CrossInv, KnowsKeys
<1>w. ASSUME NEW w \in Workers,
             AskState(w) \/ NotChosen(w) \/ CallUnasked(w) \/ Record(w) \/ Proceed(w)
               \/ ChaosInject(w) \/ RedisError(w)
      PROVE  CrossInv'
  <2>1. PICK phase : Goto(w, phase)
    BY <1>w, WorkerMoves
  <2>2. ASSUME ~crossed' PROVE \A u \in Workers : KnowsKeys(u)'
    <3>1. CASE crossed
      <4>1. \A u \in Workers : pc'[u] \notin Inside
        BY <2>1, <2>2, <3>1 DEF Goto
      <4> QED
        BY <4>1, InsideIs DEF KnowsKeys
    <3>2. CASE ~crossed
      <4>1. KnowsKeys(w)'
        <5>1. CASE RedisError(w)
          BY <5>1, InsideIs DEF RedisError, Goto, KnowsKeys, CrossInv, TypeOK, InCall
        <5>2. CASE ~RedisError(w)
          BY <5>2, <1>w, <3>2, SeenStep, ErrorsKept DEF CrossInv
        <5> QED
          BY <5>1, <5>2
      <4>2. Lone(w) \/ UNCHANGED <<state, failCount>>
        <5>1. CASE pc[w] \in Inside
          BY <5>1, <2>1, <2>2, <3>2, AloneInside
        <5>2. CASE pc[w] \notin Inside
          BY <5>2, <1>w, OutsideWritesNothing
        <5> QED
          BY <5>1, <5>2
      <4> QED
        BY <2>1, <2>2, <4>1, <4>2, <1>3
    <3> QED
      BY <3>1, <3>2
  <2> QED
    BY <1>1, <2>1, <2>2, <1>2 DEF CrossInv
<1> QED
  BY <1>t, <1>u, <1>w DEF Next

\* A lone worker's steps are the ones that OneTransition names.
LEMMA MovesOfOne ==
    ASSUME NEW w \in Workers, NEW phase \in Phases, TypeOK, Goto(w, phase), pc[w] # phase
    PROVE  /\ OperatorTrips <=> Trips(w)
           /\ FailureCounted <=> Fails(w)
           /\ SuccessCounted <=> Succeeds(w)
<1>1. pc'[w] = phase /\ pc'[w] \in Phases /\ \A u \in Workers : u # w => pc'[u] = pc[u]
  BY DEF TypeOK, Goto
<1>2. ASSUME NEW from, NEW to
      PROVE  Moves(from, to) <=> pc[w] \in from /\ pc'[w] \in to
  BY <1>1 DEF Moves
<1> QED
  BY <1>1, <1>2 DEF OperatorTrips, FailureCounted, SuccessCounted, Trips, Fails, Succeeds

\* A worker outside its methods, before and after, changes nothing to see.
LEMMA OutsideShowsNothing ==
    ASSUME NEW w \in Workers, NEW phase, TypeOK, Goto(w, phase),
           pc[w] \notin Inside, phase \notin Inside,
           UNCHANGED <<state, failCount, successCount, age>>
    PROVE  UNCHANGED Mapping
<1>1. ASSUME NEW S, S \subseteq Inside PROVE Busy(S)' <=> Busy(S)
  BY <1>1 DEF Busy, Goto, TypeOK
<1>2. /\ InOpen \subseteq Inside /\ InClose \subseteq Inside
      /\ {"a_half", "a_succ"} \subseteq Inside /\ {"o_state", "o_time"} \subseteq Inside
      /\ InOpen \cup InClose \subseteq Inside
      /\ InOpen \cup InClose \cup {"a_half", "a_succ"} \subseteq Inside
  BY DEF Inside, InAllow, InOpen
<1> QED
  BY <1>1, <1>2 DEF Mapping

\* While nobody crosses and no command fails, one step is one transition.
LEMMA UncrossedStep ==
    ASSUME CrossInv, [Next]_vars, ~crossed, ~crossed', errors' = errors
    PROVE  OneTransition
<1> USE DEF OneTransition
<1>t. CASE Tick \/ UNCHANGED vars
  <2>1. pc' = pc
    BY <1>t DEF Tick, vars
  <2>2. ~OperatorTrips /\ ~FailureCounted /\ ~SuccessCounted
    BY <2>1 DEF OperatorTrips, FailureCounted, SuccessCounted, Moves
  <2>3. \A S : Busy(S)' <=> Busy(S)
    BY <2>1 DEF Busy
  <2>4. Contract!Unreported
    BY <1>t, <2>3 DEF Tick, vars, Contract!Unreported, Contract!Tick
  <2> QED
    BY <2>2, <2>4
<1>w. ASSUME NEW w \in Workers,
             AskState(w) \/ NotChosen(w) \/ CallUnasked(w) \/ Record(w) \/ Proceed(w)
               \/ ChaosInject(w)
      PROVE  OneTransition
  <2>1. PICK phase : Goto(w, phase)
    BY <1>w, WorkerMoves
  <2>2. /\ pc'[w] # pc[w]
        /\ Trips(w) => SeenTrip(w)
        /\ Fails(w) => SeenFailure(w)
        /\ Succeeds(w) => SeenSuccess(w)
        /\ ~(Trips(w) \/ Fails(w) \/ Succeeds(w)) => SeenProbe(w) \/ UNCHANGED Seen(w)
    BY <1>w, SeenStep DEF CrossInv
  <2>3. pc'[w] = phase /\ phase \in Phases /\ TypeOK
    BY <2>1, TypeStep DEF Goto, CrossInv, TypeOK
  <2>4. /\ OperatorTrips <=> Trips(w)
        /\ FailureCounted <=> Fails(w)
        /\ SuccessCounted <=> Succeeds(w)
    BY <2>1, <2>2, <2>3, MovesOfOne
  <2>5. CASE pc[w] \in Inside \/ phase \in Inside
    <3>1. Lone(w)
      BY <2>1, <2>5, AloneInside
    <3>2. Seen(w) = Mapping /\ Seen(w)' = Mapping'
      BY <3>1, SeenIsMapping
    <3>3. OperatorTrips => Contract!OperatorTrip
      BY <2>2, <2>4, <3>2 DEF Seen, SeenTrip, Mapping, Contract!OperatorTrip, Contract!Trip
    <3>4. FailureCounted => Contract!Failure
      BY <2>2, <2>4, <3>2
         DEF Seen, SeenTrip, SeenFailure, Mapping, Contract!Failure, Contract!Trip
    <3>5. SuccessCounted => Contract!Success
      BY <2>2, <2>4, <3>2
         DEF Seen, SeenSuccess, Mapping, Contract!Success, Contract!Close
    <3>6. ~(OperatorTrips \/ FailureCounted \/ SuccessCounted) => Contract!Unreported
      BY <2>2, <2>4, <3>2
         DEF Seen, SeenProbe, Mapping, Contract!Unreported, Contract!Probe
    <3> QED
      BY <3>3, <3>4, <3>5, <3>6
  <2>6. CASE ~(pc[w] \in Inside \/ phase \in Inside)
    <3>1. UNCHANGED Mapping
      BY <1>w, <2>1, <2>3, <2>6, OutsideWritesNothing, OutsideShowsNothing
    <3>2. ~Trips(w) /\ ~Fails(w) /\ ~Succeeds(w)
      BY <2>3, <2>6, InsideIs DEF Trips, Fails, Succeeds, InFailure, InSuccess
    <3>3. Contract!Unreported
      BY <3>1 DEF Mapping, Contract!Unreported
    <3> QED
      BY <2>4, <3>2, <3>3
  <2> QED
    BY <2>5, <2>6
<1>e. ASSUME NEW w \in Workers, RedisError(w) PROVE FALSE
  BY <1>e DEF RedisError, CrossInv, TypeOK
<1> QED
  BY <1>t, <1>w, <1>e DEF Next

\* However many requests are in flight and whatever the thresholds, the timeout
\* and the keys that earlier overlaps and Redis errors left: the commands of a
\* method that no other method crosses make one transition of the documented
\* state machine, the one its outcome calls for.
THEOREM UncrossedIsAtomic == Spec => UncrossedMeetsContract
<1>1. Init => CrossInv
  BY TypeInit, InsideIs DEF Init, CrossInv, KnowsKeys
<1>2. Init => Contract!Init
  BY InsideIs DEF Init, Busy, Inside, InAllow, InOpen, InClose, Never, Contract!Init, Contract!Never
<1>3. CrossInv /\ [Next]_vars => CrossInv'
  BY CrossStep
<1>4. CrossInv /\ [Next]_vars
        => [~crossed /\ ~crossed' /\ errors' = errors => OneTransition]_vars
  BY UncrossedStep
<1> QED
  BY <1>1, <1>2, <1>3, <1>4, PTL DEF Spec, UncrossedMeetsContract
=============================================================================
