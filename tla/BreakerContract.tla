--------------------------- MODULE BreakerContract ---------------------------
(***************************************************************************)
(* The state machine that inferroute/circuit_breaker.py spells out in      *)
(* Redis commands, with every transition one indivisible step: CLOSED counts*)
(* consecutive failures and opens at the threshold, OPEN lasts for         *)
(* RecoveryTimeout, HALF_OPEN closes after SuccessThreshold successes and  *)
(* opens again on the first failure.  CircuitBreaker says of each of its   *)
(* steps which of these transitions it has to be, so there is no           *)
(* next-state relation that would offer an operator's trip at every step.  *)
(***************************************************************************)
EXTENDS Integers

CONSTANTS FailureThreshold, SuccessThreshold, RecoveryTimeout

VARIABLES state, failures, successes, age

Never == -1

Init ==
    /\ state = "CLOSED"
    /\ failures = 0
    /\ successes = 0
    /\ age = Never

Trip ==
    /\ state' = "OPEN"
    /\ failures' = 0
    /\ successes' = 0
    /\ age' = 0

Close ==
    /\ state' = "CLOSED"
    /\ failures' = 0
    /\ successes' = 0
    /\ UNCHANGED age

Failure ==
    \/ state = "CLOSED" /\ failures + 1 >= FailureThreshold /\ Trip
    \/ /\ state = "CLOSED"
       /\ failures + 1 < FailureThreshold
       /\ failures' = failures + 1
       /\ UNCHANGED <<state, successes, age>>
    \/ state = "HALF_OPEN" /\ Trip

Success ==
    \/ state = "CLOSED" /\ failures' = 0 /\ UNCHANGED <<state, successes, age>>
    \/ state = "HALF_OPEN" /\ successes + 1 >= SuccessThreshold /\ Close
    \/ /\ state = "HALF_OPEN"
       /\ successes + 1 < SuccessThreshold
       /\ successes' = successes + 1
       /\ UNCHANGED <<state, failures, age>>

Probe ==
    /\ state = "OPEN"
    /\ age = RecoveryTimeout
    /\ state' = "HALF_OPEN"
    /\ successes' = 0
    /\ UNCHANGED <<failures, age>>

\* POST /v1/chaos/inject trips the breaker whatever its state and counts are;
\* no other cause may.
OperatorTrip == Trip

Tick ==
    /\ age \in 0..(RecoveryTimeout - 1)
    /\ age' = age + 1
    /\ UNCHANGED <<state, failures, successes>>

\* What may happen with no outcome counted and no operator acting.
Unreported == [Probe \/ Tick]_<<state, failures, successes, age>>
=============================================================================
