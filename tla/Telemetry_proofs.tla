-------------------------- MODULE Telemetry_proofs --------------------------
(***************************************************************************)
(* What Redis holds about requests and answers, for any number of requests *)
(* and any interleaving of their commands.                                 *)
(*                                                                         *)
(* DriftBounded.  What a request read is compared with the serial average  *)
(* of now, not of then: each update since moved the average by at most a   *)
(* fifth of the scale, and the request counts these updates in `missed`.   *)
(*                                                                         *)
(* LimitIsExact.  The counter of a minute outlives it, and counts everybody*)
(* whom it has admitted.                                                   *)
(*                                                                         *)
(* WindowIsRecent.  Timestamps are distinct, so that the rank of a sample  *)
(* is a bijection; whoever is trimmed has the whole window above it, and   *)
(* can be forgotten.                                                       *)
(***************************************************************************)
EXTENDS Telemetry, FunctionTheorems, FiniteSetTheorems, TLAPS

Fifth == Scale \div 5

Rates == (0..Scale) \cup {None}

\* The part of TypeOK that the failure rate depends on.
RateTypeOK ==
    /\ pc \in [Requests -> {"new", "incr", "expire", "serve", "push", "get", "set", "done",
                            "refused"}]
    /\ failed \in [Requests -> BOOLEAN]
    /\ rate \in Rates /\ serial \in Rates
    /\ read \in [Requests -> Rates]
    /\ missed \in [Requests -> Nat] /\ lost \in Nat

\* What a request is about to build on, against the average.
Near(r) ==
    IF read[r] = None THEN serial = None <=> missed[r] = 0
    ELSE serial # None /\ Gap(read[r], serial) <= (lost + missed[r]) * Fifth

RateInv ==
    /\ RateTypeOK
    /\ rate = None <=> serial = None
    /\ DriftBounded
    /\ \A r \in Requests : pc[r] = "set" => Near(r)

-----------------------------------------------------------------------------

\* Scale is five times Fifth.
LEMMA FifthFacts == Fifth \in Nat /\ Scale = 5 * Fifth /\ Scale \in Nat
  BY TelemetryAssumption DEF Fifth

\* An outcome keeps the average between nothing and Scale.
LEMMA BlendType ==
  ASSUME NEW f \in BOOLEAN, NEW a \in Rates
  PROVE  Blend(f, a) \in 0..Scale
  BY FifthFacts DEF Blend, Full, Rates, None

\* An outcome moves the average by a fifth of the scale at most.
LEMMA BlendMoves ==
  ASSUME NEW f \in BOOLEAN, NEW a \in 0..Scale
  PROVE  Gap(a, Blend(f, a)) <= Fifth
  BY FifthFacts DEF Blend, Full, Gap, None

\* The same outcome brings two averages no further apart.
LEMMA BlendContracts ==
  ASSUME NEW f \in BOOLEAN, NEW a \in 0..Scale, NEW b \in 0..Scale
  PROVE  Gap(Blend(f, a), Blend(f, b)) <= Gap(a, b)
  BY FifthFacts DEF Blend, Full, Gap, None

\* A first outcome that ignores the ones before is four fifths off at most.
LEMMA BirthIsFar ==
  ASSUME NEW f \in BOOLEAN, NEW a \in 0..Scale
  PROVE  Gap(Blend(f, None), Blend(f, a)) <= 4 * Fifth
  BY FifthFacts DEF Blend, Full, Gap, None

LEMMA GapTriangle ==
  ASSUME NEW a \in Int, NEW b \in Int, NEW c \in Int
  PROVE  Gap(a, c) <= Gap(a, b) + Gap(b, c)
  BY DEF Gap

LEMMA GapType ==
  ASSUME NEW a \in 0..Scale, NEW b \in 0..Scale
  PROVE  Gap(a, b) \in Nat
  BY FifthFacts DEF Gap

\* A product with a number of updates grows with it.
LEMMA Products ==
  ASSUME NEW k \in Nat, NEW m \in Nat, NEW n \in Nat
  PROVE  /\ m * k \in Nat
         /\ (m + n) * k = m * k + n * k
         /\ (m + 1) * k = m * k + k
  OBVIOUS

LEMMA MoreUpdates ==
  ASSUME NEW m \in Nat, NEW n \in Nat
  PROVE  /\ m * Fifth \in Nat
         /\ (m + n) * Fifth = m * Fifth + n * Fifth
         /\ (m + 1) * Fifth = m * Fifth + Fifth
  <1> DEFINE k == Fifth
  <1>1. k \in Nat
    BY FifthFacts
  <1> HIDE DEF k
  <1>2. m * k \in Nat /\ (m + n) * k = m * k + n * k /\ (m + 1) * k = m * k + k
    BY <1>1, Products
  <1> QED
    BY <1>2 DEF k

-----------------------------------------------------------------------------

LEMMA InitRate == Init => RateInv
  BY DEF Init, RateInv, RateTypeOK, Rates, None, DriftBounded

\* A step that leaves the averages alone and takes nobody to "set".
LEMMA ElsewhereKeeps ==
  ASSUME RateInv, UNCHANGED rates, failed' \in [Requests -> BOOLEAN],
         pc' \in [Requests -> {"new", "incr", "expire", "serve", "push", "get", "set", "done",
                               "refused"}],
         \A r \in Requests : pc'[r] = "set" => pc[r] = "set"
  PROVE  RateInv'
  BY DEF RateInv, RateTypeOK, rates, DriftBounded, Near

\* What is read now is as near as the rate is.
LEMMA GetRateKeeps ==
  ASSUME RateInv, NEW r \in Requests, GetRate(r)
  PROVE  RateInv'
  <1>1. /\ pc' = [pc EXCEPT ![r] = "set"]
        /\ read' = [read EXCEPT ![r] = rate] /\ missed' = [missed EXCEPT ![r] = 0]
        /\ UNCHANGED <<failed, rate, serial, lost>>
    BY DEF GetRate, Goto, sample
  <1>2. RateTypeOK'
    BY <1>1 DEF RateInv, RateTypeOK
  <1>3. ASSUME NEW q \in Requests, pc'[q] = "set"
        PROVE  Near(q)'
    <2>1. CASE q = r
      BY <1>1, <2>1 DEF RateInv, RateTypeOK, Near, DriftBounded, Fifth
    <2>2. CASE q # r
      BY <1>1, <1>3, <2>2 DEF RateInv, RateTypeOK, Near
    <2> QED
      BY <2>1, <2>2
  <1>4. DriftBounded' /\ (rate' = None <=> serial' = None)
    BY <1>1 DEF RateInv, DriftBounded
  <1> QED
    BY <1>2, <1>3, <1>4 DEF RateInv

\* The new rate is off by what the request missed, and whoever is about to
\* write misses this update as well.
LEMMA SetRateKeeps ==
  ASSUME RateInv, NEW r \in Requests, SetRate(r)
  PROVE  RateInv'
  <1> DEFINE f == failed[r]
  <1>1. /\ pc[r] = "set" /\ Near(r)
        /\ pc' = [pc EXCEPT ![r] = "done"]
        /\ rate' = Blend(f, read[r]) /\ serial' = Blend(f, serial)
        /\ lost' = lost + Weight(r)
        /\ missed' = [q \in Requests |-> IF pc[q] = "set" /\ q # r THEN missed[q] + 1 ELSE 0]
        /\ read' = [read EXCEPT ![r] = None]
        /\ failed' = [failed EXCEPT ![r] = FALSE]
    BY DEF RateInv, SetRate, Goto, Updated
  <1>2. /\ f \in BOOLEAN /\ read[r] \in Rates /\ serial \in Rates
        /\ missed[r] \in Nat /\ lost \in Nat /\ Weight(r) \in Nat
    BY DEF RateInv, RateTypeOK, Weight
  <1>3. rate' \in 0..Scale /\ serial' \in 0..Scale
    BY <1>1, <1>2, BlendType
  <1>4. RateTypeOK'
    BY <1>1, <1>2, <1>3 DEF RateInv, RateTypeOK, Rates
  <1>5. rate' # None /\ serial' # None
    BY <1>3, FifthFacts DEF None
  <1>6. Gap(rate', serial') <= lost' * Fifth
    <2>1. CASE read[r] # None
      <3>1. read[r] \in 0..Scale /\ serial \in 0..Scale /\ Weight(r) = missed[r]
        BY <1>1, <1>2, <2>1 DEF Near, Rates, Weight
      <3>2. Gap(rate', serial') <= Gap(read[r], serial)
        BY <1>1, <1>2, <3>1, BlendContracts
      <3>3. Gap(read[r], serial) <= lost' * Fifth
        BY <1>1, <2>1, <3>1 DEF Near
      <3>4. lost' * Fifth \in Nat
        BY <1>1, <1>2, MoreUpdates
      <3> QED
        BY <1>3, <3>1, <3>2, <3>3, <3>4, FifthFacts DEF Gap
    <2>2. CASE read[r] = None /\ missed[r] = 0
      <3>1. serial = None
        BY <1>1, <2>2 DEF Near
      <3>2. rate' = serial'
        BY <1>1, <2>2, <3>1
      <3>3. lost' * Fifth \in Nat
        BY <1>1, <1>2, MoreUpdates
      <3> QED
        BY <1>3, <3>2, <3>3, FifthFacts DEF Gap
    <2>3. CASE read[r] = None /\ missed[r] # 0
      <3>1. serial \in 0..Scale
        BY <1>1, <1>2, <2>3 DEF Near, Rates
      <3>2. lost' = lost + 4
        BY <1>1, <1>2, <2>3 DEF Weight
      <3>3. Gap(rate', serial') <= 4 * Fifth
        BY <1>1, <1>2, <2>3, <3>1, BirthIsFar
      <3>4. lost * Fifth \in Nat /\ (lost + 4) * Fifth = lost * Fifth + 4 * Fifth
        BY <1>2, MoreUpdates
      <3>5. Gap(rate', serial') \in Nat
        BY <1>3, GapType
      <3>6. Gap(rate', serial') <= (lost + 4) * Fifth
        BY <3>3, <3>4, <3>5, FifthFacts
      <3> QED
        BY <3>2, <3>6
    <2> QED
      BY <2>1, <2>2, <2>3
  <1>7. ASSUME NEW q \in Requests, pc'[q] = "set"
        PROVE  Near(q)'
    <2>1. /\ q # r /\ pc[q] = "set" /\ Near(q)
          /\ read'[q] = read[q] /\ missed'[q] = missed[q] + 1
          /\ read[q] \in Rates /\ missed[q] \in Nat
      BY <1>1, <1>7 DEF RateInv, RateTypeOK
    <2>2. CASE read[q] = None
      BY <1>5, <2>1, <2>2 DEF Near
    <2>3. CASE read[q] # None
      <3>1. /\ read[q] \in 0..Scale /\ serial \in 0..Scale
            /\ Gap(read[q], serial) <= (lost + missed[q]) * Fifth
        BY <1>2, <2>1, <2>3 DEF Near, Rates
      <3>2. Gap(serial, serial') <= Fifth
        BY <1>1, <1>2, <3>1, BlendMoves
      <3>3. Gap(read[q], serial') <= Gap(read[q], serial) + Gap(serial, serial')
        BY <1>3, <3>1, GapTriangle, FifthFacts
      <3>4. /\ (lost + missed[q]) * Fifth \in Nat
            /\ (lost' + missed'[q]) * Fifth
               = (lost + missed[q]) * Fifth + (Weight(r) + 1) * Fifth
            /\ (Weight(r) + 1) * Fifth = Weight(r) * Fifth + Fifth
            /\ Weight(r) * Fifth \in Nat
        <4>1. lost' + missed'[q] = (lost + missed[q]) + (Weight(r) + 1)
          BY <1>1, <1>2, <2>1
        <4>2. lost + missed[q] \in Nat /\ Weight(r) + 1 \in Nat
          BY <1>2, <2>1
        <4>3. /\ (lost + missed[q]) * Fifth \in Nat
              /\ ((lost + missed[q]) + (Weight(r) + 1)) * Fifth
                 = (lost + missed[q]) * Fifth + (Weight(r) + 1) * Fifth
          BY <4>2, MoreUpdates
        <4>4. /\ (Weight(r) + 1) * Fifth = Weight(r) * Fifth + Fifth
              /\ Weight(r) * Fifth \in Nat
          BY <1>2, MoreUpdates
        <4> QED
          BY <4>1, <4>3, <4>4
      <3>5. Gap(read[q], serial') <= (lost' + missed'[q]) * Fifth
        <4>1. /\ Gap(read[q], serial') \in Nat /\ Gap(read[q], serial) \in Nat
              /\ Gap(serial, serial') \in Nat
          BY <1>3, <3>1, GapType
        <4> QED
          BY <3>1, <3>2, <3>3, <3>4, <4>1, FifthFacts
      <3> QED
        BY <1>5, <2>1, <2>3, <3>5 DEF Near, Fifth
    <2> QED
      BY <2>2, <2>3
  <1>8. DriftBounded'
    BY <1>6 DEF DriftBounded, Fifth
  <1> QED
    BY <1>4, <1>5, <1>7, <1>8 DEF RateInv

LEMMA StepKeeps ==
  ASSUME RateInv, [Next]_vars
  PROVE  RateInv'
  <1>1. CASE UNCHANGED vars
    BY <1>1, ElsewhereKeeps DEF vars, rates, sample, RateInv, RateTypeOK
  <1>2. CASE Tick
    BY <1>2, ElsewhereKeeps DEF Tick, sample, RateInv, RateTypeOK
  <1>3. CASE WindowExpires
    BY <1>3, ElsewhereKeeps DEF WindowExpires, sample, RateInv, RateTypeOK
  <1>4. ASSUME NEW r \in Requests, Step(r)
        PROVE  RateInv'
    <2>1. CASE Arrive(r)
      BY <2>1, ElsewhereKeeps DEF Arrive, Goto, sample, RateInv, RateTypeOK
    <2>2. CASE Incr(r)
      BY <2>2, ElsewhereKeeps DEF Incr, Goto, sample, RateInv, RateTypeOK
    <2>3. CASE SetExpiry(r)
      BY <2>3, ElsewhereKeeps DEF SetExpiry, Goto, sample, RateInv, RateTypeOK
    <2>4. CASE Bypass(r)
      BY <2>4, ElsewhereKeeps DEF Bypass, Goto, sample, RateInv, RateTypeOK
    <2>5. CASE Serve(r)
      BY <2>5, ElsewhereKeeps DEF Serve, Goto, RateInv, RateTypeOK
    <2>6. CASE Push(r)
      BY <2>6, ElsewhereKeeps DEF Push, Goto, RateInv, RateTypeOK
    <2>7. CASE GetRate(r)
      BY <2>7, GetRateKeeps
    <2>8. CASE SetRate(r)
      BY <2>8, SetRateKeeps
    <2>9. CASE SkipRate(r)
      BY <2>9, ElsewhereKeeps DEF SkipRate, Goto, sample, RateInv, RateTypeOK
    <2> QED
      BY <1>4, <2>1, <2>2, <2>3, <2>4, <2>5, <2>6, <2>7, <2>8, <2>9 DEF Step
  <1> QED
    BY <1>1, <1>2, <1>3, <1>4 DEF Next

\* However many requests report at the same time, the failure rate stays within
\* a fifth per lost update of the average of all outcomes (record_metrics).
THEOREM FailureRateDrift == Spec => []DriftBounded
  <1>1. RateInv => DriftBounded
    BY DEF RateInv
  <1> QED
    BY InitRate, StepKeeps, <1>1, PTL DEF Spec

-----------------------------------------------------------------------------
(* The limit of a minute.  A counter's expiry is set two ticks after a       *)
(* request of the minute has arrived, so that while the minute lasts its     *)
(* counter never starts again, and counts everybody it has admitted.         *)

\* The part of TypeOK that the limit depends on.
LimitTypeOK ==
    /\ tick \in 0..MaxTick
    /\ minute \in [Requests -> Minutes]
    /\ pc \in [Requests -> {"new", "incr", "expire", "serve", "push", "get", "set", "done",
                            "refused"}]
    /\ count \in [Minutes -> Nat] /\ expiry \in [Minutes -> Nat \cup {Never}]
    /\ entered \in [Minutes -> Nat] /\ admitted \in [Minutes -> Nat]

\* Nobody is in a minute that has not begun.
MinutesBegun == \A r \in Requests : minute[r] <= tick \div 2

\* A counter outlives its minute.
ExpiresAfter == \A m \in Minutes : expiry[m] # Never => expiry[m] >= 2 * m + 2

\* A counter may forget requests, but only when the minute is over.
CountsAtMost == \A m \in Minutes : count[m] <= entered[m]
CountsAdmitted == \A m \in Minutes : tick \div 2 <= m => admitted[m] <= count[m]

LimitInv ==
    LimitTypeOK /\ MinutesBegun /\ ExpiresAfter /\ CountsAtMost /\ CountsAdmitted
    /\ LimitIsExact

LEMMA InitLimit == Init => LimitInv
  BY TelemetryAssumption
     DEF Init, LimitInv, LimitTypeOK, MinutesBegun, ExpiresAfter, CountsAtMost,
         CountsAdmitted, LimitIsExact, Minutes, Never

\* A step that leaves the counters and the clock alone, and refuses nobody.
LEMMA CountersUntouched ==
  ASSUME LimitInv, UNCHANGED <<clock, limiter>>,
         pc' \in [Requests -> {"new", "incr", "expire", "serve", "push", "get", "set", "done",
                               "refused"}],
         \A r \in Requests : pc'[r] = "refused" => pc[r] = "refused"
  PROVE  LimitInv'
  BY DEF LimitInv, clock, limiter, LimitTypeOK, MinutesBegun, ExpiresAfter,
         CountsAtMost, CountsAdmitted, LimitIsExact

\* The minute of now is one of the minutes.
LEMMA NowIsAMinute ==
  ASSUME tick \in 0..MaxTick
  PROVE  MinuteOfNow \in Minutes /\ tick \div 2 \in Nat
  BY TelemetryAssumption DEF MinuteOfNow, Minutes

LEMMA ArriveKeepsLimit ==
  ASSUME LimitInv, NEW r \in Requests, Arrive(r)
  PROVE  LimitInv'
  <1>1. /\ pc' = [pc EXCEPT ![r] = "incr"] /\ minute' = [minute EXCEPT ![r] = MinuteOfNow]
        /\ UNCHANGED <<tick, count, expiry, entered, admitted>>
    BY DEF Arrive, Goto, clock
  <1>2. MinuteOfNow \in Minutes /\ MinuteOfNow <= tick \div 2
    BY NowIsAMinute DEF LimitInv, LimitTypeOK, MinuteOfNow
  <1>3. LimitTypeOK' /\ MinutesBegun'
    BY <1>1, <1>2 DEF LimitInv, LimitTypeOK, MinutesBegun
  <1>4. ExpiresAfter' /\ CountsAtMost' /\ CountsAdmitted'
    BY <1>1 DEF LimitInv, ExpiresAfter, CountsAtMost, CountsAdmitted
  <1>5. LimitIsExact'
    BY <1>1 DEF LimitInv, LimitTypeOK, LimitIsExact
  <1> QED
    BY <1>3, <1>4, <1>5 DEF LimitInv

\* While its minute lasts a counter is alive.
LEMMA AliveInMinute ==
  ASSUME LimitInv, NEW m \in Minutes, tick \div 2 <= m
  PROVE  Alive(m)
  <1>1. m \in Nat /\ tick \in Nat
    BY TelemetryAssumption DEF Minutes, LimitInv, LimitTypeOK
  <1>2. tick < 2 * m + 2
    BY <1>1
  <1> QED
    BY <1>1, <1>2 DEF LimitInv, LimitTypeOK, ExpiresAfter, Alive, Never

LEMMA IncrKeepsLimit ==
  ASSUME LimitInv, NEW r \in Requests, Incr(r)
  PROVE  LimitInv'
  <1> DEFINE m == minute[r]
             n == IF Alive(m) THEN count[m] + 1 ELSE 1
  <1>1. /\ m \in Minutes /\ m \in Nat /\ tick \in Nat /\ tick \in 0..MaxTick
        /\ count[m] \in Nat /\ entered[m] \in Nat /\ admitted[m] \in Nat
        /\ n \in Nat /\ Limit \in Nat \ {0}
    BY TelemetryAssumption DEF LimitInv, LimitTypeOK, Minutes
  <1>2. /\ count' = [count EXCEPT ![m] = n]
        /\ expiry' = [expiry EXCEPT ![m] = IF Alive(m) THEN @ ELSE Never]
        /\ entered' = [entered EXCEPT ![m] = @ + 1]
        /\ admitted' = [admitted EXCEPT ![m] = IF n <= Limit /\ tick \div 2 = m THEN @ + 1 ELSE @]
        /\ pc' = [pc EXCEPT ![r] = IF n = 1 THEN "expire" ELSE IF n > Limit THEN "refused" ELSE "serve"]
        /\ UNCHANGED <<tick, minute>>
        /\ pc[r] = "incr"
    BY DEF Incr, Goto, clock
  <1>3. n <= entered[m] + 1
    BY <1>1 DEF LimitInv, CountsAtMost
  <1>4. tick \div 2 = m => n = count[m] + 1 /\ admitted[m] <= count[m]
    BY <1>1, AliveInMinute DEF LimitInv, CountsAdmitted
  <1>. HIDE DEF n
  <1>5. LimitTypeOK' /\ MinutesBegun'
    BY <1>1, <1>2 DEF LimitInv, LimitTypeOK, MinutesBegun
  <1>6. ExpiresAfter'
    BY <1>2 DEF LimitInv, LimitTypeOK, ExpiresAfter
  <1>7. CountsAtMost'
    BY <1>1, <1>2, <1>3 DEF LimitInv, LimitTypeOK, CountsAtMost
  <1>8. ASSUME NEW k \in Minutes, tick' \div 2 <= k
        PROVE  admitted'[k] <= count'[k]
    <2>1. CASE k # m
      BY <1>2, <1>8, <2>1 DEF LimitInv, LimitTypeOK, CountsAdmitted
    <2>2. CASE k = m
      <3>1. n = count[m] + 1 /\ admitted[m] <= count[m]
        BY <1>1, <1>2, <1>8, <2>2, AliveInMinute DEF LimitInv, CountsAdmitted, n
      <3> QED
        BY <1>1, <1>2, <2>2, <3>1 DEF LimitInv, LimitTypeOK
    <2> QED
      BY <2>1, <2>2
  <1>9. LimitIsExact'
    <2>1. ASSUME NEW k \in Minutes
          PROVE  admitted'[k] <= Limit
      BY <1>1, <1>2, <1>4 DEF LimitInv, LimitTypeOK, LimitIsExact
    <2>2. ASSUME NEW q \in Requests, pc'[q] = "refused"
          PROVE  entered'[minute'[q]] > Limit
      <3>1. CASE q = r
        BY <1>1, <1>2, <1>3, <2>2, <3>1 DEF LimitInv, LimitTypeOK
      <3>2. CASE q # r
        <4>1. minute[q] \in Minutes /\ entered[minute[q]] \in Nat /\ entered[minute[q]] > Limit
          BY <1>2, <2>2, <3>2 DEF LimitInv, LimitTypeOK, LimitIsExact
        <4> QED
          BY <1>1, <1>2, <4>1 DEF LimitInv, LimitTypeOK
      <3> QED
        BY <3>1, <3>2
    <2> QED
      BY <2>1, <2>2 DEF LimitIsExact
  <1> QED
    BY <1>5, <1>6, <1>7, <1>8, <1>9 DEF LimitInv, CountsAdmitted

\* The expiry is set when the minute has begun, for two ticks.
LEMMA SetExpiryKeepsLimit ==
  ASSUME LimitInv, NEW r \in Requests, SetExpiry(r)
  PROVE  LimitInv'
  <1> DEFINE m == minute[r]
  <1>1. /\ expiry' = [expiry EXCEPT ![m] = tick + 2]
        /\ pc' = [pc EXCEPT ![r] = "serve"]
        /\ UNCHANGED <<tick, minute, count, entered, admitted>>
    BY DEF SetExpiry, Goto, TimeToLive, clock
  <1>2. m \in Minutes /\ m \in Nat /\ tick \in Nat
    BY TelemetryAssumption DEF LimitInv, LimitTypeOK, Minutes
  <1>3. tick + 2 >= 2 * m + 2
    <2>1. m <= tick \div 2
      BY DEF LimitInv, MinutesBegun
    <2> QED
      BY <1>2, <2>1
  <1>4. LimitTypeOK' /\ MinutesBegun'
    BY <1>1, <1>2 DEF LimitInv, LimitTypeOK, MinutesBegun
  <1>5. ExpiresAfter'
    BY <1>1, <1>2, <1>3 DEF LimitInv, LimitTypeOK, ExpiresAfter
  <1>6. CountsAtMost' /\ CountsAdmitted' /\ LimitIsExact'
    BY <1>1 DEF LimitInv, LimitTypeOK, CountsAtMost, CountsAdmitted, LimitIsExact
  <1> QED
    BY <1>4, <1>5, <1>6 DEF LimitInv

\* Time passes: a minute that lasts has lasted before.
LEMMA TickKeepsLimit ==
  ASSUME LimitInv, Tick
  PROVE  LimitInv'
  <1>1. /\ tick \in Nat /\ tick' = tick + 1 /\ tick' \in 0..MaxTick
        /\ UNCHANGED <<pc, minute, count, expiry, entered, admitted>>
    BY TelemetryAssumption DEF Tick, LimitInv, LimitTypeOK, limiter
  <1>2. tick \div 2 <= tick' \div 2 /\ tick \div 2 \in Nat /\ tick' \div 2 \in Nat
    BY <1>1
  <1>3. LimitTypeOK' /\ ExpiresAfter' /\ CountsAtMost' /\ LimitIsExact'
    BY <1>1 DEF LimitInv, LimitTypeOK, ExpiresAfter, CountsAtMost, LimitIsExact
  <1>4. MinutesBegun'
    BY <1>1, <1>2 DEF LimitInv, LimitTypeOK, MinutesBegun, Minutes
  <1>5. CountsAdmitted'
    BY <1>1, <1>2 DEF LimitInv, CountsAdmitted, Minutes
  <1> QED
    BY <1>3, <1>4, <1>5 DEF LimitInv

LEMMA StepKeepsLimit ==
  ASSUME LimitInv, [Next]_vars
  PROVE  LimitInv'
  <1>1. CASE UNCHANGED vars
    BY <1>1, CountersUntouched DEF vars, LimitInv, LimitTypeOK
  <1>2. CASE Tick
    BY <1>2, TickKeepsLimit
  <1>3. CASE WindowExpires
    BY <1>3, CountersUntouched DEF WindowExpires, LimitInv, LimitTypeOK
  <1>4. ASSUME NEW r \in Requests, Step(r)
        PROVE  LimitInv'
    <2>1. CASE Arrive(r)
      BY <2>1, ArriveKeepsLimit
    <2>2. CASE Incr(r)
      BY <2>2, IncrKeepsLimit
    <2>3. CASE SetExpiry(r)
      BY <2>3, SetExpiryKeepsLimit
    <2>4. CASE Bypass(r)
      BY <2>4, CountersUntouched DEF Bypass, Goto, LimitInv, LimitTypeOK
    <2>5. CASE Serve(r)
      BY <2>5, CountersUntouched DEF Serve, Goto, LimitInv, LimitTypeOK
    <2>6. CASE Push(r)
      BY <2>6, CountersUntouched DEF Push, Goto, LimitInv, LimitTypeOK
    <2>7. CASE GetRate(r)
      BY <2>7, CountersUntouched DEF GetRate, Goto, LimitInv, LimitTypeOK
    <2>8. CASE SetRate(r)
      BY <2>8, CountersUntouched DEF SetRate, Goto, LimitInv, LimitTypeOK
    <2>9. CASE SkipRate(r)
      BY <2>9, CountersUntouched DEF SkipRate, Goto, LimitInv, LimitTypeOK
    <2> QED
      BY <1>4, <2>1, <2>2, <2>3, <2>4, <2>5, <2>6, <2>7, <2>8, <2>9 DEF Step
  <1> QED
    BY <1>1, <1>2, <1>3, <1>4 DEF Next

\* Whatever number of requests of a tenant increments the counter of a minute
\* at the same time, and whichever command fails: no more than Limit are
\* admitted while the minute lasts, and nobody is refused below it
\* (check_rate_limit).
THEOREM RateLimitHolds == Spec => []LimitIsExact
  <1>1. LimitInv => LimitIsExact
    BY DEF LimitInv
  <1> QED
    BY InitLimit, StepKeepsLimit, <1>1, PTL DEF Spec

-----------------------------------------------------------------------------
(* The latency window.  First, what trimming a sorted set leaves.            *)

Recorded(scores) == {l \in Latencies : scores[l] > 0}

\* Scores that tell the members apart.
Distinct(scores) ==
    /\ scores \in [Latencies -> Nat]
    /\ IsFiniteSet(Recorded(scores))
    /\ \A k, l \in Recorded(scores) : scores[k] = scores[l] => k = l

Above(scores, x) == {k \in Latencies : scores[k] > x}

LEMMA AboveFinite ==
  ASSUME NEW v, Distinct(v), NEW x \in Nat
  PROVE  /\ IsFiniteSet(Above(v, x)) /\ Cardinality(Above(v, x)) \in Nat
         /\ Above(v, x) \subseteq Recorded(v)
  <1>1. Above(v, x) \subseteq Recorded(v)
    BY DEF Above, Recorded, Distinct
  <1> QED
    BY <1>1, FS_Subset, FS_CardinalityType DEF Distinct

LEMMA NewerType ==
  ASSUME NEW v, Distinct(v), NEW l \in Latencies
  PROVE  /\ Newer(v, l) = Cardinality(Above(v, v[l])) /\ Newer(v, l) \in Nat
         /\ v[l] \in Nat /\ IsFiniteSet(Above(v, v[l]))
  <1>1. v[l] \in Nat
    BY DEF Distinct
  <1>2. Newer(v, l) = Cardinality(Above(v, v[l]))
    BY DEF Newer, Above
  <1> QED
    BY <1>1, <1>2, AboveFinite

\* A member of a higher score has fewer above it.
LEMMA HigherIsEarlier ==
  ASSUME NEW v, Distinct(v), NEW k \in Latencies, NEW l \in Latencies, v[k] > v[l]
  PROVE  Newer(v, k) < Newer(v, l)
  <1>1. v[k] \in Nat /\ v[l] \in Nat /\ v \in [Latencies -> Nat]
    BY NewerType DEF Distinct
  <1>2. Above(v, v[k]) \subseteq Above(v, v[l])
    BY <1>1 DEF Above
  <1>3. k \in Above(v, v[l]) /\ k \notin Above(v, v[k])
    BY <1>1 DEF Above
  <1>4. /\ IsFiniteSet(Above(v, v[l]))
        /\ Newer(v, k) = Cardinality(Above(v, v[k])) /\ Newer(v, k) \in Nat
        /\ Newer(v, l) = Cardinality(Above(v, v[l])) /\ Newer(v, l) \in Nat
    BY NewerType
  <1>5. /\ Cardinality(Above(v, v[k])) <= Cardinality(Above(v, v[l]))
        /\ Cardinality(Above(v, v[l])) = Cardinality(Above(v, v[k])) => Above(v, v[l]) = Above(v, v[k])
    BY <1>2, <1>4, FS_Subset
  <1> QED
    BY <1>3, <1>4, <1>5

\* Two members have different ranks.
LEMMA RanksDiffer ==
  ASSUME NEW v, Distinct(v), NEW k \in Recorded(v), NEW l \in Recorded(v),
         Newer(v, k) = Newer(v, l)
  PROVE  k = l
  <1>1. /\ k \in Latencies /\ l \in Latencies /\ v[k] \in Nat /\ v[l] \in Nat
        /\ Newer(v, k) \in Nat /\ Newer(v, l) \in Nat
    BY NewerType DEF Recorded
  <1>2. ~(v[k] > v[l]) /\ ~(v[l] > v[k])
    BY <1>1, HigherIsEarlier
  <1> QED
    BY <1>1, <1>2 DEF Distinct

LEMMA TrimmedAt ==
  ASSUME NEW v, Distinct(v), NEW l \in Latencies
  PROVE  /\ Trimmed(v)[l] = IF Newer(v, l) < WindowSize THEN v[l] ELSE 0
         /\ Trimmed(v)[l] \in Nat
  BY NewerType DEF Trimmed

\* Trimming leaves a set of distinct scores, of WindowSize members at most.
LEMMA TrimmedFits ==
  ASSUME NEW v, Distinct(v)
  PROVE  /\ Distinct(Trimmed(v))
         /\ Cardinality(Recorded(Trimmed(v))) <= WindowSize
  <1> DEFINE w == Trimmed(v)
             rank == [l \in Recorded(w) |-> Newer(v, l)]
  <1>1. w \in [Latencies -> Nat]
    BY TrimmedAt DEF Trimmed
  <1>2. \A l \in Recorded(w) : /\ l \in Recorded(v) /\ w[l] = v[l]
                               /\ Newer(v, l) < WindowSize /\ Newer(v, l) \in Nat
    BY TrimmedAt, NewerType DEF Recorded
  <1>3. WindowSize \in Nat \ {0}
    BY TelemetryAssumption
  <1>4. Distinct(w)
    <2>1. IsFiniteSet(Recorded(w))
      BY <1>2, FS_Subset DEF Distinct
    <2> QED
      BY <1>1, <1>2, <2>1 DEF Distinct
  <1>5. rank \in Injection(Recorded(w), 0..(WindowSize - 1))
    <2>1. rank \in [Recorded(w) -> 0..(WindowSize - 1)]
      BY <1>2, <1>3
    <2>2. \A k, l \in Recorded(w) : rank[k] = rank[l] => k = l
      BY <1>2, RanksDiffer
    <2> QED
      BY <2>1, <2>2 DEF Injection, IsInjective
  <1>6. IsFiniteSet(0..(WindowSize - 1)) /\ Cardinality(0..(WindowSize - 1)) = WindowSize
    BY <1>3, FS_Interval
  <1>7. Cardinality(Recorded(w)) <= Cardinality(0..(WindowSize - 1))
    BY <1>5, <1>6, FS_Injection
  <1> QED
    BY <1>4, <1>6, <1>7

\* If there are WindowSize members above a score, then trimming leaves as many
\* above it: the ranks of these members are all the numbers below their count.
LEMMA EnoughAreKept ==
  ASSUME NEW v, Distinct(v), NEW x \in Nat, Cardinality(Above(v, x)) >= WindowSize
  PROVE  Cardinality({k \in Above(v, x) : Newer(v, k) < WindowSize}) >= WindowSize
  <1> DEFINE S == Above(v, x)
             n == Cardinality(S)
             K == {k \in S : Newer(v, k) < WindowSize}
             rank == [k \in S |-> Newer(v, k)]
             kept == [k \in K |-> Newer(v, k)]
  <1>1. /\ IsFiniteSet(S) /\ n \in Nat /\ S \subseteq Recorded(v) /\ WindowSize \in Nat \ {0}
        /\ v \in [Latencies -> Nat]
    BY AboveFinite, TelemetryAssumption DEF Distinct
  <1>2. ASSUME NEW k \in S
        PROVE  Newer(v, k) \in 0..(n - 1)
    <2>1. k \in Latencies /\ v[k] > x /\ v[k] \in Nat
      BY <1>1 DEF Above
    <2>2. /\ Newer(v, k) = Cardinality(Above(v, v[k])) /\ Newer(v, k) \in Nat
      BY <2>1, NewerType
    <2>3. Above(v, v[k]) \subseteq S /\ k \notin Above(v, v[k])
      BY <1>1, <2>1 DEF Above
    <2>4. /\ Cardinality(Above(v, v[k])) <= n
          /\ n = Cardinality(Above(v, v[k])) => S = Above(v, v[k])
      BY <1>1, <2>3, FS_Subset
    <2> QED
      BY <1>1, <2>2, <2>3, <2>4
  <1>3. rank \in Injection(S, 0..(n - 1))
    <2>1. rank \in [S -> 0..(n - 1)]
      BY <1>2
    <2>2. \A k, l \in S : rank[k] = rank[l] => k = l
      BY <1>1, RanksDiffer
    <2> QED
      BY <2>1, <2>2 DEF Injection, IsInjective
  <1>4. IsFiniteSet(0..(n - 1)) /\ Cardinality(0..(n - 1)) = n
    <2>1. ASSUME NEW m \in Nat
          PROVE  IsFiniteSet(0..(m - 1)) /\ Cardinality(0..(m - 1)) = m
      BY FS_Interval
    <2> QED
      BY <1>1, <2>1
  <1>5. rank \in Surjection(S, 0..(n - 1))
    BY <1>3, <1>4, FS_Injection
  <1>6. kept \in Surjection(K, 0..(WindowSize - 1))
    <2>1. kept \in [K -> 0..(WindowSize - 1)]
      BY <1>1, <1>2
    <2>2. ASSUME NEW m \in 0..(WindowSize - 1)
          PROVE  \E k \in K : kept[k] = m
      <3>1. m \in 0..(n - 1) /\ m < WindowSize
        BY <1>1
      <3>2. PICK k \in S : rank[k] = m
        BY <1>5, <3>1 DEF Surjection
      <3> QED
        BY <3>1, <3>2
    <2> QED
      BY <2>1, <2>2 DEF Surjection
  <1>7. IsFiniteSet(K)
    BY <1>1, FS_Subset
  <1>8. Cardinality(0..(WindowSize - 1)) <= Cardinality(K)
    BY <1>6, <1>7, FS_Surjection
  <1>9. Cardinality(0..(WindowSize - 1)) = WindowSize
    BY <1>1, FS_Interval
  <1> QED
    BY <1>8, <1>9

\* A score that is given to one member and to no other keeps them apart.
LEMMA ScoringKeepsDistinct ==
  ASSUME NEW v, Distinct(v), NEW l \in Latencies, NEW s \in Nat, \A k \in Latencies : v[k] # s
  PROVE  Distinct([v EXCEPT ![l] = s])
  <1> DEFINE w == [v EXCEPT ![l] = s]
  <1>1. w \in [Latencies -> Nat] /\ \A k \in Latencies : w[k] = IF k = l THEN s ELSE v[k]
    BY DEF Distinct
  <1>2. Recorded(w) \subseteq Recorded(v) \cup {l}
    BY <1>1 DEF Recorded
  <1>3. IsFiniteSet(Recorded(w))
    BY <1>2, FS_AddElement, FS_Subset DEF Distinct
  <1>4. \A j, k \in Recorded(w) : w[j] = w[k] => j = k
    BY <1>1 DEF Recorded, Distinct
  <1> QED
    BY <1>1, <1>3, <1>4 DEF Distinct

\* Trimming forgets nothing that a later sample would need: to score a member
\* anew and trim gives the same from the trimmed set as from the whole one.
LEMMA TrimmedIsEnough ==
  ASSUME NEW v, Distinct(v), NEW l \in Latencies, NEW s \in Nat, s > v[l],
         \A k \in Latencies : v[k] # s
  PROVE  Trimmed([Trimmed(v) EXCEPT ![l] = s]) = Trimmed([v EXCEPT ![l] = s])
  <1> DEFINE t == Trimmed(v)
             w == [t EXCEPT ![l] = s]
             u == [v EXCEPT ![l] = s]
  <1>1. /\ t \in [Latencies -> Nat] /\ v \in [Latencies -> Nat] /\ Distinct(t)
        /\ WindowSize \in Nat \ {0}
        /\ \A k \in Latencies : t[k] = IF Newer(v, k) < WindowSize THEN v[k] ELSE 0
    BY TrimmedFits, TrimmedAt, TelemetryAssumption DEF Distinct
  <1>2. /\ \A k \in Latencies : w[k] = IF k = l THEN s ELSE t[k]
        /\ \A k \in Latencies : u[k] = IF k = l THEN s ELSE v[k]
    BY <1>1
  <1>3. \A k \in Latencies : t[k] # s
    BY <1>1
  <1>4. Distinct(w) /\ Distinct(u)
    BY <1>1, <1>3, ScoringKeepsDistinct
  <1> HIDE DEF t, w, u
  <1>5. ASSUME NEW k \in Latencies
        PROVE  Trimmed(w)[k] = Trimmed(u)[k]
    <2>1. /\ Trimmed(w)[k] = IF Newer(w, k) < WindowSize THEN w[k] ELSE 0
          /\ Trimmed(u)[k] = IF Newer(u, k) < WindowSize THEN u[k] ELSE 0
      BY <1>4, TrimmedAt
    <2>2. /\ Newer(w, k) = Cardinality(Above(w, w[k])) /\ IsFiniteSet(Above(w, w[k]))
          /\ Newer(u, k) = Cardinality(Above(u, u[k])) /\ IsFiniteSet(Above(u, u[k]))
          /\ Newer(v, k) = Cardinality(Above(v, v[k])) /\ IsFiniteSet(Above(v, v[k]))
          /\ {Newer(w, k), Newer(u, k), Newer(v, k)} \subseteq Nat
          /\ w[k] \in Nat /\ u[k] \in Nat /\ v[k] \in Nat
      BY <1>4, NewerType
    <2>3. CASE k # l /\ Newer(v, k) >= WindowSize
      <3>1. Above(v, v[k]) \subseteq Above(u, u[k])
        BY <1>1, <1>2, <2>3 DEF Above
      <3>2. Newer(v, k) <= Newer(u, k)
        BY <2>2, <3>1, FS_Subset
      <3>3. w[k] = 0
        BY <1>1, <1>2, <2>2, <2>3
      <3> QED
        BY <1>1, <2>1, <2>2, <2>3, <3>2, <3>3
    <2>4. CASE k # l /\ Newer(v, k) < WindowSize
      <3>1. w[k] = v[k] /\ u[k] = v[k]
        BY <1>1, <1>2, <2>4
      <3>2. ASSUME NEW j \in Latencies, j # l
            PROVE  w[j] > v[k] <=> u[j] > v[k]
        <4>1. CASE v[j] > v[k]
          <5>1. Newer(v, j) < Newer(v, k) /\ Newer(v, j) \in Nat
            BY <4>1, HigherIsEarlier, NewerType
          <5> QED
            BY <1>1, <1>2, <2>2, <2>4, <3>2, <5>1
        <4>2. CASE ~(v[j] > v[k])
          BY <1>1, <1>2, <2>2, <3>2, <4>2
        <4> QED
          BY <4>1, <4>2
      <3>3. Above(w, w[k]) = Above(u, u[k])
        BY <1>2, <3>1, <3>2 DEF Above
      <3> QED
        BY <2>1, <2>2, <3>1, <3>3
    <2>5. CASE k = l
      <3>1. w[k] = s /\ u[k] = s
        BY <1>2, <2>5
      <3>2. /\ Above(u, s) = Above(v, s)
            /\ Above(w, s) = {j \in Above(v, s) : Newer(v, j) < WindowSize}
        <4>1. \A j \in Latencies : u[j] > s <=> v[j] > s
          BY <1>1, <1>2
        <4>2. \A j \in Latencies : w[j] > s <=> v[j] > s /\ Newer(v, j) < WindowSize
          BY <1>1, <1>2
        <4> QED
          BY <4>1, <4>2 DEF Above
      <3>3. CASE Newer(u, k) >= WindowSize
        <4>1. Newer(w, k) >= WindowSize
          BY <2>2, <3>1, <3>2, <3>3, EnoughAreKept
        <4> QED
          BY <1>1, <2>1, <2>2, <3>3, <4>1
      <3>4. CASE Newer(u, k) < WindowSize
        <4>1. Above(w, s) \subseteq Above(u, s)
          BY <3>2
        <4>2. Newer(w, k) <= Newer(u, k)
          BY <2>2, <3>1, <4>1, FS_Subset
        <4> QED
          BY <1>1, <2>1, <2>2, <3>1, <3>4, <4>2
      <3> QED
        BY <1>1, <2>2, <3>3, <3>4
    <2> QED
      BY <1>1, <2>2, <2>3, <2>4, <2>5
  <1>6. DOMAIN Trimmed(w) = Latencies /\ DOMAIN Trimmed(u) = Latencies
    BY DEF Trimmed
  <1>7. Trimmed(w) = Trimmed(u)
    BY <1>5, <1>6 DEF Trimmed
  <1> QED
    BY <1>7 DEF w, u, t

-----------------------------------------------------------------------------
(* Then, percentiles.                                                        *)

\* The samples are the members; their order is a bijection to 1..n.
LEMMA OrderStatistics ==
  ASSUME Distinct(window)
  PROVE  /\ Samples = Recorded(window) /\ Samples \subseteq Nat
         /\ Cardinality(Samples) \in Nat
         /\ \A x \in Samples : NotAbove(x) \in 1..Cardinality(Samples)
         /\ \A x, y \in Samples : x < y => NotAbove(x) < NotAbove(y)
         /\ \A m \in 1..Cardinality(Samples) : \E x \in Samples : NotAbove(x) = m
  <1> DEFINE n == Cardinality(Samples)
             Upto(x) == {l \in Samples : l <= x}
             order == [x \in Samples |-> NotAbove(x)]
  <1>1. /\ Samples = Recorded(window) /\ Samples \subseteq Nat
        /\ IsFiniteSet(Samples) /\ n \in Nat
    BY TelemetryAssumption, FS_CardinalityType DEF Distinct, Recorded, Samples
  <1>2. ASSUME NEW x \in Samples
        PROVE  /\ IsFiniteSet(Upto(x)) /\ NotAbove(x) = Cardinality(Upto(x))
               /\ x \in Upto(x) /\ NotAbove(x) \in 1..n
    <2>1. IsFiniteSet(Upto(x)) /\ NotAbove(x) = Cardinality(Upto(x))
      BY <1>1, FS_Subset DEF NotAbove
    <2>2. x \in Upto(x)
      BY <1>1
    <2>3. Cardinality(Upto(x)) \in Nat /\ Cardinality(Upto(x)) # 0
      BY <2>1, <2>2, FS_CardinalityType, FS_EmptySet
    <2>4. Cardinality(Upto(x)) <= n
      BY <1>1, FS_Subset
    <2> QED
      BY <1>1, <2>1, <2>2, <2>3, <2>4
  <1>3. ASSUME NEW x \in Samples, NEW y \in Samples, x < y
        PROVE  NotAbove(x) < NotAbove(y)
    <2>1. Upto(x) \subseteq Upto(y) /\ y \notin Upto(x) /\ y \in Upto(y)
      BY <1>1, <1>3
    <2>2. /\ IsFiniteSet(Upto(y))
          /\ NotAbove(x) = Cardinality(Upto(x)) /\ NotAbove(x) \in 1..n
          /\ NotAbove(y) = Cardinality(Upto(y)) /\ NotAbove(y) \in 1..n
      BY <1>2
    <2>3. /\ Cardinality(Upto(x)) <= Cardinality(Upto(y))
          /\ Cardinality(Upto(y)) = Cardinality(Upto(x)) => Upto(y) = Upto(x)
      BY <2>1, <2>2, FS_Subset
    <2> QED
      BY <1>1, <2>1, <2>2, <2>3
  <1>4. order \in Injection(Samples, 1..n)
    <2>1. order \in [Samples -> 1..n]
      BY <1>2
    <2>2. ASSUME NEW x \in Samples, NEW y \in Samples, order[x] = order[y]
          PROVE  x = y
      <3>1. NotAbove(x) = NotAbove(y) /\ NotAbove(x) \in 1..n /\ NotAbove(y) \in 1..n
        BY <1>2, <2>2
      <3>2. ~(x < y) /\ ~(y < x)
        BY <1>1, <1>3, <3>1
      <3> QED
        BY <1>1, <3>2
    <2> QED
      BY <2>1, <2>2 DEF Injection, IsInjective
  <1>5. IsFiniteSet(1..n) /\ Cardinality(1..n) = n
    <2>1. ASSUME NEW m \in Nat
          PROVE  IsFiniteSet(1..m) /\ Cardinality(1..m) = m
      BY FS_Interval
    <2> QED
      BY <1>1, <2>1
  <1>6. order \in Surjection(Samples, 1..n)
    BY <1>4, <1>5, FS_Injection
  <1>7. \A m \in 1..n : \E x \in Samples : NotAbove(x) = m
    BY <1>6 DEF Surjection
  <1> QED
    BY <1>1, <1>2, <1>3, <1>7

\* The index that is computed is the one of the least sample that more than
\* p% of them do not exceed.
LEMMA PercentileIsRight ==
  ASSUME Distinct(window), Cardinality(Samples) >= 1, NEW p \in 0..99
  PROVE  Percentile(p) = Min({x \in Samples : 100 * NotAbove(x) > p * Cardinality(Samples)})
  <1> DEFINE n == Cardinality(Samples)
             i == (p * n) \div 100
             Enough == {x \in Samples : 100 * NotAbove(x) > p * n}
  <1>1. n \in Nat /\ n >= 1 /\ Samples \subseteq Nat
    BY OrderStatistics
  <1>2. p * n \in Nat /\ p * n < 100 * n
    <2>1. ASSUME NEW m \in Nat, m >= 1
          PROVE  p * m \in Nat /\ p * m <= 99 * m
      <3>1. p \in Nat /\ 99 - p \in Nat
        OBVIOUS
      <3>2. p * m \in Nat /\ (99 - p) * m \in Nat
        BY <3>1
      <3>3. (99 - p) * m = 99 * m - p * m
        BY <3>1
      <3> QED
        BY <3>2, <3>3
    <2> QED
      BY <1>1, <2>1
  <1>3. i \in Nat /\ i < n /\ Rank(p, n) = i
    <2>1. ASSUME NEW a \in Nat, NEW m \in Nat, a < 100 * m
          PROVE  a \div 100 \in Nat /\ a \div 100 < m
      <3>1. a \div 100 \in Nat
        OBVIOUS
      <3>2. 100 * (a \div 100) <= a
        OBVIOUS
      <3> QED
        BY <2>1, <3>1, <3>2
    <2> QED
      BY <1>1, <1>2, <2>1 DEF Rank
  <1>4. \A m \in Nat : 100 * m > p * n <=> m >= i + 1
    <2>1. ASSUME NEW a \in Nat, NEW m \in Nat
          PROVE  100 * m > a <=> m >= (a \div 100) + 1
      OBVIOUS
    <2> QED
      BY <1>2, <2>1
  <1>5. Percentile(p) = CHOOSE x \in Samples : NotAbove(x) = i + 1
    BY <1>3 DEF Percentile
  <1> HIDE DEF n, i
  <1>6. PICK x0 \in Samples : NotAbove(x0) = i + 1
    BY <1>1, <1>3, OrderStatistics DEF n
  <1>7. \A x \in Samples : /\ NotAbove(x) \in Nat /\ x \in Nat
                           /\ x < x0 => NotAbove(x) < NotAbove(x0)
                           /\ x0 < x => NotAbove(x0) < NotAbove(x)
    BY <1>1, OrderStatistics
  <1>8. \A x \in Samples : NotAbove(x) = i + 1 => x = x0
    BY <1>3, <1>6, <1>7
  <1>9. Percentile(p) = x0
    BY <1>5, <1>6, <1>8
  <1>10. Enough = {x \in Samples : NotAbove(x) >= i + 1}
    BY <1>4, <1>7
  <1>11. x0 \in Enough /\ \A x \in Enough : x0 <= x
    BY <1>3, <1>6, <1>7, <1>10
  <1>12. Min(Enough) = x0
    <2>1. \A x \in Enough : (\A y \in Enough : x =< y) => x = x0
      BY <1>7, <1>11
    <2> QED
      BY <1>11, <2>1 DEF Min
  <1> QED
    BY <1>9, <1>12 DEF n

-----------------------------------------------------------------------------
(* At last, the requests that write the window.                              *)

\* The part of TypeOK that the window depends on.
WindowTypeOK ==
    /\ pc \in [Requests -> {"new", "incr", "expire", "serve", "push", "get", "set", "done",
                            "refused"}]
    /\ latency \in [Requests -> Nat]
    /\ stamp \in [Requests -> Nat] /\ stamps \in Nat
    /\ window \in [Latencies -> Nat] /\ newest \in [Latencies -> Nat]

Pending(r) == pc[r] = "push"

\* A timestamp is given out once, and is in use from then on until it is
\* written: in the set it is found at one latency at most.
StampsAreFresh ==
    /\ \A r \in Requests : Pending(r) =>
           /\ latency[r] \in Latencies
           /\ 0 < stamp[r] /\ stamp[r] <= stamps
           /\ \A l \in Latencies : newest[l] # stamp[r] /\ window[l] # stamp[r]
    /\ \A q, r \in Requests : Pending(q) /\ Pending(r) /\ stamp[q] = stamp[r] => q = r
    /\ \A l \in Latencies : newest[l] <= stamps /\ window[l] <= stamps
    /\ Distinct(newest) /\ Distinct(window)

\* The set is of the size it may have, and what is not in it is older.
Kept ==
    /\ Cardinality(Recorded(window)) <= WindowSize
    /\ ~lowered => window = Trimmed(newest)

WindowInv == WindowTypeOK /\ StampsAreFresh /\ Kept

LEMMA NothingRecorded ==
  ASSUME NEW v, v = [l \in Latencies |-> 0]
  PROVE  Distinct(v) /\ Recorded(v) = {} /\ Trimmed(v) = v
  <1>1. Recorded(v) = {}
    BY DEF Recorded
  <1>2. Distinct(v)
    BY <1>1, FS_EmptySet DEF Distinct
  <1>3. Trimmed(v) = v
    BY DEF Trimmed
  <1> QED
    BY <1>1, <1>2, <1>3

LEMMA EmptyFits == Cardinality({}) <= WindowSize
  BY FS_EmptySet, TelemetryAssumption

LEMMA InitWindow == Init => WindowInv
  <1> SUFFICES ASSUME Init PROVE WindowInv
    OBVIOUS
  <1>1. /\ Distinct(window) /\ Recorded(window) = {} /\ Trimmed(window) = window
        /\ newest = window
    BY NothingRecorded DEF Init
  <1>2. WindowTypeOK
    BY DEF Init, WindowTypeOK
  <1>3. StampsAreFresh
    BY <1>1 DEF Init, StampsAreFresh, Pending
  <1>4. Kept
    BY <1>1, EmptyFits DEF Kept
  <1> QED
    BY <1>2, <1>3, <1>4 DEF WindowInv

\* A step that writes no sample and gives out no timestamp.
LEMMA WindowUntouched ==
  ASSUME WindowInv, UNCHANGED <<stamp, stamps, latency, ranks>>,
         pc' \in [Requests -> {"new", "incr", "expire", "serve", "push", "get", "set", "done",
                               "refused"}],
         \A r \in Requests : pc'[r] = "push" => pc[r] = "push"
  PROVE  WindowInv'
  <1>1. window' = window /\ newest' = newest /\ lowered' = lowered
    BY DEF ranks
  <1>2. WindowTypeOK' /\ Kept'
    BY <1>1 DEF WindowInv, WindowTypeOK, Kept, Recorded, Trimmed, Newer
  <1>3. Distinct(newest)' /\ Distinct(window)'
    BY <1>1 DEF WindowInv, StampsAreFresh, Distinct, Recorded
  <1>4. StampsAreFresh'
    BY <1>1, <1>3 DEF WindowInv, StampsAreFresh, Pending
  <1> QED
    BY <1>2, <1>4 DEF WindowInv

LEMMA ServeKeepsWindow ==
  ASSUME WindowInv, NEW r \in Requests, Serve(r)
  PROVE  WindowInv'
  <1>1. PICK l \in Latencies : latency' = [latency EXCEPT ![r] = l]
    BY DEF Serve
  <1>2. /\ stamps' = stamps + 1 /\ stamp' = [stamp EXCEPT ![r] = stamps + 1]
        /\ pc' = [pc EXCEPT ![r] = "push"]
        /\ window' = window /\ newest' = newest /\ lowered' = lowered
        /\ l \in Nat /\ stamps \in Nat
    BY TelemetryAssumption DEF Serve, Goto, ranks, WindowInv, WindowTypeOK
  <1>3. WindowTypeOK' /\ Kept'
    BY <1>1, <1>2 DEF WindowInv, WindowTypeOK, Kept, Recorded, Trimmed, Newer
  <1>4. Distinct(newest)' /\ Distinct(window)'
    BY <1>2 DEF WindowInv, StampsAreFresh, Distinct, Recorded
  <1>5. \A k \in Latencies : /\ newest'[k] <= stamps /\ window'[k] <= stamps
                             /\ newest'[k] \in Nat /\ window'[k] \in Nat
    BY <1>2 DEF WindowInv, WindowTypeOK, StampsAreFresh
  <1>6. ASSUME NEW q \in Requests, Pending(q)'
        PROVE  /\ latency'[q] \in Latencies
               /\ 0 < stamp'[q] /\ stamp'[q] <= stamps'
               /\ \A k \in Latencies : newest'[k] # stamp'[q] /\ window'[k] # stamp'[q]
               /\ q # r => stamp'[q] < stamp'[r]
    <2>1. CASE q = r
      BY <1>1, <1>2, <1>5, <2>1 DEF WindowInv, WindowTypeOK
    <2>2. CASE q # r
      <3>1. Pending(q) /\ stamp'[q] = stamp[q] /\ latency'[q] = latency[q] /\ stamp[q] \in Nat
        BY <1>1, <1>2, <1>6, <2>2 DEF WindowInv, WindowTypeOK, Pending
      <3>2. stamp'[r] = stamps + 1
        BY <1>2 DEF WindowInv, WindowTypeOK
      <3> QED
        BY <1>2, <3>1, <3>2 DEF WindowInv, StampsAreFresh
    <2> QED
      BY <2>1, <2>2
  <1>7. ASSUME NEW p \in Requests, NEW q \in Requests, Pending(p)', Pending(q)',
               stamp'[p] = stamp'[q]
        PROVE  p = q
    <2>1. stamp'[p] \in Nat
      BY <1>3 DEF WindowTypeOK
    <2>2. (p # r /\ q # r) \/ p = q
      BY <1>6, <1>7, <2>1
    <2>3. CASE p # r /\ q # r
      BY <1>2, <1>7, <2>3 DEF WindowInv, WindowTypeOK, StampsAreFresh, Pending
    <2> QED
      BY <2>2, <2>3
  <1>8. StampsAreFresh'
    BY <1>2, <1>4, <1>5, <1>6, <1>7 DEF StampsAreFresh
  <1> QED
    BY <1>3, <1>8 DEF WindowInv

\* The transaction that writes a sample and trims.
LEMMA RecordKeepsWindow ==
  ASSUME WindowInv, NEW r \in Requests, Pending(r),
         NEW l \in Latencies, NEW s \in Nat, l = latency[r], s = stamp[r],
         window' = Trimmed([window EXCEPT ![l] = s]),
         newest' = [newest EXCEPT ![l] = IF s > @ THEN s ELSE @],
         lowered' = (lowered \/ s < window[l]),
         stamps' = stamps,
         pc' = [pc EXCEPT ![r] = "get"],
         latency' = [latency EXCEPT ![r] = 0],
         stamp' = [stamp EXCEPT ![r] = 0]
  PROVE  WindowInv'
  <1> DEFINE w == [window EXCEPT ![l] = s]
  <1>1. /\ 0 < s /\ s <= stamps /\ stamps \in Nat
        /\ \A k \in Latencies : newest[k] # s /\ window[k] # s
        /\ Distinct(window) /\ Distinct(newest)
        /\ window \in [Latencies -> Nat] /\ newest \in [Latencies -> Nat]
    BY DEF WindowInv, WindowTypeOK, StampsAreFresh
  <1>2. Distinct(w) /\ window' = Trimmed(w) /\ w[l] = s
        /\ \A k \in Latencies : w[k] = IF k = l THEN s ELSE window[k]
    BY <1>1, ScoringKeepsDistinct
  <1> HIDE DEF w
  <1>3. Distinct(window') /\ Cardinality(Recorded(window')) <= WindowSize
    BY <1>2, TrimmedFits
  <1>4. \A k \in Latencies : window'[k] \in {0, window[k], s}
    <2>1. \A k \in Latencies : window'[k] \in {0, w[k]}
      BY <1>2, TrimmedAt
    <2> QED
      BY <1>2, <2>1
  <1>5. Distinct(newest') /\ \A k \in Latencies : newest'[k] \in {newest[k], s}
    <2>1. CASE s > newest[l]
      BY <1>1, <2>1, ScoringKeepsDistinct
    <2>2. CASE ~(s > newest[l])
      <3>1. newest' = newest
        BY <1>1, <2>2
      <3> QED
        BY <1>1, <3>1
    <2> QED
      BY <2>1, <2>2
  <1>6. WindowTypeOK'
    BY <1>1, <1>3, <1>5 DEF WindowInv, WindowTypeOK, Distinct
  <1>7. ~lowered' => window' = Trimmed(newest')
    <2> SUFFICES ASSUME ~lowered' PROVE window' = Trimmed(newest')
      OBVIOUS
    <2>1. window = Trimmed(newest) /\ s > window[l] /\ window[l] \in Nat
      <3>1. ~lowered /\ ~(s < window[l])
        OBVIOUS
      <3>2. window[l] \in Nat /\ s # window[l]
        BY <1>1
      <3> QED
        BY <3>1, <3>2 DEF WindowInv, Kept
    <2>2. CASE s > newest[l]
      <3>1. newest' = [newest EXCEPT ![l] = s]
        BY <2>2
      <3>2. Trimmed([Trimmed(newest) EXCEPT ![l] = s]) = Trimmed([newest EXCEPT ![l] = s])
        <4>1. Distinct(newest) /\ \A k \in Latencies : newest[k] # s
          BY <1>1
        <4> QED
          BY <2>2, <4>1, TrimmedIsEnough
      <3> QED
        BY <2>1, <3>1, <3>2
    <2>3. CASE ~(s > newest[l])
      <3>1. newest' = newest /\ s < newest[l] /\ newest[l] \in Nat
        BY <1>1, <2>3
      <3>2. Newer(newest, l) >= WindowSize /\ Newer(newest, l) \in Nat /\ WindowSize \in Nat \ {0}
        BY <1>1, <2>1, <3>1, TrimmedAt, NewerType, TelemetryAssumption
      <3>3. window[l] = 0
        BY <1>1, <2>1, <3>2, TrimmedAt
      <3>4. Newer(w, l) >= WindowSize
        <4>1. Above(newest, newest[l]) \subseteq Above(newest, s)
          BY <1>1, <3>1 DEF Above
        <4>2. IsFiniteSet(Above(newest, s)) /\ Cardinality(Above(newest, s)) \in Nat
          BY <1>1, AboveFinite
        <4>3. Cardinality(Above(newest, newest[l])) <= Cardinality(Above(newest, s))
          BY <4>1, <4>2, FS_Subset
        <4>4. Cardinality(Above(newest, s)) >= WindowSize
          BY <1>1, <3>2, <4>2, <4>3, NewerType
        <4>5. Cardinality({k \in Above(newest, s) : Newer(newest, k) < WindowSize}) >= WindowSize
          BY <1>1, <4>4, EnoughAreKept
        <4>6. Above(w, s) = {k \in Above(newest, s) : Newer(newest, k) < WindowSize}
          <5>1. \A k \in Latencies : w[k] > s <=> newest[k] > s /\ Newer(newest, k) < WindowSize
            <6>1. \A k \in Latencies :
                      window[k] = IF Newer(newest, k) < WindowSize THEN newest[k] ELSE 0
              BY <1>1, <2>1, TrimmedAt
            <6>2. ASSUME NEW k \in Latencies
                  PROVE  w[k] > s <=> newest[k] > s /\ Newer(newest, k) < WindowSize
              <7>1. /\ w[k] = IF k = l THEN s ELSE window[k]
                    /\ window[k] = IF Newer(newest, k) < WindowSize THEN newest[k] ELSE 0
                    /\ window[k] \in Nat /\ newest[k] \in Nat
                BY <1>1, <1>2, <6>1
              <7>2. CASE k = l
                <8>1. ~(Newer(newest, k) < WindowSize)
                  BY <3>2, <7>2
                <8> QED
                  BY <7>1, <7>2, <8>1
              <7>3. CASE k # l
                BY <7>1, <7>3
              <7> QED
                BY <7>2, <7>3
            <6> QED
              BY <6>2
          <5> QED
            BY <5>1 DEF Above
        <4>7. Newer(w, l) = Cardinality(Above(w, s))
          BY <1>1, <1>2, NewerType
        <4> QED
          BY <4>5, <4>6, <4>7
      <3>5. \A k \in Latencies : window'[k] = window[k]
        <4>1. window'[l] = 0
          <5>1. Newer(w, l) \in Nat
            BY <1>2, NewerType
          <5>2. Trimmed(w)[l] = IF Newer(w, l) < WindowSize THEN w[l] ELSE 0
            BY <1>2, TrimmedAt
          <5>3. ~(Newer(w, l) < WindowSize)
            BY <3>2, <3>4, <5>1
          <5> QED
            BY <1>2, <5>2, <5>3
        <4>2. ASSUME NEW k \in Latencies, k # l
              PROVE  window'[k] = window[k]
          <5>1. CASE window[k] = 0
            BY <1>1, <1>2, <4>2, <5>1, TrimmedAt
          <5>2. CASE window[k] # 0
            <6>1. /\ Newer(newest, k) < WindowSize /\ window[k] = newest[k]
                  /\ newest[k] \in Nat
              BY <1>1, <2>1, <5>2, TrimmedAt
            <6>2. newest[k] > s
              <7>1. ~(newest[l] > newest[k])
                BY <1>1, <3>2, <6>1, HigherIsEarlier, NewerType
              <7> QED
                BY <1>1, <3>1, <6>1, <7>1
            <6>3. Above(w, w[k]) \subseteq Above(newest, newest[k])
              <7>1. w[k] = newest[k]
                BY <1>2, <4>2, <6>1
              <7>2. \A j \in Latencies : w[j] > newest[k] => newest[j] > newest[k]
                <8>1. \A j \in Latencies : window[j] \in {0, newest[j]} /\ newest[j] \in Nat
                  BY <1>1, <2>1, TrimmedAt
                <8> QED
                  BY <1>1, <1>2, <6>1, <6>2, <8>1
              <7> QED
                BY <7>1, <7>2 DEF Above
            <6>4. Newer(w, k) <= Newer(newest, k)
              <7>1. /\ Newer(w, k) = Cardinality(Above(w, w[k]))
                    /\ Newer(newest, k) = Cardinality(Above(newest, newest[k]))
                    /\ IsFiniteSet(Above(newest, newest[k]))
                BY <1>1, <1>2, NewerType
              <7> QED
                BY <6>3, <7>1, FS_Subset
            <6>5. Newer(w, k) < WindowSize
              BY <1>1, <1>2, <3>2, <6>1, <6>4, NewerType
            <6> QED
              BY <1>1, <1>2, <4>2, <6>5, TrimmedAt
          <5> QED
            BY <5>1, <5>2
        <4> QED
          BY <3>3, <4>1, <4>2
      <3>6. window' = window
        <4>1. window' \in [Latencies -> Nat] /\ window \in [Latencies -> Nat]
          BY <1>1, <1>3 DEF Distinct
        <4>2. /\ window' = [k \in Latencies |-> window'[k]]
              /\ window = [k \in Latencies |-> window[k]]
          BY <4>1
        <4>3. [k \in Latencies |-> window'[k]] = [k \in Latencies |-> window[k]]
          BY <3>5
        <4> QED
          BY <4>2, <4>3
      <3> QED
        BY <2>1, <3>1, <3>6
    <2> QED
      BY <2>2, <2>3
  <1>8. ASSUME NEW q \in Requests, Pending(q)'
        PROVE  /\ q # r /\ Pending(q) /\ stamp'[q] = stamp[q] /\ latency'[q] = latency[q]
               /\ stamp[q] # s
    <2>1. q # r /\ Pending(q) /\ stamp'[q] = stamp[q] /\ latency'[q] = latency[q]
      BY <1>8 DEF WindowInv, WindowTypeOK, Pending
    <2> QED
      BY <2>1 DEF WindowInv, StampsAreFresh
  <1>9. StampsAreFresh'
    <2>1. ASSUME NEW k \in Latencies
          PROVE  newest'[k] <= stamps' /\ window'[k] <= stamps'
      <3>1. /\ newest[k] <= stamps /\ window[k] <= stamps /\ stamps' = stamps
            /\ newest'[k] \in {newest[k], s} /\ window'[k] \in {0, window[k], s}
        BY <1>4, <1>5 DEF WindowInv, StampsAreFresh
      <3> QED
        BY <1>1, <3>1
    <2>2. ASSUME NEW q \in Requests, Pending(q)'
          PROVE  /\ latency'[q] \in Latencies
                 /\ 0 < stamp'[q] /\ stamp'[q] <= stamps'
                 /\ \A k \in Latencies : newest'[k] # stamp'[q] /\ window'[k] # stamp'[q]
      <3>1. /\ q # r /\ Pending(q) /\ stamp'[q] = stamp[q] /\ latency'[q] = latency[q]
            /\ stamp[q] # s /\ stamp[q] \in Nat
        BY <1>8, <2>2 DEF WindowInv, WindowTypeOK
      <3>2. /\ latency[q] \in Latencies /\ 0 < stamp[q] /\ stamp[q] <= stamps
            /\ \A k \in Latencies : newest[k] # stamp[q] /\ window[k] # stamp[q]
        BY <3>1 DEF WindowInv, StampsAreFresh
      <3>3. ASSUME NEW k \in Latencies
            PROVE  newest'[k] # stamp[q] /\ window'[k] # stamp[q]
        <4>1. newest'[k] \in {newest[k], s} /\ window'[k] \in {0, window[k], s}
          BY <1>4, <1>5
        <4> QED
          BY <3>1, <3>2, <4>1
      <3> QED
        BY <3>1, <3>2, <3>3
    <2>3. \A q, q_1 \in Requests : Pending(q)' /\ Pending(q_1)' /\ stamp'[q] = stamp'[q_1] => q = q_1
      BY <1>8 DEF WindowInv, StampsAreFresh
    <2> QED
      BY <1>3, <1>5, <2>1, <2>2, <2>3 DEF StampsAreFresh
  <1> QED
    BY <1>3, <1>6, <1>7, <1>9 DEF WindowInv, Kept

LEMMA PushKeepsWindow ==
  ASSUME WindowInv, NEW r \in Requests, Push(r)
  PROVE  WindowInv'
  <1>1. /\ Pending(r) /\ pc' = [pc EXCEPT ![r] = "get"]
        /\ latency' = [latency EXCEPT ![r] = 0] /\ stamp' = [stamp EXCEPT ![r] = 0]
        /\ stamps' = stamps
        /\ latency[r] \in Latencies /\ stamp[r] \in Nat
    BY DEF Push, Pending, Goto, WindowInv, WindowTypeOK, StampsAreFresh
  <1>2. CASE /\ window' = Trimmed([window EXCEPT ![latency[r]] = stamp[r]])
             /\ newest' = [newest EXCEPT ![latency[r]] = IF stamp[r] > @ THEN stamp[r] ELSE @]
             /\ lowered' = (lowered \/ stamp[r] < window[latency[r]])
    BY <1>1, <1>2, RecordKeepsWindow
  <1>3. CASE UNCHANGED ranks
    <2>1. window' = window /\ newest' = newest /\ lowered' = lowered
      BY <1>3 DEF ranks
    <2>2. WindowTypeOK' /\ Kept'
      BY <1>1, <2>1 DEF WindowInv, WindowTypeOK, Kept, Recorded, Trimmed, Newer
    <2>3. Distinct(newest)' /\ Distinct(window)'
      BY <2>1 DEF WindowInv, StampsAreFresh, Distinct, Recorded
    <2>4. \A q \in Requests : Pending(q)' =>
              Pending(q) /\ stamp'[q] = stamp[q] /\ latency'[q] = latency[q]
      BY <1>1 DEF WindowInv, WindowTypeOK, Pending
    <2>5. StampsAreFresh'
      BY <1>1, <2>1, <2>3, <2>4 DEF WindowInv, StampsAreFresh
    <2> QED
      BY <2>2, <2>5 DEF WindowInv
  <1> QED
    BY <1>2, <1>3 DEF Push

LEMMA ExpiryKeepsWindow ==
  ASSUME WindowInv, WindowExpires
  PROVE  WindowInv'
  <1>1. /\ window' = [l \in Latencies |-> 0] /\ newest' = window'
        /\ UNCHANGED <<pc, latency, stamp, stamps>>
        /\ \A q \in Requests : ~Pending(q)'
    BY DEF WindowExpires, sample, Pending
  <1>2. Distinct(window') /\ Recorded(window') = {} /\ Trimmed(window') = window'
    BY <1>1, NothingRecorded
  <1>3. WindowTypeOK'
    BY <1>1 DEF WindowInv, WindowTypeOK
  <1>4. StampsAreFresh'
    BY <1>1, <1>2 DEF WindowInv, WindowTypeOK, StampsAreFresh
  <1>5. Kept'
    BY <1>1, <1>2, EmptyFits DEF Kept
  <1> QED
    BY <1>3, <1>4, <1>5 DEF WindowInv

LEMMA StepKeepsWindow ==
  ASSUME WindowInv, [Next]_vars
  PROVE  WindowInv'
  <1>1. CASE UNCHANGED vars
    BY <1>1, WindowUntouched DEF vars, sample, WindowInv, WindowTypeOK
  <1>2. CASE Tick
    BY <1>2, WindowUntouched DEF Tick, sample, WindowInv, WindowTypeOK
  <1>3. CASE WindowExpires
    BY <1>3, ExpiryKeepsWindow
  <1>4. ASSUME NEW r \in Requests, Step(r)
        PROVE  WindowInv'
    <2>1. CASE Arrive(r)
      BY <2>1, WindowUntouched DEF Arrive, Goto, sample, WindowInv, WindowTypeOK
    <2>2. CASE Incr(r)
      BY <2>2, WindowUntouched DEF Incr, Goto, sample, WindowInv, WindowTypeOK
    <2>3. CASE SetExpiry(r)
      BY <2>3, WindowUntouched DEF SetExpiry, Goto, sample, WindowInv, WindowTypeOK
    <2>4. CASE Bypass(r)
      BY <2>4, WindowUntouched DEF Bypass, Goto, sample, WindowInv, WindowTypeOK
    <2>5. CASE Serve(r)
      BY <2>5, ServeKeepsWindow
    <2>6. CASE Push(r)
      BY <2>6, PushKeepsWindow
    <2>7. CASE GetRate(r)
      BY <2>7, WindowUntouched DEF GetRate, Goto, sample, WindowInv, WindowTypeOK
    <2>8. CASE SetRate(r)
      BY <2>8, WindowUntouched DEF SetRate, Goto, WindowInv, WindowTypeOK
    <2>9. CASE SkipRate(r)
      BY <2>9, WindowUntouched DEF SkipRate, Goto, sample, WindowInv, WindowTypeOK
    <2> QED
      BY <1>4, <2>1, <2>2, <2>3, <2>4, <2>5, <2>6, <2>7, <2>8, <2>9 DEF Step
  <1> QED
    BY <1>1, <1>2, <1>3, <1>4 DEF Next

\* However many requests write the window and however their transactions
\* overtake each other, whichever of them fails: it holds the latencies
\* recorded last, and the percentiles are its order statistics
\* (_push_latency_sample, _get_percentiles).
THEOREM WindowHoldsTheRecent == Spec => []WindowIsRecent
  <1>1. WindowInv => WindowIsRecent
    <2> SUFFICES ASSUME WindowInv PROVE WindowIsRecent
      OBVIOUS
    <2>1. Distinct(window) /\ Samples = Recorded(window) /\ Cardinality(Samples) \in Nat
      BY OrderStatistics DEF WindowInv, StampsAreFresh
    <2>2. ASSUME Cardinality(Samples) >= MinSamples, NEW p \in {50, 95, 99}
          PROVE  Percentile(p) = Min({x \in Samples : 100 * NotAbove(x) > p * Cardinality(Samples)})
      <3>1. p \in 0..99 /\ Cardinality(Samples) >= 1
        BY <2>1, <2>2, TelemetryAssumption
      <3> QED
        BY <2>1, <3>1, PercentileIsRight
    <2> QED
      BY <2>1, <2>2 DEF WindowInv, Kept, WindowIsRecent
  <1> QED
    BY InitWindow, StepKeepsWindow, <1>1, PTL DEF Spec
=============================================================================
