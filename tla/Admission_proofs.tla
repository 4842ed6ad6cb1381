-------------------------- MODULE Admission_proofs --------------------------
(***************************************************************************)
(* The limiter's slots and the dedup locks of Admission, for any finite    *)
(* set of requests, any keys, any limits, however the limit moves, and all *)
(* faults.                                                                 *)
(*                                                                         *)
(* The bounds of the adaptive limit come first: they are a theorem of      *)
(* AimdControl alone, and what a slot taken or returned keeps of them is   *)
(* what the typing of Admission rests on.  Then comes what moves the limit:*)
(* VegasLimiter, with its window and baseline, implements AimdControl.     *)
(***************************************************************************)
EXTENDS Admission, VegasLimiter, FunctionTheorems, FiniteSetTheorems, SequenceTheorems, TLAPS

-----------------------------------------------------------------------------
(* The limit *)

\* A decrease by a tenth is monotone: from a larger limit it ends no lower.
LEMMA TenthMonotone ==
    ASSUME NEW a \in Nat, NEW b \in Nat, a <= b
    PROVE  (9 * a) \div 10 <= (9 * b) \div 10 /\ (9 * a) \div 10 \in Nat /\ (9 * b) \div 10 <= b
OBVIOUS

\* The floor is a limit a decrease can reach, or the initial limit.
LEMMA FloorBelow ==
    /\ Floor \in Nat /\ Floor <= InitialLimit
    /\ Floor <= (9 * (Beta + 2)) \div 10
BY LimitAssumption, TenthMonotone DEF Floor

\* Whatever queue below the limit is estimated, the adjusted limit is within
\* the bounds.
LEMMA AdjustedWithinBounds ==
    ASSUME LimitWithinBounds, NEW q \in 0..(limit - 1)
    PROVE  Adjusted(q) \in Nat /\ Floor <= Adjusted(q) /\ Adjusted(q) <= MaxLimit
<1> USE LimitAssumption
<1>1. Floor \in Nat /\ limit \in Nat /\ Floor <= limit /\ limit <= MaxLimit
  BY FloorBelow DEF LimitWithinBounds
<1>2. CASE q < Alpha
  BY <1>1, <1>2 DEF Adjusted, Increase
<1>3. CASE q >= Alpha /\ q > Beta
  <2>1. Beta + 2 <= limit
    BY <1>1, <1>3
  <2>2. /\ (9 * (Beta + 2)) \div 10 <= (9 * limit) \div 10
        /\ (9 * limit) \div 10 \in Nat
        /\ (9 * limit) \div 10 <= limit
    BY <1>1, <2>1, TenthMonotone
  <2>3. Floor <= (9 * limit) \div 10
    BY <1>1, <2>2, FloorBelow
  <2> QED
    BY <1>1, <1>3, <2>2, <2>3 DEF Adjusted, Decrease
<1>4. CASE q >= Alpha /\ q <= Beta
  BY <1>1, <1>4 DEF Adjusted
<1> QED
  BY <1>1, <1>2, <1>3, <1>4

\* The limiter starts within its bounds, and each operation keeps them.
LEMMA InitWithinBounds == ControlInit => WithinBounds
BY LimitAssumption, FloorBelow
   DEF ControlInit, WithinBounds, LimitWithinBounds, ActiveWithinBounds

LEMMA GrantWithinBounds == WithinBounds /\ Grant => WithinBounds'
BY LimitAssumption DEF Grant, WithinBounds, LimitWithinBounds, ActiveWithinBounds

LEMMA ReturnWithinBounds == WithinBounds /\ Return => WithinBounds'
<1> SUFFICES ASSUME WithinBounds, Return PROVE WithinBounds'
  OBVIOUS
<1>1. ActiveWithinBounds'
  BY LimitAssumption DEF Return, WithinBounds, ActiveWithinBounds
<1>2. LimitWithinBounds'
  <2>1. CASE UNCHANGED limit
    BY <2>1 DEF WithinBounds, LimitWithinBounds
  <2>2. CASE \E q \in 0..(limit - 1) : limit' = Adjusted(q)
    BY <2>2, AdjustedWithinBounds DEF WithinBounds, LimitWithinBounds
  <2> QED
    BY <2>1, <2>2 DEF Return
<1> QED
  BY <1>1, <1>2 DEF WithinBounds

\* The limit stays between Floor and MaxLimit, and no more than MaxLimit
\* requests ever hold a slot.
THEOREM BoundsHold == ControlSpec => []WithinBounds
<1>1. WithinBounds /\ [ControlNext]_<<limit, active>> => WithinBounds'
  <2>1. UNCHANGED <<limit, active>> /\ WithinBounds => WithinBounds'
    BY DEF WithinBounds, LimitWithinBounds, ActiveWithinBounds
  <2> QED
    BY <2>1, GrantWithinBounds, ReturnWithinBounds DEF ControlNext
<1> QED
  BY InitWithinBounds, <1>1, PTL DEF ControlSpec

-----------------------------------------------------------------------------
(* What moves the limit *)

\* The sum of a window is a number, and at least as many times its least
\* latency as it is long.
LEMMA TotalIsEnough ==
    ASSUME NEW w \in Seq(Nat), NEW m \in Nat, \A i \in DOMAIN w : m <= w[i]
    PROVE  Total(w) \in Nat /\ Len(w) * m <= Total(w)
<1> DEFINE D == 1..Len(w)
           Units(i) == {i} \X (1..w[i])
           S == {Units(i) : i \in D}
           f == [i \in D |-> Units(i)]
<1>1. /\ Len(w) \in Nat /\ DOMAIN w = D /\ \A i \in D : w[i] \in Nat
      /\ IsFiniteSet(D) /\ Cardinality(D) = Len(w)
  <2>1. Len(w) \in Nat /\ DOMAIN w = D /\ \A i \in D : w[i] \in Nat
    OBVIOUS
  <2>2. ASSUME NEW n \in Nat
        PROVE  IsFiniteSet(1..n) /\ Cardinality(1..n) = n
    BY FS_Interval
  <2> QED
    BY <2>1, <2>2
<1>2. ASSUME NEW i \in D
      PROVE  IsFiniteSet(Units(i))
  <2>1. w[i] \in Nat /\ IsFiniteSet({i})
    BY <1>1, FS_Singleton
  <2>2. IsFiniteSet(1..w[i])
    BY <2>1, FS_Interval
  <2> QED
    BY <2>1, <2>2, FS_Product
<1>3. IsFiniteSet(S)
  <2>1. f \in Surjection(D, S)
    BY DEF Surjection
  <2> QED
    BY <1>1, <2>1, FS_Surjection
<1>4. IsFiniteSet(UNION S)
  <2>1. \A T \in S : IsFiniteSet(T)
    BY <1>2
  <2> QED
    BY <1>3, <2>1, FS_UNION
<1>5. D \X (1..m) \subseteq UNION S
  <2>1. ASSUME NEW i \in D, NEW u \in 1..m
        PROVE  <<i, u>> \in UNION S
    <3>1. w[i] \in Nat /\ m <= w[i]
      BY <1>1
    <3>2. <<i, u>> \in Units(i)
      BY <3>1
    <3> QED
      BY <3>2
  <2> QED
    BY <2>1
<1>6. Cardinality(D \X (1..m)) = Len(w) * m
  <2>1. IsFiniteSet(1..m) /\ Cardinality(1..m) = m
    BY FS_Interval
  <2> QED
    BY <1>1, <2>1, FS_Product
<1>7. Total(w) = Cardinality(UNION S)
  <2>1. S = {{i} \X (1..w[i]) : i \in DOMAIN w}
    BY <1>1
  <2> QED
    BY <2>1 DEF Total
<1>8. Cardinality(UNION S) \in Nat /\ Cardinality(D \X (1..m)) <= Cardinality(UNION S)
  BY <1>4, <1>5, FS_CardinalityType, FS_Subset
<1> QED
  BY <1>6, <1>7, <1>8

LEMMA DivisionBounds ==
    ASSUME NEW x \in Nat, NEW d \in Nat, d > 0, NEW n \in Nat, x < n * d
    PROVE  x \div d \in 0..(n - 1)
<1>1. x \div d \in Int
  OBVIOUS
<1>2. x \div d >= 0
  OBVIOUS
<1>3. x \div d < n
  OBVIOUS
<1> QED
  BY <1>1, <1>2, <1>3

\* A part of a product is a part of its first factor.
LEMMA PartOfProduct ==
    ASSUME NEW a \in Nat, NEW t \in Nat, a < t, NEW n \in Nat, n > 0
    PROVE  (n * a) \div t \in 0..(n - 1)
<1>1. n * a \in Nat /\ n * a < n * t
  <2>1. n * a \in Nat /\ n * t \in Nat /\ n * (t - a) = n * t - n * a
    OBVIOUS
  <2>2. t - a \in Nat \ {0} /\ n \in Nat \ {0}
    OBVIOUS
  <2>3. n * (t - a) > 0
    BY <2>2
  <2> QED
    BY <2>1, <2>3
<1> QED
  BY <1>1, DivisionBounds

\* The queue that is estimated is a part of the limit, and never all of it.
LEMMA EstimateBelowLimit ==
    ASSUME limit \in Nat, limit > 0, NEW min \in Nat, min > 0,
           NEW w \in Seq(Nat), Len(w) > 0, \A i \in DOMAIN w : min <= w[i],
           NEW q \in QueueEstimates(min, w)
    PROVE  q \in 0..(limit - 1)
<1> DEFINE total  == Total(w)
           queued == limit * (total - Len(w) * min)
           exact  == queued \div total
<1>1. total \in Nat /\ Len(w) * min <= total /\ Len(w) \in Nat
  BY TotalIsEnough
<1>2. Len(w) * min \in Nat /\ Len(w) * min > 0
  <2>1. ASSUME NEW n \in Nat \ {0}, NEW k \in Nat \ {0}
        PROVE  n * k \in Nat /\ n * k > 0
    OBVIOUS
  <2> QED
    BY <1>1, <2>1
<1>3. total - Len(w) * min \in Nat /\ total - Len(w) * min < total
  BY <1>1, <1>2
<1>4. exact \in 0..(limit - 1)
  BY <1>1, <1>3, PartOfProduct
<1>5. q \in {exact - 1, exact} /\ (q # exact => exact > 0)
  BY DEF QueueEstimates
<1> QED
  BY <1>4, <1>5

\* A limit that was positive when a slot was granted stays positive.
SlotsNeedALimit == active > 0 => limit > 0

LimiterInv == WithinBounds /\ SlotsNeedALimit /\ BaselineIsMinimal

LEMMA AdjustedIsPositive ==
    ASSUME LimitWithinBounds, limit > 0, NEW q \in 0..(limit - 1)
    PROVE  Adjusted(q) > 0
<1> USE LimitAssumption
<1>1. limit \in Nat /\ limit <= MaxLimit
  BY DEF LimitWithinBounds
<1>2. CASE q < Alpha
  BY <1>1, <1>2 DEF Adjusted, Increase
<1>3. CASE q >= Alpha /\ q > Beta
  <2>1. limit >= 2 /\ (9 * limit) \div 10 \in Nat /\ (9 * limit) \div 10 >= 1
    BY <1>1, <1>3
  <2> QED
    BY <1>3, <2>1 DEF Adjusted, Decrease
<1>4. CASE q >= Alpha /\ q <= Beta
  BY <1>1, <1>4 DEF Adjusted
<1> QED
  BY <1>1, <1>2, <1>3, <1>4

\* The window forgets its oldest latency and takes the new one, the baseline
\* is not above any of them.
LEMMA ReleaseKeepsBaseline ==
    ASSUME BaselineIsMinimal,
           NEW l \in Latencies, l # 0,
           minLatency' = Baseline(l), samples' = Window(l)
    PROVE  BaselineIsMinimal'
<1> DEFINE longer == Append(samples, l)
<1>1. /\ WindowSize \in Nat /\ WindowSize > 0 /\ Latencies \subseteq Nat /\ l \in Latencies \ {0}
      /\ samples \in Seq(Latencies \ {0}) /\ Len(samples) <= WindowSize /\ Len(samples) \in Nat
      /\ minLatency \in Latencies \cup {0}
      /\ \A i \in 1..Len(samples) : 0 < minLatency /\ minLatency <= samples[i]
  BY WindowAssumption DEF BaselineIsMinimal
<1>2. /\ minLatency' \in Latencies /\ minLatency' \in Nat /\ 0 < minLatency' /\ minLatency' <= l
      /\ minLatency # 0 => minLatency' <= minLatency
  BY <1>1 DEF Baseline
<1>3. /\ longer \in Seq(Latencies \ {0}) /\ Len(longer) = Len(samples) + 1
      /\ \A i \in 1..Len(longer) : longer[i] = IF i <= Len(samples) THEN samples[i] ELSE l
  BY <1>1, AppendProperties
<1>4. ASSUME NEW i \in 1..Len(longer)
      PROVE  minLatency' <= longer[i]
  <2>1. CASE i <= Len(samples)
    <3>1. i \in 1..Len(samples) /\ samples[i] \in Nat
      <4>1. i \in 1..Len(samples)
        BY <1>1, <1>3, <2>1
      <4>2. samples[i] \in Latencies
        BY <1>1, <4>1
      <4> QED
        BY <1>1, <4>1, <4>2
    <3> QED
      BY <1>1, <1>2, <1>3, <2>1, <3>1
  <2>2. CASE ~(i <= Len(samples))
    BY <1>2, <1>3, <2>2
  <2> QED
    BY <2>1, <2>2
<1> HIDE DEF longer
<1>5. samples' = IF Len(longer) > WindowSize THEN Tail(longer) ELSE longer
  BY DEF Window, longer
<1>6. CASE Len(longer) > WindowSize
  <2>1. longer # <<>>
    BY <1>1, <1>6
  <2>2. /\ Tail(longer) \in Seq(Latencies \ {0}) /\ Len(Tail(longer)) = Len(longer) - 1
        /\ \A i \in 1..(Len(longer) - 1) : Tail(longer)[i] = longer[i + 1]
    BY <1>3, <2>1, HeadTailProperties
  <2>3. ASSUME NEW i \in DOMAIN samples'
        PROVE  minLatency' <= samples'[i]
    <3>1. i \in 1..(Len(longer) - 1) /\ i + 1 \in 1..Len(longer)
      BY <1>1, <1>3, <1>5, <1>6, <2>2
    <3> QED
      BY <1>4, <1>5, <1>6, <2>2, <3>1
  <2> QED
    BY <1>1, <1>2, <1>3, <1>5, <1>6, <2>2, <2>3 DEF BaselineIsMinimal
<1>7. CASE ~(Len(longer) > WindowSize)
  BY <1>1, <1>2, <1>3, <1>4, <1>5, <1>7 DEF BaselineIsMinimal
<1> QED
  BY <1>6, <1>7

\* A release is a return of the plain control.
LEMMA ReleaseIsReturn ==
    ASSUME LimiterInv, NEW l \in Latencies, Release(l)
    PROVE  Return /\ SlotsNeedALimit' /\ BaselineIsMinimal'
<1>1. /\ active > 0 /\ active' = active - 1 /\ active \in Nat
      /\ limit \in Nat /\ limit > 0 /\ LimitWithinBounds
  BY DEF LimiterInv, Release, WithinBounds, LimitWithinBounds, ActiveWithinBounds, SlotsNeedALimit
<1>2. CASE l = 0
  <2>1. UNCHANGED <<limit, minLatency, samples>>
    BY <1>2 DEF Release
  <2> QED
    BY <1>1, <2>1 DEF Return, SlotsNeedALimit, LimiterInv, BaselineIsMinimal
<1>3. CASE l # 0
  <2>1. /\ minLatency' = Baseline(l) /\ samples' = Window(l)
        /\ \/ UNCHANGED limit
           \/ /\ Len(samples') >= MinSamples
              /\ \E q \in QueueEstimates(minLatency', samples') : limit' = Adjusted(q)
    <3>1. /\ minLatency' = Baseline(l) /\ samples' = Window(l)
          /\ IF Len(samples') < MinSamples
             THEN UNCHANGED limit
             ELSE \E q \in QueueEstimates(minLatency', samples') : limit' = Adjusted(q)
      BY <1>3 DEF Release
    <3>2. BaselineIsMinimal'
      BY <1>3, <3>1, ReleaseKeepsBaseline DEF LimiterInv
    <3>3. Len(samples') \in Nat /\ MinSamples \in Nat
      BY <3>2, WindowAssumption DEF BaselineIsMinimal
    <3> QED
      BY <3>1, <3>3
  <2>2. BaselineIsMinimal'
    BY <1>3, <2>1, ReleaseKeepsBaseline DEF LimiterInv
  <2>3. CASE UNCHANGED limit
    BY <1>1, <2>2, <2>3 DEF Return, SlotsNeedALimit
  <2>4. CASE /\ Len(samples') >= MinSamples
             /\ \E q \in QueueEstimates(minLatency', samples') : limit' = Adjusted(q)
    <3>1. PICK q \in QueueEstimates(minLatency', samples') : limit' = Adjusted(q)
      BY <2>4
    <3>2. /\ samples' \in Seq(Nat) /\ Len(samples') > 0 /\ minLatency' \in Nat /\ minLatency' > 0
          /\ \A i \in DOMAIN samples' : minLatency' <= samples'[i]
      <4>1. /\ Latencies \subseteq Nat /\ MinSamples \in Nat /\ MinSamples > 0
            /\ minLatency' \in Latencies \cup {0} /\ samples' \in Seq(Latencies \ {0})
            /\ \A i \in DOMAIN samples' : 0 < minLatency' /\ minLatency' <= samples'[i]
        BY <2>2, WindowAssumption DEF BaselineIsMinimal
      <4>2. Len(samples') > 0 /\ 1 \in DOMAIN samples'
        BY <2>4, <4>1
      <4>3. samples' \in Seq(Nat)
        <5>1. samples' \in [1..Len(samples') -> Latencies \ {0}] /\ Len(samples') \in Nat
          BY <4>1
        <5>2. samples' \in [1..Len(samples') -> Nat]
          BY <4>1, <5>1
        <5> QED
          BY <5>1, <5>2, SeqDef
      <4> QED
        BY <4>1, <4>2, <4>3
    <3>3. q \in 0..(limit - 1)
      BY <1>1, <3>2, EstimateBelowLimit
    <3>4. limit' = Adjusted(q)
      BY <3>1
    <3>5. limit' > 0
      BY <1>1, <3>3, <3>4, AdjustedIsPositive
    <3> QED
      BY <1>1, <2>2, <3>3, <3>4, <3>5 DEF Return, SlotsNeedALimit
  <2> QED
    BY <2>1, <2>3, <2>4
<1> QED
  BY <1>2, <1>3

LEMMA LimiterInitially ==
    ASSUME LimiterInit
    PROVE  LimiterInv /\ ControlInit
<1>1. ControlInit /\ minLatency = 0 /\ samples = <<>>
  BY DEF LimiterInit, ControlInit
<1>2. WithinBounds /\ SlotsNeedALimit
  BY <1>1, InitWithinBounds DEF ControlInit, SlotsNeedALimit
<1>3. BaselineIsMinimal
  BY <1>1, WindowAssumption DEF BaselineIsMinimal
<1> QED
  BY <1>1, <1>2, <1>3 DEF LimiterInv

LEMMA LimiterStep ==
    ASSUME LimiterInv, [LimiterNext]_limiterVars
    PROVE  LimiterInv' /\ [ControlNext]_<<limit, active>>
<1>1. CASE UNCHANGED limiterVars
  BY <1>1 DEF limiterVars, LimiterInv, WithinBounds, LimitWithinBounds, ActiveWithinBounds,
              SlotsNeedALimit, BaselineIsMinimal
<1>2. CASE Acquire
  <2>1. Grant /\ UNCHANGED <<minLatency, samples>>
    BY <1>2 DEF Acquire, Grant
  <2>2. WithinBounds' /\ SlotsNeedALimit'
    BY <2>1, GrantWithinBounds
       DEF LimiterInv, Grant, SlotsNeedALimit, WithinBounds, LimitWithinBounds, ActiveWithinBounds
  <2>3. BaselineIsMinimal'
    BY <2>1 DEF LimiterInv, BaselineIsMinimal
  <2> QED
    BY <2>1, <2>2, <2>3 DEF LimiterInv, ControlNext
<1>3. CASE \E l \in Latencies : Release(l)
  <2>1. Return /\ SlotsNeedALimit' /\ BaselineIsMinimal'
    BY <1>3, ReleaseIsReturn
  <2>2. WithinBounds'
    BY <2>1, ReturnWithinBounds DEF LimiterInv
  <2> QED
    BY <2>1, <2>2 DEF LimiterInv, ControlNext
<1> QED
  BY <1>1, <1>2, <1>3 DEF LimiterNext

\* The baseline is the least latency of the window for any latencies, however
\* long ago it was measured, and whatever window.
THEOREM BaselineHolds == LimiterSpec => []BaselineIsMinimal
<1>1. LimiterInv => BaselineIsMinimal
  BY DEF LimiterInv
<1>2. LimiterInv /\ [LimiterNext]_limiterVars => LimiterInv'
  BY LimiterStep
<1>3. LimiterInit => LimiterInv
  BY LimiterInitially
<1> QED
  BY <1>1, <1>2, <1>3, PTL DEF LimiterSpec

\* acquire and release do to limit and slots what AimdControl allows, for any
\* latencies and limits, however the arithmetic of the estimate is cut: it is
\* never negative and never reaches the limit.
THEOREM LimiterImplementsControl == LimiterSpec => ImplementsControl
<1>1. LimiterInv /\ [LimiterNext]_limiterVars => LimiterInv' /\ [ControlNext]_<<limit, active>>
  BY LimiterStep
<1>2. LimiterInit => LimiterInv /\ ControlInit
  BY LimiterInitially
<1> QED
  BY <1>1, <1>2, PTL DEF LimiterSpec, ImplementsControl, ControlSpec

-----------------------------------------------------------------------------
(* Slots and locks *)

Waiting == {"new", "lock", "subscribe", "waiting", "admit", "reject"}
Served  == {"route", "unlock", "slot"} \cup Serving

\* Where a request is tells whether it holds a slot, except at the end.
HoldsByPhase ==
    \A r \in Requests : /\ pc[r] \in Waiting \cup Body => ~holds[r]
                        /\ pc[r] \in Served => holds[r]

IInv == TypeOK /\ SlotsCounted /\ HoldsByPhase /\ OnlyTheseLeakSlots

\* The set of holders is finite, so its members can be counted.
LEMMA HoldersFinite == IsFiniteSet(Holders)
BY AdmissionAssumption, FS_Subset DEF Holders

\* A request that is granted a slot joins the holders.
LEMMA GrantCounts ==
    ASSUME TypeOK, SlotsCounted, NEW r \in Requests, ~holds[r],
           holds' = [holds EXCEPT ![r] = TRUE], active' = active + 1
    PROVE  SlotsCounted'
<1>1. Holders' = Holders \cup {r}
  BY DEF Holders, TypeOK
<1>2. r \notin Holders
  BY DEF Holders
<1>3. Cardinality(Holders') = Cardinality(Holders) + 1
  BY <1>1, <1>2, HoldersFinite, FS_AddElement
<1> QED
  BY <1>3 DEF SlotsCounted

\* A request that returns its slot leaves them, so the counter was not zero.
LEMMA ReturnCounts ==
    ASSUME TypeOK, SlotsCounted, NEW r \in Requests, holds[r],
           holds' = [holds EXCEPT ![r] = FALSE],
           active' = IF active > 0 THEN active - 1 ELSE 0
    PROVE  SlotsCounted'
<1>1. Holders' = Holders \ {r}
  BY DEF Holders, TypeOK
<1>2. r \in Holders
  BY DEF Holders
<1>3. Cardinality(Holders') = Cardinality(Holders) - 1
  BY <1>1, <1>2, HoldersFinite, FS_RemoveElement
<1>4. Cardinality(Holders) \in Nat /\ Cardinality(Holders') \in Nat
  <2>1. IsFiniteSet(Holders')
    BY <1>1, HoldersFinite, FS_RemoveElement
  <2> QED
    BY <2>1, HoldersFinite, FS_CardinalityType
<1> QED
  BY <1>3, <1>4 DEF SlotsCounted

\* Steps that touch neither the slots nor the counter.
LEMMA NothingCounts ==
    ASSUME SlotsCounted, UNCHANGED slots
    PROVE  SlotsCounted'
BY DEF SlotsCounted, Holders, slots

\* A gateway that just started has no slot out.
LEMMA Initially == Init => IInv
<1> SUFFICES ASSUME Init PROVE IInv
  OBVIOUS
<1>1. TypeOK /\ HoldsByPhase /\ OnlyTheseLeakSlots
  BY AdmissionAssumption, InitWithinBounds
     DEF Init, TypeOK, Phases, HoldsByPhase, OnlyTheseLeakSlots, Waiting, Served,
         Serving, Body, Final
<1>2. Holders = {}
  BY DEF Init, Holders
<1>3. SlotsCounted
  BY <1>2, FS_EmptySet DEF SlotsCounted, Init, ControlInit
<1> QED
  BY <1>1, <1>3 DEF IInv
-----------------------------------------------------------------------------

\* Going to a phase keeps the type of pc.
LEMMA GotoType ==
    ASSUME TypeOK, NEW r \in Requests, NEW phase \in Phases, Goto(r, phase)
    PROVE  pc' \in [Requests -> Phases]
BY DEF TypeOK, Goto

\* What leaves the slots alone leaves the limiter within its bounds.
LEMMA SlotsUntouched ==
    ASSUME WithinBounds, UNCHANGED <<limit, active>> PROVE WithinBounds'
BY DEF WithinBounds, LimitWithinBounds, ActiveWithinBounds

\* Deleting a lock, or failing to, keeps the type of locks.
LEMMA DeleteLockType ==
    ASSUME TypeOK, NEW r \in Requests, DeleteLock(r) \/ Refuse(r)
    PROVE  lock' \in [Keys -> Requests \cup {NoOne}] /\ loose' \subseteq Keys
BY AdmissionAssumption DEF TypeOK, DeleteLock, Refuse, Loosen

\* Each step keeps the types: the phases it goes to are phases, and the
\* limiter stays within its bounds.
LEMMA TypeStep == TypeOK /\ [Next]_vars => TypeOK'
<1> SUFFICES ASSUME TypeOK, [Next]_vars PROVE TypeOK'
  OBVIOUS
<1> USE AdmissionAssumption DEF Phases, Serving, Body, Final
<1>0. UNCHANGED slots => WithinBounds'
  BY SlotsUntouched DEF slots, TypeOK
<1>1. ASSUME NEW r \in Requests, Lookup(r) PROVE TypeOK'
  BY <1>0, <1>1 DEF Lookup, Goto, TypeOK, slots, locks
<1>2. ASSUME NEW r \in Requests, Step(r) PROVE TypeOK'
  <2>1. CASE AcquireLock(r)
    <3>1. pc' \in [Requests -> Phases]
      BY <2>1, GotoType DEF AcquireLock
    <3>2. lock' \in [Keys -> Requests \cup {NoOne}] /\ loose' \subseteq Keys
      BY <2>1 DEF AcquireLock, Loosen, TypeOK, locks
    <3>3. owner' \in [Requests -> BOOLEAN]
      BY <2>1 DEF AcquireLock, TypeOK
    <3> QED
      BY <1>0, <2>1, <3>1, <3>2, <3>3 DEF AcquireLock, TypeOK, slots
  <2>2. CASE Subscribe(r) \/ GiveUp(r)
    BY <1>0, <2>2 DEF Subscribe, GiveUp, Goto, TypeOK, slots, locks
  <2>9. CASE Receive(r)
    BY <1>0, <2>9 DEF Receive, Goto, TypeOK, slots, locks
  <2>10. CASE Route(r)
    BY <1>0, <2>10 DEF Route, Goto, TypeOK, slots, locks
  <2>11. CASE StreamBody(r)
    BY <1>0, <2>11 DEF StreamBody, Goto, TypeOK, slots, locks
  <2>3. CASE AcquireSlot(r)
    <3>1. pc' \in [Requests -> Phases]
      BY <2>3, GotoType DEF AcquireSlot
    <3>2. WithinBounds'
      BY <1>0, <2>3, GrantWithinBounds DEF AcquireSlot, TypeOK
    <3>3. holds' \in [Requests -> BOOLEAN]
      BY <2>3 DEF AcquireSlot, TypeOK, slots
    <3> QED
      BY <2>3, <3>1, <3>2, <3>3 DEF AcquireSlot, TypeOK, locks
  <2>4. CASE Refuse(r)
    BY <1>0, <2>4, DeleteLockType, GotoType DEF Refuse, TypeOK, slots
  <2>12. CASE Unlock(r)
    BY <1>0, <2>12, DeleteLockType, GotoType DEF Unlock, TypeOK, slots
  <2>5. CASE Upstream(r)
    BY <1>0, <2>5 DEF Upstream, AfterTry, Goto, TypeOK, slots, locks
  <2>6. CASE StoreExact(r)
    BY <1>0, <2>6 DEF StoreExact, Goto, TypeOK, slots, locks
  <2>7. CASE PublishResult(r) \/ PublishError(r)
    BY <1>0, <2>7 DEF PublishResult, PublishError, Deliver, AfterTry, Goto, TypeOK, slots, locks
  <2>8. CASE ReleaseSlot(r)
    <3>1. WithinBounds'
      BY <2>8, ReturnWithinBounds DEF ReleaseSlot, TypeOK
    <3> QED
      BY <2>8, <3>1 DEF ReleaseSlot, Goto, TypeOK, locks
  <2> QED
    BY <1>2, <2>1, <2>2, <2>3, <2>4, <2>5, <2>6, <2>7, <2>8, <2>9,
       <2>10, <2>11, <2>12 DEF Step
<1>3. ASSUME NEW k \in Keys, LockExpires(k) \/ CacheExpires(k) PROVE TypeOK'
  BY <1>0, <1>3 DEF LockExpires, CacheExpires, Loosen, TypeOK, slots, locks
<1>4. CASE Crash
  <2>1. WithinBounds'
    BY <1>4, InitWithinBounds, FloorBelow, LimitAssumption
       DEF Crash, WithinBounds, LimitWithinBounds, ActiveWithinBounds
  <2> QED
    BY <1>4, <2>1 DEF Crash, InProgress, TypeOK, locks
<1>5. CASE UNCHANGED vars
  BY <1>0, <1>5 DEF vars, slots, TypeOK
<1> QED
  BY <1>1, <1>2, <1>3, <1>4, <1>5 DEF Next

\* A handler that moves on without touching the slots keeps the invariant if
\* the phase it goes to fits the slot it has.
LEMMA MoveStep ==
    ASSUME IInv, NEW r \in Requests, NEW phase, Goto(r, phase),
           UNCHANGED slots,
           \A q \in Requests \ {r} : owner'[q] = owner[q],
           phase \in Waiting \cup Body => ~holds[r],
           phase \in Served => holds[r],
           phase \in Final /\ holds[r] => ~owner'[r] \/ phase = "broken"
    PROVE  SlotsCounted' /\ HoldsByPhase' /\ OnlyTheseLeakSlots'
<1>1. SlotsCounted' /\ UNCHANGED holds
  BY NothingCounts DEF IInv, slots
<1>2. pc' = [pc EXCEPT ![r] = phase] /\ pc \in [Requests -> Phases]
  BY DEF IInv, TypeOK, Goto
<1>3. HoldsByPhase'
  BY <1>1, <1>2 DEF IInv, HoldsByPhase
<1>4. OnlyTheseLeakSlots'
  BY <1>1, <1>2 DEF IInv, OnlyTheseLeakSlots
<1> QED
  BY <1>1, <1>3, <1>4

\* The steps before a slot is granted.
LEMMA WaitingSteps ==
    ASSUME IInv, NEW r \in Requests,
           Lookup(r) \/ AcquireLock(r) \/ Subscribe(r) \/ Receive(r)
             \/ GiveUp(r) \/ Refuse(r)
    PROVE  SlotsCounted' /\ HoldsByPhase' /\ OnlyTheseLeakSlots'
<1> USE DEF Waiting, Served, Serving, Body, Final
<1>1. pc[r] \in Waiting /\ ~holds[r]
  BY DEF Lookup, AcquireLock, Subscribe, Receive, GiveUp, Refuse, IInv, HoldsByPhase
<1>2. CASE Lookup(r)
  BY <1>1, <1>2, MoveStep DEF Lookup
<1>3. CASE AcquireLock(r)
  BY <1>1, <1>3, MoveStep DEF AcquireLock, IInv, TypeOK
<1>4. CASE Subscribe(r) \/ GiveUp(r) \/ Refuse(r)
  BY <1>1, <1>4, MoveStep DEF Subscribe, GiveUp, Refuse
<1>5. CASE Receive(r)
  BY <1>1, <1>5, MoveStep DEF Receive
<1> QED
  BY <1>2, <1>3, <1>4, <1>5

\* The steps while a slot is held, and those of a stream's body after it.
LEMMA ServingSteps ==
    ASSUME IInv, NEW r \in Requests,
           Route(r) \/ Upstream(r) \/ StoreExact(r) \/ PublishResult(r)
             \/ PublishError(r) \/ Unlock(r) \/ StreamBody(r)
    PROVE  SlotsCounted' /\ HoldsByPhase' /\ OnlyTheseLeakSlots'
<1> USE DEF Waiting, Served, Serving, Body, Final
<1>h. /\ pc[r] \in Served => holds[r]
      /\ pc[r] \in Body => ~holds[r]
  BY DEF IInv, HoldsByPhase
<1>1. CASE Route(r)
  BY <1>1, <1>h, MoveStep DEF Route
<1>2. CASE Upstream(r)
  BY <1>2, <1>h, MoveStep DEF Upstream, AfterTry
<1>3. CASE StoreExact(r)
  BY <1>3, <1>h, MoveStep DEF StoreExact
<1>4. CASE PublishResult(r)
  BY <1>4, <1>h, MoveStep DEF PublishResult, AfterTry
<1>5. CASE PublishError(r)
  BY <1>5, <1>h, MoveStep DEF PublishError, AfterTry
<1>6. CASE Unlock(r) \/ StreamBody(r)
  BY <1>6, <1>h, MoveStep DEF Unlock, StreamBody
<1> QED
  BY <1>1, <1>2, <1>3, <1>4, <1>5, <1>6

\* The two steps that move a slot.
LEMMA SlotSteps ==
    ASSUME IInv, NEW r \in Requests, AcquireSlot(r) \/ ReleaseSlot(r)
    PROVE  SlotsCounted' /\ HoldsByPhase' /\ OnlyTheseLeakSlots'
<1> USE DEF Waiting, Served, Serving, Body, Final
<1>0. pc \in [Requests -> Phases] /\ holds \in [Requests -> BOOLEAN]
  BY DEF IInv, TypeOK
<1>1. CASE AcquireSlot(r)
  <2>1. ~holds[r]
    BY <1>1 DEF AcquireSlot, IInv, HoldsByPhase
  <2>2. CASE Grant /\ holds' = [holds EXCEPT ![r] = TRUE] /\ Goto(r, "route")
    <3>1. SlotsCounted'
      BY <2>1, <2>2, GrantCounts DEF IInv, Grant
    <3>2. HoldsByPhase' /\ OnlyTheseLeakSlots'
      BY <1>0, <1>1, <2>2 DEF AcquireSlot, Goto, IInv, HoldsByPhase, OnlyTheseLeakSlots
    <3> QED
      BY <3>1, <3>2
  <2>3. CASE Goto(r, "reject") /\ UNCHANGED slots
    BY <1>1, <2>1, <2>3, MoveStep DEF AcquireSlot
  <2> QED
    BY <1>1, <2>2, <2>3 DEF AcquireSlot
<1>2. CASE ReleaseSlot(r)
  <2>1. holds[r]
    BY <1>2 DEF ReleaseSlot, IInv, HoldsByPhase
  <2>2. SlotsCounted'
    BY <1>2, <2>1, ReturnCounts DEF ReleaseSlot, Return, IInv
  <2>3. HoldsByPhase' /\ OnlyTheseLeakSlots'
    BY <1>0, <1>2 DEF ReleaseSlot, Goto, IInv, HoldsByPhase, OnlyTheseLeakSlots
  <2> QED
    BY <2>2, <2>3
<1> QED
  BY <1>1, <1>2

\* A restart returns every slot at once.
LEMMA CrashStep ==
    ASSUME IInv, Crash
    PROVE  SlotsCounted' /\ HoldsByPhase' /\ OnlyTheseLeakSlots'
<1>1. \A r \in Requests : pc'[r] \in Final \cup {"new"} /\ ~holds'[r]
  BY DEF Crash, InProgress, Final
<1>2. Holders' = {}
  BY <1>1 DEF Holders
<1>3. SlotsCounted'
  BY <1>2, FS_EmptySet DEF SlotsCounted, Crash
<1> QED
  BY <1>1, <1>3 DEF HoldsByPhase, OnlyTheseLeakSlots, Served, Serving, Final

\* What is known of the slots in every reachable state.
LEMMA SlotInvariant == Spec => []IInv
<1>1. IInv /\ [Next]_vars => IInv'
  <2> SUFFICES ASSUME IInv, [Next]_vars PROVE IInv'
    OBVIOUS
  <2>1. TypeOK'
    BY TypeStep DEF IInv
  <2>2. ASSUME NEW r \in Requests, Lookup(r) \/ Step(r)
        PROVE  SlotsCounted' /\ HoldsByPhase' /\ OnlyTheseLeakSlots'
    BY <2>2, WaitingSteps, ServingSteps, SlotSteps DEF Step
  <2>3. ASSUME NEW k \in Keys, LockExpires(k) \/ CacheExpires(k)
        PROVE  SlotsCounted' /\ HoldsByPhase' /\ OnlyTheseLeakSlots'
    BY <2>3, NothingCounts
       DEF LockExpires, CacheExpires, IInv, HoldsByPhase, OnlyTheseLeakSlots, slots
  <2>4. ASSUME UNCHANGED vars
        PROVE  SlotsCounted' /\ HoldsByPhase' /\ OnlyTheseLeakSlots'
    BY <2>4, NothingCounts DEF vars, slots, IInv, HoldsByPhase, OnlyTheseLeakSlots
  <2> QED
    <3>1. Crash => SlotsCounted' /\ HoldsByPhase' /\ OnlyTheseLeakSlots'
      BY CrashStep
    <3>2. SlotsCounted' /\ HoldsByPhase' /\ OnlyTheseLeakSlots'
      BY <2>2, <2>3, <2>4, <3>1 DEF Next
    <3> QED
      BY <2>1, <3>2 DEF IInv
<1> QED
  BY Initially, <1>1, PTL DEF Spec

\* The handlers, the lock, the channel and the limiter keep their types, the
\* slots taken never exceeding the largest limit there may be.
THEOREM TypesKept == Spec => []TypeOK
<1>1. IInv => TypeOK
  BY DEF IInv
<1> QED
  BY SlotInvariant, <1>1, PTL

\* The limiter's counter is the number of slots out for all requests, keys,
\* limits and faults: no path of a handler returns a slot twice.
THEOREM SlotAccounting == Spec => []SlotsCounted
<1>1. IInv => SlotsCounted
  BY DEF IInv
<1> QED
  BY SlotInvariant, <1>1, PTL

\* A slot is leaked only by a request that was not the owner or whose routing
\* raised, whatever fails, expires or crashes.
THEOREM SlotLeaks == Spec => []OnlyTheseLeakSlots
<1>1. IInv => OnlyTheseLeakSlots
  BY DEF IInv
<1> QED
  BY SlotInvariant, <1>1, PTL
-----------------------------------------------------------------------------
(* The exclusion of the dedup lock *)

\* A handler that has the lock, if it is an owner, until it deletes it.
Guarded == {"admit", "reject", "route", "unlock"} \cup Serving

\* Only owners stream and only owners clean up: a streaming duplicate joins
\* the owner's stream at once.
OwnersOnly ==
    \A r \in Requests :
        /\ pc[r] \in {"new", "lock", "subscribe", "waiting"} => ~owner[r]
        /\ pc[r] \in {"subscribe", "waiting"} => ~stream[r]
        /\ pc[r] \in Guarded /\ stream[r] => owner[r]
        /\ pc[r] = "unlock" => owner[r]

\* While nothing loosened its lock, an owner has it.
LockKept ==
    \A r \in Requests :
        KeyOf[r] \notin loose /\ owner[r] /\ pc[r] \in Guarded => lock[KeyOf[r]] = r

\* And a lock that is set is that of an owner of its key that is at work, or
\* was when routing raised or the gateway restarted.
LockOwned ==
    \A k \in Keys \ loose :
        lock[k] # NoOne =>
            /\ KeyOf[lock[k]] = k /\ owner[lock[k]]
            /\ pc[lock[k]] \in Guarded \cup {"broken", "lost"}

LInv == TypeOK /\ OwnersOnly /\ LockKept /\ LockOwned

LockParts == OwnersOnly /\ LockKept /\ LockOwned

\* Nobody owns anything at first.
LEMMA LockInitially == Init => LInv
<1> SUFFICES ASSUME Init PROVE LInv
  OBVIOUS
<1>1. TypeOK
  BY Initially DEF IInv
<1>2. LockParts
  BY DEF LockParts, Init, OwnersOnly, LockKept, LockOwned, Guarded, Serving
<1> QED
  BY <1>1, <1>2 DEF LInv, LockParts

\* A handler that moves on without touching the lock keeps the invariant, if
\* an owner that is guarded stays so or dies, and no other becomes so.
LEMMA MoveLocked ==
    ASSUME LInv, NEW r \in Requests, NEW phase, Goto(r, phase),
           UNCHANGED <<owner, locks>>,
           \A q \in Requests \ {r} : stream'[q] = stream[q],
           phase \in Guarded /\ owner[r] => pc[r] \in Guarded,
           pc[r] \in Guarded /\ owner[r] => phase \in Guarded \cup {"broken", "lost"},
           pc[r] \notin {"broken", "lost"},
           phase \in {"new", "lock", "subscribe", "waiting"} => ~owner[r],
           phase \in {"subscribe", "waiting"} => ~stream'[r],
           phase \in Guarded /\ stream'[r] => owner[r],
           phase = "unlock" => owner[r]
    PROVE  LockParts'
<1>1. /\ pc' = [pc EXCEPT ![r] = phase] /\ pc \in [Requests -> Phases]
      /\ UNCHANGED <<lock, loose>>
  BY DEF LInv, TypeOK, Goto, locks
<1>2. OwnersOnly'
  BY <1>1 DEF LInv, OwnersOnly
<1>3. LockKept'
  BY <1>1 DEF LInv, LockKept
<1>4. LockOwned'
  <2> SUFFICES ASSUME NEW k \in Keys \ loose, lock[k] # NoOne
               PROVE  /\ KeyOf[lock[k]] = k /\ owner[lock[k]]
                      /\ pc'[lock[k]] \in Guarded \cup {"broken", "lost"}
    BY <1>1 DEF LockOwned
  <2>1. /\ lock[k] \in Requests /\ KeyOf[lock[k]] = k /\ owner[lock[k]]
        /\ pc[lock[k]] \in Guarded \cup {"broken", "lost"}
    BY DEF LInv, LockOwned, TypeOK
  <2> QED
    BY <1>1, <2>1
<1> QED
  BY <1>2, <1>3, <1>4 DEF LockParts

\* A lock is taken only when it is free, so no guarded owner loses it.
LEMMA AcquireLocked ==
    ASSUME LInv, NEW r \in Requests, AcquireLock(r)
    PROVE  LockParts'
<1> USE DEF Guarded, Serving
<1>0. /\ pc[r] = "lock" /\ pc \in [Requests -> Phases] /\ owner \in [Requests -> BOOLEAN]
      /\ lock \in [Keys -> Requests \cup {NoOne}] /\ KeyOf[r] \in Keys /\ stream' = stream
      /\ NoOne \notin Requests
  BY AdmissionAssumption DEF AcquireLock, LInv, TypeOK
<1>1. CASE /\ lock[KeyOf[r]] = NoOne
           /\ lock' = [lock EXCEPT ![KeyOf[r]] = r]
           /\ owner' = [owner EXCEPT ![r] = TRUE]
           /\ Goto(r, "admit")
           /\ UNCHANGED loose
  <2>1. OwnersOnly'
    BY <1>0, <1>1 DEF LInv, OwnersOnly, Goto
  <2>2. LockKept'
    <3> SUFFICES ASSUME NEW s \in Requests, KeyOf[s] \notin loose,
                        owner'[s], pc'[s] \in Guarded
                 PROVE  lock'[KeyOf[s]] = s
      BY <1>1 DEF LockKept
    <3>1. CASE s = r
      BY <1>0, <1>1, <3>1
    <3>2. CASE s # r
      <4>1. lock[KeyOf[s]] = s
        BY <1>0, <1>1, <3>2 DEF LInv, LockKept, Goto
      <4> QED
        BY <1>0, <1>1, <3>2, <4>1
    <3> QED
      BY <3>1, <3>2
  <2>3. LockOwned'
    <3> SUFFICES ASSUME NEW k \in Keys \ loose, lock'[k] # NoOne
                 PROVE  /\ KeyOf[lock'[k]] = k /\ owner'[lock'[k]]
                        /\ pc'[lock'[k]] \in Guarded \cup {"broken", "lost"}
      BY <1>1 DEF LockOwned
    <3>1. CASE k = KeyOf[r]
      BY <1>0, <1>1, <3>1 DEF Goto
    <3>2. CASE k # KeyOf[r]
      <4>1. lock'[k] = lock[k] /\ lock[k] \in Requests
        BY <1>0, <1>1, <3>2
      <4>2. /\ KeyOf[lock[k]] = k /\ owner[lock[k]]
            /\ pc[lock[k]] \in Guarded \cup {"broken", "lost"}
        BY <4>1 DEF LInv, LockOwned
      <4> QED
        BY <1>0, <1>1, <4>1, <4>2 DEF Goto
    <3> QED
      BY <3>1, <3>2
  <2> QED
    BY <2>1, <2>2, <2>3 DEF LockParts
<1>2. CASE /\ owner' = [owner EXCEPT ![r] = TRUE]
           /\ Goto(r, "admit")
           /\ Loosen(KeyOf[r])
           /\ UNCHANGED lock
  <2>1. OwnersOnly'
    BY <1>0, <1>2 DEF LInv, OwnersOnly, Goto
  <2>2. LockKept'
    BY <1>0, <1>2 DEF LInv, LockKept, Goto, Loosen
  <2>3. LockOwned'
    <3> SUFFICES ASSUME NEW k \in Keys \ loose', lock[k] # NoOne
                 PROVE  /\ KeyOf[lock[k]] = k /\ owner'[lock[k]]
                        /\ pc'[lock[k]] \in Guarded \cup {"broken", "lost"}
      BY <1>2 DEF LockOwned
    <3>1. k \in Keys \ loose /\ lock[k] \in Requests
      BY <1>0, <1>2 DEF Loosen
    <3>2. /\ KeyOf[lock[k]] = k /\ owner[lock[k]]
          /\ pc[lock[k]] \in Guarded \cup {"broken", "lost"}
      BY <3>1 DEF LInv, LockOwned
    <3> QED
      BY <1>0, <1>2, <3>1, <3>2 DEF Goto
  <2> QED
    BY <2>1, <2>2, <2>3 DEF LockParts
<1>3. CASE Goto(r, IF stream[r] THEN "joined" ELSE "subscribe") /\ UNCHANGED <<locks, owner>>
  BY <1>0, <1>3, MoveLocked DEF LInv, OwnersOnly
<1> QED
  BY <1>1, <1>2, <1>3 DEF AcquireLock

\* A handler that deletes its own lock, or nobody's, or loosens the lock it
\* touches, leaves what the others rely on alone.
LEMMA DropLocked ==
    ASSUME LInv, NEW r \in Requests, NEW phase, phase \notin Guarded,
           phase \notin {"new", "lock", "subscribe", "waiting"},
           pc[r] \in Guarded, Goto(r, phase), UNCHANGED <<stream, owner>>,
           \/ /\ lock' = [lock EXCEPT ![KeyOf[r]] = NoOne]
              /\ KeyOf[r] \in loose \/ lock[KeyOf[r]] \in {r, NoOne}
              /\ UNCHANGED loose
           \/ /\ lock' \in {lock, [lock EXCEPT ![KeyOf[r]] = NoOne]}
              /\ Loosen(KeyOf[r])
    PROVE  LockParts'
<1>0. /\ pc' = [pc EXCEPT ![r] = phase] /\ pc \in [Requests -> Phases]
      /\ lock \in [Keys -> Requests \cup {NoOne}] /\ KeyOf[r] \in Keys
      /\ NoOne \notin Requests /\ loose \subseteq loose'
      /\ \A k \in Keys \ {KeyOf[r]} : lock'[k] = lock[k]
      /\ KeyOf[r] \notin loose' => lock[KeyOf[r]] \in {r, NoOne} /\ lock'[KeyOf[r]] = NoOne
  BY AdmissionAssumption DEF LInv, TypeOK, Goto, Loosen
<1>1. OwnersOnly'
  BY <1>0 DEF LInv, OwnersOnly, Guarded
<1>2. LockKept'
  <2> SUFFICES ASSUME NEW s \in Requests, KeyOf[s] \notin loose', owner[s], pc'[s] \in Guarded
               PROVE  lock'[KeyOf[s]] = s
    BY DEF LockKept
  <2>1. s # r /\ pc[s] \in Guarded /\ lock[KeyOf[s]] = s
    BY <1>0 DEF LInv, LockKept
  <2>2. KeyOf[s] \in Keys \ {KeyOf[r]}
    BY <1>0, <2>1, AdmissionAssumption
  <2> QED
    BY <1>0, <2>1, <2>2
<1>3. LockOwned'
  <2> SUFFICES ASSUME NEW k \in Keys \ loose', lock'[k] # NoOne
               PROVE  /\ KeyOf[lock'[k]] = k /\ owner[lock'[k]]
                      /\ pc'[lock'[k]] \in Guarded \cup {"broken", "lost"}
    BY DEF LockOwned
  <2>1. k # KeyOf[r] /\ lock'[k] = lock[k] /\ lock[k] \in Requests
    BY <1>0
  <2>2. /\ KeyOf[lock[k]] = k /\ owner[lock[k]]
        /\ pc[lock[k]] \in Guarded \cup {"broken", "lost"}
    BY <1>0, <2>1 DEF LInv, LockOwned
  <2> QED
    BY <1>0, <2>1, <2>2
<1> QED
  BY <1>1, <1>2, <1>3 DEF LockParts

\* Every other step of a handler moves on, or drops its lock.
LEMMA LockStep ==
    ASSUME LInv, NEW r \in Requests, Lookup(r) \/ Step(r)
    PROVE  LockParts'
<1> USE DEF Guarded, Serving, Body
<1>0. OwnersOnly /\ LockKept /\ stream \in [Requests -> BOOLEAN]
  BY DEF LInv, TypeOK
<1>1. CASE Lookup(r)
  BY <1>0, <1>1, MoveLocked DEF Lookup, OwnersOnly
<1>2. CASE Subscribe(r) \/ GiveUp(r) \/ Receive(r)
  <2>1. pc[r] \in {"subscribe", "waiting"} /\ ~stream[r] /\ ~owner[r]
    BY <1>0, <1>2 DEF Subscribe, GiveUp, Receive, OwnersOnly
  <2>2. \E phase \in {"waiting", "admit", "shared"} : Goto(r, phase)
    BY <1>2 DEF Subscribe, GiveUp, Receive
  <2> QED
    BY <1>2, <2>1, <2>2, MoveLocked DEF Subscribe, GiveUp, Receive
<1>3. CASE AcquireSlot(r)
  BY <1>0, <1>3, MoveLocked DEF AcquireSlot, OwnersOnly
<1>4. CASE Refuse(r)
  <2>1. pc[r] = "reject" /\ Goto(r, "refused") /\ UNCHANGED <<stream, owner>>
    BY <1>4 DEF Refuse
  <2> QED
    BY <1>4, <2>1, DropLocked DEF Refuse, DeleteLock
<1>5. CASE Route(r)
  BY <1>0, <1>5, MoveLocked DEF Route, OwnersOnly
<1>6. CASE Upstream(r)
  BY <1>0, <1>6, MoveLocked DEF Upstream, AfterTry, OwnersOnly
<1>7. CASE StoreExact(r)
  BY <1>0, <1>7, MoveLocked DEF StoreExact, OwnersOnly
<1>8. CASE PublishResult(r)
  BY <1>0, <1>8, MoveLocked DEF PublishResult, AfterTry, OwnersOnly
<1>9. CASE PublishError(r)
  BY <1>0, <1>9, MoveLocked DEF PublishError, AfterTry, OwnersOnly
<1>10. CASE Unlock(r)
  <2>1. pc[r] = "unlock" /\ Goto(r, "slot") /\ UNCHANGED <<stream, owner>> /\ owner[r]
    BY <1>0, <1>10 DEF Unlock, OwnersOnly
  <2>2. KeyOf[r] \in loose \/ lock[KeyOf[r]] = r
    BY <1>0, <2>1 DEF LockKept
  <2> QED
    BY <1>10, <2>1, <2>2, DropLocked DEF Unlock, DeleteLock
<1>11. CASE ReleaseSlot(r)
  BY <1>0, <1>11, MoveLocked DEF ReleaseSlot
<1>12. CASE StreamBody(r)
  BY <1>0, <1>12, MoveLocked DEF StreamBody
<1> QED
  BY <1>1, <1>2, <1>3, <1>4, <1>5, <1>6, <1>7, <1>8, <1>9, <1>10, <1>11, <1>12,
     AcquireLocked DEF Step

\* The environment takes locks away, which loosens them, and ends handlers.
LEMMA LockEnvironment ==
    ASSUME LInv, (\E k \in Keys : LockExpires(k) \/ CacheExpires(k)) \/ Crash
    PROVE  LockParts'
<1>0. /\ pc \in [Requests -> Phases] /\ lock \in [Keys -> Requests \cup {NoOne}]
      /\ OwnersOnly /\ LockKept /\ LockOwned /\ KeyOf \in [Requests -> Keys]
  BY AdmissionAssumption DEF LInv, TypeOK
<1>1. ASSUME NEW k \in Keys, LockExpires(k) PROVE LockParts'
  <2>1. /\ UNCHANGED <<pc, stream, owner>> /\ loose' = loose \cup {k}
        /\ \A j \in Keys \ {k} : lock'[j] = lock[j]
    BY <1>0, <1>1 DEF LockExpires, Loosen
  <2>2. OwnersOnly' /\ LockKept'
    BY <1>0, <2>1 DEF OwnersOnly, LockKept
  <2>3. LockOwned'
    BY <1>0, <2>1 DEF LockOwned
  <2> QED
    BY <2>2, <2>3 DEF LockParts
<1>2. ASSUME NEW k \in Keys, CacheExpires(k) PROVE LockParts'
  BY <1>0, <1>2 DEF CacheExpires, locks, LockParts, OwnersOnly, LockKept, LockOwned
<1>3. CASE Crash
  <2>1. /\ UNCHANGED <<stream, owner, lock, loose>>
        /\ \A r \in Requests : pc'[r] \in Final \cup {"new"}
        /\ \A r \in Requests : pc'[r] = "new" => pc[r] = "new"
        /\ \A r \in Requests : pc[r] \in Guarded => pc'[r] = "lost"
        /\ \A r \in Requests : pc[r] \in {"broken", "lost"} => pc'[r] = pc[r]
    BY <1>3 DEF Crash, InProgress, locks, Guarded, Serving, Final
  <2>2. OwnersOnly' /\ LockKept'
    BY <1>0, <2>1 DEF OwnersOnly, LockKept, Guarded, Serving, Final
  <2>3. LockOwned'
    BY <1>0, <2>1 DEF LockOwned
  <2> QED
    BY <2>2, <2>3 DEF LockParts
<1> QED
  BY <1>1, <1>2, <1>3

\* What is known of the locks in every reachable state.
LEMMA LockInvariant == Spec => []LInv
<1>1. LInv /\ [Next]_vars => LInv'
  <2> SUFFICES ASSUME LInv, [Next]_vars PROVE LInv'
    OBVIOUS
  <2>1. TypeOK'
    BY TypeStep DEF LInv
  <2>2. UNCHANGED vars => LockParts'
    BY DEF vars, LInv, LockParts, OwnersOnly, LockKept, LockOwned
  <2>3. LockParts'
    BY <2>2, LockStep, LockEnvironment DEF Next
  <2> QED
    BY <2>1, <2>3 DEF LInv, LockParts
<1> QED
  BY LockInitially, <1>1, PTL DEF Spec

\* Whatever expires, fails or crashes, two owners of a key serve it together
\* only after its lock was loosened by one of the three named causes: for all
\* requests, keys and limits.
THEOREM LockExclusion == Spec => []OwnersExclusive
<1>1. LInv => OwnersExclusive
  BY DEF LInv, LockKept, OwnersExclusive, Guarded
<1> QED
  BY LockInvariant, <1>1, PTL

\* A lock that was not loosened is left behind only by a routing error or a
\* restart, which its time to live is for.
THEOREM LockLeaks == Spec => []OnlyTheseLeakLocks
<1>1. LInv => OnlyTheseLeakLocks
  BY DEF LInv, LockOwned, OnlyTheseLeakLocks, Guarded, Serving, Final, Body
<1> QED
  BY LockInvariant, <1>1, PTL
=============================================================================
