---------------------------- MODULE VegasLimiter ----------------------------
(***************************************************************************)
(* AdaptiveConcurrencyLimiter (inferroute/rate_limiter.py).  acquire and   *)
(* release hold one asyncio.Lock from beginning to end, so each is one     *)
(* action.  Latencies are whole units; 0 stands for a measured latency     *)
(* that is not positive, which the system clock can produce.  Slots and the*)
(* adjustment of the limit are AimdControl's; here are the latencies that  *)
(* drive it.                                                               *)
(***************************************************************************)
EXTENDS AimdControl, FiniteSets, Sequences

CONSTANTS
    WindowSize,   \* latencies remembered (30 in the code)
    MinSamples,   \* latencies needed before the limit moves (5 in the code)
    Latencies     \* the latencies a request may take

ASSUME WindowAssumption ==
    /\ WindowSize \in Nat \ {0} /\ MinSamples \in 1..WindowSize
    /\ Latencies \subseteq Nat

VARIABLES
    minLatency,  \* self.min_latency_ms, 0 for None
    samples      \* self.latency_samples

limiterVars == <<limit, active, minLatency, samples>>

LimiterInit ==
    /\ ControlInit
    /\ minLatency = 0
    /\ samples = <<>>

-----------------------------------------------------------------------------

\* A refusal changes nothing, so only the granting branch is an action.
Acquire == Grant /\ UNCHANGED <<minLatency, samples>>

\* Fault: the baseline is the first latency, not the smallest.
FirstLatency(latency) == IF minLatency = 0 THEN latency ELSE minLatency

Baseline(latency) ==
    IF minLatency = 0 \/ latency < minLatency THEN latency ELSE minLatency

Window(latency) ==
    LET longer == Append(samples, latency)
    IN  IF Len(longer) > WindowSize THEN Tail(longer) ELSE longer

\* sum(self.latency_samples), counted unit by unit.
Total(window) == Cardinality(UNION {{i} \X (1..window[i]) : i \in DOMAIN window})

\* Fault: the estimate is not divided by the average latency.
QueueUndivided(min, window) ==
    LET total == Total(window)
    IN  {limit * (total - Len(window) * min)}

\* Fault: the estimate is rounded up instead of cut.
QueueRoundedUp(min, window) ==
    LET total  == Total(window)
        queued == limit * (total - Len(window) * min)
    IN  {(queued + total - 1) \div total}

\* int((limit/min - limit/avg) * min) for a window whose sum is `total`:
\* exactly limit * (total - n * min) / total, cut to an integer.  Where that
\* is a whole number the floating-point value may fall just below it.
QueueEstimates(min, window) ==
    LET total  == Total(window)
        queued == limit * (total - Len(window) * min)
        exact  == queued \div total
    IN  IF queued % total = 0 /\ exact > 0 THEN {exact - 1, exact} ELSE {exact}

Release(latency) ==
    /\ active > 0
    /\ active' = active - 1
    /\ IF latency = 0
       THEN UNCHANGED <<limit, minLatency, samples>>
       ELSE /\ minLatency' = Baseline(latency)
            /\ samples' = Window(latency)
            /\ IF Len(samples') < MinSamples
               THEN UNCHANGED limit
               ELSE \E q \in QueueEstimates(minLatency', samples') :
                       limit' = Adjusted(q)

LimiterNext == Acquire \/ \E latency \in Latencies : Release(latency)

LimiterSpec == LimiterInit /\ [][LimiterNext]_limiterVars

\* Requests keep arriving, and keep finishing in a measurable time.
LimiterFairness ==
    /\ SF_limiterVars(Acquire)
    /\ SF_limiterVars(\E latency \in Latencies \ {0} : Release(latency))

LimiterFairSpec == LimiterSpec /\ LimiterFairness

-----------------------------------------------------------------------------

\* The limiter, with its window and its baseline, implements the plain
\* additive-increase / multiplicative-decrease control, whose bounds it so
\* inherits: its queue estimate never reaches the limit and is never negative.
ImplementsControl == ControlSpec

\* The baseline is the smallest latency ever seen, so no sample of the window
\* is below it, also when the window, which never outgrows its size, has
\* dropped the sample it came from.
BaselineIsMinimal ==
    /\ minLatency \in Latencies \cup {0}
    /\ samples \in Seq(Latencies \ {0}) /\ Len(samples) <= WindowSize
    /\ \A i \in DOMAIN samples : 0 < minLatency /\ minLatency <= samples[i]

Congested == Len(samples) >= MinSamples /\ \A i \in DOMAIN samples : samples[i] >= 10 * minLatency

Uncongested == \A i \in DOMAIN samples : samples[i] = minLatency

\* Protection: requests that stay ten times slower than the baseline bring
\* the limit down to Beta + 1 - and hold it there, since the baseline is
\* never forgotten, however long ago it was measured.
CongestionSettlesAtBeta == <>[]Congested => <>[](limit = Beta + 1)

\* Recovery: once every latency is back at the baseline the limit climbs to
\* MaxLimit.
UncongestedReachesMax == <>[]Uncongested => <>[](limit = MaxLimit)
=============================================================================
