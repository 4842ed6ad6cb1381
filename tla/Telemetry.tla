----------------------------- MODULE Telemetry -----------------------------
(***************************************************************************)
(* What the gateway keeps in Redis about one tenant's requests and one     *)
(* backend's answers: the per-minute counter that check_rate_limit         *)
(* (inferroute/auth.py) increments first, and the latency window and the   *)
(* failure rate that record_metrics (inferroute/router.py) updates last.   *)
(*                                                                         *)
(* Requests run concurrently, in one process or in several, and interleave *)
(* at every Redis command; one whose process ended takes no further step.  *)
(* A clock tick is half a minute.  The failure rate, a fraction, is kept   *)
(* in units of 1/Scale.  Timestamps are idealised: no two are equal and    *)
(* they grow in the order they are taken, which time.time() does not       *)
(* promise, least of all in different replicas.                            *)
(***************************************************************************)
EXTENDS FiniteSetsExt, Integers

CONSTANTS
    Requests,
    Limit,       \* DEFAULT_RATE_LIMIT_RPM
    Latencies,   \* that an answer may have taken
    WindowSize,  \* WINDOW_SIZE
    MinSamples,  \* fewer samples than this and the baselines are used (5)
    Scale,       \* what a failure rate of 1.0 is
    MaxTick,     \* bound on the clock
    RedisFails   \* whether a Redis command may fail

ASSUME TelemetryAssumption ==
    /\ Limit \in Nat \ {0}
    /\ Latencies \subseteq Nat
    /\ WindowSize \in Nat \ {0} /\ MinSamples \in Nat \ {0}
    /\ Scale \in Nat /\ Scale % 5 = 0
    /\ MaxTick \in Nat
    /\ RedisFails \in BOOLEAN

None  == -1  \* no such key
Never == -1  \* a key without an expiry

VARIABLES
    tick,     \* the clock
    pc,       \* where each request is
    minute,   \* current_minute, as each request computed it
    count,    \* per minute: the counter of its key
    expiry,   \* per minute: when the key expires
    latency, failed, stamp,  \* what each request has to record, and since when
    window,   \* the sorted set, as the score of each latency, 0 for no member
    rate,     \* failure_rate
    read,     \* old_fail of each request
    \* not in the code:
    stamps,   \* timestamps given out
    entered,  \* per minute: requests its counter has counted
    admitted, \* per minute: of these, the ones admitted while the minute lasted
    newest,   \* per latency: the latest timestamp recorded
    lowered,  \* some latency was recorded again with an earlier timestamp
    serial,   \* the average if every update had seen the one before
    missed,   \* per request: updates since it read the rate
    lost      \* updates overwritten; to overwrite the first one counts as four

clock  == <<tick>>
limiter == <<minute, count, expiry, entered, admitted>>
sample == <<latency, failed, stamp, stamps>>
ranks  == <<window, newest, lowered>>
rates  == <<rate, read, serial, missed, lost>>
vars   == <<clock, pc, limiter, sample, ranks, rates>>

Minutes == 0..(MaxTick \div 2)

TypeOK ==
    /\ tick \in 0..MaxTick
    /\ pc \in [Requests -> {"new", "incr", "expire", "serve", "push", "get", "set", "done",
                            "refused"}]
    /\ minute \in [Requests -> Minutes]
    /\ count \in [Minutes -> Nat] /\ expiry \in [Minutes -> Nat \cup {Never}]
    /\ latency \in [Requests -> Nat] /\ failed \in [Requests -> BOOLEAN]
    /\ stamp \in [Requests -> Nat] /\ stamps \in Nat
    /\ window \in [Latencies -> Nat] /\ newest \in [Latencies -> Nat]
    /\ lowered \in BOOLEAN
    /\ {rate, serial} \subseteq (0..Scale) \cup {None}
    /\ read \in [Requests -> (0..Scale) \cup {None}]
    /\ missed \in [Requests -> Nat] /\ lost \in Nat
    /\ entered \in [Minutes -> Nat] /\ admitted \in [Minutes -> Nat]

Init ==
    /\ tick = 0
    /\ pc = [r \in Requests |-> "new"]
    /\ minute = [r \in Requests |-> 0]
    /\ count = [m \in Minutes |-> 0] /\ expiry = [m \in Minutes |-> Never]
    /\ entered = [m \in Minutes |-> 0] /\ admitted = [m \in Minutes |-> 0]
    /\ latency = [r \in Requests |-> 0] /\ failed = [r \in Requests |-> FALSE]
    /\ stamp = [r \in Requests |-> 0] /\ stamps = 0
    /\ window = [l \in Latencies |-> 0] /\ newest = [l \in Latencies |-> 0]
    /\ lowered = FALSE
    /\ rate = None /\ serial = None
    /\ read = [r \in Requests |-> None]
    /\ missed = [r \in Requests |-> 0] /\ lost = 0

Goto(r, phase) == pc' = [pc EXCEPT ![r] = phase]

-----------------------------------------------------------------------------
(* check_rate_limit *)

MinuteOfNow == tick \div 2

\* Fault: the counter expires within its minute.
TimeToLiveShort == 1

TimeToLive == 2  \* 60 s

\* Redis drops a key when its time has come.
Alive(m) == expiry[m] = Never \/ tick < expiry[m]

Arrive(r) ==
    /\ pc[r] = "new"
    /\ minute' = [minute EXCEPT ![r] = MinuteOfNow]
    /\ Goto(r, "incr")
    /\ UNCHANGED <<clock, count, expiry, entered, admitted, sample, ranks, rates>>

\* Over the limit a request is refused, and is counted all the same.
Incr(r) ==
    LET m == minute[r]
        n == IF Alive(m) THEN count[m] + 1 ELSE 1
    IN  /\ pc[r] = "incr"
        /\ count' = [count EXCEPT ![m] = n]
        /\ expiry' = [expiry EXCEPT ![m] = IF Alive(m) THEN @ ELSE Never]
        /\ entered' = [entered EXCEPT ![m] = @ + 1]
        /\ admitted' = [admitted EXCEPT ![m] = IF n <= Limit /\ tick \div 2 = m THEN @ + 1 ELSE @]
        /\ Goto(r, IF n = 1 THEN "expire" ELSE IF n > Limit THEN "refused" ELSE "serve")
        /\ UNCHANGED <<clock, minute, sample, ranks, rates>>

SetExpiry(r) ==
    /\ pc[r] = "expire"
    /\ expiry' = [expiry EXCEPT ![minute[r]] = tick + TimeToLive]
    /\ Goto(r, "serve")
    /\ UNCHANGED <<clock, minute, count, entered, admitted, sample, ranks, rates>>

\* An error admits, and may leave the counter without an expiry.
Bypass(r) ==
    /\ RedisFails
    /\ pc[r] \in {"incr", "expire"}
    /\ Goto(r, "serve")
    /\ UNCHANGED <<clock, limiter, sample, ranks, rates>>

-----------------------------------------------------------------------------
(* record_metrics *)

\* The backend has answered or failed; the timestamp is taken before the
\* pipeline is sent.
Serve(r) ==
    /\ pc[r] = "serve"
    /\ \E l \in Latencies, f \in BOOLEAN :
           /\ latency' = [latency EXCEPT ![r] = l]
           /\ failed' = [failed EXCEPT ![r] = f]
    /\ stamps' = stamps + 1
    /\ stamp' = [stamp EXCEPT ![r] = stamps']
    /\ Goto(r, "push")
    /\ UNCHANGED <<clock, limiter, ranks, rates>>

\* How many members of a sorted set have a higher score.
Newer(scores, l) == Cardinality({k \in Latencies : scores[k] > scores[l]})

\* Fault: one sample too many.
TrimmedLate(scores) ==
    [l \in Latencies |-> IF Newer(scores, l) <= WindowSize THEN scores[l] ELSE 0]

\* ZREMRANGEBYRANK leaves the WindowSize members of the highest scores.
Trimmed(scores) ==
    [l \in Latencies |-> IF Newer(scores, l) < WindowSize THEN scores[l] ELSE 0]

\* _push_latency_sample: one transaction.  The member is the latency, so that
\* a latency that is there already only gets the new score.
Push(r) ==
    /\ pc[r] = "push"
    /\ \/ LET l == latency[r]
          IN  /\ window' = Trimmed([window EXCEPT ![l] = stamp[r]])
              /\ newest' = [newest EXCEPT ![l] = IF stamp[r] > @ THEN stamp[r] ELSE @]
              /\ lowered' = (lowered \/ stamp[r] < window[l])
       \/ RedisFails /\ UNCHANGED ranks
    /\ Goto(r, "get")
    /\ latency' = [latency EXCEPT ![r] = 0]
    /\ stamp' = [stamp EXCEPT ![r] = 0]
    /\ UNCHANGED <<clock, limiter, failed, stamps, rates>>

GetRate(r) ==
    /\ pc[r] = "get"
    /\ read' = [read EXCEPT ![r] = rate]
    /\ missed' = [missed EXCEPT ![r] = 0]
    /\ Goto(r, "set")
    /\ UNCHANGED <<clock, limiter, sample, ranks, rate, serial, lost>>

Full(fails) == IF fails THEN Scale ELSE 0

\* The average, with alpha = 0.2; a first outcome is taken as it is.
Blend(fails, old) == IF old = None THEN Full(fails) ELSE (Full(fails) + 4 * old) \div 5

\* Fault: the weights are swapped.
UpdatedSwapped(fails, old) ==
    IF old = None THEN Full(fails) ELSE (4 * Full(fails) + old) \div 5

Updated(fails, old) == Blend(fails, old)

Weight(r) == IF read[r] = None /\ missed[r] > 0 THEN 4 ELSE missed[r]

SetRate(r) ==
    /\ pc[r] = "set"
    /\ rate' = Updated(failed[r], read[r])
    /\ serial' = Blend(failed[r], serial)
    /\ lost' = lost + Weight(r)
    /\ missed' = [q \in Requests |-> IF pc[q] = "set" /\ q # r THEN missed[q] + 1 ELSE 0]
    /\ read' = [read EXCEPT ![r] = None]
    /\ failed' = [failed EXCEPT ![r] = FALSE]
    /\ Goto(r, "done")
    /\ UNCHANGED <<clock, limiter, latency, stamp, stamps, ranks>>

\* An error of either command skips the rest.
SkipRate(r) ==
    /\ RedisFails
    /\ pc[r] \in {"get", "set"}
    /\ Goto(r, "done")
    /\ UNCHANGED <<clock, limiter, sample, ranks, rates>>

-----------------------------------------------------------------------------

\* An hour without a sample.
WindowExpires ==
    /\ \A r \in Requests : pc[r] # "push"
    /\ window' = [l \in Latencies |-> 0] /\ newest' = [l \in Latencies |-> 0]
    /\ lowered' = FALSE
    /\ UNCHANGED <<clock, pc, limiter, sample, rates>>

Tick ==
    /\ tick < MaxTick
    /\ tick' = tick + 1
    /\ UNCHANGED <<pc, limiter, sample, ranks, rates>>

Step(r) ==
    \/ Arrive(r) \/ Incr(r) \/ SetExpiry(r) \/ Bypass(r)
    \/ Serve(r) \/ Push(r) \/ GetRate(r) \/ SetRate(r) \/ SkipRate(r)

Next == Tick \/ WindowExpires \/ \E r \in Requests : Step(r)

Spec == Init /\ [][Next]_vars

-----------------------------------------------------------------------------
(* _get_percentiles *)

Samples == {l \in Latencies : window[l] > 0}

NotAbove(x) == Cardinality({l \in Samples : l <= x})

\* Fault: the rank is rounded up.
RankAbove(p, n) == 1 + (p * n) \div 100

Rank(p, n) == (p * n) \div 100

\* sorted(...)[min(int(p / 100 * n), n - 1)].
Percentile(p) ==
    LET n == Cardinality(Samples)
        i == IF Rank(p, n) < n THEN Rank(p, n) ELSE n - 1
    IN  CHOOSE x \in Samples : NotAbove(x) = i + 1

-----------------------------------------------------------------------------
(* Properties *)

\* While a minute lasts no more than Limit of its requests are admitted by its
\* counter, and nobody is refused before more than Limit were counted, though
\* the counter and its expiry are set by two commands, either of which may
\* fail, and though a request may use the key of a minute that is over
\* (check_rate_limit).
LimitIsExact ==
    /\ \A m \in Minutes : admitted[m] <= Limit
    /\ \A r \in Requests : pc[r] = "refused" => entered[minute[r]] > Limit

\* The window holds the WindowSize latencies recorded last, though timestamps
\* are taken before the pipelines that overtake each other; the exception is
\* the same latency, twice, in the wrong order.  From MinSamples on, a
\* percentile is the least sample that more than p% of the samples do not
\* exceed (_push_latency_sample, _get_percentiles).
WindowIsRecent ==
    /\ ~lowered => window = Trimmed(newest)
    /\ Cardinality(Samples) <= WindowSize
    /\ Cardinality(Samples) >= MinSamples =>
           \A p \in {50, 95, 99} :
               Percentile(p) = Min({x \in Samples : 100 * NotAbove(x) > p * Cardinality(Samples)})

Gap(a, b) == IF a < b THEN b - a ELSE a - b

\* Concurrent updates of the failure rate overwrite each other, and each one
\* that is lost moves it by at most a fifth from the average of all outcomes,
\* the first one by four; without one it is that average (record_metrics).
DriftBounded ==
    rate # None => Gap(rate, serial) <= lost * (Scale \div 5)
=============================================================================
