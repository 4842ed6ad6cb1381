# InferRoute in TLA+

InferRoute is a FastAPI gateway in front of several language-model backends
(Ollama, vLLM, OpenAI, Gemini).  It authenticates and bills a request, looks it
up in two caches, joins it to an identical request in flight, asks an adaptive
concurrency limiter for a slot, chooses a backend, calls it through a circuit
breaker with one fallback or as a cascade, and streams or returns the answer.
All of it is asyncio code in one process per replica, with Redis and PostgreSQL
shared among replicas: every `await` is a point where another request may run,
and every Redis command or commit may be the last one that happens.

This directory specifies that request path: TLA+ modules translated from the
Python source, TLC instances that check them, and TLAPS proofs of the parts
that matter for every size of system.

## 1. Inventory

| component | state it keeps | operations | what is hard about it | modelled by |
|---|---|---|---|---|
| Circuit breaker, `inferroute/circuit_breaker.py` | four Redis keys per backend: `state`, `fail_count`, `success_count`, `opened_at` | `allow_request`, `record_success`, `record_failure`, `_open`, `_close`; the operator's `POST /v1/chaos/inject` | each method is 2 to 6 Redis commands; requests of all replicas interleave between them; a Redis error leaves half of a transition | `CircuitBreaker`, `BreakerContract` |
| Concurrency limiter, `rate_limiter.py` | `limit`, `active_requests`, `min_latency_ms`, a window of latencies | `acquire`, `release` | truncating arithmetic decides whether the limit settles; the baseline never ages; the limit shrinks under active requests | `VegasLimiter` over `AimdControl`; `Admission` moves its limit |
| Admission and coalescing, `main.py` `chat_completions`, `cache.py` | exact cache, dedup lock and pub/sub channel in Redis; slots of the limiter | lookup, lock, wait, acquire, route, call, store, publish, unlock, release | lock, slot and result have different lifetimes; messages are not kept for late subscribers; crash, TTL, refusal | `Admission`, with `AimdControl` |
| Stream sharing, `cache.py` | a Redis list of chunks and a channel per key | `push_stream_chunk`, `publish_stream_end`, `publish_stream_error`, `wait_for_stream_dedup` | a joined request switches from list to channel while chunks arrive in both; the list outlives its stream | `StreamDedup` |
| Wallet and ledger, `auth.py`, `main.py` | `UserWallet`, `TransactionLedger` rows | the gate in `verify_api_key`, the charge in `db_log_request`, balance, recharge | read-modify-write of an absolute balance in concurrent sessions; failing commits; a floor at zero | `Billing` |
| Blocking flow, `main.py` `handle_blocking_flow`, `handle_cascade_blocking_flow`, `agentic_router.py` | queue gauge, breaker reports, bill, message to waiters | one call after another until an answer passes | many exits, each of which must do all of its bookkeeping | `BlockingFlow`, in `Gateway` |
| Streaming flow, `main.py` `handle_streaming_flow`, `handle_cascade_streaming_flow` | what client, joined requests and cache have seen; gauge; reports | chunk by chunk, hold back and check, fail over, finish | two audiences and a cache must agree; disconnect at every `yield` | `StreamingFlow` |
| Routing, `router.py` `choose_backend`, router_r1 in `main.py` | none of its own; reads breakers one by one | pin, filter, ask, choose, add a fallback or a chain | breakers change between being asked and being used; fallbacks of fallbacks | `Routing`, in `Gateway` |
| Latency window and failure rate, `router.py` `record_metrics` | a Redis sorted set and a key per backend | push a sample and trim, percentiles, moving average | timestamps older than their pipelines; equal samples collapse; lost updates of the average | `Telemetry` |
| Rate limit and budget, `auth.py` | a counter per minute | `check_rate_limit`; the budget comparison keeps nothing | INCR and EXPIRE are two commands; the minute is computed before either | `Telemetry` (the limit) |
| Prefix affinity, `router_trie.py` | a set of hosts per prefix hash | insert, lookup | a hint with a TTL | not modelled: it only orders what `Routing` chooses from |
| Learned and preference routers, validator, cost engine, prompt adapter | none, or loaded weights | pure functions | floating-point and text heuristics | not modelled: their results are nondeterministic inputs |
| Adapters | HTTP clients | call, stream | external services | not modelled: a call answers, answers badly or raises |
| Plugins, `plugins/` | a registry filled at start | endpoints outside the gateway path | - | not modelled |
| Observability, configuration, templates, administrative endpoints | metrics, settings, pages | read-only | - | not modelled |
| Quant.ai backtest, `external/Quant.ai/backend/app/simulator.py`, `trading_engine.py` | a portfolio: cash, position, ledger, peak equity, risk multiplier | one bar after another: risk, liquidation, entry, exit | limits derived from state that trading itself moves; the books must agree; the clock of the bars decides what may happen | `Backtest` |
| Quant.ai, the rest | live runner, options ledger, watchlists, jobs | a trading application of its own with its own service | shares no state with the gateway | not modelled (section 6) |
| `benchmarks/`, `k8s/`, `docs/`, `scratch/` | - | - | - | not modelled |

How the parts interact.  `chat_completions` calls authentication, then the
exact cache, then the dedup lock.  An owner goes on; a duplicate waits on a
channel, or, when it streams, follows the owner's chunk list.  Whoever goes on
takes a slot of the limiter, asks `choose_backend` for one or several backends
(which asks each one's breaker), and runs one of four flows.  A flow reports
each call to the breaker, moves the queue gauge, writes the exact cache,
publishes to the waiters and schedules `db_log_request`, which charges the
wallet.  A `finally` block gives back lock and slot.  Around it, `auth.py`
counts the request in its minute before anything else, and `router.py` records
latency and outcome at the end, which later decisions read.

What makes each part correct is stated as properties in the modules and listed
run by run in section 3.  The behaviours that are hard to test are the
"hazards" of `PROJECT.json`, each at the line where it bites.

## 2. Modules

`X` is the specification, `MCX` its instance for TLC with `MCX_<run>.cfg`, and
`X_proofs` the theorems.  In every module an action's name is, where possible,
the method or the step it models; operators under a comment `Fault:` are
mutations of the next definition, kept to show that a property notices them.
Properties under the heading *What the documentation says* are claims of
documents and comments.  Those that no run checks do not hold (section 5).

**CircuitBreaker** - one action per Redis command together with the local code
up to the next one; `pc[w]` says between which commands of which method a
request is (`o_*` inside `_open`, `c_*` inside `_close`, `a_*`, `s_*`, `f_*` in
the public methods).  `Workers` are the requests in flight in all replicas;
`CallUnasked` is the fallback call that is made without `allow_request`,
`NotChosen` the backend that was asked and not used.  Wall-clock time is the
age of `opened_at`, saturating at the timeout.  `RedisError` is the `except`
branch of every method.  Left out: `get_status` and the metrics.

**BreakerContract** - the three-state machine with indivisible transitions.
`CircuitBreaker` maps to it with a method in progress counted as done, and says
of each of its steps which transition it has to be: the contract has no
next-state relation of its own, in which an operator's trip, always possible,
would excuse any early one.  `crossed` is auxiliary: two methods overlapped
since none was in progress last.

**AimdControl** - slots below the limit; the limit moves up by one or down by a
tenth on a queue estimate that is below the limit.  **VegasLimiter** extends it
with what produces the estimate: the baseline, the sliding window and
`int((limit/min - limit/avg) * min)`, in exact arithmetic, with the value one
lower wherever floating point may fall just below a whole number.  The sum of
the window is a count of its units of latency (`Total`), which needs no
recursion and so can be reasoned about.  `acquire`
and `release` hold a lock throughout and so are one action each.

**Admission** - `chat_completions` from the cache lookup to the end of its
`finally` block, and the body of a stream after it, one action per Redis
command, limiter call or upstream outcome.  `KeyOf` is the digest of the
normalised request.  `Faults` switches the environment: TTLs, Redis errors
(`cache.py` swallows them: a failed lookup is a miss, a failed lock is
granted), upstream failures, an exception in routing, a restart of the gateway.
It extends `AimdControl`: a slot is taken and returned by the limiter's own
actions, and every return may move the limit, also below the slots that are
out.  `loose` is auxiliary: the keys whose lock no longer excludes anybody,
because it expired, a Redis command on it failed, or a refused duplicate
deleted it.  `stream` says that the answer is to be a stream: `router_r1`
ignores the client's wish and answers inside the `try` block, with slot and
lock, like a blocking request (`main.py:948-998`).

**StreamDedup** - one key; several streams of it may run, in turn or at once.
A chunk is its stream and index.  `History` is the list sorted by index, which
is what `wait_for_stream_dedup` replays before it follows the channel; the sort
puts each chunk at its rank, the number of those that go before it, equal
indices in the order of the list.

**Billing** - one tenant.  Each operation is a database session: gate, read,
commit.  `wallet` is the committed row, `snapshot` what the session read.
`forgiven` and `raced` are auxiliary: what the floor at zero did not collect,
and which kinds of operation committed between another session's read and
commit.

**BlockingFlow** - one request through the plain flow (primary and fallback), a
cascade, or the router_r1 branch.  `chain` is the calls to make, `step` the
current one, `depth`, `ok` and `bad` the gauge and the breaker reports per
backend, `told` the message to waiters, `spent` and `billed` the calls paid for.
A fallback may also fail after it answered: the validator catches a
`ValidationError` and not the `SchemaError` of a malformed schema
(`validator.py:25-31`).

**StreamingFlow** - one body, chunk by chunk, of the plain, the speculative and
the cascade generator.  `held` is what is held back for a check, `sent` what
the client got, `shared` what the joined requests got.  A disconnect may happen
at every point where the generator is suspended.  A malformed schema tears the
body down at its last check (`Check`), which nothing catches.

**Routing** - one call of `choose_backend` with the dispatch on its decision.
The four backends are the code's.  `admits` is each breaker's answer, which
flips (at most `MaxFlips` times) while the candidates are asked one by one.
A client's own cascade is any sequence of backends up to the length
`MaxCustom`.  Scores only order the available backends and are left open: any
order.  What is left of a list of backends (`Those`) is found by rank.

**Gateway** - `Routing` composed with `BlockingFlow`: `DecideCalls` is a step
of the decision, `HandOver` starts the handler of the policy with the calls
that were decided, `Serve` is a step of the handler on them.  So the flow's
properties are checked on exactly the chains that the router can decide, and
the router's on what becomes of them.  (A stream takes its chain from the same
decision; `StreamingFlow` checks every chain.)

**Telemetry** - one tenant's rate limit and one backend's latency window and
failure rate, from `Arrive` to the last SET, one action per Redis command (the
push is one transaction).  A tick is half a minute, so that a request may
straddle the end of its minute and the life of its key.  A request whose
process ended just takes no further step.  The sorted set is the score of each
latency, since the latency is the member.  The failure rate is kept in units of
1/`Scale`.  Timestamps are idealised: no two are equal and they grow in the
order they are taken, although the `time.time()` of several replicas
(`router.py:95`) may tie or be skewed.  Auxiliary: the true counts per minute, the latest time each latency
was recorded, and the average that the outcomes would have if no update were
lost.

**Backtest** - the loop of `run_backtest_sim` over the bars of one ticker, one
action per bar, with `Portfolio.buy`, `sell`, `get_equity` and
`calculate_position_size`.  What the strategy says is open: a bar exits, enters
or holds wherever the loop would let it.  Money is exact, in whole units;
`closed` is auxiliary: the liquidation bar of the day was seen.  The bound on
the number of bars does not count those of a locked account, which change
nothing but the clock, so that its future is explored without end.

Interaction beyond these compositions is by interface: `Admission` takes the
flows as "answers, fails and tells, fails and tells nobody", which is what
`BlockingFlow` shows about `told`; `CircuitBreaker` takes any sequence of asks
and reports.

## 3. Runs

All runs but the three marked *violation* pass.

| run | instance and bounds | what it shows |
|---|---|---|
| `circuitbreaker_shared` | 2 requests, thresholds 3, timeout 3 ticks, operator trips, 1 Redis error | `NothingLost`: a counter at its threshold is always in the hands of a request that acts on it, an OPEN breaker has its timestamp. `HealsWhenHealthy`: when failures stop it closes for good, however many stale writes are in flight, the half-written first trip excepted. `TripsWhenFailing`: while calls only fail it opens again and again. `UncrossedMeetsContract`: while no two methods overlap and no command fails, whatever earlier overlaps and errors left in the keys, each counted outcome is the contract's transition for it, and nobody but an operator trips the breaker early. |
| `vegaslimiter_control` | alpha 2, beta 5, minimum 2 as in the code; limit 8 of at most 12; window 4, 3 samples; latencies 0, 1, 3, 10 | refinement of `AimdControl`, its bounds, the baseline below every sample; under lasting congestion the limit settles at beta + 1 and without congestion it climbs to the maximum. |
| `admission_requests` | 3 requests of one key, streaming or not, a limit that moves between 1 and 2, every fault | `SlotsCounted`: the counter is exactly the slots out. `OnlyTheseLeakSlots`: a slot is lost by a non-owner or by an exception in routing, by nothing else. `OwnersExclusive`: two owners serve one key together only after its lock was loosened. `OnlyTheseLeakLocks`: a lock that was not outlives its request only after a restart or an exception in routing. `EveryRequestEnds`. |
| `admission_slot_leak` | *violation*: 2 requests, no fault at all | a duplicate whose wait ended without a result takes a slot that nobody returns. |
| `streamdedup_joined` | 2 streams of 3 chunks that may fail or die, 1 joined request | `ReplayIsExact` for an only stream: gapless, no repetition, complete when it says so, nothing pushed is missed. `InOrder` for any. `ConsumersEnd`. |
| `billing_accounts` | 3 sessions; chat, recharge, balance; costs 0, 1, 3 on a trial of 2; failing database; at most 3 charged before the last chats start, one recharge | `NeverOvercharged` unless a recharge raced; `SerialAccounts`: without overlap wallet and ledger agree up to what the floor forgave. |
| `billing_dry` | *violation*: 1 session | a dry wallet stays dry although its owner recharges again and again. |
| `streamingflow_bodies` | chains of up to 3 of 2 backends, up to 3 chunks, 2 held back | `SharedFollowsClient`, `RejectedUnseen`, `CachedIsWhatClientSaw`, `CallsSettle`, `JoinedHearTheEnd`. |
| `gateway_requests` | every blocking request, every state of 4 breakers, 2 flips, every outcome of every call; a client's own cascade of up to 2 entries, or all 4 backends when none of it is admitted | `HandoverFits`: what is decided is what its handler can serve. `OnlyAdmitted`, `SidesRespected`: it was admitted and on the side the client asked for, up to named cases. `SurvivesOneFailure`: one bad backend costs no request, up to two named cases. `CallsSettle`: gauge back where it was, each call judged once. `FailureIsTold`: a request that failed has told its waiters, up to named cases. |
| `telemetry_requests` | 3 requests, a limit of 1, a window of 2 over 3 latencies, a minute and its end, any Redis command may fail | `LimitIsExact`: no more than the limit are admitted by a minute's counter while the minute lasts, and nobody is refused before. `WindowIsRecent`: the window holds the latencies recorded last, and the percentiles are the right order statistics of it. `DriftBounded`: the failure rate is the average of all outcomes up to a fifth per lost update. |
| `backtest_bars` | 7 bars, prices 50, 100, 150, a cash of 1000, slippage 2%, both sizings, both liquidation times | `BooksBalance`: cash, position, profit and commissions account for the same money. `FlatOvernight`: an intraday account is flat after its liquidation bar. |
| `backtest_lock` | *violation*: the same instance, bars keep coming | an account beyond the hard drawdown limit stays locked for ever. |

**Why the bounds are enough.**  Breaker: the races are between two requests;
the safety part is proved for any number.  Thresholds of 3 leave room for a
trip one too early that is not the first outcome.  Limiter: the interesting limits lie
around the smallest reachable one, 6 with the code's alpha and beta, and around
the maximum; larger maxima only lengthen the climb.  Admission: two requests
make a duplicate, the third is the one that profits or suffers from what they
leave; a limit of 1 under two slots out is the least that falls below them.
Streams: the hold, the switch from list to channel and the end need one chunk
each; consumers do not influence one another.  Billing: a lost update needs two
sessions, the third overlaps both; costs below, at and above the balance.
Flows: three calls cover first, middle and last.  Routing needs a bound for the
flips, one for the backend that is chosen and one for another, and for a
client's cascade, two entries for a backend that is named twice.  Telemetry: a
lost update needs two requests, the third is the update between; a window of 2
over 3 latencies makes the trim and the percentiles' indices differ; two ticks
are a minute and its end.  Backtest: prices that halve and triple reach both
drawdown limits and the refused purchase within seven bars, which span two days
and more.  All of this bounds what TLC says of liveness; every safety property
of a run is also proved without it (section 4).

**Deadlock** is checked for the breaker, the limiter and billing, which run for
ever.  Requests, streams, flows and backtests end.

**Fairness.**  `CircuitBreaker`: the event loop runs every method it has begun
(weak), the clock advances (weak), and requests keep asking and keep reporting
outcomes (strong: the traffic the properties are about; which outcome stays
open).  `VegasLimiter`: requests keep arriving and keep finishing in a
measurable time.  `Admission`: every handler is resumed when its await
completes, and every await completes, since the HTTP clients and the waits have
timeouts.  `StreamDedup`: a stream goes on or stops, a consumer's generator is
resumed; that a consumer outlasts a silent stream rests on the 30-second
deadline in its loop, which is a step that is always possible.  `Billing`:
sessions finish and somebody tries to recharge again and again.  `Backtest`:
the loop takes one bar after another (weak).

## 4. Proofs

Every safety property that a passing run checks is a theorem, for every value
of the constants that satisfies the module's named assumption.  Each inductive
invariant was checked by TLC on the run's instance before it was proved.

| theorem | statement | argument |
|---|---|---|
| `CircuitBreaker_proofs!TypeCorrect` | `Spec => []TypeOK` | one step per action |
| `CircuitBreaker_proofs!TransitionsKept` | `Spec => []NothingLost` | `IInv`: the types and the three parts of `NothingLost` together. Each part says that some request is in a set of phases; a step of another request does not empty the set (`BusyKept`), a step of this one leaves it only by the write that ends the debt. |
| `CircuitBreaker_proofs!UncrossedIsAtomic` | `Spec => UncrossedMeetsContract` | step by step: the first write of `_open`, `_close` or the probe is the contract's transition, the others stutter. The invariant says of an uncrossed request that nobody has written the keys since it read them (`KnowsKeys`), and that it is the only one in a method. For any number of requests and errors: once all methods are done, the next one starts afresh on whatever they left. |
| `Admission_proofs!BoundsHold` | `ControlSpec => []WithinBounds` | inductive as it stands, given that a tenth off is monotone (`TenthMonotone`): a decrease needs an estimate above beta, hence a limit of beta + 2 at least. |
| `Admission_proofs!BaselineHolds`, `LimiterImplementsControl` | `LimiterSpec => []BaselineIsMinimal`, `=> ImplementsControl`; the module extends `VegasLimiter` beside `Admission`, which share the limit and the slots of `AimdControl` | The estimate must be in `0..limit-1` (`EstimateBelowLimit`): the sum of a window is at least its length times its least latency (`TotalIsEnough`), and the baseline is below all of them. A limit of 0 would break it, but grants no slot that could be returned (`SlotsNeedALimit`). |
| `Admission_proofs!TypesKept`, `SlotAccounting`, `SlotLeaks` | `Spec => []TypeOK`, `[]SlotsCounted`, `[]OnlyTheseLeakSlots` | `SlotsCounted` alone is not inductive: a release must find a slot held by the releasing request. `HoldsByPhase` ties `holds` to the phase, the lemmas on the limit bound the count while it moves, and cardinality lemmas do the arithmetic. |
| `Admission_proofs!LockExclusion`, `LockLeaks` | `Spec => []OwnersExclusive`, `[]OnlyTheseLeakLocks` | Exclusion is a statement about two requests, the lock about one: the invariant says that as long as the key is not loose an owner in one of the `Guarded` phases holds its key's lock (`LockKept`), that the lock names an owner (`LockOwned`) and that only owners clean up (`OwnersOnly`). Two owners of a key then hold the same lock. |
| `StreamDedup_proofs!NeverBackwards` | Redis answers: `Spec => []InOrder` | two parts: the sorted list is a permutation, in order (`HistorySorted`, `EveryPlaceTaken`: the rank is a bijection); and a consumer on the channel has `Passed` every index it has sent, since the list holds no index without all smaller ones (`Gapless`). |
| `StreamDedup_proofs!ReplayExact` | Redis answers: `Spec => []ReplayIsExact` | `Own`, for an only stream: what a consumer has still to read is the end of the list, and what it sent are the first chunks of it, so that nothing falls between list and channel. |
| `Billing_proofs!NobodyOvercharged` | `Spec => [](TypeOK /\ NeverOvercharged)` | a charge writes back what its session read, so the invariant must speak of reads too: `NothingBelowBooks` says that neither the row nor any pending read is below the books as long as no recharge raced; `ReadsAreHeld` and `BookedOnRow` deal with the row that does not exist yet. |
| `Billing_proofs!AccountsAgree` | `Spec => []SerialAccounts` | until two sessions overlap, every pending read equals the row (`ReadsAreCurrent`); then a commit adds to the row what it adds to the books and to `forgiven`. |
| `StreamingFlow_proofs!JoinedFollowClient`, `RejectedIsUnseen`, `CacheIsWhatClientSaw`, `CallsAreSettled`, `EndIsHeard` | `Spec => []SharedFollowsClient`, `[]RejectedUnseen`, `[]CachedIsWhatClientSaw`, `[]CallsSettle`, `[]JoinedHearTheEnd` | one invariant for all five. Its heart is `Whole`: what was yielded and what is held back are together the first `got` chunks of the current call. `HeldBack` says when nothing was yielded yet, so that a call may still be rejected; `OneBehind` is the chunk between client and joined requests; `Settling` counts the reports of each backend against its calls so far. |
| `Gateway_proofs!TypesKept`, `DecisionFits`, `AdmittedAreCalled`, `SidesAreRespected` | `GatewaySpec => []TypesOK`, `[]HandoverFits`, `[]OnlyAdmitted`, `[]SidesRespected` | The lemma `Filtered` states what is left of a list: its entries in the set, in their order, as often as before. `Choosable` says that what may be chosen was asked, and is not empty when a policy chooses; each policy then has a lemma of its own (`PickChosen`, `CascadeChosen`, ...). For any number of flips and any length of a client's cascade. |
| `Gateway_proofs!OneFailureSurvived`, `CallsAreSettled`, `FailuresAreTold` | `GatewaySpec => []SurvivesOneFailure`, `[]CallsSettle`, `[]FailureIsTold` | The flow on the decided chain: `Reports` counts reports against calls, `Gauge` says in whose queue the request is, `InTurn` that a handler raises with its last call. `LoneCall` carries over from the decision that only a redirected pin has a chain of one. |
| `Telemetry_proofs!RateLimitHolds` | `Spec => []LimitIsExact` | `LimitInv`: a counter's expiry is two ticks after a request of its minute arrived, hence after the minute (`ExpiresAfter`), so that while the minute lasts the counter is alive and counts everybody it admitted. |
| `Telemetry_proofs!WindowHoldsTheRecent` | `Spec => []WindowIsRecent` | timestamps are distinct as long as they are in use (`StampsAreFresh`), so that ranks are a bijection: whoever was trimmed has a whole window above it (`EnoughAreKept`), and a later trim gives the same without it (`TrimmedIsEnough`). A sample that comes too late for its own latency is trimmed at once, or marks the window `lowered`. The percentiles' index is the order statistic (`PercentileIsRight`). |
| `Telemetry_proofs!FailureRateDrift` | `Spec => []DriftBounded` | What a request read is old when it writes. `Near` compares it with the average of *now*: at most a fifth per update since, which the request counts in `missed`. Blending the same outcome into both brings them no further apart (`BlendContracts`); a first outcome that is not the first is four fifths off (`BirthIsFar`). |
| `Backtest_proofs!AccountsBalance` | `Spec => []BooksBalance` | inductive with the types; the arithmetic of a purchase and a sale, and that a sale brings in its commission at least (`SaleAssumption`). |
| `Backtest_proofs!NothingOvernight` | `Spec => []FlatOvernight` | with `NightInv`: after the liquidation bar the rest of the day is later than its time, when no position may be opened. |
| `Backtest_proofs!NoLockEnds` | `Spec => (LockIsTemporary => []~Locked)` | the finding of `backtest_lock` for all prices and limits: a locked account has multiplier 0 on the next bar whatever the price, since its equity is its cash; a size of 0 is refused, so neither cash nor peak moves (`LockStays`). A backtest whose locks all end is one that never locks. |

Assumptions: `ThresholdAssumption` (positive thresholds), `LimitAssumption`
(minimum <= initial <= maximum, alpha <= beta + 1), `WindowAssumption` of
`VegasLimiter` (a window of at least one latency, as many as are needed to move
the limit), `AdmissionAssumption` (finitely many requests), `StreamAssumption`
of `StreamDedup` (finitely many streams, numbered from 1) and of
`StreamingFlow` (positive bounds), `BillingAssumption` (natural amounts,
positive trial and recharge), `RoutingAssumption` (natural bounds),
`TelemetryAssumption` (positive sizes, a scale that has a fifth),
`BacktestAssumption` (natural rates, positive prices and divisors) and
`SaleAssumption` (no stock trades below its commission, else a sale could cost
more than the cash).  The runs evaluate all of them.  The two theorems on
shared streams have a hypothesis of their own, as the run has: they are about a
Redis that answers (`"redis" \notin Faults`), because a chunk whose
push failed is missing for whoever joined, and a list with such a gap lets an
index of another stream be sent before it (TLC finds both properties violated
when `"redis"` is added to the run's `Faults`).

No proof needs an induction over data.  Sorting, filtering, trimming and
summing, where recursion would be usual, are stated by ranks and cardinalities,
and their lemmas rest on the library's theorems on finite sets: an injection
between sets of one size is a bijection.

Only model-checked: liveness (`HealsWhenHealthy`, `TripsWhenFailing`,
`CongestionSettlesAtBeta`, `UncongestedReachesMax`, `EveryRequestEnds`,
`ConsumersEnd`), since TLAPS has no proof rules for fairness and ENABLED here,
and what the runs that expect a violation find (of `backtest_lock`, `NoLockEnds`
proves the safety part).

## 5. Where code and documents disagree

Three disagreements have a run of their own; they are the ones that do lasting
harm without any fault.

* **Leaked slots** (`admission_slot_leak`, `main.py:1009`).  The comment before
  the limiter says "We are the owner!"; a duplicate that waited in vain is not,
  and the `finally` block cleans up after owners only.
* **Dry wallets** (`billing_dry`, `main.py:773`).  The recharge endpoint
  depends on `verify_api_key`, which answers 402 "Please recharge" first.
* **Locks for good** (`backtest_lock`,
  `external/Quant.ai/backend/app/simulator.py:84`).  The hard drawdown limit
  "Temporarily locks the trading engine" (`external/Quant.ai/README.md:45`); a
  flat account with a multiplier of 0 moves neither its equity nor its peak, so
  every later bar finds the same drawdown.

The others appear as the named exceptions of passing properties, or as
properties under *What the documentation says*; adding one of those to the
configuration of its module makes TLC print the behaviour.

| what the code does | what is said | where it shows |
|---|---|---|
| HALF_OPEN admits everybody (`circuit_breaker.py:115-116`) | "one probe request is allowed through", `circuit_breaker.py:10` | `CircuitBreaker!SingleProbe` |
| a slow request writes HALF_OPEN over a fresh OPEN (`circuit_breaker.py:110`) | "bypassed for `recovery_timeout` seconds", `:9` | `BypassedUntilTimeout` |
| a first trip cut between its two writes stays OPEN and admits everybody (`circuit_breaker.py:169-170`) | enters HALF-OPEN after the timeout, `docs/failure-injection.md:67` | `OpenIsLeft`; exception `StuckOpen` of `HealsWhenHealthy` |
| a stream's lock is deleted before its body runs (`main.py:1008-1010`) | "the second request does not hit the upstream model", `docs/architecture.md:69` | `Admission!OneUpstreamCall` |
| a stream's slot is released before its body runs (`main.py:1012`) | the sequence diagram releases it afterwards, `docs/architecture.md:51` | `UpstreamHoldsSlot` |
| a refused request deletes the lock of whoever holds it (`main.py:917`) | "after processing is complete", `cache.py:168` | `LockedWhileServing`; `loose` in `OwnersExclusive` |
| the chunk list outlives its stream and is shared with the next (`cache.py:271-272`) | "streams the same response", `docs/architecture.md:69` | `StreamDedup!SameResponse`; `OneStream` in `ReplayIsExact` |
| a charge overwrites a recharge committed after its read (`main.py:543`) | deduct from the wallet, `docs/architecture.md:53` | `raced` in `NeverOvercharged` |
| a cascade whose last model fails bills nothing (`main.py:1094-1095`) | "accumulating tokens and fees across all tried models", `README.md:125` | `BlockingFlow!CascadeBillsAll` |
| a 422 of an invalid fallback answer leaves the gauge up, judges no call and tells no waiter (`main.py:1433-1442`) | - | `InvalidFallback` in `BlockingFlow` |
| the speculative fallback's success is reported to `cb_fb`, which is never assigned: a NameError tears the response down (`main.py:1675`) | "transparently complete the request", `docs/architecture.md:88` | `StreamingFlow!FallbackCompletes` |
| a custom cascade none of which is admitted runs through all backends (`router.py:389-390`); router_r1 takes a local and a cloud backend anyway (`main.py:964-965`) | "Filter by routing opts", `router.py:235` | `Routing!CascadeRespectsSides`, `AgenticRespectsSides` |
| a pinned model's open backend is called first (`router.py:266-286`) | "blocked from hitting the failed primary node", `docs/failure-injection.md:65` | `Routing!OpenIsNotFirst` |
| a cascade whose last model raises answers 502 though an earlier model answered (`main.py:1094-1097`); a pinned request that was redirected has no second backend (`router.py:249-264`) | - | exceptions of `Gateway!SurvivesOneFailure` |
| a fixed position size ignores the limits (`simulator.py:140-141`) | new positions stop, `external/Quant.ai/backend/app/config.py:26` | `sizing` in `Locked` |
| an intraday position is liquidated only by a bar of exactly the minute (`simulator.py:105`), which hourly bars never have at 15:55 | no shares are held over night, `config.py:38` | `closed` in `FlatOvernight` |

Also noticed: `router_r1` bills only the answer it uses, so a draft that is
corrected costs nothing; background tasks registered before an `HTTPException`
are dropped with the response, so failed requests are not logged; the latency
that a stream reports to the limiter is the time to its response object, which
no property covers (`VegasLimiter` takes any latency);
a duplicate that streams waits for chunks that a `router_r1` owner never pushes
(`main.py:948-998`);
`record_metrics` never hears of a primary's failure that its fallback made good
(`main.py:1411-1443`), and `router_r1` records nothing; Quant.ai's soft limit
halves no position where there is no volatility, where the size cap binds, or
where the size is fixed (`README.md:44` of that project says it does).

## 6. Not modelled, and plan

Wording, metrics, prompt adaptation, prices, scores and validators are data the
properties do not tell apart; where they decide something, the decision is
nondeterministic.  The semantic cache behaves like the exact one, with a
similarity for equality, and is not modelled.

An answer is taken to be well formed, as the adapters build it (choices, a
usage record; `adapters/openai.py:70-112`).  One without them would raise after
`record_success` in a cascade (`main.py:1047-1069`), whose handler would then
report the same call as a failure too.

Quant.ai's strategies and indicators are floating-point inputs of the loop that
`Backtest` leaves open; its options ledger and watchlists are plain records.
Its live runner has no behaviour to model: `start` is called by a synchronous
endpoint (`main_api.py:1634`), which FastAPI runs in a worker thread, where
`asyncio.get_running_loop` raises, so that the loop of `live_runner.py:201`
never begins.  `assets/` holds generated, minified builds of the user
interface; nothing here stands for them.

The order of work was: breaker and limiter (self-contained, most concurrent),
admission (where slots, locks and results meet), stream sharing, billing, the
flows and routing, then their compositions, telemetry and the backtest.  What
is left, in order:

1. Proofs: that `Admission` keeps to what `BlockingFlow` and `StreamDedup`
   show of a message and of a shared stream, and the safety part of the
   liveness arguments (what measure each of them decreases).
2. `Gateway` for streams: `Routing` composed with `StreamingFlow`.
3. The request log row of `db_log_request` and what happens to it when a
   response is an exception.
4. Prefix affinity, if the score's order ever matters to a property.
