---------------------------- MODULE BlockingFlow ----------------------------
(***************************************************************************)
(* One admitted, non-streaming request on its way through the upstream     *)
(* models (inferroute/main.py): a primary and its fallback                 *)
(* (handle_blocking_flow), a cascade of models that are tried until one    *)
(* answer scores high enough (handle_cascade_blocking_flow), or a local    *)
(* draft that a cloud model corrects (router_r1 with run_agentic_flow).    *)
(*                                                                         *)
(* What the request leaves behind is the state: the queue-depth gauge, the *)
(* reports to the circuit breakers, the cache entry, the message to the    *)
(* waiters of the same prompt, and the log entry that bills the tenant.    *)
(* An adapter call returns an answer that passes the check (validation,    *)
(* acceptance score), returns one that does not, or raises; the check of an*)
(* answer may raise as well.                                               *)
(***************************************************************************)
EXTENDS Integers, Sequences, FiniteSets, Functions

CONSTANTS
    Backends,
    MaxChain   \* bound on the length of a cascade

VARIABLES
    flow,    \* which handler serves the request
    chain,   \* the backends it may call, in order
    step,    \* position of the current call
    pc,
    depth,   \* QUEUE_DEPTH of each backend, this request's share
    ok, bad, \* record_success and record_failure calls per backend
    spent,   \* the calls that returned an answer, which costs tokens
    draft,   \* the call whose rejected draft an agentic flow may use, or 0
    answer,  \* the call whose answer is used, or 0
    cached,  \* the call whose answer is in the exact cache, or 0
    told,    \* what the waiters of the same prompt were sent
    billed   \* the calls whose tokens the log entry bills

vars == <<flow, chain, step, pc, depth, ok, bad, spent, draft, answer, cached, told, billed>>

Flows == {"blocking", "cascade", "agentic"}

Sequences(lengths) == UNION {[1..n -> Backends] : n \in lengths}

\* A blocking request has a primary and at most one fallback, an agentic one
\* a local and a cloud backend, a cascade any chain: a client's own chain may
\* name a backend twice.
Chains(f) ==
    CASE f = "blocking" -> {s \in Sequences(1..2) : IsInjective(s)}
      [] f = "agentic"  -> {s \in Sequences({2}) : IsInjective(s)}
      [] f = "cascade"  -> Sequences(1..MaxChain)

Zero == [b \in Backends |-> 0]

Ended == {"answered", "raised"}

TypeOK ==
    /\ flow \in Flows
    /\ chain \in Chains(flow)
    /\ step \in DOMAIN chain
    /\ pc \in {"call", "wait", "store", "publish"} \cup Ended
    /\ depth \in [Backends -> {0, 1}]
    /\ ok \in [Backends -> 0..MaxChain] /\ bad \in [Backends -> 0..MaxChain]
    /\ spent \subseteq DOMAIN chain /\ billed \subseteq DOMAIN chain
    /\ {draft, answer, cached} \subseteq DOMAIN chain \cup {0}
    /\ told \in {"nothing", "result", "error"}

Init ==
    /\ flow \in Flows
    /\ chain \in Chains(flow)
    /\ step = 1
    /\ pc = "call"
    /\ depth = Zero /\ ok = Zero /\ bad = Zero
    /\ spent = {} /\ billed = {}
    /\ draft = 0 /\ answer = 0 /\ cached = 0
    /\ told = "nothing"

Current == chain[step]
Last    == step = Len(chain)

Up(f, b)   == [f EXCEPT ![b] = @ + 1]
Down(f, b) == [f EXCEPT ![b] = @ - 1]

-----------------------------------------------------------------------------
(* Calls.  The agentic flow touches neither the gauge nor the breakers. *)

Call ==
    /\ pc = "call"
    /\ depth' = IF flow = "agentic" THEN depth ELSE Up(depth, Current)
    /\ pc' = "wait"
    /\ UNCHANGED <<flow, chain, step, ok, bad, spent, draft, answer, cached, told, billed>>

Answers(kind) ==
    /\ pc = "wait"
    /\ flow = kind
    /\ spent' = spent \cup {step}

Raises(kind) ==
    /\ pc = "wait"
    /\ flow = kind
    /\ UNCHANGED spent

\* Use the current answer.
Accept == answer' = step /\ pc' = "store" /\ UNCHANGED <<step, told>>

Escalate == step' = step + 1 /\ pc' = "call" /\ UNCHANGED <<answer, told>>

\* The HTTPException that ends the request drops its background tasks, the
\* log entry among them.
Raise(message) == pc' = "raised" /\ told' = message /\ UNCHANGED <<step, answer>>

-----------------------------------------------------------------------------
(* handle_blocking_flow *)

BlockingAccepted ==
    /\ Answers("blocking")
    /\ ok' = Up(ok, Current)
    /\ Accept
    /\ UNCHANGED <<depth, bad, draft>>

\* Fault: the request moves to its fallback without leaving the primary.
PrimaryKeepsDepth ==
    /\ Answers("blocking") \/ Raises("blocking")
    /\ step = 1
    /\ bad' = Up(bad, Current)
    /\ IF Last THEN Raise("error") /\ depth' = Down(depth, Current)
               ELSE Escalate /\ UNCHANGED depth
    /\ UNCHANGED <<ok, draft>>

PrimaryFails ==
    /\ Answers("blocking") \/ Raises("blocking")
    /\ step = 1
    /\ bad' = Up(bad, Current)
    /\ depth' = Down(depth, Current)
    /\ IF Last THEN Raise("error") ELSE Escalate
    /\ UNCHANGED <<ok, draft>>

\* The 422 of an invalid fallback answer passes the handler for failures by.
FallbackInvalid ==
    /\ Answers("blocking")
    /\ step = 2
    /\ Raise("nothing")
    /\ UNCHANGED <<depth, ok, bad, draft>>

\* Fault: a fallback that fails ends the request without a word.
FallbackFailsSilently ==
    /\ Answers("blocking") \/ Raises("blocking")
    /\ step = 2
    /\ bad' = Up(bad, Current)
    /\ depth' = Down(depth, Current)
    /\ Raise("nothing")
    /\ UNCHANGED <<ok, draft>>

\* The call raises, or the validation of its answer does (a schema of the
\* client's that is none).
FallbackFails ==
    /\ Answers("blocking") \/ Raises("blocking")
    /\ step = 2
    /\ bad' = Up(bad, Current)
    /\ depth' = Down(depth, Current)
    /\ Raise("error")
    /\ UNCHANGED <<ok, draft>>

-----------------------------------------------------------------------------
(* handle_cascade_blocking_flow *)

\* The last model's answer is used whatever its score.
CascadeAccepts ==
    /\ Answers("cascade")
    /\ ok' = Up(ok, Current)
    /\ depth' = Down(depth, Current)
    /\ Accept
    /\ UNCHANGED <<bad, draft>>

CascadeRejects ==
    /\ Answers("cascade")
    /\ ~Last
    /\ ok' = Up(ok, Current)
    /\ depth' = Down(depth, Current)
    /\ Escalate
    /\ UNCHANGED <<bad, draft>>

\* Fault: the cascade goes on after its last model failed.
CascadeFailsOn ==
    /\ Raises("cascade")
    /\ bad' = Up(bad, Current)
    /\ depth' = Down(depth, Current)
    /\ Escalate
    /\ UNCHANGED <<ok, draft>>

\* When the last model fails the answers rejected before are not reconsidered.
CascadeFails ==
    /\ Raises("cascade")
    /\ bad' = Up(bad, Current)
    /\ depth' = Down(depth, Current)
    /\ IF Last THEN Raise("nothing") ELSE Escalate
    /\ UNCHANGED <<ok, draft>>

-----------------------------------------------------------------------------
(* router_r1 *)

AgenticAccepts ==
    /\ Answers("agentic")
    /\ Accept
    /\ UNCHANGED <<depth, ok, bad, draft>>

DraftRejected ==
    /\ Answers("agentic")
    /\ step = 1
    /\ draft' = step
    /\ Escalate
    /\ UNCHANGED <<depth, ok, bad>>

\* A correction that fails leaves the rejected draft as the answer.
AgenticFails ==
    /\ Raises("agentic")
    /\ \/ step = 1 /\ Escalate
       \/ step = 2 /\ draft = 0 /\ Raise("nothing")
       \/ /\ step = 2 /\ draft # 0
          /\ answer' = draft
          /\ pc' = "store"
          /\ UNCHANGED <<step, told>>
    /\ UNCHANGED <<depth, ok, bad, draft>>

-----------------------------------------------------------------------------
(* The answer *)

Store ==
    /\ pc = "store"
    /\ cached' = answer
    /\ pc' = "publish"
    /\ UNCHANGED <<flow, chain, step, depth, ok, bad, spent, draft, answer, told, billed>>

\* A cascade bills every answer it received, the others the one they use.
Bill == IF flow = "cascade" THEN spent ELSE {answer}

\* Publish, leave the queue, schedule the log entry and return.
Publish ==
    /\ pc = "publish"
    /\ told' = "result"
    /\ depth' = IF flow = "blocking" THEN Down(depth, chain[answer]) ELSE depth
    /\ billed' = Bill
    /\ pc' = "answered"
    /\ UNCHANGED <<flow, chain, step, ok, bad, spent, draft, answer, cached>>

-----------------------------------------------------------------------------

Outcome ==
    /\ \/ BlockingAccepted \/ PrimaryFails \/ FallbackInvalid \/ FallbackFails
       \/ CascadeAccepts \/ CascadeRejects \/ CascadeFails
       \/ AgenticAccepts \/ DraftRejected \/ AgenticFails
    /\ UNCHANGED <<flow, chain, cached, billed>>

Next == Call \/ Outcome \/ Store \/ Publish

Spec == Init /\ [][Next]_vars

-----------------------------------------------------------------------------
(* Properties *)

InvalidFallback == flow = "blocking" /\ pc = "raised" /\ told = "nothing"

\* A request that ended is in no backend's queue: on every path with as many
\* increments of the gauge as decrements, the 422 of an invalid fallback
\* answer excepted, which stays in the fallback's queue for ever.
DepthSettles ==
    pc \in Ended =>
        \A b \in Backends : depth[b] = IF InvalidFallback /\ b = Current THEN 1 ELSE 0

Calls(b) == Cardinality({i \in 1..step : chain[i] = b})

\* The breakers hear of every call exactly once - not of an invalid fallback
\* answer, and of nothing the agentic flow does.
CallsJudgedOnce ==
    pc \in Ended =>
        \A b \in Backends :
            ok[b] + bad[b] = IF flow = "agentic" \/ (InvalidFallback /\ b = Current)
                             THEN 0 ELSE Calls(b)

\* What the calls leave behind, whichever way the request ended.
CallsSettle == DepthSettles /\ CallsJudgedOnce

\* The waiters of a blocking request that failed are told, so that they do
\* not wait for the deadline; cascades and agentic requests are exceptions, and
\* so is a fallback answer that was refused without a report to its breaker.
FailureIsTold ==
    pc = "raised" /\ flow = "blocking"
        => told = "error" \/ (step = 2 /\ 2 \in spent /\ bad[Current] = 0)

-----------------------------------------------------------------------------
(* What the documentation says *)

\* README: the cascade loop runs "accumulating tokens and fees across all
\* tried models to log in the PostgreSQL database correctly".
CascadeBillsAll == pc \in Ended /\ flow = "cascade" => billed = spent
=============================================================================
