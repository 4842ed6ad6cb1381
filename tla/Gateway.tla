------------------------------- MODULE Gateway -------------------------------
(***************************************************************************)
(* One blocking request from the routing decision to its end: Routing      *)
(* composed with BlockingFlow the way chat_completions (inferroute/main.py)*)
(* does, which hands what choose_backend decided to the handler of the     *)
(* policy.  The calls that were decided are the flow's chain; `pc` is where*)
(* the decision is and `stage` where the flow is.                          *)
(***************************************************************************)
EXTENDS Routing

VARIABLES flow, step, stage, depth, ok, bad, spent, draft, answer, cached, told, billed

served == <<flow, step, stage, depth, ok, bad, spent, draft, answer, cached, told, billed>>

\* A chain is a client's own or has each backend once.
LongestChain == IF MaxCustom > Len(ALL_BACKENDS) THEN MaxCustom ELSE Len(ALL_BACKENDS)

Flow == INSTANCE BlockingFlow WITH chain <- calls, pc <- stage, MaxChain <- LongestChain

\* The handler that serves a policy.
FlowOf(policy) ==
    IF policy \in {"cascade", "survey"} THEN "cascade"
    ELSE IF policy = "agentic" THEN "agentic"
    ELSE "blocking"

Unserved ==
    /\ flow = FlowOf(request.policy)
    /\ step = 1
    /\ stage = "idle"
    /\ depth = Flow!Zero /\ ok = Flow!Zero /\ bad = Flow!Zero
    /\ spent = {} /\ billed = {}
    /\ draft = 0 /\ answer = 0 /\ cached = 0
    /\ told = "nothing"

GatewayInit == Init /\ Unserved

TypesOK ==
    /\ TypeOK
    /\ IF stage = "idle" THEN Unserved ELSE Flow!TypeOK

-----------------------------------------------------------------------------

\* chat_completions waits for the decision.
DecideCalls == Next /\ UNCHANGED served

\* The handler starts with what was decided; a decision that raised ends the
\* request before any handler runs.
HandOver ==
    /\ pc = "decided"
    /\ stage = "idle"
    /\ stage' = "call"
    /\ UNCHANGED <<vars, flow, step, depth, ok, bad, spent, draft, answer, cached, told, billed>>

Serve ==
    /\ Flow!Next
    /\ UNCHANGED <<request, admits, flips, pc, asked, available>>

GatewayNext == DecideCalls \/ HandOver \/ Serve

GatewaySpec == GatewayInit /\ [][GatewayNext]_<<vars, served>>

-----------------------------------------------------------------------------
(* Properties *)

\* What the router decides is what the handlers are written for: a primary and
\* at most one other fallback, a local and a cloud backend, or a chain, in
\* which only a client's own may name a backend twice.
HandoverFits ==
    pc = "decided" =>
        /\ calls \in Flow!Chains(flow)
        /\ \/ IsInjective(calls)
           \/ request.policy = "cascade" /\ request.custom # <<>>

\* One bad backend costs no request: whatever the breakers answered, a request
\* is only given up after two different backends failed it.  Two kinds are:
\* a cascade whose last model raised, which throws the answers away that it
\* rejected before, and a pinned request that was redirected to the fallback.
SurvivesOneFailure ==
    stage = "raised" =>
        \/ Cardinality({calls[i] : i \in 1..step}) > 1 /\ flow # "cascade"
        \/ flow = "cascade" /\ step = Len(calls) /\ step \notin spent
        \/ request.policy = "pinned" /\ request.redirect /\ calls[1] # request.pin

\* The properties of BlockingFlow, for the chains that the router decides.
CallsSettle == Flow!CallsSettle

FailureIsTold == Flow!FailureIsTold
=============================================================================
