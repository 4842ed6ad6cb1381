------------------------------- MODULE Routing -------------------------------
(***************************************************************************)
(* The choice of the backends that may serve one request: choose_backend   *)
(* (inferroute/router.py) asks the circuit breaker of each candidate, one  *)
(* after the other, and picks a primary and a fallback, or a chain, among  *)
(* the admitted ones; chat_completions (inferroute/main.py) turns that     *)
(* into the calls the request may make.                                    *)
(*                                                                         *)
(* Breakers change while they are being asked.  What a policy prefers      *)
(* (scores, predicted quality, a random number) is left open: it may pick  *)
(* any backend it chooses from.                                            *)
(***************************************************************************)
EXTENDS Integers, Sequences, SequencesExt, FiniteSets

CONSTANTS
    MaxFlips,  \* bound on how often breakers change during one decision
    MaxCustom  \* bound on the length of a client's own cascade

ASSUME RoutingAssumption == MaxFlips \in Nat /\ MaxCustom \in Nat

\* In the order of BASELINES.
ALL_BACKENDS == <<"vllm", "ollama", "openai", "gemini">>
Cheapest     == <<"ollama", "vllm", "gemini", "openai">>

Backends == Range(ALL_BACKENDS)
Local    == {"vllm", "ollama"}
Cloud    == {"openai", "gemini"}

\* Policies that score the admitted backends, and those that pick one of them.
Scoring  == {"latency", "speculative"}
Academic == {"pick", "cascade", "survey", "agentic", "learned"}

Requests ==
    [policy : Scoring \cup Academic, local : BOOLEAN, cloud : BOOLEAN,
     custom : SeqOf(Backends, MaxCustom)]
    \cup [policy : {"pinned"}, pin : Backends, redirect : BOOLEAN]

VARIABLES
    request,
    admits,    \* whether each breaker would admit a request now
    flips,     \* how often that changed
    pc,
    asked,     \* how many candidates were asked
    available, \* the candidates that may be chosen
    calls      \* the backends the request may call, in order

vars == <<request, admits, flips, pc, asked, available, calls>>

TypeOK ==
    /\ request \in Requests
    /\ admits \in [Backends -> BOOLEAN] /\ flips \in 0..MaxFlips
    /\ pc \in {"ask", "choose", "decided", "failed"}
    /\ asked \in 0..Len(ALL_BACKENDS)
    /\ Range(available) \subseteq Backends /\ IsInjective(available)
    /\ Range(calls) \subseteq Backends

Init ==
    /\ request \in {r \in Requests : r.policy \notin {"pinned", "cascade"} => r.custom = <<>>}
    /\ admits \in [Backends -> BOOLEAN] /\ flips = 0
    /\ pc = "ask" /\ asked = 0
    /\ available = <<>> /\ calls = <<>>

Places(seq, set) == {i \in DOMAIN seq : seq[i] \in set}

Place(seq, set, k) ==
    CHOOSE i \in Places(seq, set) : Cardinality({j \in Places(seq, set) : j <= i}) = k

\* Those entries of a sequence that are in the set, in their order.
Those(seq, set) ==
    [k \in 1..Cardinality(Places(seq, set)) |-> seq[Place(seq, set, k)]]

Allowed ==
    (IF request.local THEN Local ELSE {}) \cup (IF request.cloud THEN Cloud ELSE {})

\* A request that allows nothing is taken to allow everything.
Candidates == Those(ALL_BACKENDS, IF Allowed = {} THEN Backends ELSE Allowed)

-----------------------------------------------------------------------------
(* The breakers are asked *)

Flip ==
    /\ pc \in {"ask", "choose"}
    /\ flips < MaxFlips
    /\ \E b \in Backends : admits' = [admits EXCEPT ![b] = ~@]
    /\ flips' = flips + 1
    /\ UNCHANGED <<request, pc, asked, available, calls>>

\* Fault: the next candidate is asked only after a refusal.
AskAgain ==
    /\ pc = "ask" /\ request.policy # "pinned"
    /\ asked < Len(Candidates)
    /\ LET b == Candidates[asked + 1]
       IN  IF admits[b] THEN available' = Append(available, b) /\ UNCHANGED asked
           ELSE asked' = asked + 1 /\ UNCHANGED available
    /\ UNCHANGED <<request, admits, flips, pc, calls>>

Ask ==
    /\ pc = "ask" /\ request.policy # "pinned"
    /\ asked < Len(Candidates)
    /\ asked' = asked + 1
    /\ available' = IF admits[Candidates[asked + 1]]
                    THEN Append(available, Candidates[asked + 1]) ELSE available
    /\ UNCHANGED <<request, admits, flips, pc, calls>>

\* When every breaker refuses, the first candidate is tried anyway.
Asked ==
    /\ pc = "ask" /\ request.policy # "pinned"
    /\ asked = Len(Candidates)
    /\ available' = IF available = <<>> THEN <<Candidates[1]>> ELSE available
    /\ pc' = "choose"
    /\ UNCHANGED <<request, admits, flips, asked, calls>>

-----------------------------------------------------------------------------
(* The choice *)

Decide(chain) ==
    /\ calls' = chain
    /\ pc' = "decided"
    /\ UNCHANGED <<request, admits, flips, asked, available>>

PinFallback == [vllm |-> "openai", ollama |-> "vllm", openai |-> "gemini", gemini |-> "openai"]

\* The breaker of a pinned backend is asked only if the client allows another.
RoutePinned ==
    /\ pc = "ask" /\ request.policy = "pinned"
    /\ Decide(IF request.redirect /\ ~admits[request.pin]
              THEN <<PinFallback[request.pin]>>
              ELSE <<request.pin, PinFallback[request.pin]>>)

First(seq) == IF seq = <<>> THEN <<>> ELSE <<seq[1]>>

Without(seq, b) == Those(seq, Backends \ {b})

\* Fault: the only candidate that may be chosen has no fallback.
ChooseSingleAlone ==
    /\ pc = "choose" /\ request.policy \in Scoring
    /\ Len(available) = 1
    /\ Decide(available)

\* The only candidate that may be chosen takes any other as its fallback.
ChooseSingle ==
    /\ pc = "choose" /\ request.policy \in Scoring
    /\ Len(available) = 1
    /\ Decide(available \o First(Without(Candidates, available[1])))

ChooseScored ==
    /\ pc = "choose" /\ request.policy \in Scoring
    /\ Len(available) > 1
    /\ LET here == Range(available)
           both == here \cap Local # {} /\ here \cap Cloud # {}
       IN  \E p \in here : \E f \in here \ {p} :
               /\ request.policy = "speculative" /\ both => p \in Local /\ f \in Cloud
               /\ Decide(<<p, f>>)

\* Fault: the first admitted backend, the primary itself perhaps.
FallbackFirst(p) == First(available \o Without(Candidates, p))

\* Fault: any backend where only candidates may be taken.
FallbackAnywhere(p) == First(Without(available, p) \o Without(ALL_BACKENDS, p))

\* An admitted fallback if there is one, else any candidate.
Fallback(p) == First(Without(available, p) \o Without(Candidates, p))

ChoosePick ==
    /\ pc = "choose" /\ request.policy = "pick"
    /\ \E p \in Range(available) : Decide(<<p>> \o Fallback(p))

\* A client's own chain is reduced to what may be chosen; if nothing is left
\* of it the cascade runs through all backends.
ChooseCascade ==
    /\ pc = "choose" /\ request.policy = "cascade"
    /\ LET chain == Those(IF request.custom # <<>> THEN request.custom ELSE Cheapest,
                          Range(available))
       IN  Decide(IF chain = <<>> THEN Cheapest ELSE chain)

\* Fault: the chain continues through all candidates.
ChooseSurveyOfAll ==
    /\ pc = "choose" /\ request.policy = "survey"
    /\ \E p \in Range(available) :
           Decide(<<p>> \o Without(Those(Cheapest, Range(Candidates)), p))

ChooseSurvey ==
    /\ pc = "choose" /\ request.policy = "survey"
    /\ \E p \in Range(available) :
           Decide(<<p>> \o Without(Those(Cheapest, Range(available)), p))

\* A local model drafts and a cloud model corrects, whatever was decided.
ChooseAgentic ==
    /\ pc = "choose" /\ request.policy = "agentic"
    /\ LET p == (Those(available, Local) \o available)[1]
           f == Range(Fallback(p))
           drafting   == IF p \in Local THEN p ELSE "vllm"
           correcting == IF f \cap Cloud # {} THEN Fallback(p)[1] ELSE "openai"
       IN  Decide(<<drafting, correcting>>)

\* The policy imports an object that its module does not have.
ChooseLearned ==
    /\ pc = "choose" /\ request.policy = "learned"
    /\ pc' = "failed"
    /\ UNCHANGED <<request, admits, flips, asked, available, calls>>

-----------------------------------------------------------------------------

Next ==
    \/ Flip \/ Ask \/ Asked
    \/ RoutePinned \/ ChooseSingle \/ ChooseScored \/ ChoosePick
    \/ ChooseCascade \/ ChooseSurvey \/ ChooseAgentic \/ ChooseLearned

Spec == Init /\ [][Next]_vars

-----------------------------------------------------------------------------
(* Properties *)

Decided(policies) == pc = "decided" /\ request.policy \in policies

\* A scoring or picking policy leaves the admitted backends, whichever way the
\* breakers changed meanwhile, only when there are not two of them.
RefusedOnlyWithoutChoice ==
    Decided(Scoring \cup {"pick"}) =>
        \/ Range(calls) \subseteq Range(available)
        \/ Len(available) = 1 /\ calls[1] = available[1]

\* Cascades run through admitted backends only, unless nothing is left of a
\* client's own chain.
CascadeThroughAdmitted ==
    Decided({"cascade", "survey"}) =>
        \/ Range(calls) \subseteq Range(available)
        \/ Range(request.custom) \cap Range(available) = {} /\ calls = Cheapest

\* The breakers' answers decide what is called, however stale they are by then.
OnlyAdmitted == RefusedOnlyWithoutChoice /\ CascadeThroughAdmitted

\* With these policies a request that excludes a side is never served there.
SidesRespected ==
    Decided(Scoring \cup {"pick", "survey"}) /\ Allowed # {} => Range(calls) \subseteq Allowed

-----------------------------------------------------------------------------
(* What the documentation says *)

\* choose_backend: "2. Filter by routing opts (allow_local, allow_cloud)."
CascadeRespectsSides ==
    Decided({"cascade"}) /\ Allowed # {} => Range(calls) \subseteq Allowed

AgenticRespectsSides ==
    Decided({"agentic"}) /\ Allowed # {} => Range(calls) \subseteq Allowed

\* docs/failure-injection.md, of an OPEN breaker: "All subsequent requests are
\* blocked from hitting the failed primary node".
OpenIsNotFirst == Decided({"pinned"}) => admits[calls[1]] \/ calls[1] # request.pin
=============================================================================
