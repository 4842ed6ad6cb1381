--------------------------- MODULE Gateway_proofs ---------------------------
(***************************************************************************)
(* The routing decision and the handlers it feeds, however often breakers  *)
(* change while they are asked and however long a client's own cascade is. *)
(*                                                                         *)
(* The argument has three parts: what filtering a sequence returns, what   *)
(* is known of the candidates on the way to a decision, and what a handler *)
(* has left behind after each of its calls.                                *)
(***************************************************************************)
EXTENDS Gateway, FunctionTheorems, FiniteSetTheorems, SequenceTheorems, TLAPS

-----------------------------------------------------------------------------
(* Filtering a sequence *)

\* How many entries are kept up to one.
Rank(seq, set, i) == Cardinality({j \in Places(seq, set) : j <= i})

LEMMA PlacesFinite ==
    ASSUME NEW seq \in Seq(Backends), NEW set
    PROVE  /\ Places(seq, set) \subseteq 1..Len(seq) /\ Len(seq) \in Nat
           /\ IsFiniteSet(Places(seq, set)) /\ Cardinality(Places(seq, set)) \in Nat
           /\ Cardinality(Places(seq, set)) <= Len(seq)
<1>1. Places(seq, set) \subseteq 1..Len(seq) /\ Len(seq) \in Nat
  BY DEF Places
<1>2. IsFiniteSet(1..Len(seq)) /\ Cardinality(1..Len(seq)) = Len(seq)
  <2> HIDE DEF Backends
  <2>1. PICK m \in Nat : m = Len(seq)
    BY <1>1
  <2>2. IsFiniteSet(1..m) /\ Cardinality(1..m) = m
    BY FS_Interval
  <2> QED
    BY <2>1, <2>2
<1> QED
  BY <1>1, <1>2, FS_Subset, FS_CardinalityType

\* A later entry has more before it.
LEMMA RankGrows ==
    ASSUME NEW seq \in Seq(Backends), NEW set,
           NEW i \in Places(seq, set), NEW j \in Places(seq, set), i < j
    PROVE  Rank(seq, set, i) < Rank(seq, set, j)
<1> DEFINE P == Places(seq, set)
           Before(n) == {l \in P : l <= n}
<1>1. P \subseteq Nat /\ IsFiniteSet(P) /\ i \in P /\ j \in P
  BY PlacesFinite
<1> HIDE DEF P
<1>2. Before(i) \subseteq Before(j) /\ j \in Before(j) /\ j \notin Before(i)
  <2>1. /\ i \in Nat /\ j \in Nat /\ i < j
        /\ \A l \in P : l \in Nat
    BY <1>1
  <2>2. /\ \A l \in P : l <= i => l <= j
        /\ j <= j /\ ~(j <= i)
    BY <2>1
  <2>3. Before(i) \subseteq Before(j)
    BY <2>2, Zenon
  <2>4. j \in Before(j) /\ j \notin Before(i)
    BY <1>1, <2>2, Zenon
  <2> QED
    BY <2>3, <2>4
<1>3. IsFiniteSet(Before(j))
  <2>1. Before(j) \subseteq P
    OBVIOUS
  <2> QED
    BY <1>1, <2>1, FS_Subset
<1>4. /\ Cardinality(Before(i)) <= Cardinality(Before(j)) /\ IsFiniteSet(Before(i))
      /\ Cardinality(Before(j)) = Cardinality(Before(i)) => Before(i) = Before(j)
  BY <1>2, <1>3, FS_Subset
<1>5. Cardinality(Before(i)) \in Nat /\ Cardinality(Before(j)) \in Nat
  BY <1>3, <1>4, FS_CardinalityType
<1>6. Cardinality(Before(i)) < Cardinality(Before(j))
  BY <1>2, <1>4, <1>5
<1> QED
  BY <1>6 DEF Rank, P

LEMMA RankInRange ==
    ASSUME NEW seq \in Seq(Backends), NEW set, NEW i \in Places(seq, set)
    PROVE  Rank(seq, set, i) \in 1..Cardinality(Places(seq, set))
<1> DEFINE P == Places(seq, set)
           B == {l \in P : l <= i}
<1>1. P \subseteq Nat /\ IsFiniteSet(P) /\ Cardinality(P) \in Nat /\ i \in P
  BY PlacesFinite
<1> HIDE DEF P
<1>2. B \subseteq P /\ i \in B
  BY <1>1
<1>3. IsFiniteSet(B) /\ Cardinality(B) <= Cardinality(P)
  BY <1>1, <1>2, FS_Subset
<1>4. Cardinality(B) \in Nat /\ Cardinality(B) # 0
  BY <1>2, <1>3, FS_CardinalityType, FS_EmptySet
<1>5. Cardinality(B) \in 1..Cardinality(P)
  BY <1>1, <1>3, <1>4
<1> QED
  BY <1>5 DEF Rank, P

LEMMA RankTells ==
    ASSUME NEW seq \in Seq(Backends), NEW set,
           NEW i \in Places(seq, set), NEW j \in Places(seq, set),
           Rank(seq, set, i) = Rank(seq, set, j)
    PROVE  i = j
<1>1. i \in Nat /\ j \in Nat
  BY PlacesFinite
<1>2. /\ Rank(seq, set, i) \in 1..Cardinality(Places(seq, set))
      /\ Rank(seq, set, j) \in 1..Cardinality(Places(seq, set))
      /\ Cardinality(Places(seq, set)) \in Nat
  BY RankInRange, PlacesFinite
<1>3. i < j => Rank(seq, set, i) < Rank(seq, set, j)
  BY RankGrows
<1>4. j < i => Rank(seq, set, j) < Rank(seq, set, i)
  BY RankGrows
<1> QED
  BY <1>1, <1>2, <1>3, <1>4

\* Each place of the result is that of one kept entry.
LEMMA PlaceTaken ==
    ASSUME NEW seq \in Seq(Backends), NEW set, NEW k \in 1..Cardinality(Places(seq, set))
    PROVE  Place(seq, set, k) \in Places(seq, set) /\ Rank(seq, set, Place(seq, set, k)) = k
<1> DEFINE P == Places(seq, set)
           T == 1..Cardinality(P)
           f == [i \in P |-> Rank(seq, set, i)]
<1>1. IsFiniteSet(P) /\ Cardinality(P) \in Nat
  BY PlacesFinite
<1>2. \A i \in P : Rank(seq, set, i) \in T
  BY RankInRange
<1>3. \A i, j \in P : f[i] = f[j] => i = j
  BY RankTells
<1>4. f \in Injection(P, T)
  BY <1>2, <1>3, Fun_IsInj
<1>5. IsFiniteSet(T) /\ Cardinality(T) = Cardinality(P)
  BY <1>1, FS_Interval
<1>6. f \in Surjection(P, T)
  BY <1>1, <1>4, <1>5, FS_Injection
<1> HIDE DEF f, T, P
<1>7. \A t \in T : \E i \in P : f[i] = t
  BY <1>6, Fun_SurjectionProperties
<1>8. \E i \in Places(seq, set) : Rank(seq, set, i) = k
  BY <1>7 DEF f, T, P
<1> QED
  BY <1>8 DEF Place, Rank

\* Filtering keeps the entries in the set, no more, and none twice.
LEMMA Filtered ==
    ASSUME NEW seq \in Seq(Backends), NEW set
    PROVE  /\ Those(seq, set) \in Seq(Backends)
           /\ Len(Those(seq, set)) <= Len(seq)
           /\ Range(Those(seq, set)) = Range(seq) \cap set
           /\ IsInjective(seq) => IsInjective(Those(seq, set))
<1> DEFINE n == Cardinality(Places(seq, set))
           s == Those(seq, set)
<1>1. n \in Nat /\ n <= Len(seq) /\ Places(seq, set) \subseteq 1..Len(seq) /\ DOMAIN seq = 1..Len(seq)
  BY PlacesFinite
<1>2. s = [k \in 1..n |-> seq[Place(seq, set, k)]]
  BY DEF Those
<1>3. \A k \in 1..n : Place(seq, set, k) \in Places(seq, set)
  BY PlaceTaken
<1>4. \A k \in 1..n : seq[Place(seq, set, k)] \in Backends
  BY <1>1, <1>3, ElementOfSeq
<1>5. s \in Seq(Backends) /\ Len(s) = n /\ DOMAIN s = 1..n
  <2> HIDE DEF s, n
  <2> QED BY <1>1, <1>2, <1>4
<1>6. Range(s) \subseteq Range(seq) \cap set
  <2>1. ASSUME NEW k \in 1..n PROVE s[k] \in Range(seq) \cap set
    BY <1>1, <1>2, <1>3, <2>1 DEF Places, Range
  <2> QED
    BY <1>5, <2>1 DEF Range
<1>7. Range(seq) \cap set \subseteq Range(s)
  <2> SUFFICES ASSUME NEW b \in Range(seq) \cap set PROVE b \in Range(s)
    OBVIOUS
  <2>1. PICK i \in DOMAIN seq : seq[i] = b
    BY DEF Range
  <2>2. i \in Places(seq, set)
    BY <2>1 DEF Places
  <2>3. PICK k \in 1..n : k = Rank(seq, set, i)
    BY <2>2, RankInRange
  <2>4. Place(seq, set, k) \in Places(seq, set) /\ Rank(seq, set, Place(seq, set, k)) = Rank(seq, set, i)
    BY <2>3, PlaceTaken
  <2>5. Place(seq, set, k) = i
    BY <2>2, <2>4, RankTells
  <2>6. s[k] = b
    BY <1>2, <2>1, <2>5
  <2> QED
    BY <1>5, <2>6 DEF Range
<1>8. ASSUME IsInjective(seq) PROVE IsInjective(s)
  <2> SUFFICES ASSUME NEW k \in 1..n, NEW l \in 1..n, s[k] = s[l] PROVE k = l
    BY <1>5 DEF IsInjective
  <2>1. Place(seq, set, k) = Place(seq, set, l)
    BY <1>1, <1>2, <1>3, <1>8 DEF IsInjective
  <2> QED
    BY <2>1, PlaceTaken
<1> QED
  BY <1>1, <1>5, <1>6, <1>7, <1>8

-----------------------------------------------------------------------------
(* Backends, chains and candidates *)

LEMMA FourBackends ==
    /\ Backends = {"vllm", "ollama", "openai", "gemini"}
    /\ ALL_BACKENDS \in Seq(Backends) /\ Cheapest \in Seq(Backends)
    /\ Len(ALL_BACKENDS) = 4 /\ Len(Cheapest) = 4
    /\ Range(ALL_BACKENDS) = Backends /\ Range(Cheapest) = Backends
    /\ IsInjective(ALL_BACKENDS) /\ IsInjective(Cheapest)
    /\ Local \cup Cloud = Backends /\ Local \cap Cloud = {}
<1>1. Backends = {"vllm", "ollama", "openai", "gemini"}
  BY DEF Backends, ALL_BACKENDS, Range
<1>2. Range(Cheapest) = {"vllm", "ollama", "openai", "gemini"}
  BY DEF Cheapest, Range
<1>3. IsInjective(ALL_BACKENDS) /\ IsInjective(Cheapest)
  BY DEF ALL_BACKENDS, Cheapest, IsInjective
<1>4. /\ Len(ALL_BACKENDS) = 4 /\ Len(Cheapest) = 4
      /\ ALL_BACKENDS \in Seq(Backends) /\ Cheapest \in Seq(Backends)
  BY <1>1 DEF ALL_BACKENDS, Cheapest
<1> QED
  BY <1>1, <1>2, <1>3, <1>4 DEF Backends, Local, Cloud

\* A chain that names nobody twice is no longer than the list of backends.
LEMMA InjectiveIsShort ==
    ASSUME NEW s \in Seq(Backends), IsInjective(s)
    PROVE  Len(s) <= 4
<1>1. PICK n \in Nat : n = Len(s) /\ DOMAIN s = 1..n
  OBVIOUS
<1>2. s \in [1..n -> Backends]
  BY <1>1
<1>3. IsFiniteSet(Backends) /\ Cardinality(Backends) = 4
  <2>1. ALL_BACKENDS \in [1..4 -> Backends]
    BY FourBackends DEF ALL_BACKENDS
  <2>2. ALL_BACKENDS \in Injection(1..4, Backends)
    BY <2>1, FourBackends, Fun_IsInj DEF IsInjective
  <2>3. ALL_BACKENDS \in Surjection(1..4, Backends)
    BY <2>1, Fun_IsSurj DEF Backends, Range
  <2>4. IsFiniteSet(1..4) /\ Cardinality(1..4) = 4
    <3>1. PICK m \in Nat : m = 4
      OBVIOUS
    <3>2. IsFiniteSet(1..m) /\ Cardinality(1..m) = m
      BY FS_Interval
    <3> QED
      BY <3>1, <3>2
  <2>5. IsFiniteSet(Backends)
    BY <2>3, <2>4, FS_Surjection
  <2>6. Cardinality(Backends) <= 4 /\ Cardinality(Backends) \in Nat
    BY <2>3, <2>4, <2>5, FS_Surjection, FS_CardinalityType
  <2>7. 4 <= Cardinality(Backends)
    BY <2>2, <2>4, <2>5, FS_Injection
  <2> QED
    BY <2>5, <2>6, <2>7
<1>4. s \in Injection(1..n, Backends)
  BY <1>1, <1>2, Fun_IsInj DEF IsInjective
<1>5. Cardinality(1..n) <= Cardinality(Backends) /\ Cardinality(1..n) = n
  BY <1>3, <1>4, FS_Injection, FS_Interval
<1> QED
  BY <1>1, <1>3, <1>5

LEMMA LongestChainType == LongestChain \in Nat /\ LongestChain >= 4 /\ LongestChain >= MaxCustom
BY RoutingAssumption, FourBackends DEF LongestChain

\* A primary and another backend are what the two-call handlers expect.
LEMMA PairFits ==
    ASSUME NEW p \in Backends, NEW q \in Backends, p # q
    PROVE  /\ <<p, q>> \in Flow!Chains("blocking") /\ <<p, q>> \in Flow!Chains("agentic")
           /\ IsInjective(<<p, q>>) /\ Range(<<p, q>>) = {p, q}
           /\ <<p, q>> \in Seq(Backends) /\ Len(<<p, q>>) = 2
<1>1. /\ <<p, q>> \in [1..2 -> Backends]
      /\ <<p, q>> \in Seq(Backends) /\ Len(<<p, q>>) = 2
  OBVIOUS
<1>2. IsInjective(<<p, q>>)
  BY DEF IsInjective
<1>3. Range(<<p, q>>) = {p, q}
  BY DEF Range
<1>4. \A m : 2 \in m => <<p, q>> \in Flow!Sequences(m)
  BY <1>1 DEF Flow!Sequences
<1> QED
  BY <1>1, <1>2, <1>3, <1>4 DEF Flow!Chains, Flow!IsInjective, IsInjective

\* Any chain that is not empty or too long is one for a cascade.
LEMMA ChainFits ==
    ASSUME NEW s \in Seq(Backends), s # <<>>, Len(s) <= LongestChain
    PROVE  s \in Flow!Chains("cascade")
<1>1. PICK n \in Nat : n = Len(s)
  OBVIOUS
<1>2. s \in [1..n -> Backends] /\ n \in 1..LongestChain
  BY <1>1, LongestChainType
<1> QED
  BY <1>2 DEF Flow!Chains, Flow!Sequences

\* The candidates are the allowed backends, each once and on each side two.
LEMMA CandidatesKnown ==
    ASSUME request \in Requests, request.policy # "pinned"
    PROVE  /\ Candidates \in Seq(Backends) /\ Candidates # <<>> /\ Len(Candidates) <= 4
           /\ IsInjective(Candidates)
           /\ Allowed # {} => Range(Candidates) \subseteq Allowed
           /\ \A p : Range(Candidates) \ {p} # {}
<1> DEFINE S == IF Allowed = {} THEN Backends ELSE Allowed
<1>1. /\ Candidates \in Seq(Backends) /\ Len(Candidates) <= 4
      /\ Range(Candidates) = Backends \cap S /\ IsInjective(Candidates)
  BY FourBackends, Filtered DEF Candidates
<1>2. Local \subseteq S \/ Cloud \subseteq S
  BY FourBackends DEF Allowed
<1>3. \A p : Range(Candidates) \ {p} # {}
  <2>1. Local \subseteq Range(Candidates) \/ Cloud \subseteq Range(Candidates)
    BY <1>1, <1>2, FourBackends
  <2> HIDE DEF S
  <2> QED
    BY <2>1 DEF Local, Cloud
<1>4. Candidates # <<>>
  BY <1>3 DEF Range
<1> QED
  BY <1>1, <1>3, <1>4

\* The first entry of a sequence, if it has one.
LEMMA FirstOf ==
    ASSUME NEW s \in Seq(Backends)
    PROVE  /\ s = <<>> => First(s) = <<>> /\ Range(s) = {}
           /\ s # <<>> => First(s) = <<s[1]>> /\ s[1] \in Range(s) /\ s[1] \in Backends
BY DEF First, Range

LEMMA Joined ==
    ASSUME NEW p \in Backends, NEW q \in Backends
    PROVE  <<p>> \o <<q>> = <<p, q>>
<1> HIDE DEF Backends
<1> DEFINE s == <<p>>
           t == <<q>>
           u == <<p, q>>
<1>1. /\ s \in Seq(Backends) /\ Len(s) = 1 /\ s[1] = p
      /\ t \in Seq(Backends) /\ Len(t) = 1 /\ t[1] = q
      /\ u \in Seq(Backends) /\ Len(u) = 2 /\ u[1] = p /\ u[2] = q
  OBVIOUS
<1> HIDE DEF s, t, u
<1>2. s \o t \in Seq(Backends) /\ Len(s \o t) = 2 /\ (s \o t)[1] = p /\ (s \o t)[2] = q
  BY <1>1
<1>3. s \o t = u
  BY <1>1, <1>2, SeqEqual
<1> QED
  BY <1>3 DEF s, t, u

LEMMA WithoutOne ==
    ASSUME NEW s \in Seq(Backends), NEW p
    PROVE  /\ Without(s, p) \in Seq(Backends) /\ Range(Without(s, p)) = Range(s) \ {p}
           /\ IsInjective(s) => IsInjective(Without(s, p))
<1>1. Range(s) \subseteq Backends
  BY DEF Range
<1> QED
  BY <1>1, Filtered DEF Without

-----------------------------------------------------------------------------
(* The decision *)

\* What may be chosen are candidates that were asked, or the first of them.
Choosable ==
    IF request.policy = "pinned" THEN available = <<>> /\ asked = 0 /\ pc \in {"ask", "decided"}
    ELSE /\ asked <= Len(Candidates)
         /\ Range(available) \subseteq Range(Candidates)
         /\ pc = "ask" => Range(available) \subseteq {Candidates[i] : i \in 1..asked}
         /\ pc = "choose" => available # <<>>

\* The only request for two backends that gets one is a redirected pin.
LoneCall ==
    pc = "decided" /\ flow = "blocking" =>
        \/ Len(calls) = 2
        \/ request.policy = "pinned" /\ request.redirect /\ calls[1] # request.pin

Decision == HandoverFits /\ OnlyAdmitted /\ SidesRespected /\ LoneCall

RouteInv ==
    /\ TypeOK
    /\ available \in Seq(Backends) /\ calls \in Seq(Backends)
    /\ flow = FlowOf(request.policy)
    /\ Choosable
    /\ Decision

LEMMA PinChosen ==
    ASSUME RouteInv, RoutePinned, flow' = flow
    PROVE  calls' \in Seq(Backends) /\ Decision'
<1>1. /\ request.policy = "pinned" /\ request.pin \in Backends /\ flow = "blocking"
      /\ request' = request /\ available' = available /\ pc' = "decided"
  BY DEF RouteInv, TypeOK, Requests, RoutePinned, Decide, FlowOf, Scoring, Academic
<1> DEFINE f == PinFallback[request.pin]
<1>2. f \in Backends /\ f # request.pin
  BY <1>1, FourBackends DEF PinFallback
<1>3. \/ calls' = <<f>> /\ request.redirect
      \/ calls' = <<request.pin, f>>
  BY DEF RoutePinned, Decide
<1>4. calls' \in Seq(Backends) /\ IsInjective(calls') /\ calls' \in Flow!Chains("blocking")
  <2>1. CASE calls' = <<f>>
    <3>1. calls' \in [1..1 -> Backends] /\ calls' \in Seq(Backends)
      BY <1>2, <2>1
    <3>2. calls' \in Flow!Sequences(1..2)
      BY <3>1 DEF Flow!Sequences
    <3>3. IsInjective(calls')
      BY <3>1 DEF IsInjective
    <3> QED
      BY <3>1, <3>2, <3>3 DEF Flow!Chains, Flow!IsInjective, IsInjective
  <2>2. CASE calls' = <<request.pin, f>>
    BY <1>1, <1>2, <2>2, PairFits
  <2> QED
    BY <1>3, <2>1, <2>2
<1>5. HandoverFits'
  BY <1>1, <1>4 DEF HandoverFits
<1>6. OnlyAdmitted' /\ SidesRespected'
  BY <1>1 DEF OnlyAdmitted, RefusedOnlyWithoutChoice, CascadeThroughAdmitted, SidesRespected,
              Decided, Scoring
<1>7. LoneCall'
  <2>1. calls' = <<f>> => calls'[1] = f
    OBVIOUS
  <2>2. calls' = <<request.pin, f>> => Len(calls') = 2
    OBVIOUS
  <2> HIDE DEF f
  <2> QED
    BY <1>1, <1>2, <1>3, <2>1, <2>2 DEF LoneCall
<1> QED
  BY <1>4, <1>5, <1>6, <1>7 DEF Decision

\* A decision on two different candidates, the first of which is admitted and
\* the second too unless the first is the only one.
LEMMA PairChosen ==
    ASSUME RouteInv, request.policy \in Scoring \cup {"pick"},
           NEW p \in Range(available), NEW q \in Range(Candidates), p # q,
           q \in Range(available) \/ (Len(available) = 1 /\ available[1] = p),
           Decide(<<p, q>>), flow' = flow
    PROVE  calls' \in Seq(Backends) /\ Decision'
<1>1. /\ request' = request /\ available' = available /\ pc' = "decided" /\ calls' = <<p, q>>
      /\ request.policy # "pinned" /\ flow = "blocking" /\ request \in Requests
  BY DEF Decide, RouteInv, TypeOK, Scoring, FlowOf
<1>2. p \in Range(Candidates) /\ Candidates \in Seq(Backends)
  BY <1>1, CandidatesKnown DEF RouteInv, Choosable
<1>3. p \in Backends /\ q \in Backends
  BY <1>2 DEF Range
<1>4. /\ calls' \in Seq(Backends) /\ IsInjective(calls') /\ calls' \in Flow!Chains("blocking")
      /\ Range(calls') = {p, q} /\ Len(calls') = 2 /\ calls'[1] = p
  BY <1>1, <1>3, PairFits
<1>5. HandoverFits' /\ LoneCall'
  BY <1>1, <1>4 DEF HandoverFits, LoneCall
<1>6. OnlyAdmitted'
  BY <1>1, <1>4 DEF OnlyAdmitted, RefusedOnlyWithoutChoice, CascadeThroughAdmitted, Decided, Scoring
<1>7. SidesRespected'
  <2>1. Allowed' = Allowed
    BY <1>1 DEF Allowed
  <2>2. Allowed # {} => p \in Allowed /\ q \in Allowed
    BY <1>1, <1>2, CandidatesKnown
  <2> QED
    BY <1>4, <2>1, <2>2 DEF SidesRespected
<1> QED
  BY <1>4, <1>5, <1>6, <1>7 DEF Decision

\* A request that is not pinned chooses among candidates.
LEMMA ChoiceOfCandidates ==
    ASSUME RouteInv, pc = "choose"
    PROVE  /\ request \in Requests /\ request.policy # "pinned"
           /\ available \in Seq(Backends) /\ available # <<>> /\ IsInjective(available)
           /\ Range(available) \subseteq Range(Candidates) /\ Range(available) \subseteq Backends
           /\ available[1] \in Range(available)
BY FirstOf DEF RouteInv, TypeOK, Choosable

LEMMA SingleChosen ==
    ASSUME RouteInv, ChooseSingle, flow' = flow
    PROVE  calls' \in Seq(Backends) /\ Decision'
<1>1. /\ request \in Requests /\ request.policy # "pinned" /\ request.policy \in Scoring
      /\ available[1] \in Range(available) /\ Len(available) = 1 /\ available \in Seq(Backends)
  BY ChoiceOfCandidates DEF ChooseSingle
<1> DEFINE p == available[1]
           rest == Without(Candidates, p)
<1>2. rest \in Seq(Backends) /\ Range(rest) = Range(Candidates) \ {p} /\ Range(rest) # {}
  BY <1>1, CandidatesKnown, WithoutOne
<1>3. rest # <<>>
  BY <1>2, FirstOf
<1>4. First(rest) = <<rest[1]>> /\ rest[1] \in Range(rest)
  BY <1>2, <1>3, FirstOf
<1>5. available \o First(rest) = <<p, rest[1]>>
  <2>1. available = <<p>>
    BY <1>1
  <2>0. p \in Backends /\ rest[1] \in Backends
    BY <1>1, <1>2, <1>3, FirstOf
  <2> HIDE DEF rest, p
  <2>2. <<p>> \o <<rest[1]>> = <<p, rest[1]>>
    BY <2>0, Joined
  <2>3. available \o First(rest) = <<p>> \o <<rest[1]>>
    BY <1>4, <2>1
  <2> QED
    BY <2>2, <2>3
<1>6. Decide(<<p, rest[1]>>)
  BY <1>5 DEF ChooseSingle
<1> QED
  BY <1>1, <1>2, <1>4, <1>6, PairChosen

LEMMA ScoredChosen ==
    ASSUME RouteInv, ChooseScored, flow' = flow
    PROVE  calls' \in Seq(Backends) /\ Decision'
<1>1. PICK p \in Range(available) : \E f \in Range(available) \ {p} : Decide(<<p, f>>)
  BY DEF ChooseScored
<1>2. PICK f \in Range(available) \ {p} : Decide(<<p, f>>)
  BY <1>1
<1> QED
  BY <1>1, <1>2, ChoiceOfCandidates, PairChosen DEF ChooseScored

\* The fallback is another candidate, an admitted one unless there is none.
LEMMA FallbackFits ==
    ASSUME RouteInv, pc = "choose", NEW p \in Range(available)
    PROVE  \E q \in Range(Candidates) :
               /\ Fallback(p) = <<q>> /\ q # p
               /\ q \in Range(available) \/ (Len(available) = 1 /\ available[1] = p)
<1> DEFINE s == Without(available, p)
           t == Without(Candidates, p)
<1>1. /\ available \in Seq(Backends) /\ IsInjective(available) /\ available # <<>>
      /\ Range(available) \subseteq Range(Candidates)
      /\ Candidates \in Seq(Backends) /\ Range(Candidates) \ {p} # {}
  BY ChoiceOfCandidates, CandidatesKnown
<1>2. s \in Seq(Backends) /\ Range(s) = Range(available) \ {p}
  BY <1>1, WithoutOne
<1>3. t \in Seq(Backends) /\ Range(t) = Range(Candidates) \ {p} /\ t # <<>>
  BY <1>1, WithoutOne, FirstOf
<1>4. Fallback(p) = First(s \o t)
  BY DEF Fallback
<1> HIDE DEF s, t
<1>5. CASE s # <<>>
  <2>1. Fallback(p) = <<s[1]>>
    BY <1>2, <1>3, <1>4, <1>5 DEF First
  <2>2. s[1] \in Range(s)
    BY <1>2, <1>5, FirstOf
  <2> QED
    BY <1>1, <1>2, <2>1, <2>2
<1>6. CASE s = <<>>
  <2>1. Fallback(p) = <<t[1]>>
    BY <1>3, <1>4, <1>6 DEF First
  <2>2. t[1] \in Range(t)
    BY <1>3, FirstOf
  <2>3. Range(available) \subseteq {p}
    BY <1>2, <1>6, FirstOf
  <2>4. Len(available) = 1 /\ available[1] = p
    <3>1. PICK n \in Nat : n = Len(available) /\ DOMAIN available = 1..n /\ n >= 1
      BY <1>1
    <3>2. \A i \in 1..n : available[i] = p
      BY <2>3, <3>1 DEF Range
    <3>3. n = 1
      BY <1>1, <3>1, <3>2 DEF IsInjective
    <3> QED
      BY <3>1, <3>2, <3>3
  <2> QED
    BY <1>3, <2>1, <2>2, <2>4
<1> QED
  BY <1>5, <1>6

LEMMA PickChosen ==
    ASSUME RouteInv, ChoosePick, flow' = flow
    PROVE  calls' \in Seq(Backends) /\ Decision'
<1>1. PICK p \in Range(available) : Decide(<<p>> \o Fallback(p))
  BY DEF ChoosePick
<1>2. PICK q \in Range(Candidates) :
          /\ Fallback(p) = <<q>> /\ q # p
          /\ q \in Range(available) \/ (Len(available) = 1 /\ available[1] = p)
  BY FallbackFits DEF ChoosePick
<1>3. <<p>> \o Fallback(p) = <<p, q>>
  <2>1. p \in Backends /\ Range(Candidates) \subseteq Backends
    BY ChoiceOfCandidates, CandidatesKnown DEF ChoosePick, Range
  <2> QED
    BY <1>2, <2>1, Joined
<1>4. Decide(<<p, q>>)
  BY <1>1, <1>3
<1> QED
  BY <1>2, <1>4, PairChosen DEF ChoosePick

\* What a cascade policy decides, if every backend of the chain is admitted.
LEMMA ChainChosen ==
    ASSUME RouteInv, pc = "choose", request.policy \in {"cascade", "survey"},
           NEW s \in Seq(Backends), s # <<>>, Len(s) <= LongestChain,
           \/ Range(s) \subseteq Range(available)
           \/ /\ request.policy = "cascade" /\ s = Cheapest
              /\ Range(request.custom) \cap Range(available) = {},
           IsInjective(s) \/ (request.policy = "cascade" /\ request.custom # <<>>),
           Decide(s), flow' = flow
    PROVE  calls' \in Seq(Backends) /\ Decision'
<1>1. /\ request' = request /\ available' = available /\ pc' = "decided" /\ calls' = s
      /\ flow = "cascade"
  BY DEF Decide, RouteInv, FlowOf
<1>2. HandoverFits' /\ LoneCall'
  BY <1>1, ChainFits DEF HandoverFits, LoneCall
<1>3. OnlyAdmitted'
  BY <1>1 DEF OnlyAdmitted, RefusedOnlyWithoutChoice, CascadeThroughAdmitted, Decided, Scoring
<1>4. SidesRespected'
  <2>1. Allowed' = Allowed
    BY <1>1 DEF Allowed
  <2>2. request.policy = "survey" => Range(s) \subseteq Range(Candidates)
    BY ChoiceOfCandidates
  <2>3. Allowed # {} => Range(Candidates) \subseteq Allowed
    BY ChoiceOfCandidates, CandidatesKnown
  <2> QED
    BY <1>1, <2>1, <2>2, <2>3 DEF SidesRespected, Decided, Scoring
<1> QED
  BY <1>1, <1>2, <1>3, <1>4 DEF Decision

LEMMA CascadeChosen ==
    ASSUME RouteInv, ChooseCascade, flow' = flow
    PROVE  calls' \in Seq(Backends) /\ Decision'
<1> DEFINE own   == request.custom # <<>>
           from  == IF own THEN request.custom ELSE Cheapest
           chain == Those(from, Range(available))
<1>1. /\ pc = "choose" /\ request.policy = "cascade" /\ request \in Requests
      /\ Range(available) \subseteq Backends /\ available[1] \in Range(available)
  BY ChoiceOfCandidates DEF ChooseCascade
<1>2. request.custom \in SeqOf(Backends, MaxCustom)
  BY <1>1 DEF Requests
<1>3. request.custom \in Seq(Backends) /\ Len(request.custom) <= MaxCustom
  <2>1. PICK n \in 0..MaxCustom : request.custom \in [1..n -> Backends]
    BY <1>2 DEF SeqOf
  <2> HIDE DEF Backends
  <2> QED
    BY <2>1, RoutingAssumption
<1>4. from \in Seq(Backends) /\ Len(from) <= LongestChain
  <2>1. CASE own
    <3>1. from = request.custom
      BY <2>1
    <3>2. Len(request.custom) <= LongestChain
      <4>1. PICK n \in Nat : n = Len(request.custom)
        BY <1>3
      <4> QED
        BY <1>3, <4>1, LongestChainType, RoutingAssumption
    <3> QED
      BY <1>3, <3>1, <3>2
  <2>2. CASE ~own
    <3>1. from = Cheapest
      BY <2>2
    <3> QED
      BY <3>1, FourBackends, LongestChainType
  <2> QED
    BY <2>1, <2>2
<1>5. /\ chain \in Seq(Backends) /\ Range(chain) = Range(from) \cap Range(available)
      /\ Len(chain) <= Len(from)
      /\ ~own => IsInjective(chain)
  BY <1>4, Filtered, FourBackends
<1>6. Len(chain) <= LongestChain
  <2>1. PICK m \in Nat, n \in Nat : m = Len(chain) /\ n = Len(from)
    BY <1>4, <1>5
  <2> HIDE DEF chain, from
  <2> QED
    BY <1>4, <1>5, <2>1, LongestChainType
<1>7. Decide(IF chain = <<>> THEN Cheapest ELSE chain)
  BY DEF ChooseCascade
<1>8. CASE chain # <<>>
  <2>1. Decide(chain)
    BY <1>7, <1>8
  <2>2. Range(chain) \subseteq Range(available)
    BY <1>5
  <2>3. IsInjective(chain) \/ (request.policy = "cascade" /\ request.custom # <<>>)
    <3> HIDE DEF chain, from
    <3> QED
      BY <1>1, <1>5
  <2> HIDE DEF chain, from
  <2> QED
    BY <1>1, <1>5, <1>6, <1>8, <2>1, <2>2, <2>3, ChainChosen
<1>9. CASE chain = <<>>
  <2>1. Decide(Cheapest) /\ Range(from) \cap Range(available) = {}
    BY <1>5, <1>7, <1>9, FirstOf
  <2>2. own
    BY <1>1, <2>1, FourBackends
  <2>3. Range(request.custom) \cap Range(available) = {}
    BY <2>1, <2>2
  <2>4. Cheapest # <<>> /\ Len(Cheapest) <= LongestChain
    BY FourBackends, LongestChainType
  <2> QED
    BY <1>1, <2>1, <2>2, <2>3, <2>4, ChainChosen, FourBackends
<1> QED
  BY <1>8, <1>9

\* A backend before a chain that does not name it.
LEMMA Prepended ==
    ASSUME NEW p \in Backends, NEW t \in Seq(Backends), IsInjective(t), p \notin Range(t)
    PROVE  /\ <<p>> \o t \in Seq(Backends) /\ <<p>> \o t # <<>>
           /\ IsInjective(<<p>> \o t) /\ Range(<<p>> \o t) = {p} \cup Range(t)
<1> HIDE DEF Backends
<1> DEFINE s == <<p>> \o t
<1>1. PICK n \in Nat : n = Len(t) /\ DOMAIN t = 1..n
  OBVIOUS
<1>2. /\ s \in Seq(Backends) /\ Len(s) = n + 1 /\ s[1] = p
      /\ \A i \in 1..n : s[i + 1] = t[i]
  BY <1>1
<1> HIDE DEF s
<1>3. DOMAIN s = 1..(n + 1) /\ \A i \in 2..(n + 1) : i - 1 \in 1..n /\ s[i] = t[i - 1]
  <2>1. \A i \in 2..(n + 1) : i - 1 \in 1..n /\ (i - 1) + 1 = i
    OBVIOUS
  <2> QED
    BY <1>1, <1>2, <2>1
<1>4. Range(s) = {p} \cup Range(t)
  <2>1. ASSUME NEW b \in Range(s) PROVE b \in {p} \cup Range(t)
    <3>1. PICK i \in 1..(n + 1) : s[i] = b
      BY <1>3, <2>1 DEF Range
    <3>2. i = 1 \/ i \in 2..(n + 1)
      OBVIOUS
    <3> QED
      BY <1>1, <1>2, <1>3, <3>1, <3>2 DEF Range
  <2>2. ASSUME NEW b \in Range(t) PROVE b \in Range(s)
    <3>1. PICK i \in 1..n : t[i] = b
      BY <1>1, <2>2 DEF Range
    <3>2. i + 1 \in 1..(n + 1) /\ s[i + 1] = b
      BY <1>2, <3>1
    <3> QED
      BY <1>3, <3>2 DEF Range
  <2>3. p \in Range(s)
    <3>1. 1 \in 1..(n + 1)
      OBVIOUS
    <3> QED
      BY <1>2, <1>3, <3>1 DEF Range
  <2> QED
    BY <2>1, <2>2, <2>3
<1>5. IsInjective(s)
  <2> SUFFICES ASSUME NEW i \in 1..(n + 1), NEW j \in 1..(n + 1), s[i] = s[j] PROVE i = j
    BY <1>3 DEF IsInjective
  <2>1. /\ i = 1 \/ (i \in 2..(n + 1) /\ i - 1 \in 1..n /\ s[i] = t[i - 1])
        /\ j = 1 \/ (j \in 2..(n + 1) /\ j - 1 \in 1..n /\ s[j] = t[j - 1])
    BY <1>3
  <2>2. \A m \in 1..n : t[m] # p
    BY <1>1 DEF Range
  <2>3. i - 1 \in 1..n /\ j - 1 \in 1..n /\ t[i - 1] = t[j - 1] => i - 1 = j - 1
    BY <1>1 DEF IsInjective
  <2> QED
    BY <1>2, <2>1, <2>2, <2>3
<1>6. s # <<>>
  BY <1>2
<1> QED
  BY <1>2, <1>4, <1>5, <1>6 DEF s

LEMMA SurveyChosen ==
    ASSUME RouteInv, ChooseSurvey, flow' = flow
    PROVE  calls' \in Seq(Backends) /\ Decision'
<1> DEFINE kept == Those(Cheapest, Range(available))
<1>1. PICK p \in Range(available) : Decide(<<p>> \o Without(kept, p))
  BY DEF ChooseSurvey
<1>2. Range(available) \subseteq Backends
  BY ChoiceOfCandidates DEF ChooseSurvey
<1>3. kept \in Seq(Backends) /\ IsInjective(kept) /\ Range(kept) = Range(available)
  <2>1. /\ kept \in Seq(Backends) /\ Range(kept) = Range(Cheapest) \cap Range(available)
        /\ IsInjective(Cheapest) => IsInjective(kept)
    BY FourBackends, Filtered
  <2> HIDE DEF kept
  <2> QED
    BY <1>2, <2>1, FourBackends
<1> HIDE DEF kept
<1>4. /\ Without(kept, p) \in Seq(Backends) /\ IsInjective(Without(kept, p))
      /\ Range(Without(kept, p)) = Range(available) \ {p}
  BY <1>3, WithoutOne
<1> DEFINE s == <<p>> \o Without(kept, p)
<1>5. /\ s \in Seq(Backends) /\ s # <<>> /\ IsInjective(s)
      /\ Range(s) = {p} \cup (Range(available) \ {p})
  BY <1>2, <1>4, Prepended
<1> HIDE DEF s
<1>6. Len(s) <= LongestChain
  BY <1>5, InjectiveIsShort, LongestChainType
<1>7. Decide(s)
  BY <1>1 DEF s
<1> QED
  BY <1>5, <1>6, <1>7, ChainChosen DEF ChooseSurvey

LEMMA AgenticChosen ==
    ASSUME RouteInv, ChooseAgentic, flow' = flow
    PROVE  calls' \in Seq(Backends) /\ Decision'
<1> DEFINE p == (Those(available, Local) \o available)[1]
           f == Range(Fallback(p))
           drafting   == IF p \in Local THEN p ELSE "vllm"
           correcting == IF f \cap Cloud # {} THEN Fallback(p)[1] ELSE "openai"
<1>1. /\ Decide(<<drafting, correcting>>)
      /\ pc = "choose" /\ request.policy = "agentic"
  BY DEF ChooseAgentic
<1>2. /\ request' = request /\ available' = available /\ pc' = "decided"
      /\ calls' = <<drafting, correcting>> /\ flow = "agentic"
  BY <1>1 DEF Decide, RouteInv, FlowOf
<1>3. drafting \in Local
  BY DEF Local
<1>4. correcting \in Cloud
  <2>1. Without(available, p) \o Without(Candidates, p) \in Seq(Backends)
    BY <1>1, ChoiceOfCandidates, CandidatesKnown, WithoutOne
  <2> DEFINE s == Without(available, p) \o Without(Candidates, p)
  <2>2. Fallback(p) = First(s)
    BY DEF Fallback
  <2> HIDE DEF s, p
  <2>3. Fallback(p) = <<>> \/ Fallback(p) = <<s[1]>>
    BY <2>2 DEF First
  <2>4. f = {} \/ f = {Fallback(p)[1]}
    BY <2>3 DEF Range
  <2> QED
    BY <2>4 DEF Cloud
<1> HIDE DEF drafting, correcting
<1>5. drafting \in Backends /\ correcting \in Backends /\ drafting # correcting
  BY <1>3, <1>4, FourBackends
<1>6. /\ calls' \in Seq(Backends) /\ IsInjective(calls') /\ calls' \in Flow!Chains("agentic")
  BY <1>2, <1>5, PairFits
<1>7. HandoverFits' /\ LoneCall'
  BY <1>2, <1>6 DEF HandoverFits, LoneCall
<1>8. OnlyAdmitted' /\ SidesRespected'
  BY <1>1, <1>2 DEF OnlyAdmitted, RefusedOnlyWithoutChoice, CascadeThroughAdmitted, SidesRespected,
              Decided, Scoring
<1> QED
  BY <1>6, <1>7, <1>8 DEF Decision

\* Nothing is claimed of a decision before it is made, ...
LEMMA Undecided == ASSUME pc' # "decided" PROVE Decision'
BY DEF Decision, HandoverFits, OnlyAdmitted, RefusedOnlyWithoutChoice, CascadeThroughAdmitted,
       SidesRespected, LoneCall, Decided

\* ... and nothing changes it afterwards.
LEMMA Unchanged ==
    ASSUME RouteInv, UNCHANGED <<request, pc, asked, available, calls, flow>>,
           admits' \in [Backends -> BOOLEAN], flips' \in 0..MaxFlips
    PROVE  RouteInv'
<1>1. TypeOK'
  BY DEF RouteInv, TypeOK
<1>2. Allowed' = Allowed /\ Candidates' = Candidates
  BY DEF Allowed, Candidates
<1>3. Choosable'
  BY <1>2 DEF RouteInv, Choosable
<1>4. Decision'
  BY <1>2 DEF RouteInv, Decision, HandoverFits, OnlyAdmitted, RefusedOnlyWithoutChoice,
              CascadeThroughAdmitted, SidesRespected, LoneCall, Decided
<1> QED
  BY <1>1, <1>3, <1>4 DEF RouteInv

\* An injective sequence stays one with an entry it does not have.
LEMMA Appended ==
    ASSUME NEW s \in Seq(Backends), NEW b \in Backends
    PROVE  /\ Append(s, b) \in Seq(Backends) /\ Range(Append(s, b)) = Range(s) \cup {b}
           /\ IsInjective(s) /\ b \notin Range(s) => IsInjective(Append(s, b))
<1> HIDE DEF Backends
<1> DEFINE t == Append(s, b)
<1>1. PICK n \in Nat : n = Len(s) /\ DOMAIN s = 1..n
  OBVIOUS
<1>2. /\ t \in Seq(Backends) /\ DOMAIN t = 1..(n + 1) /\ t[n + 1] = b
      /\ \A i \in 1..n : t[i] = s[i]
  BY <1>1
<1>3. \A i \in 1..(n + 1) : i = n + 1 \/ i \in 1..n
  OBVIOUS
<1>4. n + 1 \in 1..(n + 1) /\ \A i \in 1..n : i \in 1..(n + 1)
  OBVIOUS
<1> HIDE DEF t
<1>5. Range(t) = Range(s) \cup {b}
  BY <1>1, <1>2, <1>3, <1>4 DEF Range
<1>6. ASSUME IsInjective(s), b \notin Range(s) PROVE IsInjective(t)
  <2>1. \A i \in 1..n : s[i] # b
    BY <1>1, <1>6 DEF Range
  <2>2. \A i, j \in 1..n : s[i] = s[j] => i = j
    BY <1>1, <1>6 DEF IsInjective
  <2> SUFFICES ASSUME NEW i \in 1..(n + 1), NEW j \in 1..(n + 1), t[i] = t[j] PROVE i = j
    BY <1>2 DEF IsInjective
  <2> QED
    BY <1>2, <1>3, <2>1, <2>2
<1> QED
  BY <1>2, <1>5, <1>6 DEF t

LEMMA AskKeeps ==
    ASSUME RouteInv, Ask, flow' = flow
    PROVE  RouteInv'
<1>1. /\ request \in Requests /\ request.policy # "pinned" /\ pc = "ask" /\ asked < Len(Candidates)
      /\ asked' = asked + 1 /\ UNCHANGED <<request, admits, flips, pc, calls>>
  BY DEF RouteInv, TypeOK, Ask
<1>2. /\ Candidates \in Seq(Backends) /\ IsInjective(Candidates) /\ Len(Candidates) <= 4
      /\ Candidates' = Candidates
  BY <1>1, CandidatesKnown DEF Candidates, Allowed
<1>3. PICK n \in Nat : n = Len(Candidates) /\ DOMAIN Candidates = 1..n /\ n <= 4
  BY <1>2
<1>4. /\ asked \in Nat /\ asked + 1 \in 1..n /\ Candidates[asked + 1] \in Backends
      /\ \A i \in 1..asked : i \in 1..n /\ i # asked + 1
  <2>1. asked \in Nat /\ asked + 1 \in 1..n /\ \A i \in 1..asked : i \in 1..n /\ i # asked + 1
    BY <1>1, <1>3, FourBackends DEF RouteInv, TypeOK
  <2> HIDE DEF Backends
  <2> QED
    BY <1>2, <1>3, <2>1
<1> DEFINE b == Candidates[asked + 1]
<1>5. Range(available) \subseteq {Candidates[i] : i \in 1..asked}
  BY <1>1 DEF RouteInv, Choosable
<1>6. b \notin Range(available) /\ b \in Range(Candidates)
  <2>1. \A i \in 1..asked : Candidates[i] # b
    BY <1>2, <1>3, <1>4 DEF IsInjective
  <2> QED
    BY <1>3, <1>4, <1>5, <2>1 DEF Range
<1>7. /\ available' \in Seq(Backends) /\ IsInjective(available')
      /\ Range(available') \subseteq Range(available) \cup {b}
  <2>1. available' = Append(available, b) \/ available' = available
    BY DEF Ask
  <2>2. available \in Seq(Backends) /\ IsInjective(available)
    BY DEF RouteInv, TypeOK
  <2> HIDE DEF b
  <2> QED
    BY <1>4, <1>6, <2>1, <2>2, Appended DEF b
<1>8. TypeOK'
  <2>1. Range(available') \subseteq Backends
    BY <1>7 DEF Range
  <2>2. asked' \in 0..Len(ALL_BACKENDS)
    BY <1>1, <1>3, <1>4, FourBackends
  <2> QED
    BY <1>1, <1>7, <2>1, <2>2 DEF RouteInv, TypeOK
<1>9. Choosable'
  <2>1. Range(available') \subseteq Range(Candidates)
    BY <1>1, <1>6, <1>7 DEF RouteInv, Choosable
  <2>2. Range(available') \subseteq {Candidates[i] : i \in 1..(asked + 1)}
    <3>1. 1..asked \subseteq 1..(asked + 1) /\ asked + 1 \in 1..(asked + 1)
      BY <1>4
    <3> QED
      BY <1>5, <1>7, <3>1
  <2>3. asked + 1 <= Len(Candidates)
    BY <1>3, <1>4
  <2> QED
    BY <1>1, <1>2, <2>1, <2>2, <2>3 DEF Choosable
<1>10. Decision'
  BY <1>1, Undecided
<1> QED
  BY <1>1, <1>7, <1>8, <1>9, <1>10 DEF RouteInv

LEMMA AskedKeeps ==
    ASSUME RouteInv, Asked, flow' = flow
    PROVE  RouteInv'
<1>1. /\ request \in Requests /\ request.policy # "pinned" /\ pc' = "choose"
      /\ UNCHANGED <<request, admits, flips, asked, calls>>
  BY DEF RouteInv, TypeOK, Asked
<1>2. /\ Candidates \in Seq(Backends) /\ Candidates # <<>> /\ Candidates' = Candidates
      /\ Candidates[1] \in Range(Candidates) /\ Candidates[1] \in Backends
  BY <1>1, CandidatesKnown, FirstOf DEF Candidates, Allowed
<1>3. (available' = available /\ available # <<>>) \/ available' = <<Candidates[1]>>
  BY DEF Asked
<1>4. /\ available' \in Seq(Backends) /\ IsInjective(available') /\ available' # <<>>
      /\ Range(available') \subseteq Range(Candidates)
  <2>1. CASE available' = available /\ available # <<>>
    BY <1>1, <2>1 DEF RouteInv, TypeOK, Choosable
  <2>2. CASE available' = <<Candidates[1]>>
    <3> DEFINE c == Candidates[1]
    <3>1. c \in Backends /\ c \in Range(Candidates) /\ available' = <<c>>
      BY <1>2, <2>2
    <3> HIDE DEF c
    <3>2. IsInjective(<<c>>) /\ Range(<<c>>) = {c} /\ <<c>> # <<>> /\ <<c>> \in Seq(Backends)
      BY <3>1 DEF IsInjective, Range
    <3> QED
      BY <3>1, <3>2
  <2> QED
    BY <1>3, <2>1, <2>2
<1>5. TypeOK'
  <2>1. Range(available') \subseteq Backends
    BY <1>4 DEF Range
  <2> QED
    BY <1>1, <1>4, <2>1 DEF RouteInv, TypeOK
<1>6. Choosable'
  BY <1>1, <1>2, <1>4 DEF RouteInv, Choosable
<1>7. Decision'
  BY <1>1, Undecided
<1> QED
  BY <1>1, <1>4, <1>5, <1>6, <1>7 DEF RouteInv

\* A decision leaves all but the calls as it was.
LEMMA DecideKeeps ==
    ASSUME RouteInv, NEW s, Decide(s), flow' = flow, calls' \in Seq(Backends), Decision'
    PROVE  RouteInv'
<1>1. /\ UNCHANGED <<request, admits, flips, asked, available>> /\ pc' = "decided"
  BY DEF Decide
<1>2. Range(calls') \subseteq Backends
  BY DEF Range
<1>3. TypeOK'
  BY <1>1, <1>2 DEF RouteInv, TypeOK
<1>4. Allowed' = Allowed /\ Candidates' = Candidates
  BY <1>1 DEF Allowed, Candidates
<1>5. Choosable'
  BY <1>1, <1>4 DEF RouteInv, Choosable
<1> QED
  BY <1>1, <1>3, <1>5 DEF RouteInv

LEMMA RouteStep ==
    ASSUME RouteInv, Next, flow' = flow
    PROVE  RouteInv'
<1>1. CASE Flip
  <2>1. admits' \in [Backends -> BOOLEAN] /\ flips' \in 0..MaxFlips
    BY <1>1, RoutingAssumption DEF Flip, RouteInv, TypeOK
  <2> QED
    BY <1>1, <2>1, Unchanged DEF Flip
<1>2. CASE Ask
  BY <1>2, AskKeeps
<1>3. CASE Asked
  BY <1>3, AskedKeeps
<1>4. CASE RoutePinned
  BY <1>4, PinChosen, DecideKeeps DEF RoutePinned
<1>5. CASE ChooseSingle
  BY <1>5, SingleChosen, DecideKeeps DEF ChooseSingle
<1>6. CASE ChooseScored
  <2>1. \E p, f : Decide(<<p, f>>)
    BY <1>6 DEF ChooseScored
  <2> QED
    BY <1>6, <2>1, ScoredChosen, DecideKeeps
<1>7. CASE ChoosePick
  <2>1. \E p : Decide(<<p>> \o Fallback(p))
    BY <1>7 DEF ChoosePick
  <2> QED
    BY <1>7, <2>1, PickChosen, DecideKeeps
<1>8. CASE ChooseCascade
  <2>1. \E s : Decide(s)
    BY <1>8 DEF ChooseCascade
  <2> QED
    BY <1>8, <2>1, CascadeChosen, DecideKeeps
<1>9. CASE ChooseSurvey
  <2>1. \E s : Decide(s)
    BY <1>9 DEF ChooseSurvey
  <2> QED
    BY <1>9, <2>1, SurveyChosen, DecideKeeps
<1>10. CASE ChooseAgentic
  <2>1. \E s : Decide(s)
    BY <1>10 DEF ChooseAgentic
  <2> QED
    BY <1>10, <2>1, AgenticChosen, DecideKeeps
<1>11. CASE ChooseLearned
  <2>1. /\ pc' = "failed" /\ UNCHANGED <<request, admits, flips, asked, available, calls>>
        /\ request.policy # "pinned"
    BY <1>11 DEF ChooseLearned
  <2>2. TypeOK'
    BY <2>1 DEF RouteInv, TypeOK
  <2>3. Choosable'
    BY <2>1 DEF RouteInv, Choosable, Candidates, Allowed
  <2>4. Decision'
    BY <2>1, Undecided
  <2> QED
    BY <2>1, <2>2, <2>3, <2>4 DEF RouteInv
<1> QED
  BY <1>1, <1>2, <1>3, <1>4, <1>5, <1>6, <1>7, <1>8, <1>9, <1>10, <1>11 DEF Next

LEMMA RouteStart == GatewayInit => RouteInv
<1> SUFFICES ASSUME GatewayInit PROVE RouteInv
  OBVIOUS
<1>1. /\ request \in Requests /\ admits \in [Backends -> BOOLEAN] /\ flips = 0
      /\ pc = "ask" /\ asked = 0 /\ available = <<>> /\ calls = <<>>
      /\ flow = FlowOf(request.policy)
  BY DEF GatewayInit, Init, Unserved
<1>2. Range(<<>>) = {} /\ IsInjective(<<>>) /\ <<>> \in Seq(Backends)
  BY DEF Range, IsInjective
<1>3. TypeOK
  BY <1>1, <1>2, FourBackends, RoutingAssumption DEF TypeOK
<1>4. Choosable
  <2>1. request.policy # "pinned" => 0 <= Len(Candidates)
    BY <1>1, CandidatesKnown
  <2> QED
    BY <1>1, <1>2, <2>1 DEF Choosable
<1>5. Decision
  BY <1>1 DEF Decision, HandoverFits, OnlyAdmitted, RefusedOnlyWithoutChoice,
              CascadeThroughAdmitted, SidesRespected, LoneCall, Decided
<1> QED
  BY <1>1, <1>2, <1>3, <1>4, <1>5 DEF RouteInv

-----------------------------------------------------------------------------
(* The handlers *)

InCall == stage \in {"call", "wait"}

\* How many calls the breakers should have heard of.
Judged == IF InCall \/ Flow!InvalidFallback THEN step - 1 ELSE step

Times(b, n) == Cardinality({i \in 1..n : calls[i] = b})

Reports ==
    \A b \in Backends : ok[b] + bad[b] = IF flow = "agentic" THEN 0 ELSE Times(b, Judged)

\* In whose queue the request is.
Gauge ==
    depth = IF Flow!InvalidFallback \/ (stage = "wait" /\ flow # "agentic")
            THEN Flow!Up(Flow!Zero, calls[step])
            ELSE IF flow = "blocking" /\ stage \in {"store", "publish"}
            THEN Flow!Up(Flow!Zero, calls[answer])
            ELSE Flow!Zero

\* Calls are made in turn; a handler raises when it has none left.
InTurn ==
    /\ spent \subseteq 1..(IF InCall THEN step - 1 ELSE step)
    /\ stage \in {"store", "publish"} => answer # 0
    /\ Flow!InvalidFallback => step = 2
    /\ stage = "raised" => step = Len(calls) /\ (flow = "cascade" => step \notin spent)

FlowInv ==
    IF stage = "idle" THEN Unserved
    ELSE /\ pc = "decided"
         /\ Flow!TypeOK
         /\ Reports /\ Gauge /\ InTurn
         /\ FailureIsTold

IInv == RouteInv /\ FlowInv

\* What a handler knows of its chain.
LEMMA ChainOfFlow ==
    ASSUME RouteInv, pc = "decided"
    PROVE  /\ calls \in Seq(Backends) /\ calls \in Flow!Chains(flow)
           /\ DOMAIN calls = 1..Len(calls)
           /\ Len(calls) \in 1..LongestChain
           /\ flow = "blocking" => Len(calls) \in 1..2 /\ IsInjective(calls)
           /\ flow = "agentic" => Len(calls) = 2 /\ IsInjective(calls)
           /\ flow \in {"blocking", "cascade", "agentic"}
<1>1. /\ calls \in Seq(Backends) /\ calls \in Flow!Chains(flow)
      /\ flow \in {"blocking", "cascade", "agentic"}
  BY DEF RouteInv, Decision, HandoverFits, FlowOf
<1>2. DOMAIN calls = 1..Len(calls)
  BY <1>1
<1> HIDE DEF Backends
<1>3. ASSUME NEW m, calls \in Flow!Sequences(m), m \subseteq Nat
      PROVE  Len(calls) \in m
  <2>1. PICK n \in m : calls \in [1..n -> Backends]
    BY <1>3 DEF Flow!Sequences
  <2>2. n \in Nat
    BY <1>3
  <2>3. Len(calls) = n
    BY <2>1, <2>2
  <2> QED
    BY <2>1, <2>3
<1>4. CASE flow = "blocking"
  <2>1. calls \in Flow!Sequences(1..2) /\ IsInjective(calls)
    BY <1>1, <1>4 DEF Flow!Chains, Flow!IsInjective, IsInjective
  <2>2. Len(calls) \in 1..2
    <3>1. 1..2 \subseteq Nat
      OBVIOUS
    <3> QED
      BY <1>3, <2>1, <3>1
  <2>3. 1..2 \subseteq 1..LongestChain
    BY LongestChainType
  <2> QED
    BY <1>1, <1>2, <1>4, <2>1, <2>2, <2>3
<1>5. CASE flow = "agentic"
  <2>1. calls \in Flow!Sequences({2}) /\ IsInjective(calls)
    BY <1>1, <1>5 DEF Flow!Chains, Flow!IsInjective, IsInjective
  <2>2. Len(calls) = 2
    <3> DEFINE two == {2}
    <3>1. two \subseteq Nat /\ calls \in Flow!Sequences(two)
      BY <2>1
    <3> HIDE DEF two
    <3>2. Len(calls) \in two
      BY <1>3, <3>1
    <3> QED
      BY <3>2 DEF two
  <2>3. 2 \in 1..LongestChain
    BY LongestChainType
  <2> QED
    BY <1>1, <1>2, <1>5, <2>1, <2>2, <2>3
<1>6. CASE flow = "cascade"
  <2>1. calls \in Flow!Sequences(1..LongestChain)
    BY <1>1, <1>6 DEF Flow!Chains
  <2>2. Len(calls) \in 1..LongestChain
    BY <1>3, <2>1, LongestChainType
  <2> QED
    BY <1>1, <1>2, <1>6, <2>2
<1> QED
  BY <1>1, <1>4, <1>5, <1>6

\* Counting the calls of one backend.
LEMMA TimesCounts ==
    ASSUME NEW b, NEW n \in Nat
    PROVE  /\ Times(b, 0) = 0 /\ Times(b, n) \in 0..n
           /\ Times(b, n + 1) = Times(b, n) + IF calls[n + 1] = b THEN 1 ELSE 0
<1> DEFINE S(m) == {i \in 1..m : calls[i] = b}
<1>1. \A m \in Nat : IsFiniteSet(S(m)) /\ Cardinality(S(m)) \in Nat /\ Cardinality(S(m)) <= m
  <2> TAKE m \in Nat
  <2>1. IsFiniteSet(1..m) /\ Cardinality(1..m) = m
    BY FS_Interval
  <2>2. S(m) \subseteq 1..m
    OBVIOUS
  <2> QED
    BY <2>1, <2>2, FS_Subset, FS_CardinalityType
<1>2. S(0) = {}
  OBVIOUS
<1>3. S(n + 1) = IF calls[n + 1] = b THEN S(n) \cup {n + 1} ELSE S(n)
  <2>1. \A i : i \in 1..(n + 1) <=> i \in 1..n \/ i = n + 1
    OBVIOUS
  <2> QED
    BY <2>1
<1>4. n + 1 \notin S(n)
  OBVIOUS
<1> HIDE DEF S
<1>5. Cardinality(S(n) \cup {n + 1}) = Cardinality(S(n)) + 1
  BY <1>1, <1>4, FS_AddElement
<1>6. Cardinality(S(0)) = 0
  BY <1>2, FS_EmptySet
<1>7. \A m : Times(b, m) = Cardinality(S(m))
  BY DEF Times, S
<1> QED
  BY <1>1, <1>3, <1>5, <1>6, <1>7

\* One more call is judged.
LEMMA OneMoreReport ==
    ASSUME NEW n \in Nat, calls[n + 1] \in Backends, calls' = calls,
           ok \in [Backends -> Nat], bad \in [Backends -> Nat],
           \A b \in Backends : ok[b] + bad[b] = Times(b, n),
           \/ ok' = Flow!Up(ok, calls[n + 1]) /\ bad' = bad
           \/ bad' = Flow!Up(bad, calls[n + 1]) /\ ok' = ok
    PROVE  /\ ok' \in [Backends -> Nat] /\ bad' \in [Backends -> Nat]
           /\ \A b \in Backends : ok'[b] + bad'[b] = Times(b, n + 1)
<1> HIDE DEF Backends
<1> DEFINE c == calls[n + 1]
<1>1. ok' \in [Backends -> Nat] /\ bad' \in [Backends -> Nat]
  BY DEF Flow!Up
<1>2. ASSUME NEW b \in Backends
      PROVE  ok'[b] + bad'[b] = ok[b] + bad[b] + IF c = b THEN 1 ELSE 0
  <2> HIDE DEF c
  <2> QED
    BY DEF Flow!Up, c
<1>3. \A b \in Backends : Times(b, n + 1) = Times(b, n) + IF c = b THEN 1 ELSE 0
  BY TimesCounts
<1> QED
  BY <1>1, <1>2, <1>3

\* Joining a queue and leaving it.
LEMMA UpAndDown ==
    ASSUME NEW b \in Backends
    PROVE  /\ Flow!Zero \in [Backends -> {0, 1}]
           /\ Flow!Up(Flow!Zero, b) \in [Backends -> {0, 1}]
           /\ Flow!Down(Flow!Up(Flow!Zero, b), b) = Flow!Zero
           /\ \A c \in Backends : /\ Flow!Zero[c] = 0
                                  /\ Flow!Up(Flow!Zero, b)[c] = IF c = b THEN 1 ELSE 0
<1> HIDE DEF Backends
<1> QED
  BY DEF Flow!Zero, Flow!Up, Flow!Down

\* What the handler's steps leave to the decision.
Handling == UNCHANGED <<request, admits, flips, pc, asked, available, calls, flow>>

\* Reports add up to no more than the chain is long.
LEMMA ReportsBounded ==
    ASSUME RouteInv, pc = "decided", NEW n \in 0..Len(calls),
           NEW g \in [Backends -> Nat], NEW h \in [Backends -> Nat],
           \A b \in Backends : g[b] + h[b] = IF flow = "agentic" THEN 0 ELSE Times(b, n)
    PROVE  g \in [Backends -> 0..LongestChain] /\ h \in [Backends -> 0..LongestChain]
<1> HIDE DEF Backends
<1>1. PICK l \in Nat : l = Len(calls) /\ l \in 1..LongestChain
  <2>1. Len(calls) \in 1..LongestChain
    BY ChainOfFlow
  <2> QED
    BY <2>1, LongestChainType
<1>2. ASSUME NEW b \in Backends
      PROVE  g[b] \in 0..LongestChain /\ h[b] \in 0..LongestChain
  <2>1. Times(b, n) \in 0..n
    BY <1>1, TimesCounts
  <2> QED
    BY <1>1, <2>1, LongestChainType
<1> QED
  BY <1>2

\* While the handler waits for a call, it is in that backend's queue, and the
\* breakers have heard of the calls before.
LEMMA WhileWaiting ==
    ASSUME IInv, stage = "wait"
    PROVE  /\ RouteInv /\ pc = "decided" /\ step \in 1..Len(calls) /\ step \in Nat \ {0}
           /\ Len(calls) \in Nat /\ calls[step] \in Backends
           /\ ok \in [Backends -> Nat] /\ bad \in [Backends -> Nat]
           /\ ok \in [Backends -> 0..LongestChain] /\ bad \in [Backends -> 0..LongestChain]
           /\ \A b \in Backends : ok[b] + bad[b] = IF flow = "agentic" THEN 0 ELSE Times(b, step - 1)
           /\ depth = IF flow = "agentic" THEN Flow!Zero ELSE Flow!Up(Flow!Zero, calls[step])
           /\ spent \subseteq 1..(step - 1) /\ billed \subseteq 1..Len(calls)
           /\ {draft, answer, cached} \subseteq 1..Len(calls) \cup {0}
           /\ told \in {"nothing", "result", "error"}
<1>1. /\ RouteInv /\ pc = "decided" /\ Flow!TypeOK /\ Reports /\ Gauge /\ InTurn
      /\ ~Flow!InvalidFallback /\ InCall
  BY DEF IInv, FlowInv, Flow!InvalidFallback, InCall
<1>2. calls \in Seq(Backends) /\ DOMAIN calls = 1..Len(calls) /\ Len(calls) \in Nat
  BY <1>1, ChainOfFlow, LongestChainType
<1>3. step \in 1..Len(calls) /\ step \in Nat \ {0}
  BY <1>1, <1>2 DEF Flow!TypeOK
<1>4. calls[step] \in Backends
  BY <1>2, <1>3, ElementOfSeq
<1>5. /\ ok \in [Backends -> 0..LongestChain] /\ bad \in [Backends -> 0..LongestChain]
      /\ billed \subseteq 1..Len(calls) /\ {draft, answer, cached} \subseteq 1..Len(calls) \cup {0}
      /\ told \in {"nothing", "result", "error"}
  BY <1>1, <1>2 DEF Flow!TypeOK
<1>6. ok \in [Backends -> Nat] /\ bad \in [Backends -> Nat]
  <2> HIDE DEF Backends
  <2> QED
    BY <1>5, LongestChainType
<1>7. \A b \in Backends : ok[b] + bad[b] = IF flow = "agentic" THEN 0 ELSE Times(b, step - 1)
  BY <1>1 DEF Reports, Judged
<1>8. depth = IF flow = "agentic" THEN Flow!Zero ELSE Flow!Up(Flow!Zero, calls[step])
  BY <1>1 DEF Gauge
<1>9. spent \subseteq 1..(step - 1)
  BY <1>1 DEF InTurn
<1> QED
  BY <1>1, <1>2, <1>3, <1>4, <1>5, <1>6, <1>7, <1>8, <1>9

\* An outcome is judged, except in an agentic flow.
JudgedOnce ==
    IF flow = "agentic" THEN UNCHANGED <<ok, bad>>
    ELSE \/ ok' = Flow!Up(ok, calls[step]) /\ bad' = bad
         \/ bad' = Flow!Up(bad, calls[step]) /\ ok' = ok

LEMMA AfterReport ==
    ASSUME IInv, stage = "wait", JudgedOnce, calls' = calls
    PROVE  /\ ok' \in [Backends -> 0..LongestChain] /\ bad' \in [Backends -> 0..LongestChain]
           /\ \A b \in Backends : ok'[b] + bad'[b] = IF flow = "agentic" THEN 0 ELSE Times(b, step)
<1>1. PICK n \in Nat : step = n + 1 /\ step - 1 = n
  BY WhileWaiting
<1>2. CASE flow = "agentic"
  BY <1>2, WhileWaiting DEF JudgedOnce
<1>3. CASE flow # "agentic"
  <2>1. /\ ok' \in [Backends -> Nat] /\ bad' \in [Backends -> Nat]
        /\ \A b \in Backends : ok'[b] + bad'[b] = Times(b, n + 1)
    <3>1. /\ calls[n + 1] \in Backends
          /\ ok \in [Backends -> Nat] /\ bad \in [Backends -> Nat]
          /\ \A b \in Backends : ok[b] + bad[b] = Times(b, n)
      BY <1>1, <1>3, WhileWaiting
    <3>2. \/ ok' = Flow!Up(ok, calls[n + 1]) /\ bad' = bad
          \/ bad' = Flow!Up(bad, calls[n + 1]) /\ ok' = ok
      BY <1>1, <1>3 DEF JudgedOnce
    <3> QED
      BY <3>1, <3>2, OneMoreReport
  <2>2. step \in 0..Len(calls)
    BY WhileWaiting
  <2>3. PICK g, h : g = ok' /\ h = bad'
    OBVIOUS
  <2>4. g \in [Backends -> 0..LongestChain] /\ h \in [Backends -> 0..LongestChain]
    <3>1. RouteInv /\ pc = "decided"
      BY WhileWaiting
    <3>2. /\ g \in [Backends -> Nat] /\ h \in [Backends -> Nat]
          /\ \A b \in Backends : g[b] + h[b] = IF flow = "agentic" THEN 0 ELSE Times(b, step)
      BY <1>1, <1>3, <2>1, <2>3
    <3> QED
      BY <2>2, <3>1, <3>2, ReportsBounded
  <2> QED
    BY <1>1, <1>3, <2>1, <2>3, <2>4
<1> QED
  BY <1>2, <1>3

\* The three ways in which a call may end: another call, ...
LEMMA Escalates ==
    ASSUME IInv, stage = "wait", Handling, UNCHANGED <<cached, billed, answer, told>>, JudgedOnce,
           step < Len(calls), step' = step + 1, stage' = "call",
           draft' \in {draft, step}, spent' \subseteq spent \cup {step}, depth' = Flow!Zero
    PROVE  FlowInv'
<1>1. /\ pc' = "decided" /\ calls' = calls /\ flow' = flow
  BY WhileWaiting DEF Handling
<1>2. PICK n \in Nat, l \in Nat : n = step /\ l = Len(calls) /\ n < l /\ n # 0
  BY WhileWaiting
<1>3. ~Flow!InvalidFallback' /\ InCall' /\ step' - 1 = step /\ stage' # "idle" /\ stage' # "wait"
  BY <1>2 DEF Flow!InvalidFallback, InCall
<1>4. Reports'
  <2>1. \A b \in Backends : ok'[b] + bad'[b] = IF flow = "agentic" THEN 0 ELSE Times(b, step)
    BY <1>1, AfterReport
  <2> QED
    BY <1>1, <1>3, <2>1 DEF Reports, Judged, Times
<1>5. Gauge'
  BY <1>3 DEF Gauge
<1>6. spent' \subseteq 1..step
  <2>1. 1..(step - 1) \cup {step} \subseteq 1..step
    BY <1>2
  <2> QED
    BY <2>1, WhileWaiting
<1>7. InTurn'
  BY <1>3, <1>6 DEF InTurn
<1>8. Flow!TypeOK'
  <2>1. calls \in Flow!Chains(flow) /\ DOMAIN calls = 1..Len(calls) /\ flow \in {"blocking", "cascade", "agentic"}
    BY WhileWaiting, ChainOfFlow
  <2>2. step' \in 1..Len(calls) /\ step \in 1..Len(calls)
    BY <1>2
  <2>3. depth' \in [Backends -> {0, 1}]
    BY WhileWaiting, UpAndDown
  <2>4. 1..step \subseteq 1..Len(calls)
    BY <1>2
  <2>5. {draft', answer', cached'} \subseteq 1..Len(calls) \cup {0}
    BY <2>2, WhileWaiting
  <2>6. ok' \in [Backends -> 0..LongestChain] /\ bad' \in [Backends -> 0..LongestChain]
    BY <1>1, AfterReport
  <2>7. billed' \subseteq 1..Len(calls) /\ told' \in {"nothing", "result", "error"}
    BY WhileWaiting
  <2> QED
    BY <1>1, <1>6, <2>1, <2>2, <2>3, <2>4, <2>5, <2>6, <2>7 DEF Flow!TypeOK, Flow!Flows
<1>9. FailureIsTold'
  BY DEF FailureIsTold, Flow!FailureIsTold
<1> QED
  BY <1>1, <1>3, <1>4, <1>5, <1>7, <1>8, <1>9 DEF FlowInv

\* ... an answer to use, ...
LEMMA Accepts ==
    ASSUME IInv, stage = "wait", Handling, UNCHANGED <<cached, billed, step, told, draft>>, JudgedOnce,
           stage' = "store", answer' \in {draft, step} \ {0}, spent' \subseteq spent \cup {step},
           depth' = IF flow = "blocking" THEN Flow!Up(Flow!Zero, calls[answer']) ELSE Flow!Zero
    PROVE  FlowInv'
<1>1. /\ pc' = "decided" /\ calls' = calls /\ flow' = flow
  BY WhileWaiting DEF Handling
<1>2. PICK n \in Nat, l \in Nat : n = step /\ l = Len(calls) /\ n <= l /\ n # 0
  BY WhileWaiting
<1>3. ~Flow!InvalidFallback' /\ ~InCall' /\ stage' # "idle" /\ stage' # "wait"
  BY <1>2 DEF Flow!InvalidFallback, InCall
<1>4. Reports'
  <2>1. \A b \in Backends : ok'[b] + bad'[b] = IF flow = "agentic" THEN 0 ELSE Times(b, step)
    BY <1>1, AfterReport
  <2> QED
    BY <1>1, <1>3, <2>1 DEF Reports, Judged, Times
<1>5. Gauge'
  BY <1>1, <1>3 DEF Gauge
<1>6. spent' \subseteq 1..step
  <2>1. 1..(step - 1) \cup {step} \subseteq 1..step
    BY <1>2
  <2> QED
    BY <2>1, WhileWaiting
<1>7. InTurn'
  BY <1>3, <1>6 DEF InTurn
<1>8. Flow!TypeOK'
  <2>1. calls \in Flow!Chains(flow) /\ DOMAIN calls = 1..Len(calls) /\ flow \in {"blocking", "cascade", "agentic"}
    BY WhileWaiting, ChainOfFlow
  <2>2. step' \in 1..Len(calls)
    BY <1>2
  <2>3. {draft', answer', cached'} \subseteq 1..Len(calls) \cup {0} /\ answer' \in 1..Len(calls)
    BY <2>2, WhileWaiting
  <2>4. depth' \in [Backends -> {0, 1}]
    <3>1. calls[answer'] \in Backends
      BY <2>1, <2>3, WhileWaiting, ChainOfFlow, ElementOfSeq
    <3> QED
      BY <3>1, UpAndDown
  <2>5. 1..step \subseteq 1..Len(calls)
    BY <1>2
  <2>6. ok' \in [Backends -> 0..LongestChain] /\ bad' \in [Backends -> 0..LongestChain]
    BY <1>1, AfterReport
  <2>7. billed' \subseteq 1..Len(calls) /\ told' \in {"nothing", "result", "error"}
    BY WhileWaiting
  <2> QED
    BY <1>1, <1>6, <2>1, <2>2, <2>3, <2>4, <2>5, <2>6, <2>7 DEF Flow!TypeOK, Flow!Flows
<1>9. FailureIsTold'
  BY DEF FailureIsTold, Flow!FailureIsTold
<1> QED
  BY <1>1, <1>3, <1>4, <1>5, <1>7, <1>8, <1>9 DEF FlowInv

\* ... or an end without one, of which the breakers have heard, ...
LEMMA Raises ==
    ASSUME IInv, stage = "wait", Handling, UNCHANGED <<cached, billed, step, answer, draft>>, JudgedOnce,
           step = Len(calls), stage' = "raised", told' \in {"nothing", "error"},
           flow = "blocking" => told' = "error",
           spent' \subseteq spent \cup {step}, flow = "cascade" => spent' = spent,
           depth' = Flow!Zero
    PROVE  FlowInv'
<1>1. /\ pc' = "decided" /\ calls' = calls /\ flow' = flow
  BY WhileWaiting DEF Handling
<1>2. PICK n \in Nat, l \in Nat : n = step /\ l = Len(calls) /\ n = l /\ n # 0
  BY WhileWaiting
<1>3. ~Flow!InvalidFallback' /\ ~InCall' /\ stage' \notin {"idle", "wait", "store", "publish"}
  BY <1>1 DEF Flow!InvalidFallback, InCall
<1>4. Reports'
  <2>1. \A b \in Backends : ok'[b] + bad'[b] = IF flow = "agentic" THEN 0 ELSE Times(b, step)
    BY <1>1, AfterReport
  <2> QED
    BY <1>1, <1>3, <2>1 DEF Reports, Judged, Times
<1>5. Gauge'
  BY <1>1, <1>3 DEF Gauge
<1>6. /\ spent' \subseteq 1..step
      /\ flow = "cascade" => step \notin spent'
  <2>1. 1..(step - 1) \cup {step} \subseteq 1..step /\ step \notin 1..(step - 1)
    BY <1>2
  <2> QED
    BY <2>1, WhileWaiting
<1>7. InTurn'
  BY <1>1, <1>3, <1>6 DEF InTurn
<1>8. Flow!TypeOK'
  <2>1. calls \in Flow!Chains(flow) /\ DOMAIN calls = 1..Len(calls) /\ flow \in {"blocking", "cascade", "agentic"}
    BY WhileWaiting, ChainOfFlow
  <2>2. step' \in 1..Len(calls) /\ {draft', answer', cached'} \subseteq 1..Len(calls) \cup {0}
    BY WhileWaiting
  <2>3. 1..step \subseteq 1..Len(calls)
    BY <1>2
  <2>4. billed' \subseteq 1..Len(calls)
    BY WhileWaiting
  <2>5. depth' \in [Backends -> {0, 1}]
    BY WhileWaiting, UpAndDown
  <2>6. ok' \in [Backends -> 0..LongestChain] /\ bad' \in [Backends -> 0..LongestChain]
    BY <1>1, AfterReport
  <2> QED
    BY <1>1, <1>6, <2>1, <2>2, <2>3, <2>4, <2>5, <2>6 DEF Flow!TypeOK, Flow!Flows, Flow!Ended
<1>9. FailureIsTold'
  BY <1>1 DEF FailureIsTold, Flow!FailureIsTold
<1> QED
  BY <1>1, <1>3, <1>4, <1>5, <1>7, <1>8, <1>9 DEF FlowInv

\* ... or not, as with the invalid answer of a fallback.
LEMMA RaisesUnheard ==
    ASSUME IInv, stage = "wait", Handling,
           UNCHANGED <<cached, billed, step, answer, draft, depth, ok, bad>>,
           flow = "blocking", step = 2, stage' = "raised", told' = "nothing",
           spent' = spent \cup {step}
    PROVE  FlowInv'
<1>1. /\ pc' = "decided" /\ calls' = calls /\ flow' = flow
  BY WhileWaiting DEF Handling
<1>2. PICK n \in Nat, l \in Nat : n = step /\ l = Len(calls) /\ n <= l /\ n # 0
  BY WhileWaiting
<1>3. Flow!InvalidFallback' /\ stage' # "idle"
  BY <1>1 DEF Flow!InvalidFallback
<1>4. Reports'
  BY <1>1, <1>3, WhileWaiting DEF Reports, Judged, Times
<1>5. Gauge'
  BY <1>1, <1>3, WhileWaiting DEF Gauge
<1>6. spent' \subseteq 1..step
  <2>1. 1..(step - 1) \cup {step} \subseteq 1..step
    BY <1>2
  <2> QED
    BY <2>1, WhileWaiting
<1>7. InTurn'
  <2>1. Len(calls) \in 1..2
    BY WhileWaiting, ChainOfFlow
  <2>2. step' = Len(calls)
    BY <1>2, <2>1
  <2> QED
    BY <1>1, <1>3, <1>6, <2>2 DEF InTurn, InCall
<1>8. Flow!TypeOK'
  <2>1. calls \in Flow!Chains(flow) /\ DOMAIN calls = 1..Len(calls) /\ flow \in {"blocking", "cascade", "agentic"}
    BY WhileWaiting, ChainOfFlow
  <2>2. step' \in 1..Len(calls) /\ {draft', answer', cached'} \subseteq 1..Len(calls) \cup {0}
    BY WhileWaiting
  <2>3. 1..step \subseteq 1..Len(calls)
    BY <1>2
  <2>4. billed' \subseteq 1..Len(calls)
    BY WhileWaiting
  <2>5. depth' \in [Backends -> {0, 1}]
    BY WhileWaiting, UpAndDown
  <2>6. ok' \in [Backends -> 0..LongestChain] /\ bad' \in [Backends -> 0..LongestChain]
    BY WhileWaiting
  <2> QED
    BY <1>1, <1>6, <2>1, <2>2, <2>3, <2>4, <2>5, <2>6 DEF Flow!TypeOK, Flow!Flows, Flow!Ended
<1>9. FailureIsTold'
  <2>1. /\ step' = 2 /\ 2 \in spent' /\ calls[2] \in Backends /\ 1 \in 1..Len(calls) /\ 2 \in 1..Len(calls)
    BY <1>1, <1>2, WhileWaiting
  <2>2. calls[1] # calls[2]
    BY <2>1, WhileWaiting, ChainOfFlow DEF IsInjective
  <2>3. Times(calls[2], 1) = 0
    <3>1. 0 \in Nat /\ 0 + 1 = 1
      OBVIOUS
    <3>2. Times(calls[2], 0) = 0
      BY TimesCounts
    <3>3. Times(calls[2], 0 + 1) = Times(calls[2], 0) + IF calls[0 + 1] = calls[2] THEN 1 ELSE 0
      BY <3>1, TimesCounts
    <3> QED
      BY <2>2, <3>1, <3>2, <3>3
  <2>4. step - 1 = 1 /\ flow # "agentic"
    OBVIOUS
  <2>5. /\ ok[calls[2]] \in Nat /\ bad[calls[2]] \in Nat
        /\ ok[calls[2]] + bad[calls[2]] = 0
    <3> HIDE DEF Backends
    <3> QED
      BY <2>1, <2>3, <2>4, WhileWaiting
  <2>6. bad'[calls'[step']] = 0
    BY <1>1, <2>1, <2>5
  <2> QED
    BY <2>1, <2>6 DEF FailureIsTold, Flow!FailureIsTold, Flow!Current
<1> QED
  BY <1>1, <1>3, <1>4, <1>5, <1>7, <1>8, <1>9 DEF FlowInv

\* A call that leaves the queue leaves no trace in the gauge.
LEMMA LeftQueue ==
    ASSUME IInv, stage = "wait", flow # "agentic", depth' = Flow!Down(depth, calls[step])
    PROVE  depth' = Flow!Zero
BY WhileWaiting, UpAndDown

LEMMA OutcomeKeeps ==
    ASSUME IInv, Flow!Outcome, Handling
    PROVE  FlowInv'
<1> USE DEF Flow!Answers, Flow!Raises, Flow!Accept, Flow!Escalate, Flow!Raise, Flow!Current, Flow!Last,
            JudgedOnce
<1>1. UNCHANGED <<cached, billed>>
  BY DEF Flow!Outcome
<1>2. ASSUME stage = "wait"
      PROVE  /\ step \in 1..Len(calls) /\ Len(calls) \in Nat
             /\ flow = "blocking" => Len(calls) <= 2
             /\ flow = "agentic" => Len(calls) = 2 /\ depth = Flow!Zero
             /\ flow # "agentic" => depth = Flow!Up(Flow!Zero, calls[step])
  <2>1. /\ step \in 1..Len(calls) /\ Len(calls) \in Nat
        /\ depth = IF flow = "agentic" THEN Flow!Zero ELSE Flow!Up(Flow!Zero, calls[step])
    BY <1>2, WhileWaiting
  <2>2. /\ flow = "blocking" => Len(calls) \in 1..2
        /\ flow = "agentic" => Len(calls) = 2
    BY <1>2, WhileWaiting, ChainOfFlow
  <2>3. ASSUME flow = "blocking" PROVE Len(calls) <= 2
    <3>1. Len(calls) \in 1..2
      BY <2>2, <2>3
    <3>2. \A n \in 1..2 : n <= 2
      OBVIOUS
    <3> QED
      BY <3>1, <3>2
  <2> QED
    BY <2>1, <2>2, <2>3
<1>3. CASE Flow!BlockingAccepted
  BY <1>1, <1>2, <1>3, Accepts DEF Flow!BlockingAccepted
<1>4. CASE Flow!PrimaryFails
  <2>1. stage = "wait" /\ flow = "blocking" /\ step = 1 /\ depth' = Flow!Zero
    BY <1>4, LeftQueue DEF Flow!PrimaryFails
  <2>2. CASE step = Len(calls)
    BY <1>1, <1>4, <2>1, <2>2, Raises DEF Flow!PrimaryFails
  <2>3. CASE step # Len(calls)
    <3>1. step < Len(calls)
      BY <1>2, <2>1, <2>3
    <3> QED
      BY <1>1, <1>4, <2>1, <2>3, <3>1, Escalates DEF Flow!PrimaryFails
  <2> QED
    BY <2>2, <2>3
<1>5. CASE Flow!FallbackInvalid
  BY <1>1, <1>5, RaisesUnheard DEF Flow!FallbackInvalid
<1>6. CASE Flow!FallbackFails
  <2>1. stage = "wait" /\ flow = "blocking" /\ step = 2 /\ depth' = Flow!Zero
    BY <1>6, LeftQueue DEF Flow!FallbackFails
  <2>2. step = Len(calls)
    BY <1>2, <2>1
  <2> QED
    BY <1>1, <1>6, <2>1, <2>2, Raises DEF Flow!FallbackFails
<1>7. CASE Flow!CascadeAccepts
  <2>1. stage = "wait" /\ flow = "cascade" /\ depth' = Flow!Zero
    BY <1>7, LeftQueue DEF Flow!CascadeAccepts
  <2> QED
    BY <1>1, <1>2, <1>7, <2>1, Accepts DEF Flow!CascadeAccepts
<1>8. CASE Flow!CascadeRejects
  <2>1. stage = "wait" /\ flow = "cascade" /\ depth' = Flow!Zero
    BY <1>8, LeftQueue DEF Flow!CascadeRejects
  <2>2. step < Len(calls)
    BY <1>2, <1>8, <2>1 DEF Flow!CascadeRejects
  <2> QED
    BY <1>1, <1>8, <2>1, <2>2, Escalates DEF Flow!CascadeRejects
<1>9. CASE Flow!CascadeFails
  <2>1. stage = "wait" /\ flow = "cascade" /\ depth' = Flow!Zero
    BY <1>9, LeftQueue DEF Flow!CascadeFails
  <2>2. CASE step = Len(calls)
    BY <1>1, <1>9, <2>1, <2>2, Raises DEF Flow!CascadeFails
  <2>3. CASE step # Len(calls)
    <3>1. step < Len(calls)
      BY <1>2, <2>1, <2>3
    <3> QED
      BY <1>1, <1>9, <2>1, <2>3, <3>1, Escalates DEF Flow!CascadeFails
  <2> QED
    BY <2>2, <2>3
<1>10. CASE Flow!AgenticAccepts
  BY <1>1, <1>2, <1>10, Accepts DEF Flow!AgenticAccepts
<1>11. CASE Flow!DraftRejected
  <2>1. step < Len(calls)
    BY <1>2, <1>11 DEF Flow!DraftRejected
  <2> QED
    BY <1>1, <1>2, <1>11, <2>1, Escalates DEF Flow!DraftRejected
<1>12. CASE Flow!AgenticFails
  <2>1. stage = "wait" /\ flow = "agentic" /\ depth' = Flow!Zero /\ Len(calls) = 2
    BY <1>2, <1>12 DEF Flow!AgenticFails
  <2>2. CASE step = 1 /\ Flow!Escalate
    <3>1. step < Len(calls)
      BY <2>1, <2>2
    <3> QED
      BY <1>1, <1>12, <2>1, <2>2, <3>1, Escalates DEF Flow!AgenticFails
  <2>3. CASE step = 2 /\ draft = 0 /\ Flow!Raise("nothing")
    BY <1>1, <1>12, <2>1, <2>3, Raises DEF Flow!AgenticFails
  <2>4. CASE step = 2 /\ draft # 0 /\ answer' = draft /\ stage' = "store" /\ UNCHANGED <<step, told>>
    BY <1>1, <1>12, <2>1, <2>4, Accepts DEF Flow!AgenticFails
  <2> QED
    BY <1>12, <2>2, <2>3, <2>4 DEF Flow!AgenticFails
<1> QED
  BY <1>3, <1>4, <1>5, <1>6, <1>7, <1>8, <1>9, <1>10, <1>11, <1>12 DEF Flow!Outcome

\* The steps between the calls and behind them.
LEMMA CallKeeps ==
    ASSUME IInv, Flow!Call, Handling
    PROVE  FlowInv'
<1>1. /\ stage = "call" /\ stage' = "wait" /\ pc = "decided" /\ calls' = calls /\ flow' = flow /\ pc' = pc
      /\ UNCHANGED <<step, ok, bad, spent, draft, answer, cached, told, billed>>
      /\ RouteInv /\ Flow!TypeOK /\ Reports /\ Gauge /\ InTurn
  BY DEF Flow!Call, Handling, IInv, FlowInv
<1>2. ~Flow!InvalidFallback /\ ~Flow!InvalidFallback' /\ InCall /\ InCall'
  BY <1>1 DEF Flow!InvalidFallback, InCall
<1>3. Reports'
  BY <1>1, <1>2 DEF Reports, Judged, Times
<1>4. Gauge'
  BY <1>1, <1>2 DEF Gauge, Flow!Call, Flow!Current
<1>5. InTurn'
  BY <1>1, <1>2 DEF InTurn
<1>6. Flow!TypeOK'
  <2>1. calls[step] \in Backends
    BY <1>1, ChainOfFlow, ElementOfSeq DEF Flow!TypeOK
  <2>2. depth' \in [Backends -> {0, 1}]
    BY <1>1, <1>2, <1>4, <2>1, UpAndDown DEF Gauge
  <2> QED
    BY <1>1, <2>2 DEF Flow!TypeOK
<1>7. FailureIsTold'
  BY <1>1 DEF FailureIsTold, Flow!FailureIsTold
<1> QED
  BY <1>1, <1>3, <1>4, <1>5, <1>6, <1>7 DEF FlowInv

LEMMA StoreKeeps ==
    ASSUME IInv, Flow!Store, Handling
    PROVE  FlowInv'
<1>1. /\ stage = "store" /\ stage' = "publish" /\ pc' = "decided" /\ calls' = calls /\ flow' = flow
      /\ cached' = answer
      /\ UNCHANGED <<step, depth, ok, bad, spent, draft, answer, told, billed>>
      /\ Flow!TypeOK /\ Reports /\ Gauge /\ InTurn
  BY DEF Flow!Store, Handling, IInv, FlowInv
<1>2. ~Flow!InvalidFallback /\ ~Flow!InvalidFallback' /\ ~InCall /\ ~InCall'
  BY <1>1 DEF Flow!InvalidFallback, InCall
<1>3. Reports'
  BY <1>1, <1>2 DEF Reports, Judged, Times
<1>4. Gauge'
  BY <1>1, <1>2 DEF Gauge
<1>5. InTurn'
  BY <1>1, <1>2 DEF InTurn
<1>6. Flow!TypeOK'
  BY <1>1 DEF Flow!TypeOK
<1>7. FailureIsTold'
  BY <1>1 DEF FailureIsTold, Flow!FailureIsTold
<1> QED
  BY <1>1, <1>3, <1>4, <1>5, <1>6, <1>7 DEF FlowInv

LEMMA PublishKeeps ==
    ASSUME IInv, Flow!Publish, Handling
    PROVE  FlowInv'
<1>1. /\ stage = "publish" /\ stage' = "answered" /\ pc = "decided" /\ pc' = pc
      /\ calls' = calls /\ flow' = flow /\ told' = "result" /\ billed' = Flow!Bill
      /\ UNCHANGED <<step, ok, bad, spent, draft, answer, cached>>
      /\ RouteInv /\ Flow!TypeOK /\ Reports /\ Gauge /\ InTurn
  BY DEF Flow!Publish, Handling, IInv, FlowInv
<1>2. ~Flow!InvalidFallback /\ ~Flow!InvalidFallback' /\ ~InCall /\ ~InCall'
  BY <1>1 DEF Flow!InvalidFallback, InCall
<1>3. answer \in DOMAIN calls /\ calls[answer] \in Backends
  <2>1. answer \in DOMAIN calls
    BY <1>1 DEF Flow!TypeOK, InTurn
  <2> QED
    BY <1>1, <2>1, ChainOfFlow, ElementOfSeq
<1>4. Reports'
  BY <1>1, <1>2 DEF Reports, Judged, Times
<1>5. Gauge' /\ depth' = Flow!Zero
  <2>1. depth' = Flow!Zero
    BY <1>1, <1>2, <1>3, UpAndDown DEF Gauge, Flow!Publish
  <2> QED
    BY <1>1, <1>2, <2>1 DEF Gauge
<1>6. InTurn'
  BY <1>1, <1>2 DEF InTurn
<1>7. Flow!TypeOK'
  <2>1. depth' \in [Backends -> {0, 1}]
    BY <1>3, <1>5, UpAndDown
  <2>2. billed' \subseteq DOMAIN calls
    BY <1>1, <1>3 DEF Flow!Bill, Flow!TypeOK
  <2> QED
    BY <1>1, <2>1, <2>2 DEF Flow!TypeOK, Flow!Ended
<1>8. FailureIsTold'
  BY <1>1 DEF FailureIsTold, Flow!FailureIsTold
<1> QED
  BY <1>1, <1>4, <1>5, <1>6, <1>7, <1>8 DEF FlowInv

LEMMA ServeKeeps ==
    ASSUME IInv, Serve
    PROVE  FlowInv' /\ Handling
<1>1. Handling
  BY DEF Serve, Handling, Flow!Next, Flow!Call, Flow!Outcome, Flow!Store, Flow!Publish
<1> QED
  BY <1>1, CallKeeps, OutcomeKeeps, StoreKeeps, PublishKeeps DEF Serve, Flow!Next

\* The handler starts with nothing done.
LEMMA HandOverKeeps ==
    ASSUME IInv, HandOver
    PROVE  FlowInv'
<1>1. /\ pc = "decided" /\ stage = "idle" /\ stage' = "call" /\ Unserved /\ RouteInv
      /\ UNCHANGED <<request, pc, calls, flow, step, depth, ok, bad, spent, draft, answer, cached, told, billed>>
  BY DEF IInv, FlowInv, HandOver, vars
<1>2. /\ step = 1 /\ depth = Flow!Zero /\ ok = Flow!Zero /\ bad = Flow!Zero
      /\ spent = {} /\ billed = {} /\ draft = 0 /\ answer = 0 /\ cached = 0 /\ told = "nothing"
  BY <1>1 DEF Unserved
<1>3. ~Flow!InvalidFallback' /\ InCall'
  BY <1>1 DEF Flow!InvalidFallback, InCall
<1>4. /\ Flow!Zero \in [Backends -> {0, 1}] /\ \A b \in Backends : Flow!Zero[b] = 0
      /\ Flow!Zero \in [Backends -> 0..LongestChain]
  <2> HIDE DEF Backends
  <2> QED
    BY LongestChainType DEF Flow!Zero
<1>5. Reports'
  <2>1. \A b : Times(b, 0) = 0
    BY TimesCounts
  <2> QED
    BY <1>1, <1>2, <1>3, <1>4, <2>1 DEF Reports, Judged, Times
<1>6. Gauge'
  BY <1>1, <1>2, <1>3 DEF Gauge
<1>7. InTurn'
  BY <1>1, <1>2, <1>3 DEF InTurn
<1>8. Flow!TypeOK'
  <2>1. /\ calls \in Flow!Chains(flow) /\ DOMAIN calls = 1..Len(calls)
        /\ flow \in {"blocking", "cascade", "agentic"} /\ Len(calls) \in 1..LongestChain
    BY <1>1, ChainOfFlow
  <2>2. 1 \in 1..Len(calls)
    BY <2>1, LongestChainType
  <2> QED
    BY <1>1, <1>2, <1>4, <2>1, <2>2 DEF Flow!TypeOK, Flow!Flows
<1>9. FailureIsTold'
  BY <1>1 DEF FailureIsTold, Flow!FailureIsTold
<1> QED
  BY <1>1, <1>5, <1>6, <1>7, <1>8, <1>9 DEF FlowInv

-----------------------------------------------------------------------------
(* The composition *)

LEMMA Start == GatewayInit => IInv
<1>1. GatewayInit => FlowInv
  BY DEF GatewayInit, FlowInv, Unserved
<1> QED
  BY <1>1, RouteStart DEF IInv

LEMMA Step == IInv /\ [GatewayNext]_<<vars, served>> => IInv'
<1> SUFFICES ASSUME IInv, [GatewayNext]_<<vars, served>> PROVE IInv'
  OBVIOUS
<1>1. CASE DecideCalls
  <2>1. Next /\ UNCHANGED served /\ flow' = flow
    BY <1>1 DEF DecideCalls, served
  <2>2. RouteInv'
    BY <2>1, RouteStep DEF IInv
  <2>3. pc # "decided" /\ request' = request
    BY <2>1 DEF Next, Flip, Ask, Asked, RoutePinned, ChooseSingle, ChooseScored, ChoosePick,
                ChooseCascade, ChooseSurvey, ChooseAgentic, ChooseLearned, Decide
  <2>4. stage = "idle" /\ Unserved
    BY <2>3 DEF IInv, FlowInv
  <2>5. FlowInv'
    BY <2>1, <2>3, <2>4 DEF FlowInv, Unserved, served
  <2> QED
    BY <2>2, <2>5 DEF IInv
<1>2. CASE HandOver
  <2>1. RouteInv'
    <3>1. UNCHANGED <<request, admits, flips, pc, asked, available, calls, flow>>
      BY <1>2 DEF HandOver, vars
    <3>2. admits' \in [Backends -> BOOLEAN] /\ flips' \in 0..MaxFlips
      BY <3>1 DEF IInv, RouteInv, TypeOK
    <3> QED
      BY <3>1, <3>2, Unchanged DEF IInv
  <2> QED
    BY <1>2, <2>1, HandOverKeeps DEF IInv
<1>3. CASE Serve
  <2>1. FlowInv' /\ Handling
    BY <1>3, ServeKeeps
  <2>2. admits' \in [Backends -> BOOLEAN] /\ flips' \in 0..MaxFlips
    BY <2>1 DEF Handling, IInv, RouteInv, TypeOK
  <2>3. RouteInv'
    BY <2>1, <2>2, Unchanged DEF Handling, IInv
  <2> QED
    BY <2>1, <2>3 DEF IInv
<1>4. CASE UNCHANGED <<vars, served>>
  <2>1. UNCHANGED <<request, admits, flips, pc, asked, available, calls, flow, step, stage, depth, ok, bad,
                    spent, draft, answer, cached, told, billed>>
    BY <1>4 DEF vars, served
  <2>2. RouteInv'
    <3>1. admits' \in [Backends -> BOOLEAN] /\ flips' \in 0..MaxFlips
      BY <2>1 DEF IInv, RouteInv, TypeOK
    <3> QED
      BY <2>1, <3>1, Unchanged DEF IInv
  <2>3. FlowInv'
    BY <2>1 DEF IInv, FlowInv, Unserved, Flow!TypeOK, Reports, Judged, Times, Gauge, InTurn, InCall,
                Flow!InvalidFallback, FailureIsTold, Flow!FailureIsTold, Flow!Current
  <2> QED
    BY <2>2, <2>3 DEF IInv
<1> QED
  BY <1>1, <1>2, <1>3, <1>4 DEF GatewayNext

LEMMA Invariant == GatewaySpec => []IInv
BY Start, Step, PTL DEF GatewaySpec

\* The variables of the decision and of the handler have their types: no
\* handler is ever begun on a chain it is not written for, or goes beyond it.
THEOREM TypesKept == GatewaySpec => []TypesOK
<1>1. IInv => TypesOK
  BY DEF IInv, RouteInv, FlowInv, TypesOK
<1> QED
  BY <1>1, Invariant, PTL

\* choose_backend decides what the handler of its policy can serve, for any
\* chain of the client's and any changes of the breakers.
THEOREM DecisionFits == GatewaySpec => []HandoverFits
<1>1. IInv => HandoverFits
  BY DEF IInv, RouteInv, Decision
<1> QED
  BY <1>1, Invariant, PTL

\* However the breakers change while they are asked, what is called was
\* admitted when it was asked, or there was no choice.
THEOREM AdmittedAreCalled == GatewaySpec => []OnlyAdmitted
<1>1. IInv => OnlyAdmitted
  BY DEF IInv, RouteInv, Decision
<1> QED
  BY <1>1, Invariant, PTL

\* Fallbacks and chains of these policies stay on the side the client allowed.
THEOREM SidesAreRespected == GatewaySpec => []SidesRespected
<1>1. IInv => SidesRespected
  BY DEF IInv, RouteInv, Decision
<1> QED
  BY <1>1, Invariant, PTL

\* A request is given up only after two different backends failed it, up to
\* the named cases.
THEOREM OneFailureSurvived == GatewaySpec => []SurvivesOneFailure
<1>1. ASSUME IInv, stage = "raised"
      PROVE  SurvivesOneFailure
  <2>1. /\ RouteInv /\ pc = "decided" /\ InTurn /\ Decision
    BY <1>1 DEF IInv, FlowInv, RouteInv
  <2>2. step = Len(calls) /\ (flow = "cascade" => step \notin spent)
    BY <1>1, <2>1 DEF InTurn
  <2>3. ASSUME Len(calls) = 2, IsInjective(calls)
        PROVE  Cardinality({calls[i] : i \in 1..step}) > 1
    <3>1. calls[1] # calls[2]
      BY <2>1, <2>3, ChainOfFlow DEF IsInjective
    <3>2. {calls[i] : i \in 1..2} = {calls[1]} \cup {calls[2]}
      <4>1. \A i : i \in 1..2 <=> i = 1 \/ i = 2
        OBVIOUS
      <4> QED
        BY <4>1
    <3>3. IsFiniteSet({calls[1]}) /\ Cardinality({calls[1]}) = 1
      BY FS_Singleton
    <3>4. Cardinality({calls[1]} \cup {calls[2]}) = 2
      BY <3>1, <3>3, FS_AddElement
    <3> QED
      BY <2>2, <2>3, <3>2, <3>4
  <2>4. CASE flow = "cascade"
    BY <2>2, <2>4 DEF SurvivesOneFailure
  <2>5. CASE flow = "agentic"
    BY <2>1, <2>3, <2>5, ChainOfFlow DEF SurvivesOneFailure
  <2>6. CASE flow = "blocking"
    BY <2>1, <2>3, <2>6, ChainOfFlow DEF SurvivesOneFailure, Decision, LoneCall
  <2> QED
    BY <2>1, <2>4, <2>5, <2>6, ChainOfFlow
<1>2. IInv => SurvivesOneFailure
  BY <1>1 DEF SurvivesOneFailure
<1> QED
  BY <1>2, Invariant, PTL

\* A request that ended left every queue and was judged once per call, on all
\* paths through primary, fallback, cascade and drafts, up to the named cases.
THEOREM CallsAreSettled == GatewaySpec => []CallsSettle
<1>1. ASSUME IInv, stage \in Flow!Ended
      PROVE  Flow!DepthSettles /\ Flow!CallsJudgedOnce
  <2>1. /\ RouteInv /\ pc = "decided" /\ Flow!TypeOK /\ Reports /\ Gauge /\ InTurn /\ ~InCall
        /\ stage \notin {"wait", "store", "publish"}
    BY <1>1 DEF IInv, FlowInv, InCall, Flow!Ended
  <2>2. step \in 1..Len(calls) /\ calls[step] \in Backends
    BY <2>1, ChainOfFlow, ElementOfSeq DEF Flow!TypeOK
  <2>3. Flow!DepthSettles
    BY <2>1, <2>2, UpAndDown DEF Flow!DepthSettles, Gauge, Flow!Current
  <2>4. \A b : Flow!Calls(b) = Times(b, step)
    BY DEF Flow!Calls, Times, Flow!Cardinality, Cardinality
  <2>5. CASE ~Flow!InvalidFallback
    BY <2>1, <2>3, <2>4, <2>5 DEF Flow!CallsJudgedOnce, Reports, Judged
  <2>6. CASE Flow!InvalidFallback
    <3>1. step = 2 /\ step - 1 = 1 /\ flow = "blocking" /\ IsInjective(calls)
      BY <2>1, <2>6, ChainOfFlow DEF InTurn, Flow!InvalidFallback
    <3>2. calls[1] # calls[2]
      BY <2>1, <2>2, <3>1, ChainOfFlow DEF IsInjective
    <3>3. \A b : /\ Times(b, 1) = IF calls[1] = b THEN 1 ELSE 0
                 /\ Times(b, 2) = Times(b, 1) + IF calls[2] = b THEN 1 ELSE 0
      <4>1. 0 \in Nat /\ 1 \in Nat /\ 0 + 1 = 1 /\ 1 + 1 = 2
        OBVIOUS
      <4>2. \A b : Times(b, 0 + 1) = Times(b, 0) + IF calls[0 + 1] = b THEN 1 ELSE 0
        BY <4>1, TimesCounts
      <4>3. \A b : Times(b, 1 + 1) = Times(b, 1) + IF calls[1 + 1] = b THEN 1 ELSE 0
        BY <4>1, TimesCounts
      <4>4. \A b : Times(b, 0) = 0
        BY <4>1, TimesCounts
      <4> QED
        BY <4>1, <4>2, <4>3, <4>4
    <3>4. \A b \in Backends : ok[b] + bad[b] = Times(b, 1)
      BY <2>1, <2>6, <3>1 DEF Reports, Judged
    <3>5. \A b \in Backends : ok[b] + bad[b] = IF b = calls[2] THEN 0 ELSE Times(b, 2)
      BY <3>2, <3>3, <3>4
    <3> QED
      BY <2>3, <2>4, <2>6, <3>1, <3>5 DEF Flow!CallsJudgedOnce, Flow!Current
  <2> QED
    BY <2>3, <2>5, <2>6
<1>2. IInv => CallsSettle
  BY <1>1 DEF CallsSettle, Flow!CallsSettle, Flow!DepthSettles, Flow!CallsJudgedOnce
<1> QED
  BY <1>2, Invariant, PTL

\* The waiters of a plain request that failed are told so.
THEOREM FailuresAreTold == GatewaySpec => []FailureIsTold
<1>1. IInv => FailureIsTold
  BY DEF IInv, FlowInv, Unserved, FailureIsTold, Flow!FailureIsTold
<1> QED
  BY <1>1, Invariant, PTL
=============================================================================
