------------------------ MODULE StreamingFlow_proofs ------------------------
(***************************************************************************)
(* The safety of one stream, for any chain of backends, any answers and    *)
(* any number of chunks held back.  The heart of the invariant is Whole:   *)
(* what was yielded and what is still held back are together the first     *)
(* `got` chunks of the current call, in order, and nothing else.           *)
(***************************************************************************)
EXTENDS StreamingFlow, FiniteSetTheorems, SequenceTheorems, TLAPS

Phases == {"start", "recv", "push", "judge", "flush", "succeed", "check", "store",
           "share", "end", "leave", "fail"} \cup Ended

Chunk == Nat \X Nat

ChainTypes ==
    /\ kind \in Kinds
    /\ chain \in Seq(Backends) /\ step \in 1..Len(chain)
    /\ kind # "cascade" => Len(chain) <= 2

PhaseTypes ==
    /\ pc \in Phases
    /\ got \in Nat /\ ended \in BOOLEAN
    /\ rejected \subseteq Nat
    /\ cached \in Chunk
    /\ told \in {"nothing", "error", "done"}

ChunkTypes == held \in Seq(Chunk) /\ sent \in Seq(Chunk) /\ shared \in Seq(Chunk)

CountTypes ==
    depth \in [Backends -> Int] /\ ok \in [Backends -> Nat] /\ bad \in [Backends -> Nat]

TypeOK == ChainTypes /\ PhaseTypes /\ ChunkTypes /\ CountTypes

\* What is held back was not yielded, and is yielded before the stream ends.
HeldBack ==
    /\ pc = "start" /\ ~OnFallback => sent = <<>>
    /\ kind = "cascade" /\ pc \in {"start", "recv", "judge"} => sent = <<>>
    /\ pc = "judge" => sent = <<>>
    /\ pc = "recv" /\ held # <<>> => Holding
    /\ pc \in {"succeed", "check", "store", "share", "end", "leave"} => held = <<>>
    /\ kind = "speculative" => Len(held) <= HoldLimit
    /\ kind = "speculative" /\ pc = "recv" => Len(held) < HoldLimit

\* A cascade judges whole answers.
WholeAnswers ==
    kind = "cascade" => /\ pc \in {"judge", "flush", "push", "store", "share"} => ended
                        /\ pc \notin {"succeed", "check"}

\* A fallback is only ever streamed.
Fallback ==
    OnFallback =>
        /\ pc \in {"start", "recv", "push", "broken", "gone"}
        /\ cached = Nothing
        /\ pc \in {"recv", "push"} => held = <<>> /\ ~ended

Streaming == {"recv", "judge", "flush", "push", "succeed", "check", "store"}

\* The chunks yielded and held back are the current call's, in order.
Whole ==
    cached = Nothing /\ ~OnFallback /\ pc \in Streaming =>
        /\ got = Len(sent) + Len(held)
        /\ \A i \in 1..Len(sent) : sent[i] = <<step, i>>
        /\ \A i \in 1..Len(held) : held[i] = <<step, Len(sent) + i>>

\* What is cached is what was yielded; only the statistics come after it.
Cached ==
    /\ pc \in {"share", "end"} => cached # Nothing
    /\ cached # Nothing =>
           /\ pc \in {"share", "push", "end", "leave", "closed", "gone"}
           /\ cached = <<step, got>> /\ held = <<>>
           /\ pc = "share" => sent = Answer(step, got)
           /\ pc \in {"push", "end", "leave", "closed"} => sent = Append(Answer(step, got), Stats)
           /\ pc = "gone" => sent \in {Answer(step, got), Append(Answer(step, got), Stats)}

\* A call is rejected before anything of it is yielded, and is the last one
\* that ever was when the generator has given up.
Unseen ==
    /\ rejected \subseteq 1..step
    /\ pc \notin {"fail", "closed", "gone"} => step \notin rejected
    /\ \A i \in 1..Len(sent) : /\ sent[i][1] \in 0..step
                               /\ sent[i][1] \notin rejected
                               /\ cached = Nothing => sent[i][1] # 0

\* One chunk at most is on its way to the joined requests.
OneBehind == sent # <<>> /\ sent = Append(shared, sent[Len(sent)])

Pushed ==
    CASE pc = "push" -> OneBehind
      [] pc = "gone" -> sent = shared \/ OneBehind
      [] OTHER       -> sent = shared

\* Who is told what, and when.
Told ==
    /\ pc = "fail" => cached = Nothing
    /\ pc = "leave" => told # "nothing"
    /\ pc = "closed" /\ (kind = "cascade" => cached # Nothing) => told # "nothing"
    /\ told = "done" =>
           /\ pc \in {"leave", "closed", "gone"}
           /\ cached # Nothing /\ shared = Append(Answer(cached[1], cached[2]), Stats)

\* The calls that are over, as far as the breakers are concerned.
Judged ==
    \/ pc \in {"check", "store", "share", "end", "leave", "fail", "closed"}
    \/ pc \in {"flush", "push"} /\ (kind = "cascade" \/ cached # Nothing)

JudgedCalls == IF Judged THEN step ELSE step - 1

CallsUntil(b, n) == Cardinality({i \in 1..n : chain[i] = b})

Settling ==
    /\ pc \in {"start", "fail", "closed"} => depth = Zero
    /\ pc \notin {"start", "fail", "closed", "gone"} => depth = Up(Zero, Current)
    /\ pc \notin {"broken", "gone"} =>
           \A b \in Backends : ok[b] + bad[b] = CallsUntil(b, JudgedCalls)

IInv == TypeOK /\ HeldBack /\ WholeAnswers /\ Fallback /\ Whole /\ Cached /\ Unseen /\ Pushed /\ Told
        /\ Settling

-----------------------------------------------------------------------------
(* Lemmas about chunks, chains and counts *)

LEMMA AnswerProperties ==
    ASSUME NEW c \in Nat, NEW n \in Nat
    PROVE  /\ Answer(c, n) \in Seq(Chunk) /\ Len(Answer(c, n)) = n
           /\ \A i \in 1..n : Answer(c, n)[i] = <<c, i>>
BY DEF Answer, Chunk

\* A sequence of a call's chunks, in order, is the call's answer.
LEMMA InOrderIsAnswer ==
    ASSUME NEW c \in Nat, NEW s \in Seq(Chunk),
           \A i \in 1..Len(s) : s[i] = <<c, i>>
    PROVE  s = Answer(c, Len(s))
<1>1. Len(s) \in Nat
  OBVIOUS
<1>2. Answer(c, Len(s)) \in Seq(Chunk) /\ Len(Answer(c, Len(s))) = Len(s)
      /\ \A i \in 1..Len(s) : Answer(c, Len(s))[i] = <<c, i>>
  BY <1>1, AnswerProperties
<1> QED
  BY <1>1, <1>2, SeqEqual

\* A chain of a generator is a sequence of one to MaxChain backends.
LEMMA ChainType ==
    ASSUME NEW k \in Kinds, NEW s \in Chains(k)
    PROVE  s \in Seq(Backends) /\ Len(s) \in Nat \ {0} /\ (k # "cascade" => Len(s) <= 2)
<1>1. CASE k = "cascade"
  <2>1. PICK n \in 1..MaxChain : s \in [1..n -> Backends]
    BY <1>1 DEF Chains, Sequences
  <2> QED
    BY <1>1, <2>1, StreamAssumption
<1>2. CASE k # "cascade"
  <2>1. s \in Sequences(1..2) \/ s \in Sequences({2})
    BY <1>2 DEF Chains, Kinds
  <2>2. PICK n \in 1..2 : s \in [1..n -> Backends]
    BY <2>1 DEF Sequences
  <2> QED
    BY <2>2
<1> QED
  BY <1>1, <1>2

\* One more call is one more of its backend's calls and nobody else's.
LEMMA CallsUntilNext ==
    ASSUME NEW n \in Nat, NEW b
    PROVE  /\ CallsUntil(b, n) \in Nat
           /\ CallsUntil(b, n + 1) = CallsUntil(b, n) + (IF chain[n + 1] = b THEN 1 ELSE 0)
<1> DEFINE C(m) == {i \in 1..m : chain[i] = b}
<1>1. IsFiniteSet(C(n)) /\ Cardinality(C(n)) \in Nat
  <2>1. IsFiniteSet(1..n) /\ C(n) \subseteq 1..n
    BY FS_Interval
  <2> QED
    BY <2>1, FS_Subset, FS_CardinalityType
<1>2. n + 1 \notin C(n)
  OBVIOUS
<1>3. C(n + 1) = IF chain[n + 1] = b THEN C(n) \cup {n + 1} ELSE C(n)
  OBVIOUS
<1>4. CallsUntil(b, n) = Cardinality(C(n)) /\ CallsUntil(b, n + 1) = Cardinality(C(n + 1))
  BY DEF CallsUntil
<1> HIDE DEF C
<1>5. CASE chain[n + 1] = b
  BY <1>1, <1>2, <1>3, <1>4, <1>5, FS_AddElement
<1>6. CASE chain[n + 1] # b
  BY <1>1, <1>3, <1>4, <1>6
<1> QED
  BY <1>5, <1>6

LEMMA NoCallsYet == \A b : CallsUntil(b, 0) = 0
<1>1. \A b : {i \in 1..0 : chain[i] = b} = {}
  OBVIOUS
<1> QED
  BY <1>1, FS_EmptySet DEF CallsUntil

-----------------------------------------------------------------------------
(* Types *)

LEMMA Initially == Init => IInv
<1> SUFFICES ASSUME Init PROVE IInv
  OBVIOUS
<1>1. TypeOK
  <2>1. ChainTypes
    BY ChainType DEF Init, ChainTypes
  <2>2. PhaseTypes
    BY DEF Init, PhaseTypes, Phases, Chunk, Nothing
  <2>3. ChunkTypes
    BY DEF Init, ChunkTypes
  <2>4. CountTypes
    BY DEF Init, CountTypes, Zero
  <2> QED
    BY <2>1, <2>2, <2>3, <2>4 DEF TypeOK
<1>2. HeldBack /\ WholeAnswers /\ Fallback /\ Whole /\ Cached
  BY StreamAssumption DEF Init, HeldBack, WholeAnswers, Fallback, Whole, Cached,
     OnFallback, Streaming, Nothing
<1>3. Unseen /\ Pushed /\ Told
  BY DEF Init, Unseen, Pushed, Told, Nothing
<1>4. Settling
  <2>1. JudgedCalls = 0 /\ pc = "start" /\ depth = Zero /\ ok = Zero /\ bad = Zero
    BY DEF Init, JudgedCalls, Judged
  <2> QED
    BY <2>1, NoCallsYet DEF Settling, Zero
<1> QED
  BY <1>1, <1>2, <1>3, <1>4 DEF IInv

\* The current call's place in the chain.
LEMMA Position ==
    ASSUME TypeOK
    PROVE  /\ Current \in Backends /\ step \in Nat \ {0} /\ Len(chain) \in Nat
           /\ ~AtLast => step + 1 \in 1..Len(chain)
           /\ got \in Nat
BY DEF TypeOK, ChainTypes, PhaseTypes, Current, AtLast

\* A next call is begun only if there is one.
LEMMA StartsInChain ==
    ASSUME Next, pc' = "start"
    PROVE  ~AtLast
BY DEF Next, Start, Pass, Hold, Receive, EndOfStream, StreamFails, FailOver,
       FallbackBreaks, GiveUp, Judge, JudgeSpeculative, JudgeCascade, Flush, Push,
       Emptied, Succeed, Check, Store, Share, PublishEnd, Leave, Disconnect

LEMMA ChainTypesStep ==
    ASSUME TypeOK, Next
    PROVE  ChainTypes'
<1>1. UNCHANGED <<kind, chain>> /\ step' = IF pc' = "start" THEN step + 1 ELSE step
  BY DEF Next
<1>2. pc' = "start" => step + 1 \in 1..Len(chain)
  BY StartsInChain, Position
<1> QED
  BY <1>1, <1>2 DEF TypeOK, ChainTypes

LEMMA PhaseTypesStep ==
    ASSUME TypeOK, Next
    PROVE  PhaseTypes'
<1>0. step \in Nat /\ got \in Nat
  BY Position
<1>1. PhaseTypes
  BY DEF TypeOK
<1> USE DEF PhaseTypes, Phases, Ended, FailOver, Emptied
<1>2. CASE Start
  BY <1>1, <1>2 DEF Start
<1>7. CASE Pass
  BY <1>0, <1>1, <1>7 DEF Pass, Receive
<1>8. CASE Hold
  BY <1>0, <1>1, <1>8 DEF Hold, Receive
<1>9. CASE EndOfStream
  BY <1>1, <1>9 DEF EndOfStream
<1>3. CASE StreamFails \/ FallbackBreaks \/ GiveUp \/ Flush \/ Push
  BY <1>0, <1>1, <1>3 DEF StreamFails, FallbackBreaks, GiveUp, Flush, Push
<1>4. CASE Judge
  BY <1>0, <1>1, <1>4 DEF Judge, JudgeSpeculative, JudgeCascade
<1>5. CASE Store
  BY <1>0, <1>1, <1>5 DEF Store, Chunk
<1>6. CASE Succeed \/ Check \/ Share \/ PublishEnd \/ Leave \/ Disconnect
  BY <1>1, <1>6 DEF Succeed, Check, Share, PublishEnd, Leave, Disconnect
<1> QED
  BY <1>2, <1>3, <1>4, <1>5, <1>6, <1>7, <1>8, <1>9 DEF Next

\* The actions that move chunks; the others leave them where they are.
Loud == Start \/ Pass \/ Hold \/ Flush \/ Push \/ Share

LEMMA QuietSteps ==
    ASSUME Next
    PROVE  Loud \/ UNCHANGED <<got, held, sent, shared>>
BY DEF Next, Loud, EndOfStream, StreamFails, FallbackBreaks, GiveUp, Judge, Succeed, Check,
       Store, PublishEnd, Leave, Disconnect

LEMMA ChunkTypesStep ==
    ASSUME TypeOK, Pushed, Next
    PROVE  ChunkTypes'
<1>0. /\ step \in Nat /\ got \in Nat
      /\ held \in Seq(Chunk) /\ sent \in Seq(Chunk) /\ shared \in Seq(Chunk)
  BY Position DEF TypeOK, ChunkTypes
<1>1. CASE UNCHANGED <<held, sent, shared>>
  BY <1>0, <1>1 DEF ChunkTypes
<1>2. CASE Start
  BY <1>0, <1>2 DEF Start, ChunkTypes
<1>3. CASE Pass \/ Hold
  <2>1. <<step, got'>> \in Chunk
    BY <1>0, <1>3 DEF Pass, Hold, Receive, Chunk
  <2>2. CASE Pass
    <3>1. held' = held /\ shared' = shared /\ sent' = Append(sent, <<step, got'>>)
      BY <2>2 DEF Pass
    <3> QED
      BY <1>0, <2>1, <3>1, AppendProperties DEF ChunkTypes
  <2>3. CASE Hold
    <3>1. held' = Append(held, <<step, got'>>) /\ shared' = shared /\ sent' = sent
      BY <2>3 DEF Hold
    <3> QED
      BY <1>0, <2>1, <3>1, AppendProperties DEF ChunkTypes
  <2> QED
    BY <1>3, <2>2, <2>3
<1>4. CASE Flush
  <2>1. CASE held = <<>>
    BY <1>1, <1>4, <2>1 DEF Flush
  <2>2. CASE held # <<>>
    <3>1. sent' = Append(sent, Head(held)) /\ held' = Tail(held) /\ shared' = shared
      BY <1>4, <2>2 DEF Flush
    <3>2. Head(held) \in Chunk /\ Tail(held) \in Seq(Chunk)
      BY <1>0, <2>2, HeadTailProperties
    <3> QED
      BY <1>0, <3>1, <3>2, AppendProperties DEF ChunkTypes
  <2> QED
    BY <2>1, <2>2
<1>5. CASE Push
  <2>1. Last(sent) \in Chunk
    BY <1>0, <1>5 DEF Push, Pushed, OneBehind, Last
  <2>2. shared' = Append(shared, Last(sent)) /\ held' = held /\ sent' = sent
    BY <1>5 DEF Push
  <2> QED
    BY <1>0, <2>1, <2>2, AppendProperties DEF ChunkTypes
<1>6. CASE Share
  <2>1. sent' = Append(sent, Stats) /\ held' = held /\ shared' = shared
    BY <1>6 DEF Share
  <2>2. Stats \in Chunk
    BY DEF Stats, Chunk
  <2> QED
    BY <1>0, <2>1, <2>2, AppendProperties DEF ChunkTypes
<1> QED
  BY <1>1, <1>2, <1>3, <1>4, <1>5, <1>6, QuietSteps DEF Loud

LEMMA CountTypesStep ==
    ASSUME TypeOK, Next
    PROVE  CountTypes'
<1>0. Current \in Backends
  BY Position
<1> USE DEF TypeOK, CountTypes, Up, Down
<1>1. CASE Start \/ StreamFails
  BY <1>0, <1>1 DEF Start, StreamFails
<1>2. CASE Judge
  BY <1>0, <1>2 DEF Judge, JudgeSpeculative, JudgeCascade
<1>3. CASE Succeed \/ Leave
  BY <1>0, <1>3 DEF Succeed, Leave
<1>4. CASE Pass \/ Hold \/ EndOfStream \/ FallbackBreaks \/ GiveUp \/ Flush \/ Push
  BY <1>4 DEF Pass, Hold, EndOfStream, FallbackBreaks, GiveUp, Flush, Push
<1>5. CASE Check \/ Store \/ Share \/ PublishEnd \/ Disconnect
  BY <1>5 DEF Check, Store, Share, PublishEnd, Disconnect
<1> QED
  BY <1>1, <1>2, <1>3, <1>4, <1>5 DEF Next

LEMMA TypeStep ==
    ASSUME TypeOK, Pushed, Next
    PROVE  TypeOK'
BY ChainTypesStep, PhaseTypesStep, ChunkTypesStep, CountTypesStep DEF TypeOK

-----------------------------------------------------------------------------
(* Where chunks are *)

\* What a step does to where the generator is.
LEMMA Moves ==
    ASSUME TypeOK, Next
    PROVE  /\ kind' = kind /\ chain' = chain
           /\ pc' = "start" => step' = step + 1
           /\ pc' # "start" => step' = step
           /\ step \in Nat \ {0}
           /\ ~OnFallback /\ kind # "cascade" => step = 1
BY Position DEF Next, TypeOK, ChainTypes, OnFallback

\* Only the statistics, behind a cached answer, end the stream.
LEMMA StatsEnd ==
    ASSUME IInv, pc = "push"
    PROVE  Last(sent) = Stats <=> cached # Nothing
<1>0. sent \in Seq(Chunk) /\ step \in Nat /\ got \in Nat /\ sent # <<>>
  BY Position DEF IInv, TypeOK, ChunkTypes, Pushed, OneBehind
<1>1. CASE cached # Nothing
  <2>1. sent = Append(Answer(step, got), Stats)
    BY <1>1 DEF IInv, Cached
  <2>2. Answer(step, got) \in Seq(Chunk) /\ Stats \in Chunk
    BY <1>0, AnswerProperties DEF Stats, Chunk
  <2>3. Last(sent) = Stats
    BY <2>1, <2>2, AppendProperties DEF Last
  <2> QED
    BY <1>1, <2>3
<1>2. CASE cached = Nothing
  <2>1. Len(sent) \in 1..Len(sent)
    BY <1>0, EmptySeq
  <2>2. sent[Len(sent)][1] # 0
    BY <1>2, <2>1 DEF IInv, Unseen
  <2> QED
    BY <1>2, <2>2 DEF Last, Stats
<1> QED
  BY <1>1, <1>2

\* Chunks are held back and let go as HeldBack says.
LEMMA HeldBackStep ==
    ASSUME IInv, Next
    PROVE  HeldBack'
<1>0. /\ held \in Seq(Chunk) /\ Len(held) \in Nat /\ HoldLimit \in Nat \ {0}
      /\ Len(<<>>) = 0
  BY StreamAssumption DEF IInv, TypeOK, ChunkTypes
<1>1. /\ kind' = kind /\ step \in Nat \ {0}
      /\ pc' = "start" => step' = step + 1
      /\ pc' # "start" => step' = step
      /\ ~OnFallback /\ kind # "cascade" => step = 1
  BY Moves DEF IInv
<1>2. HeldBack
  BY DEF IInv
<1> USE DEF HeldBack, OnFallback, Holding
<1>3. CASE Start
  BY <1>0, <1>1, <1>2, <1>3 DEF Start
<1>4. CASE Pass
  BY <1>1, <1>2, <1>4 DEF Pass
<1>5. CASE Hold
  <2>1. Len(held') = Len(held) + 1
    BY <1>0, <1>5 DEF Hold
  <2> QED
    BY <1>0, <1>1, <1>2, <1>5, <2>1 DEF Hold, Receive
<1>6. CASE EndOfStream
  BY <1>1, <1>2, <1>6 DEF EndOfStream
<1>7. CASE StreamFails
  BY <1>1, <1>2, <1>7 DEF StreamFails, FailOver
<1>8. CASE Judge
  BY <1>1, <1>2, <1>8 DEF Judge, JudgeSpeculative, JudgeCascade, FailOver
<1>9. CASE Flush
  <2>1. CASE held = <<>>
    BY <1>0, <1>1, <1>2, <1>9, <2>1 DEF IInv, WholeAnswers, Flush, Emptied
  <2>2. CASE held # <<>>
    <3>1. held' = Tail(held) /\ Len(held') <= Len(held) /\ pc' = "push"
      BY <1>0, <1>9, <2>2, HeadTailProperties DEF Flush
    <3> QED
      BY <1>0, <1>1, <1>2, <3>1
  <2> QED
    BY <2>1, <2>2
<1>10. CASE Push
  <2>1. pc = "push" /\ UNCHANGED <<held, sent>>
        /\ pc' = IF Last(sent) = Stats THEN "end" ELSE IF held # <<>> THEN "flush" ELSE Emptied
    BY <1>10 DEF Push
  <2>2. CASE Last(sent) = Stats
    <3>1. held = <<>>
      BY <2>1, <2>2, StatsEnd DEF IInv, Cached
    <3> QED
      BY <1>0, <1>1, <1>2, <2>1, <2>2, <3>1
  <2>3. CASE Last(sent) # Stats
    BY <1>0, <1>1, <1>2, <2>1, <2>3 DEF IInv, WholeAnswers, Emptied
  <2> QED
    BY <2>2, <2>3
<1>11. CASE FallbackBreaks \/ GiveUp \/ Succeed \/ Check \/ Store
  BY <1>1, <1>2, <1>11 DEF FallbackBreaks, GiveUp, Succeed, Check, Store
<1>12. CASE Share \/ PublishEnd \/ Leave \/ Disconnect
  BY <1>1, <1>2, <1>12 DEF Share, PublishEnd, Leave, Disconnect
<1> QED
  BY <1>3, <1>4, <1>5, <1>6, <1>7, <1>8, <1>9, <1>10, <1>11, <1>12 DEF Next

LEMMA WholeAnswersStep ==
    ASSUME IInv, Next
    PROVE  WholeAnswers'
<1>1. kind' = kind /\ WholeAnswers
  BY Moves DEF IInv
<1> USE <1>1 DEF WholeAnswers
<1>2. CASE Start \/ Pass \/ Hold \/ EndOfStream \/ StreamFails \/ FallbackBreaks \/ GiveUp
  BY <1>2 DEF Start, Pass, Hold, Holding, EndOfStream, StreamFails, FailOver, FallbackBreaks,
     GiveUp
<1>3. CASE Judge
  BY <1>3 DEF Judge, JudgeSpeculative, JudgeCascade, FailOver
<1>4. CASE Flush \/ Push
  BY <1>4 DEF Flush, Push, Emptied
<1>6. CASE Succeed \/ Check \/ Store \/ Share \/ PublishEnd \/ Leave \/ Disconnect
  BY <1>6 DEF Succeed, Check, Store, Share, PublishEnd, Leave, Disconnect
<1> QED
  BY <1>2, <1>3, <1>4, <1>6 DEF Next

LEMMA FallbackStep ==
    ASSUME IInv, Next
    PROVE  Fallback'
<1>1. /\ kind' = kind
      /\ pc' = "start" => step' = step + 1
      /\ pc' # "start" => step' = step
  BY Moves DEF IInv
<1>2. Fallback
  BY DEF IInv
<1>3. pc \in {"start", "recv", "judge"} => cached = Nothing
  BY DEF IInv, Cached
<1> USE DEF Fallback, OnFallback
<1>4. CASE Start \/ Pass \/ Hold \/ EndOfStream
  BY <1>1, <1>2, <1>4 DEF Start, Pass, Hold, Holding, Receive, EndOfStream
<1>5. CASE StreamFails \/ FallbackBreaks \/ GiveUp
  BY <1>1, <1>2, <1>3, <1>5 DEF StreamFails, FailOver, FallbackBreaks, GiveUp
<1>6. CASE Judge
  BY <1>1, <1>2, <1>3, <1>6 DEF Judge, JudgeSpeculative, JudgeCascade, FailOver
<1>7. CASE Flush
  BY <1>1, <1>2, <1>7 DEF Flush, Emptied
<1>8. CASE Push
  <2>1. OnFallback => Last(sent) # Stats
    BY <1>2, <1>8, StatsEnd DEF Push
  <2> QED
    BY <1>1, <1>2, <1>8, <2>1 DEF Push, Emptied
<1>9. CASE Succeed \/ Check \/ Store \/ Share \/ PublishEnd \/ Leave \/ Disconnect
  BY <1>1, <1>2, <1>9 DEF Succeed, Check, Store, Share, PublishEnd, Leave, Disconnect
<1> QED
  BY <1>4, <1>5, <1>6, <1>7, <1>8, <1>9 DEF Next

\* Whole, for a chunk appended to what was sent.
LEMMA SentGrows ==
    ASSUME NEW c \in Nat, NEW s \in Seq(Chunk), \A i \in 1..Len(s) : s[i] = <<c, i>>
    PROVE  LET t == Append(s, <<c, Len(s) + 1>>)
           IN  Len(t) = Len(s) + 1 /\ \A i \in 1..Len(t) : t[i] = <<c, i>>
<1> DEFINE x == <<c, Len(s) + 1>>
<1>1. x \in Chunk /\ Len(s) \in Nat
  BY DEF Chunk
<1>2. /\ Len(Append(s, x)) = Len(s) + 1
      /\ \A i \in 1..Len(s) : Append(s, x)[i] = s[i]
      /\ Append(s, x)[Len(s) + 1] = x
  BY <1>1, AppendProperties
<1> QED
  BY <1>1, <1>2

LEMMA WholeStep ==
    ASSUME IInv, Next
    PROVE  Whole'
<1>0. /\ held \in Seq(Chunk) /\ Len(held) \in Nat /\ sent \in Seq(Chunk) /\ Len(sent) \in Nat
      /\ Len(<<>>) = 0 /\ got \in Nat
  BY Position DEF IInv, TypeOK, ChunkTypes
<1>1. /\ kind' = kind /\ step \in Nat \ {0}
      /\ pc' # "start" => step' = step
  BY Moves DEF IInv
<1>2. SUFFICES ASSUME cached' = Nothing, ~OnFallback', pc' \in Streaming
               PROVE  /\ got' = Len(sent') + Len(held')
                      /\ \A i \in 1..Len(sent') : sent'[i] = <<step', i>>
                      /\ \A i \in 1..Len(held') : held'[i] = <<step', Len(sent') + i>>
  BY DEF Whole
<1>3. step' = step /\ ~OnFallback
  BY <1>1, <1>2 DEF Streaming, OnFallback
<1>4. ASSUME pc \in Streaming, cached = Nothing
      PROVE  /\ got = Len(sent) + Len(held)
             /\ \A i \in 1..Len(sent) : sent[i] = <<step, i>>
             /\ \A i \in 1..Len(held) : held[i] = <<step, Len(sent) + i>>
  BY <1>3, <1>4 DEF IInv, Whole
<1>5. CASE Start
  <2>1. sent' = <<>> /\ held' = <<>> /\ got' = 0
    BY <1>3, <1>5 DEF IInv, HeldBack, Start
  <2> QED
    BY <1>0, <2>1
<1>6. CASE Pass
  <2>1. /\ pc \in Streaming /\ cached = Nothing /\ got' = got + 1 /\ held' = held
        /\ sent' = Append(sent, <<step, got'>>)
    BY <1>2, <1>6 DEF Pass, Receive, Streaming
  <2>2. held = <<>>
    BY <1>6 DEF IInv, HeldBack, Pass, Receive
  <2>3. sent' = Append(sent, <<step, Len(sent) + 1>>)
    BY <1>0, <1>4, <2>1, <2>2
  <2>4. Len(sent') = Len(sent) + 1 /\ \A i \in 1..Len(sent') : sent'[i] = <<step, i>>
    BY <1>0, <1>1, <1>4, <2>1, <2>3, SentGrows
  <2> QED
    BY <1>0, <1>3, <1>4, <2>1, <2>2, <2>4
<1>7. CASE Hold
  <2>1. /\ pc \in Streaming /\ cached = Nothing /\ got' = got + 1 /\ sent' = sent
        /\ held' = Append(held, <<step, got'>>)
    BY <1>2, <1>7 DEF Hold, Receive, Streaming
  <2>2. <<step, got'>> \in Chunk
    BY <1>0, <1>1, <2>1 DEF Chunk
  <2>3. /\ Len(held') = Len(held) + 1
        /\ \A i \in 1..Len(held) : held'[i] = held[i]
        /\ held'[Len(held) + 1] = <<step, got'>>
    BY <1>0, <2>1, <2>2, AppendProperties
  <2>4. /\ got = Len(sent) + Len(held)
        /\ \A i \in 1..Len(sent) : sent[i] = <<step, i>>
        /\ \A i \in 1..Len(held) : held[i] = <<step, Len(sent) + i>>
    BY <1>4, <2>1
  <2>5. ASSUME NEW i \in 1..Len(held')
        PROVE  held'[i] = <<step, Len(sent) + i>>
    <3>1. CASE i = Len(held) + 1
      <4>1. got' = Len(sent) + i
        BY <1>0, <2>1, <2>4, <3>1
      <4> QED
        BY <2>3, <3>1, <4>1
    <3>2. CASE i # Len(held) + 1
      <4>1. i \in 1..Len(held)
        BY <1>0, <2>3, <3>2
      <4> QED
        BY <2>3, <2>4, <4>1
    <3> QED
      BY <3>1, <3>2
  <2>6. got' = Len(sent') + Len(held')
    BY <1>0, <2>1, <2>3, <2>4
  <2> QED
    BY <1>3, <2>1, <2>4, <2>5, <2>6
<1>8. CASE Flush
  <2>1. pc \in Streaming /\ cached = Nothing /\ got' = got
    BY <1>2, <1>8 DEF Flush, Streaming
  <2>2. CASE held = <<>>
    BY <1>3, <1>4, <1>8, <2>1, <2>2 DEF Flush
  <2>3. CASE held # <<>>
    <3>1. sent' = Append(sent, Head(held)) /\ held' = Tail(held)
      BY <1>8, <2>3 DEF Flush
    <3>2. Len(held) \in Nat \ {0} /\ Head(held) = held[1]
      BY <1>0, <2>3, EmptySeq
    <3>3. Len(held') = Len(held) - 1 /\ \A i \in 1..Len(held') : held'[i] = held[i + 1]
      BY <1>0, <2>3, <3>1, HeadTailProperties
    <3>4. sent' = Append(sent, <<step, Len(sent) + 1>>)
      BY <1>0, <1>4, <2>1, <3>1, <3>2
    <3>5. Len(sent') = Len(sent) + 1 /\ \A i \in 1..Len(sent') : sent'[i] = <<step, i>>
      BY <1>0, <1>1, <1>4, <2>1, <3>4, SentGrows
    <3>6. got' = Len(sent') + Len(held')
      BY <1>0, <1>4, <2>1, <3>2, <3>3, <3>5
    <3>7. \A i \in 1..Len(held') : held'[i] = <<step, Len(sent') + i>>
      BY <1>0, <1>4, <2>1, <3>2, <3>3, <3>5
    <3> QED
      BY <1>3, <3>5, <3>6, <3>7
  <2> QED
    BY <2>2, <2>3
<1>9. CASE Push
  BY <1>2, <1>3, <1>4, <1>9 DEF Push, Streaming
<1>10. CASE Share
  BY <1>2, <1>10 DEF Share, IInv, Cached
<1>11. CASE EndOfStream \/ Succeed \/ Judge
  BY <1>2, <1>3, <1>4, <1>11 DEF EndOfStream, Succeed, Judge, Streaming
<1>12. CASE StreamFails \/ FallbackBreaks \/ GiveUp \/ Store \/ PublishEnd \/ Leave \/ Disconnect
  BY <1>2, <1>12 DEF StreamFails, FailOver, FallbackBreaks, GiveUp, Store, PublishEnd, Leave,
     Disconnect, Streaming
<1>13. CASE Check
  BY <1>2, <1>3, <1>4, <1>13 DEF Check, Streaming
<1> QED
  BY <1>5, <1>6, <1>7, <1>8, <1>9, <1>10, <1>11, <1>12, <1>13 DEF Next

\* What is stored is what was sent.
LEMMA StoredIsSent ==
    ASSUME IInv, pc = "store"
    PROVE  sent = Answer(step, got)
<1>1. sent \in Seq(Chunk) /\ Len(sent) \in Nat /\ step \in Nat /\ Len(<<>>) = 0
  BY Position DEF IInv, TypeOK, ChunkTypes
<1>2. cached = Nothing /\ ~OnFallback /\ held = <<>>
  BY DEF IInv, Cached, Fallback, HeldBack
<1>3. got = Len(sent) /\ \A i \in 1..Len(sent) : sent[i] = <<step, i>>
  BY <1>1, <1>2 DEF IInv, Whole, Streaming
<1> QED
  BY <1>1, <1>3, InOrderIsAnswer

LEMMA CachedStep ==
    ASSUME IInv, Next
    PROVE  Cached'
<1>1. /\ kind' = kind /\ step \in Nat \ {0} /\ got \in Nat
      /\ pc' # "start" => step' = step
  BY Moves, Position DEF IInv
<1>2. Cached
  BY DEF IInv
<1> USE DEF Cached
<1>3. CASE Start \/ Pass \/ Hold \/ EndOfStream
  BY <1>2, <1>3 DEF Start, Pass, Hold, Receive, EndOfStream
<1>4. CASE StreamFails \/ FallbackBreaks \/ GiveUp
  BY <1>1, <1>2, <1>4 DEF StreamFails, FailOver, FallbackBreaks, GiveUp
<1>5. CASE Judge
  BY <1>2, <1>5 DEF Judge, JudgeSpeculative, JudgeCascade, FailOver
<1>6. CASE Flush
  BY <1>2, <1>6 DEF Flush, Emptied
<1>7. CASE Push
  <2>1. Last(sent) = Stats <=> cached # Nothing
    BY <1>7, StatsEnd DEF Push
  <2> QED
    BY <1>1, <1>2, <1>7, <2>1 DEF Push, Emptied
<1>8. CASE Store
  <2>1. sent = Answer(step, got) /\ held = <<>>
    BY <1>8, StoredIsSent DEF Store, IInv, HeldBack
  <2>2. <<step, got>> # Nothing
    BY <1>1 DEF Nothing
  <2> QED
    BY <1>1, <1>8, <2>1, <2>2 DEF Store
<1>9. CASE Share
  BY <1>1, <1>2, <1>9 DEF Share
<1>10. CASE Succeed \/ Check \/ PublishEnd \/ Leave
  BY <1>1, <1>2, <1>10 DEF Succeed, Check, PublishEnd, Leave
<1>11. CASE Disconnect
  BY <1>1, <1>2, <1>11 DEF Disconnect, Ended
<1> QED
  BY <1>3, <1>4, <1>5, <1>6, <1>7, <1>8, <1>9, <1>10, <1>11 DEF Next

-----------------------------------------------------------------------------
(* What is rejected, who hears of it, and what is counted *)

LEMMA UnseenStep ==
    ASSUME IInv, Next
    PROVE  Unseen'
<1>0. sent \in Seq(Chunk) /\ held \in Seq(Chunk) /\ Len(sent) \in Nat /\ Len(<<>>) = 0
      /\ got \in Nat
  BY Position DEF IInv, TypeOK, ChunkTypes
<1>1. /\ kind' = kind /\ step \in Nat \ {0}
      /\ pc' = "start" => step' = step + 1
      /\ pc' # "start" => step' = step
  BY Moves DEF IInv
<1>2. /\ rejected \subseteq 1..step
      /\ pc \notin {"fail", "closed", "gone"} => step \notin rejected
      /\ \A i \in 1..Len(sent) : /\ sent[i][1] \in 0..step
                                 /\ sent[i][1] \notin rejected
                                 /\ cached = Nothing => sent[i][1] # 0
  BY DEF IInv, Unseen
\* A chunk of the current call, or the statistics, was not rejected.
<1>3. ASSUME NEW x \in Chunk, sent' = Append(sent, x),
             x[1] \in 0..step, x[1] \notin rejected, cached' = Nothing => x[1] # 0,
             UNCHANGED <<rejected, cached>>, pc' = "push",
             pc \notin {"fail", "closed", "gone"}
      PROVE  Unseen'
  <2>1. /\ Len(sent') = Len(sent) + 1
        /\ \A i \in 1..Len(sent) : sent'[i] = sent[i]
        /\ sent'[Len(sent) + 1] = x
    BY <1>0, <1>3, AppendProperties
  <2>2. ASSUME NEW i \in 1..Len(sent')
        PROVE  /\ sent'[i][1] \in 0..step
               /\ sent'[i][1] \notin rejected
               /\ cached' = Nothing => sent'[i][1] # 0
    <3>1. CASE i = Len(sent) + 1
      BY <1>3, <2>1, <3>1
    <3>2. CASE i # Len(sent) + 1
      <4>1. i \in 1..Len(sent)
        BY <1>0, <2>1, <3>2
      <4> QED
        BY <1>2, <1>3, <2>1, <4>1
    <3> QED
      BY <3>1, <3>2
  <2>3. step' = step
    BY <1>1, <1>3
  <2>4. rejected' \subseteq 1..step' /\ step' \notin rejected'
    BY <1>2, <1>3, <2>3
  <2>5. \A i \in 1..Len(sent') : /\ sent'[i][1] \in 0..step'
                                 /\ sent'[i][1] \notin rejected'
                                 /\ cached' = Nothing => sent'[i][1] # 0
    BY <1>3, <2>2, <2>3
  <2> QED
    BY <2>4, <2>5 DEF Unseen
\* Nothing is sent and nothing is rejected.
<1>4. ASSUME UNCHANGED <<sent, rejected>>, cached' = Nothing => cached = Nothing,
             pc' \notin {"fail", "closed", "gone"} => pc \notin {"fail", "closed", "gone"}
      PROVE  Unseen'
  <2>1. rejected' \subseteq 1..step' /\ step' \in {step, step + 1}
    BY <1>1, <1>2, <1>4
  <2>2. pc' \notin {"fail", "closed", "gone"} => step' \notin rejected'
    BY <1>1, <1>2, <1>4
  <2>3. \A i \in 1..Len(sent) : /\ sent[i][1] \in 0..step'
                                /\ sent[i][1] \notin rejected'
                                /\ cached' = Nothing => sent[i][1] # 0
    BY <1>1, <1>2, <1>4, <2>1
  <2> QED
    BY <1>4, <2>1, <2>2, <2>3 DEF Unseen
<1>5. CASE Start \/ Hold \/ EndOfStream \/ StreamFails \/ FallbackBreaks \/ GiveUp
  BY <1>4, <1>5 DEF Start, Hold, Receive, EndOfStream, StreamFails, FailOver, FallbackBreaks, GiveUp
<1>6. CASE Pass
  <2>1. <<step, got'>> \in Chunk
    BY <1>0, <1>1, <1>6 DEF Pass, Receive, Chunk
  <2> QED
    BY <1>1, <1>2, <1>3, <1>6, <2>1 DEF Pass, Receive
<1>7. CASE Judge
  <2>1. /\ sent' = sent /\ sent = <<>> /\ rejected' \in {rejected, rejected \cup {step}}
        /\ pc = "judge" /\ pc' \in {"flush", "start", "fail"}
        /\ pc' = "flush" => rejected' = rejected
    BY <1>7 DEF Judge, JudgeSpeculative, JudgeCascade, FailOver, IInv, HeldBack
  <2>2. step' \in {step, step + 1} /\ (pc' # "start" => step' = step)
        /\ (pc' = "start" => step' = step + 1)
    BY <1>1
  <2>3. rejected' \subseteq 1..step' /\ (pc' # "fail" => step' \notin rejected')
    BY <1>1, <1>2, <2>1, <2>2
  <2>4. Len(sent') = 0
    BY <1>0, <2>1
  <2> QED
    BY <2>1, <2>3, <2>4 DEF Unseen
<1>8. CASE Flush
  <2>1. CASE held = <<>>
    BY <1>4, <1>8, <2>1 DEF Flush, Emptied
  <2>2. CASE held # <<>>
    <3>1. Head(held) \in Chunk /\ Head(held) = held[1] /\ Len(held) \in Nat \ {0}
      BY <1>0, <2>2, HeadTailProperties, EmptySeq
    <3>2. held[1] = <<step, Len(sent) + 1>>
      BY <1>0, <1>8, <3>1 DEF Flush, IInv, Whole, Cached, Fallback, Streaming
    <3>3. sent' = Append(sent, Head(held)) /\ pc' = "push" /\ UNCHANGED <<rejected, cached>>
          /\ pc = "flush"
      BY <1>8, <2>2 DEF Flush
    <3>4. Head(held)[1] = step
      BY <3>1, <3>2
    <3> QED
      BY <1>1, <1>2, <1>3, <3>1, <3>3, <3>4
  <2> QED
    BY <2>1, <2>2
<1>9. CASE Push
  BY <1>4, <1>9 DEF Push, Emptied
<1>10. CASE Share
  <2>1. Stats \in Chunk /\ Stats[1] = 0 /\ 0 \notin rejected
    BY <1>1, <1>2 DEF Stats, Chunk
  <2>2. cached # Nothing
    BY <1>10 DEF Share, IInv, Cached
  <2> QED
    BY <1>1, <1>3, <1>10, <2>1, <2>2 DEF Share
<1>11. CASE Store
  <2>1. cached = Nothing
    BY <1>11 DEF Store, IInv, Cached
  <2> QED
    BY <1>4, <1>11, <2>1 DEF Store
<1>12. CASE Succeed \/ Check \/ PublishEnd \/ Leave \/ Disconnect
  BY <1>4, <1>12 DEF Succeed, Check, PublishEnd, Leave, Disconnect
<1> QED
  BY <1>5, <1>6, <1>7, <1>8, <1>9, <1>10, <1>11, <1>12 DEF Next

LEMMA PushedStep ==
    ASSUME IInv, Next
    PROVE  Pushed'
<1>0. sent \in Seq(Chunk) /\ held \in Seq(Chunk) /\ shared \in Seq(Chunk) /\ got \in Nat
      /\ step \in Nat
  BY Position DEF IInv, TypeOK, ChunkTypes
<1>1. /\ pc = "push" => OneBehind
      /\ pc = "gone" => sent = shared \/ OneBehind
      /\ pc \notin {"push", "gone"} => sent = shared
  BY DEF IInv, Pushed
<1>2. ASSUME NEW x \in Chunk, sent' = Append(sent, x), shared' = shared, sent = shared,
             pc' = "push"
      PROVE  Pushed'
  <2>1. sent' # <<>> /\ sent'[Len(sent')] = x /\ sent' = Append(shared', x)
    BY <1>0, <1>2, AppendProperties
  <2> QED
    BY <1>2, <2>1 DEF Pushed, OneBehind
<1>3. ASSUME UNCHANGED <<sent, shared>>, sent = shared, pc' # "push"
      PROVE  Pushed'
  BY <1>3 DEF Pushed
<1>4. CASE Start \/ Hold \/ EndOfStream \/ StreamFails \/ FallbackBreaks \/ GiveUp
  BY <1>1, <1>3, <1>4 DEF Start, Hold, Receive, EndOfStream, StreamFails, FailOver,
     FallbackBreaks, GiveUp
<1>5. CASE Pass
  <2>1. <<step, got'>> \in Chunk
    BY <1>0, <1>5 DEF Pass, Receive, Chunk
  <2> QED
    BY <1>1, <1>2, <1>5, <2>1 DEF Pass, Receive
<1>6. CASE Judge
  BY <1>1, <1>3, <1>6 DEF Judge, JudgeSpeculative, JudgeCascade, FailOver
<1>7. CASE Flush
  <2>1. CASE held = <<>>
    BY <1>1, <1>3, <1>7, <2>1 DEF Flush, Emptied
  <2>2. CASE held # <<>>
    <3>1. Head(held) \in Chunk
      BY <1>0, <2>2, HeadTailProperties
    <3> QED
      BY <1>1, <1>2, <1>7, <2>2, <3>1 DEF Flush
  <2> QED
    BY <2>1, <2>2
<1>8. CASE Push
  <2>1. sent = Append(shared, Last(sent))
    BY <1>1, <1>8 DEF Push, OneBehind, Last
  <2> QED
    BY <1>8, <2>1 DEF Push, Pushed, Emptied
<1>9. CASE Share
  <2>1. Stats \in Chunk
    BY DEF Stats, Chunk
  <2> QED
    BY <1>1, <1>2, <1>9, <2>1 DEF Share
<1>10. CASE Succeed \/ Check \/ Store \/ PublishEnd \/ Leave
  BY <1>1, <1>3, <1>10 DEF Succeed, Check, Store, PublishEnd, Leave
<1>11. CASE Disconnect
  BY <1>1, <1>11 DEF Disconnect, Ended, Pushed, OneBehind
<1> QED
  BY <1>4, <1>5, <1>6, <1>7, <1>8, <1>9, <1>10, <1>11 DEF Next

LEMMA ToldStep ==
    ASSUME IInv, Next
    PROVE  Told'
<1>1. kind' = kind
  BY Moves DEF IInv
<1>2. Told /\ Cached /\ told \in {"nothing", "error", "done"}
  BY DEF IInv, TypeOK, PhaseTypes
<1> USE DEF Told
<1>3. CASE Start \/ Pass \/ Hold \/ EndOfStream
  BY <1>1, <1>2, <1>3 DEF Start, Pass, Hold, Receive, EndOfStream
<1>4. CASE StreamFails \/ FallbackBreaks \/ GiveUp
  BY <1>1, <1>2, <1>4 DEF StreamFails, FailOver, FallbackBreaks, GiveUp, Cached
<1>5. CASE Judge
  BY <1>1, <1>2, <1>5 DEF Judge, JudgeSpeculative, JudgeCascade, FailOver, Cached
<1>6. CASE Flush \/ Push
  BY <1>1, <1>2, <1>6 DEF Flush, Push, Emptied
<1>7. CASE PublishEnd
  <2>1. cached # Nothing /\ cached = <<step, got>> /\ sent = Append(Answer(step, got), Stats)
    BY <1>2, <1>7 DEF PublishEnd, Cached
  <2>2. shared = sent
    BY <1>7 DEF PublishEnd, IInv, Pushed
  <2> QED
    BY <1>1, <1>7, <2>1, <2>2 DEF PublishEnd
<1>8. CASE Succeed \/ Check \/ Store \/ Share
  BY <1>1, <1>2, <1>8 DEF Succeed, Check, Store, Share
<1>9. CASE Leave \/ Disconnect
  BY <1>1, <1>2, <1>9 DEF Leave, Disconnect, Ended
<1> QED
  BY <1>3, <1>4, <1>5, <1>6, <1>7, <1>8, <1>9 DEF Next

\* A call that begins and ends leaves the queue as it was.
LEMMA UpAndDown ==
    ASSUME NEW b \in Backends
    PROVE  Down(Up(Zero, b), b) = Zero
BY DEF Down, Up, Zero

\* The breakers hear of no call, and none is over.
LEMMA NoCallJudged ==
    ASSUME Settling, pc \notin {"broken", "gone"}, UNCHANGED <<chain, ok, bad>>,
           JudgedCalls' = JudgedCalls
    PROVE  \A b \in Backends : ok'[b] + bad'[b] = CallsUntil(b, JudgedCalls)'
BY DEF Settling, JudgedCalls, CallsUntil

\* The breaker of the current call hears of it when it is over.
LEMMA OneCallJudged ==
    ASSUME TypeOK, Settling, pc \notin {"broken", "gone"}, chain' = chain,
           \/ ok' = Up(ok, Current) /\ bad' = bad
           \/ bad' = Up(bad, Current) /\ ok' = ok,
           ~Judged, JudgedCalls' = step
    PROVE  \A b \in Backends : ok'[b] + bad'[b] = CallsUntil(b, JudgedCalls)'
<1>1. step - 1 \in Nat /\ (step - 1) + 1 = step /\ Current \in Backends
  BY Position
<1>2. TAKE b \in Backends
<1>3. ok[b] \in Nat /\ bad[b] \in Nat /\ ok[b] + bad[b] = CallsUntil(b, step - 1)
  BY DEF TypeOK, CountTypes, Settling, JudgedCalls
<1>4. ok'[b] + bad'[b] = (ok[b] + bad[b]) + (IF Current = b THEN 1 ELSE 0)
  BY <1>1, <1>3 DEF TypeOK, CountTypes, Up
<1>5. CallsUntil(b, step) = CallsUntil(b, step - 1) + (IF Current = b THEN 1 ELSE 0)
  <2> DEFINE n == step - 1
  <2>1. n \in Nat /\ n + 1 = step
    BY <1>1
  <2> HIDE DEF n
  <2>2. CallsUntil(b, n + 1) = CallsUntil(b, n) + (IF chain[n + 1] = b THEN 1 ELSE 0)
    BY <2>1, CallsUntilNext
  <2> QED
    BY <2>1, <2>2 DEF n, Current
<1>6. CallsUntil(b, JudgedCalls)' = CallsUntil(b, step)
  BY DEF CallsUntil
<1> QED
  BY <1>3, <1>4, <1>5, <1>6

\* Who is counted while a call lasts, and when its outcome is.
LEMMA SettlingStep ==
    ASSUME IInv, Next
    PROVE  Settling'
<1>0. TypeOK /\ Settling /\ Current \in Backends /\ step \in Nat \ {0}
  BY Position DEF IInv
<1>1. /\ kind' = kind /\ chain' = chain
      /\ pc' = "start" => step' = step + 1
      /\ pc' # "start" => step' = step
  BY Moves, <1>0
<1>2. pc' # "start" => Current' = Current
  BY <1>1 DEF Current
<1>3. /\ pc \in {"start", "fail", "closed"} => depth = Zero
      /\ pc \notin {"start", "fail", "closed", "gone"} => depth = Up(Zero, Current)
  BY <1>0 DEF Settling
<1> DEFINE DepthPart == /\ pc \in {"start", "fail", "closed"} => depth = Zero
                        /\ pc \notin {"start", "fail", "closed", "gone"} => depth = Up(Zero, Current)
           CallPart == \A b \in Backends : ok[b] + bad[b] = CallsUntil(b, JudgedCalls)
<1>4. DepthPart' /\ (pc' \notin {"broken", "gone"} => CallPart') => Settling'
  BY DEF Settling
<1>5. Cached /\ WholeAnswers
  BY DEF IInv
<1>6. Down(Up(Zero, Current), Current) = Zero
  BY <1>0, UpAndDown
<1> HIDE DEF DepthPart, CallPart
\* The call goes on: neither its place nor its outcome changes.
<1>7. ASSUME UNCHANGED <<depth, ok, bad>>, Judged' = Judged,
             pc \notin {"start", "fail", "closed", "gone"},
             pc' \notin {"start", "fail", "closed", "gone"},
             pc \notin {"broken", "gone"}
      PROVE  Settling'
  <2>1. DepthPart'
    BY <1>2, <1>3, <1>7 DEF DepthPart
  <2>2. JudgedCalls' = JudgedCalls
    BY <1>1, <1>7 DEF JudgedCalls
  <2>3. CallPart'
    BY <1>0, <1>1, <1>7, <2>2, NoCallJudged DEF CallPart
  <2> QED
    BY <1>4, <2>1, <2>3
<1>8. CASE Start
  <2>1. DepthPart'
    BY <1>2, <1>3, <1>8 DEF Start, DepthPart
  <2>2. JudgedCalls' = JudgedCalls
    BY <1>1, <1>8 DEF Start, JudgedCalls, Judged
  <2>3. CallPart'
    BY <1>0, <1>1, <1>8, <2>2, NoCallJudged DEF Start, CallPart
  <2> QED
    BY <1>4, <2>1, <2>3
<1>9. CASE Pass \/ Hold \/ EndOfStream
  BY <1>1, <1>5, <1>7, <1>9
     DEF Pass, Hold, Receive, Holding, EndOfStream, Judged, Cached
<1>10. CASE StreamFails
  <2>1. depth' = Zero /\ pc' \in {"fail", "start"}
    BY <1>3, <1>6, <1>10 DEF StreamFails, FailOver
  <2>2. ~Judged /\ JudgedCalls' = step
    BY <1>0, <1>1, <1>10, <2>1 DEF StreamFails, FailOver, Judged, JudgedCalls
  <2>3. CallPart'
    BY <1>0, <1>1, <1>10, <2>2, OneCallJudged DEF StreamFails, CallPart
  <2> QED
    BY <1>4, <2>1, <2>3 DEF DepthPart
<1>11. CASE FallbackBreaks
  BY <1>2, <1>3, <1>4, <1>11 DEF FallbackBreaks, DepthPart
<1>12. CASE GiveUp
  <2>1. JudgedCalls' = JudgedCalls
    BY <1>1, <1>12 DEF GiveUp, JudgedCalls, Judged
  <2>2. CallPart'
    BY <1>0, <1>1, <1>12, <2>1, NoCallJudged DEF GiveUp, CallPart
  <2> QED
    BY <1>3, <1>4, <1>12, <2>2 DEF GiveUp, DepthPart
<1>13. ASSUME NEW good \in BOOLEAN, Judge, JudgeSpeculative(good)
       PROVE  Settling'
  <2>1. cached = Nothing /\ cached' = cached /\ pc = "judge" /\ kind = "speculative"
    BY <1>5, <1>13 DEF Judge, JudgeSpeculative, Cached
  <2>2. CASE good
    BY <1>1, <1>7, <1>13, <2>1, <2>2 DEF JudgeSpeculative, Judged
  <2>3. CASE ~good
    <3>1. depth' = Zero /\ pc' \in {"fail", "start"} /\ ok' = ok /\ bad' = Up(bad, Current)
      BY <1>3, <1>6, <1>13, <2>1, <2>3 DEF JudgeSpeculative, FailOver
    <3>2. ~Judged /\ JudgedCalls' = step
      BY <1>0, <1>1, <2>1, <3>1 DEF Judged, JudgedCalls
    <3>3. CallPart'
      BY <1>0, <1>1, <2>1, <3>1, <3>2, OneCallJudged DEF CallPart
    <3> QED
      BY <1>4, <3>1, <3>3 DEF DepthPart
  <2> QED
    BY <2>2, <2>3
<1>14. ASSUME NEW good \in BOOLEAN, Judge, JudgeCascade(good)
       PROVE  Settling'
  <2>1. /\ pc = "judge" /\ kind = "cascade" /\ ok' = Up(ok, Current) /\ bad' = bad
        /\ pc' \in {"flush", "start"}
        /\ pc' = "flush" => depth' = depth
        /\ pc' = "start" => depth' = Down(depth, Current)
    BY <1>14 DEF Judge, JudgeCascade
  <2>2. ~Judged /\ JudgedCalls' = step
    BY <1>0, <1>1, <2>1 DEF Judged, JudgedCalls
  <2>3. CallPart'
    BY <1>0, <1>1, <2>1, <2>2, OneCallJudged DEF CallPart
  <2>4. DepthPart'
    BY <1>2, <1>3, <1>6, <2>1 DEF DepthPart
  <2> QED
    BY <1>4, <2>3, <2>4
<1>15. CASE Flush
  BY <1>1, <1>5, <1>7, <1>15 DEF Flush, Emptied, Judged, Cached, WholeAnswers
<1>16. CASE Push
  <2>1. Last(sent) = Stats <=> cached # Nothing
    BY <1>16, StatsEnd DEF Push
  <2> QED
    BY <1>1, <1>5, <1>7, <1>16, <2>1 DEF Push, Emptied, Judged, Cached, WholeAnswers
<1>17. CASE Succeed
  <2>1. ~Judged /\ JudgedCalls' = step
    BY <1>0, <1>1, <1>17 DEF Succeed, Judged, JudgedCalls
  <2>2. CallPart'
    BY <1>0, <1>1, <1>17, <2>1, OneCallJudged DEF Succeed, CallPart
  <2>3. DepthPart'
    BY <1>2, <1>3, <1>17 DEF Succeed, DepthPart
  <2> QED
    BY <1>4, <2>2, <2>3
<1>18. CASE Check \/ Store \/ Share \/ PublishEnd
  <2>1. CASE pc' = "broken"
    BY <1>2, <1>3, <1>4, <1>18, <2>1 DEF Check, Store, Share, PublishEnd, DepthPart
  <2>2. CASE pc' # "broken"
    BY <1>1, <1>5, <1>7, <1>18, <2>2 DEF Check, Store, Share, PublishEnd, Judged, Cached
  <2> QED
    BY <2>1, <2>2
<1>19. CASE Leave
  <2>1. JudgedCalls' = JudgedCalls
    BY <1>1, <1>19 DEF Leave, JudgedCalls, Judged
  <2>2. CallPart'
    BY <1>0, <1>1, <1>19, <2>1, NoCallJudged DEF Leave, CallPart
  <2> QED
    BY <1>3, <1>4, <1>6, <1>19, <2>2 DEF Leave, DepthPart
<1>20. CASE Disconnect
  BY <1>4, <1>20 DEF Disconnect, DepthPart
<1>21. CASE Judge
  BY <1>13, <1>14, <1>21 DEF Judge
<1> QED
  BY <1>8, <1>9, <1>10, <1>11, <1>12, <1>15, <1>16, <1>17, <1>18, <1>19, <1>20, <1>21 DEF Next

-----------------------------------------------------------------------------
(* The theorems *)

LEMMA StreamInvariant == Spec => []IInv
<1>1. IInv /\ [Next]_vars => IInv'
  <2> SUFFICES ASSUME IInv, [Next]_vars PROVE IInv'
    OBVIOUS
  <2>1. CASE Next
    <3>1. TypeOK'
      BY <2>1, TypeStep DEF IInv
    <3> QED
      BY <2>1, <3>1, HeldBackStep, WholeAnswersStep, FallbackStep, WholeStep, CachedStep,
         UnseenStep, PushedStep, ToldStep, SettlingStep DEF IInv
  <2>2. CASE UNCHANGED vars
    <3>1. UNCHANGED <<OnFallback, Holding, Current, OneBehind, Judged, JudgedCalls>>
      BY <2>2 DEF vars, OnFallback, Holding, Current, OneBehind, Judged, JudgedCalls
    <3>2. TypeOK' /\ HeldBack' /\ WholeAnswers' /\ Fallback'
      BY <2>2, <3>1 DEF vars, IInv, TypeOK, ChainTypes, PhaseTypes, ChunkTypes, CountTypes,
         HeldBack, WholeAnswers, Fallback
    <3>3. Whole' /\ Cached' /\ Unseen'
      BY <2>2, <3>1 DEF vars, IInv, Whole, Cached, Unseen
    <3>4. Pushed' /\ Told' /\ Settling'
      BY <2>2, <3>1 DEF vars, IInv, Pushed, Told, Settling, CallsUntil
    <3> QED
      BY <3>2, <3>3, <3>4 DEF IInv
  <2> QED
    BY <2>1, <2>2
<1> QED
  BY <1>1, Initially, PTL DEF Spec

\* For any chain and any stream the requests that joined it have got the
\* client's chunks in the client's order, all but the one being pushed.
THEOREM JoinedFollowClient == Spec => []SharedFollowsClient
<1>1. IInv => SharedFollowsClient
  <2> SUFFICES ASSUME IInv PROVE SharedFollowsClient
    OBVIOUS
  <2>1. sent \in Seq(Chunk) /\ shared \in Seq(Chunk)
    BY DEF IInv, TypeOK, ChunkTypes
  <2>2. ASSUME sent = shared
        PROVE  IsPrefix(shared, sent) /\ Len(sent) - Len(shared) = 0
    BY <2>1, <2>2 DEF IsPrefix
  <2>3. ASSUME OneBehind
        PROVE  IsPrefix(shared, sent) /\ Len(sent) - Len(shared) = 1
    <3> DEFINE x == sent[Len(sent)]
    <3>1. x \in Chunk /\ sent = Append(shared, x)
      BY <2>1, <2>3 DEF OneBehind
    <3> HIDE DEF x
    <3>2. Len(sent) = Len(shared) + 1 /\ \A i \in 1..Len(shared) : sent[i] = shared[i]
      BY <2>1, <3>1, AppendProperties
    <3> QED
      BY <2>1, <3>2 DEF IsPrefix
  <2> QED
    BY <2>2, <2>3 DEF IInv, Pushed, SharedFollowsClient
<1> QED
  BY <1>1, StreamInvariant, PTL

\* For any chain and any outcome of the checks the client never sees a chunk
\* of a rejected answer, and a speculative one is held back for a bounded
\* number of chunks.
THEOREM RejectedIsUnseen == Spec => []RejectedUnseen
<1>1. IInv => RejectedUnseen
  <2> SUFFICES ASSUME IInv PROVE RejectedUnseen
    OBVIOUS
  <2>1. DOMAIN sent = 1..Len(sent)
    BY DEF IInv, TypeOK, ChunkTypes
  <2> QED
    BY <2>1 DEF IInv, Unseen, HeldBack, RejectedUnseen
<1> QED
  BY <1>1, StreamInvariant, PTL

\* For any stream what the exact cache keeps is what the client was sent, the
\* whole answer of one call.
THEOREM CacheIsWhatClientSaw == Spec => []CachedIsWhatClientSaw
<1>1. IInv => CachedIsWhatClientSaw
  <2> SUFFICES ASSUME IInv, cached # Nothing
               PROVE  sent \in {Answer(cached[1], cached[2]),
                                Append(Answer(cached[1], cached[2]), Stats)}
    BY DEF CachedIsWhatClientSaw
  <2>1. cached[1] = step /\ cached[2] = got
    BY DEF IInv, Cached
  <2>2. pc \in {"share", "push", "end", "leave", "closed", "gone"}
    BY DEF IInv, Cached
  <2> QED
    BY <2>1, <2>2 DEF IInv, Cached
<1> QED
  BY <1>1, StreamInvariant, PTL

\* For any chain a generator that came to its end is in no backend's queue,
\* and every call was reported to its backend's breaker exactly once.
THEOREM CallsAreSettled == Spec => []CallsSettle
<1>1. IInv => CallsSettle
  <2> SUFFICES ASSUME IInv, pc = "closed"
               PROVE  depth = Zero /\ \A b \in Backends : ok[b] + bad[b] = Calls(b)
    BY DEF CallsSettle, DepthSettles, CallsJudgedOnce
  <2>1. JudgedCalls = step
    BY DEF JudgedCalls, Judged
  <2> QED
    BY <2>1 DEF IInv, Settling, CallsUntil, Calls
<1> QED
  BY <1>1, StreamInvariant, PTL

\* For any stream the joined requests are told how it ended, unless every
\* model of a cascade failed, and "done" is said of a complete answer only.
THEOREM EndIsHeard == Spec => []JoinedHearTheEnd
<1>1. IInv => JoinedHearTheEnd
  BY DEF IInv, Told, JoinedHearTheEnd
<1> QED
  BY <1>1, StreamInvariant, PTL
=============================================================================
