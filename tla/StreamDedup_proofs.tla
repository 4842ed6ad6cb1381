------------------------- MODULE StreamDedup_proofs -------------------------
(***************************************************************************)
(* Sharing one stream, for any number of streams and of joined requests,   *)
(* streams of any length, and any way in which a stream ends.  While Redis *)
(* answers, the requests that joined an only stream replay it exactly, and *)
(* nobody is ever sent an index again that it has passed.                  *)
(*                                                                         *)
(* The argument has two parts: what the sort of the list returns, for any  *)
(* list, and where the switch from the list to the channel finds what it   *)
(* has not read yet.                                                       *)
(***************************************************************************)
EXTENDS StreamDedup, FunctionTheorems, FiniteSetTheorems, SequenceTheorems, TLAPS

Entry == [kind : {"chunk", "done", "error"}, from : Streams, index : Nat]

TypeOK ==
    /\ producer \in [Streams -> {"off", "on", "ended"}]
    /\ sent \in [Streams -> 0..Length]
    /\ list \in Seq(Entry)
    /\ consumer \in [Consumers -> {"off", "subscribed", "live", "complete", "cut", "failed"}]
    /\ queue \in [Consumers -> Seq(Entry)]
    /\ next \in [Consumers -> Nat]
    /\ out \in [Consumers -> Seq(Entry)]

\* The first stream is begun first, and a stream that is not has sent nothing.
Begun ==
    \A s \in Streams : /\ producer[s] = "off" => sent[s] = 0
                       /\ producer[s] # "off" => producer[1] # "off"

Unread ==
    \A c \in Consumers : /\ consumer[c] = "off" => queue[c] = <<>>
                         /\ consumer[c] \in {"off", "subscribed"} => out[c] = <<>> /\ next[c] = 0

Listed(m) == \E j \in Chunks : list[j].index = m

\* What a stream has sent is in the list, and with an index all below it.
Gapless ==
    /\ \A s \in Streams : \A m \in 0..(sent[s] - 1) : Listed(m)
    /\ \A i \in Chunks : \A m \in 0..list[i].index : Listed(m)

\* A consumer that follows the channel has passed every index it has sent.
Passed ==
    \A c \in Consumers : consumer[c] = "live" =>
        \A i \in 1..Len(out[c]) : out[c][i].index < next[c]

Solo == \A s \in Streams \ {1} : producer[s] = "off"

\* The list of an only stream: its chunks and then its marker, if it has one.
OwnList ==
    /\ \A i \in 1..sent[1] : i \in 1..Len(list) /\ list[i] = Chunk(1, i - 1)
    /\ \/ Len(list) = sent[1]
       \/ /\ Len(list) = sent[1] + 1
          /\ producer[1] = "ended"
          /\ list[sent[1] + 1].kind \in {"done", "error"}
          /\ list[sent[1] + 1].kind = "done" => sent[1] = Length

\* What a consumer has still to read from the channel is the end of the list.
OwnQueue ==
    \A c \in Consumers : consumer[c] \in {"subscribed", "live"} =>
        \E gone \in Nat : /\ Len(list) = gone + Len(queue[c])
                          /\ \A j \in 1..Len(queue[c]) : queue[c][j] = list[gone + j]

\* What it has sent its client are the first chunks, up to the next expected;
\* only what is before those is gone from its queue.
OwnOut ==
    \A c \in Consumers :
        /\ Len(out[c]) = next[c]
        /\ \A i \in 1..Len(out[c]) : out[c][i] = Chunk(1, i - 1)
        /\ consumer[c] = "live" => /\ next[c] <= sent[1]
                                   /\ Len(list) <= next[c] + Len(queue[c])
        /\ consumer[c] = "complete" => next[c] = Length

Own == Solo => OwnList /\ OwnQueue /\ OwnOut

IInv == TypeOK /\ Begun /\ Unread /\ Gapless /\ InOrder /\ Passed /\ Own

-----------------------------------------------------------------------------
(* The sort *)

LEMMA ChunksFinite ==
    ASSUME list \in Seq(Entry)
    PROVE  /\ IsFiniteSet(Chunks) /\ Cardinality(Chunks) \in Nat
           /\ Chunks \subseteq 1..Len(list)
<1>1. Chunks \subseteq 1..Len(list) /\ Len(list) \in Nat
  BY DEF Chunks
<1>2. IsFiniteSet(1..Len(list))
  BY <1>1, FS_Interval
<1> QED
  BY <1>1, <1>2, FS_Subset, FS_CardinalityType

\* The entries of a list, and their indices.
LEMMA IndexType ==
    ASSUME list \in Seq(Entry), NEW i \in Chunks
    PROVE  i \in Nat /\ list[i] \in Entry /\ list[i].index \in Nat
<1>1. i \in 1..Len(list) /\ Len(list) \in Nat
  BY ChunksFinite
<1>2. list[i] \in Entry
  BY <1>1, ElementOfSeq
<1> QED
  BY <1>1, <1>2 DEF Entry

\* An entry that goes before another one has fewer before it.
LEMMA FewerBefore ==
    ASSUME list \in Seq(Entry), NEW i \in Chunks, NEW j \in Chunks, i # j,
           \/ list[i].index < list[j].index
           \/ list[i].index = list[j].index /\ i <= j
    PROVE  Cardinality(UpTo(i)) < Cardinality(UpTo(j))
<1>1. /\ i \in Nat /\ j \in Nat /\ list[i].index \in Nat /\ list[j].index \in Nat
      /\ \A l \in Chunks : l \in Nat /\ list[l].index \in Nat
  BY IndexType
<1>2. UpTo(i) \subseteq UpTo(j) /\ j \in UpTo(j) /\ j \notin UpTo(i)
  <2>1. ASSUME NEW l \in UpTo(i)
        PROVE  l \in UpTo(j)
    <3>1. /\ l \in Chunks /\ l \in Nat /\ list[l].index \in Nat
          /\ \/ list[l].index < list[i].index
             \/ list[l].index = list[i].index /\ l <= i
      BY <1>1, <2>1 DEF UpTo
    <3>2. \/ list[l].index < list[j].index
          \/ list[l].index = list[j].index /\ l <= j
      BY <1>1, <3>1
    <3> QED
      BY <3>1, <3>2 DEF UpTo
  <2>2. j \in UpTo(j)
    BY <1>1 DEF UpTo
  <2>3. ~(list[j].index < list[i].index \/ (list[j].index = list[i].index /\ j <= i))
    BY <1>1
  <2>4. j \notin UpTo(i)
    BY <2>3 DEF UpTo
  <2> QED
    BY <2>1, <2>2, <2>4
<1>3. IsFiniteSet(UpTo(j))
  <2>1. UpTo(j) \subseteq Chunks
    BY DEF UpTo
  <2> QED
    BY <2>1, ChunksFinite, FS_Subset
<1>4. /\ Cardinality(UpTo(i)) <= Cardinality(UpTo(j))
      /\ Cardinality(UpTo(j)) = Cardinality(UpTo(i)) => UpTo(i) = UpTo(j)
      /\ IsFiniteSet(UpTo(i))
  BY <1>2, <1>3, FS_Subset
<1>5. Cardinality(UpTo(i)) \in Nat /\ Cardinality(UpTo(j)) \in Nat
  BY <1>3, <1>4, FS_CardinalityType
<1> QED
  BY <1>2, <1>4, <1>5

\* Each place in the sorted list is that of one entry.
LEMMA EveryPlaceTaken ==
    ASSUME list \in Seq(Entry), NEW n \in 1..Cardinality(Chunks)
    PROVE  \E i \in Chunks : Cardinality(UpTo(i)) = n
<1> DEFINE f == [i \in Chunks |-> Cardinality(UpTo(i))]
           T == 1..Cardinality(Chunks)
<1>1. IsFiniteSet(Chunks) /\ Cardinality(Chunks) \in Nat
  BY ChunksFinite
<1>2. ASSUME NEW i \in Chunks
      PROVE  Cardinality(UpTo(i)) \in T
  <2>1. UpTo(i) \subseteq Chunks /\ i \in UpTo(i)
    BY IndexType DEF UpTo
  <2>2. IsFiniteSet(UpTo(i)) /\ Cardinality(UpTo(i)) <= Cardinality(Chunks)
    BY <1>1, <2>1, FS_Subset
  <2>3. Cardinality(UpTo(i)) \in Nat /\ Cardinality(UpTo(i)) # 0
    BY <2>1, <2>2, FS_CardinalityType, FS_EmptySet
  <2> QED
    BY <1>1, <2>2, <2>3
<1>3. ASSUME NEW i \in Chunks, NEW j \in Chunks, i # j
      PROVE  f[i] # f[j]
  <2>1. i \in Nat /\ j \in Nat /\ list[i].index \in Nat /\ list[j].index \in Nat
    BY IndexType
  <2>2. \/ list[i].index < list[j].index \/ (list[i].index = list[j].index /\ i <= j)
        \/ list[j].index < list[i].index \/ (list[j].index = list[i].index /\ j <= i)
    BY <2>1
  <2>3. Cardinality(UpTo(i)) < Cardinality(UpTo(j)) \/ Cardinality(UpTo(j)) < Cardinality(UpTo(i))
    BY <1>3, <2>2, FewerBefore
  <2>4. Cardinality(UpTo(i)) \in Nat /\ Cardinality(UpTo(j)) \in Nat
    BY <1>1, <1>2
  <2> QED
    BY <2>3, <2>4
<1>4. f \in Injection(Chunks, T)
  BY <1>2, <1>3, Fun_IsInj
<1>5. IsFiniteSet(T) /\ Cardinality(T) = Cardinality(Chunks)
  BY <1>1, FS_Interval
<1>6. f \in Surjection(Chunks, T)
  BY <1>4, <1>5, FS_Injection
<1> HIDE DEF f, T
<1>7. \A t \in T : \E i \in Chunks : f[i] = t
  BY <1>6, Fun_SurjectionProperties
<1> QED
  BY <1>7 DEF f, T

\* What the sort returns is as long as the list's chunks, ...
LEMMA HistoryType ==
    ASSUME list \in Seq(Entry)
    PROVE  /\ History \in Seq(Entry) /\ Len(History) = Cardinality(Chunks)
           /\ Cardinality(Chunks) \in Nat
           /\ \A n \in 1..Cardinality(Chunks) : \E i \in Chunks :
                  History[n] = list[i] /\ Cardinality(UpTo(i)) = n
<1> DEFINE place(n) == CHOOSE i \in Chunks : Cardinality(UpTo(i)) = n
<1>1. \A n \in 1..Cardinality(Chunks) :
          place(n) \in Chunks /\ Cardinality(UpTo(place(n))) = n
  BY EveryPlaceTaken
<1>2. History = [n \in 1..Cardinality(Chunks) |-> list[place(n)]]
  BY DEF History
<1> HIDE DEF place
<1>3. \A n \in 1..Cardinality(Chunks) : list[place(n)] \in Entry
  BY <1>1, IndexType
<1>4. Cardinality(Chunks) \in Nat
  BY ChunksFinite
<1>5. History \in Seq(Entry) /\ Len(History) = Cardinality(Chunks)
  BY <1>2, <1>3, <1>4
<1> QED
  BY <1>1, <1>2, <1>4, <1>5

\* ... and in the order of their indices.
LEMMA HistorySorted ==
    ASSUME list \in Seq(Entry),
           NEW m \in 1..Len(History), NEW n \in 1..Len(History), m < n
    PROVE  History[m].index <= History[n].index
<1>1. PICK i \in Chunks : History[m] = list[i] /\ Cardinality(UpTo(i)) = m
  BY HistoryType
<1>2. PICK j \in Chunks : History[n] = list[j] /\ Cardinality(UpTo(j)) = n
  BY HistoryType
<1>3. list[i].index \in Nat /\ list[j].index \in Nat /\ m \in Nat /\ n \in Nat
  BY IndexType, HistoryType
<1>4. ASSUME list[j].index < list[i].index
      PROVE  FALSE
  <2>1. j # i
    BY <1>3, <1>4
  <2>2. Cardinality(UpTo(j)) < Cardinality(UpTo(i))
    BY <1>4, <2>1, FewerBefore
  <2> QED
    BY <1>1, <1>2, <1>3, <2>2
<1> QED
  BY <1>1, <1>2, <1>3, <1>4

\* Where no index is missing, every one is below the number of chunks.
LEMMA IndexBelowLength ==
    ASSUME list \in Seq(Entry), Gapless, NEW i \in Chunks
    PROVE  list[i].index < Cardinality(Chunks)
<1> DEFINE top == list[i].index
           place == [m \in 0..top |-> CHOOSE j \in Chunks : list[j].index = m]
<1>1. top \in Nat /\ IsFiniteSet(Chunks) /\ Cardinality(Chunks) \in Nat
  BY IndexType, ChunksFinite
<1>2. \A m \in 0..top : place[m] \in Chunks /\ list[place[m]].index = m
  BY DEF Gapless, Listed
<1> HIDE DEF top
<1>3. place \in Injection(0..top, Chunks)
  <2>1. place \in [0..top -> Chunks]
    BY <1>2
  <2>2. \A m, n \in 0..top : place[m] = place[n] => m = n
    BY <1>2
  <2> QED
    BY <2>1, <2>2, Fun_IsInj
<1>4. Cardinality(0..top) <= Cardinality(Chunks)
  BY <1>1, <1>3, FS_Injection
<1>5. Cardinality(0..top) = top + 1
  BY <1>1, FS_Interval
<1> QED
  BY <1>1, <1>4, <1>5 DEF top

\* Of an only stream the sort returns its chunks as they were sent.
LEMMA OwnHistory ==
    ASSUME list \in Seq(Entry), sent[1] \in Nat, OwnList
    PROVE  /\ Len(History) = sent[1]
           /\ \A n \in 1..sent[1] : History[n] = Chunk(1, n - 1)
<1>1. Chunks = 1..sent[1]
  <2>1. ASSUME NEW i \in 1..sent[1]
        PROVE  i \in Chunks
    <3>1. i \in 1..Len(list) /\ list[i] = Chunk(1, i - 1) /\ DOMAIN list = 1..Len(list)
      BY <2>1 DEF OwnList
    <3>2. Chunk(1, i - 1).kind = "chunk"
      BY DEF Chunk
    <3> QED
      BY <3>1, <3>2 DEF Chunks
  <2>2. ASSUME NEW i \in Chunks
        PROVE  i \in 1..sent[1]
    <3>1. i \in 1..Len(list) /\ list[i].kind = "chunk" /\ Len(list) \in Nat
      BY <2>2 DEF Chunks
    <3> QED
      BY <3>1 DEF OwnList
  <2> QED
    BY <2>1, <2>2
<1>2. \A i \in 1..sent[1] : list[i] = Chunk(1, i - 1) /\ list[i].index = i - 1
  <2>1. \A i \in 1..sent[1] : list[i] = Chunk(1, i - 1)
    BY DEF OwnList
  <2>2. \A m : Chunk(1, m).index = m
    BY DEF Chunk
  <2> QED
    BY <2>1, <2>2
<1>3. ASSUME NEW i \in 1..sent[1]
      PROVE  Cardinality(UpTo(i)) = i
  <2>1. UpTo(i) = 1..i
    BY <1>1, <1>2 DEF UpTo
  <2> QED
    BY <2>1, FS_Interval
<1>4. Cardinality(Chunks) = sent[1]
  BY <1>1, FS_Interval
<1>5. ASSUME NEW n \in 1..sent[1]
      PROVE  History[n] = Chunk(1, n - 1)
  <2>1. PICK i \in Chunks : History[n] = list[i] /\ Cardinality(UpTo(i)) = n
    BY <1>4, HistoryType
  <2>2. i = n
    BY <1>1, <1>3, <2>1
  <2> QED
    BY <1>2, <2>1, <2>2
<1> QED
  BY <1>4, <1>5, HistoryType

-----------------------------------------------------------------------------
(* Each action keeps the invariant.  "redis" \notin Faults: Redis answers.  *)

LEMMA Initially == Init => IInv
<1> SUFFICES ASSUME Init PROVE IInv
  OBVIOUS
<1> USE StreamAssumption DEF Init
<1>1. TypeOK
  BY EmptySeq DEF TypeOK
<1>2. Begun /\ Unread
  BY DEF Begun, Unread
<1>3. Gapless
  <2>1. Chunks = {}
    BY DEF Chunks
  <2> QED
    BY <2>1 DEF Gapless
<1>4. InOrder /\ Passed
  BY DEF InOrder, Passed
<1>5. Own
  BY DEF Own, OwnList, OwnQueue, OwnOut
<1> QED
  BY <1>1, <1>2, <1>3, <1>4, <1>5 DEF IInv

\* What a stream appends to the list and to the channel.
Sends(e) ==
    /\ list' = Append(list, e)
    /\ queue' = [c \in Consumers |->
                    IF consumer[c] \in {"subscribed", "live"}
                    THEN Append(queue[c], e) ELSE queue[c]]

LEMMA Sending ==
    ASSUME "redis" \notin Faults, NEW e, Broadcast(e)
    PROVE  Sends(e)
BY DEF Broadcast, Sends

LEMMA EntryTypes ==
    ASSUME NEW s \in Streams, NEW i \in Nat
    PROVE  /\ Chunk(s, i) \in Entry /\ Chunk(s, i).kind = "chunk" /\ Chunk(s, i).index = i
           /\ Done(s) \in Entry /\ Done(s).kind = "done"
           /\ Error(s) \in Entry /\ Error(s).kind = "error"
BY StreamAssumption DEF Chunk, Done, Error, Entry

LEMMA TypeStep ==
    ASSUME TypeOK, "redis" \notin Faults, Next
    PROVE  TypeOK'
<1> USE DEF TypeOK
<1>1. ASSUME NEW e \in Entry, Sends(e)
      PROVE  list' \in Seq(Entry) /\ queue' \in [Consumers -> Seq(Entry)]
  <2>1. list' \in Seq(Entry)
    BY <1>1, AppendProperties DEF Sends
  <2>2. \A c \in Consumers : Append(queue[c], e) \in Seq(Entry) /\ queue[c] \in Seq(Entry)
    BY <1>1, AppendProperties
  <2> QED
    BY <1>1, <2>1, <2>2 DEF Sends
<1>2. ASSUME NEW s \in Streams, Start(s)
      PROVE  TypeOK'
  BY <1>2 DEF Start
<1>3. ASSUME NEW s \in Streams, PushChunk(s)
      PROVE  TypeOK'
  <2>1. sent[s] \in Nat /\ sent[s] + 1 \in 0..Length
    BY <1>3, StreamAssumption DEF PushChunk
  <2>2. list' \in Seq(Entry) /\ queue' \in [Consumers -> Seq(Entry)]
    BY <1>1, <1>3, <2>1, EntryTypes, Sending DEF PushChunk
  <2> QED
    BY <1>3, <2>1, <2>2 DEF PushChunk
<1>4. ASSUME NEW s \in Streams, PublishEnd(s)
      PROVE  TypeOK'
  <2>1. list' \in Seq(Entry) /\ queue' \in [Consumers -> Seq(Entry)]
    BY <1>1, <1>4, EntryTypes, Sending DEF PublishEnd
  <2> QED
    BY <1>4, <2>1 DEF PublishEnd
<1>5. ASSUME NEW s \in Streams, PublishError(s)
      PROVE  TypeOK'
  <2>1. list' \in Seq(Entry) /\ queue' \in [Consumers -> Seq(Entry)]
    BY <1>1, <1>5, EntryTypes, Sending DEF PublishError
  <2> QED
    BY <1>5, <2>1 DEF PublishError
<1>6. ASSUME NEW s \in Streams, Die(s)
      PROVE  TypeOK'
  BY <1>6 DEF Die
<1>7. ASSUME NEW c \in Consumers, Subscribe(c) \/ StopWaiting(c)
      PROVE  TypeOK'
  BY <1>7 DEF Subscribe, StopWaiting
<1>8. ASSUME NEW c \in Consumers, ReadHistory(c)
      PROVE  TypeOK'
  <2>1. History \in Seq(Entry) /\ Len(History) \in Nat
    BY HistoryType
  <2> QED
    BY <1>8, <2>1 DEF ReadHistory, AfterHistory
<1>9. ASSUME NEW c \in Consumers, Receive(c)
      PROVE  TypeOK'
  <2> DEFINE e == Head(queue[c])
  <2>1. queue[c] \in Seq(Entry) /\ queue[c] # <<>> /\ out[c] \in Seq(Entry)
    BY <1>9 DEF Receive
  <2>2. e \in Entry /\ Tail(queue[c]) \in Seq(Entry)
    BY <2>1, HeadTailProperties
  <2>3. e.index + 1 \in Nat /\ Append(out[c], e) \in Seq(Entry)
    BY <2>1, <2>2, AppendProperties DEF Entry
  <2>4. /\ queue' = [queue EXCEPT ![c] = Tail(@)] /\ UNCHANGED <<producer, sent, list>>
        /\ out' = out \/ out' = [out EXCEPT ![c] = Append(@, e)]
        /\ next' = next \/ next' = [next EXCEPT ![c] = e.index + 1]
        /\ \/ consumer' = consumer
           \/ consumer' = [consumer EXCEPT ![c] = "complete"]
           \/ consumer' = [consumer EXCEPT ![c] = "failed"]
    BY <1>9 DEF Receive
  <2> HIDE DEF e
  <2>5. queue' \in [Consumers -> Seq(Entry)]
    BY <2>2, <2>4
  <2>6. out' \in [Consumers -> Seq(Entry)] /\ next' \in [Consumers -> Nat]
    BY <2>3, <2>4
  <2> QED
    BY <2>4, <2>5, <2>6
<1> QED
  BY <1>2, <1>3, <1>4, <1>5, <1>6, <1>7, <1>8, <1>9 DEF Next, Produce, Consume

LEMMA BegunStep ==
    ASSUME TypeOK, Begun, Next
    PROVE  Begun'
<1> USE StreamAssumption DEF TypeOK, Begun
<1>1. ASSUME NEW s \in Streams, Start(s)
      PROVE  Begun'
  <2>1. s = 1 \/ producer[1] # "off"
    BY <1>1 DEF Start
  <2> QED
    BY <1>1, <2>1 DEF Start
<1>2. ASSUME NEW s \in Streams, Produce(s)
      PROVE  Begun'
  BY <1>2 DEF Produce, PushChunk, PublishEnd, PublishError, Die
<1>3. ASSUME NEW c \in Consumers, Subscribe(c) \/ Consume(c)
      PROVE  Begun'
  BY <1>3 DEF Subscribe, Consume, ReadHistory, Receive, StopWaiting
<1> QED
  BY <1>1, <1>2, <1>3 DEF Next

LEMMA UnreadStep ==
    ASSUME TypeOK, Unread, "redis" \notin Faults, Next
    PROVE  Unread'
<1> USE DEF TypeOK, Unread
<1>1. ASSUME NEW e, Sends(e), UNCHANGED <<consumer, next, out>>
      PROVE  Unread'
  BY <1>1 DEF Sends
<1>2. ASSUME NEW s \in Streams, Start(s) \/ Die(s)
      PROVE  Unread'
  BY <1>2 DEF Start, Die
<1>3. ASSUME NEW s \in Streams, PushChunk(s) \/ PublishEnd(s) \/ PublishError(s)
      PROVE  Unread'
  BY <1>1, <1>3, Sending DEF PushChunk, PublishEnd, PublishError
<1>4. ASSUME NEW c \in Consumers, Subscribe(c) \/ Consume(c)
      PROVE  Unread'
  BY <1>4 DEF Subscribe, Consume, ReadHistory, AfterHistory, Receive, StopWaiting
<1> QED
  BY <1>2, <1>3, <1>4 DEF Next, Produce

LEMMA GaplessStep ==
    ASSUME TypeOK, Gapless, "redis" \notin Faults, Next
    PROVE  Gapless'
<1>0. list \in Seq(Entry) /\ Len(list) \in Nat /\ DOMAIN list = 1..Len(list)
  BY DEF TypeOK
\* An entry at the end of the list leaves those before it where they were.
<1>1. ASSUME NEW e \in Entry, Sends(e)
      PROVE  /\ \A i \in Chunks : i \in Chunks' /\ list'[i] = list[i]
             /\ \A i \in Chunks' : i \in Chunks \/ (list'[i] = e /\ e.kind = "chunk")
             /\ e.kind = "chunk" => Listed(e.index)'
             /\ \A m : Listed(m) => Listed(m)'
  <2>1. /\ list' \in Seq(Entry) /\ Len(list') = Len(list) + 1
        /\ \A i \in 1..Len(list) : list'[i] = list[i]
        /\ list'[Len(list) + 1] = e
    BY <1>0, <1>1, AppendProperties DEF Sends
  <2>2. DOMAIN list' = 1..(Len(list) + 1)
    BY <2>1
  <2>3. \A i \in Chunks : i \in Chunks' /\ list'[i] = list[i]
    BY <1>0, <2>1, <2>2 DEF Chunks
  <2>4. \A i \in Chunks' : i \in Chunks \/ (list'[i] = e /\ e.kind = "chunk")
    BY <1>0, <2>1, <2>2 DEF Chunks
  <2>5. e.kind = "chunk" => Listed(e.index)'
    BY <1>0, <2>1, <2>2 DEF Chunks, Listed
  <2>6. \A m : Listed(m) => Listed(m)'
    BY <2>3 DEF Listed
  <2> QED
    BY <2>3, <2>4, <2>5, <2>6
<1>2. ASSUME UNCHANGED <<sent, list>>
      PROVE  Gapless'
  BY <1>2 DEF Gapless, Listed, Chunks
<1>3. ASSUME NEW s \in Streams, PushChunk(s)
      PROVE  Gapless'
  <2>0. PICK k \in Nat : k = sent[s]
    BY StreamAssumption DEF TypeOK
  <2>a. PICK e \in Entry : e = Chunk(s, k) /\ e.kind = "chunk" /\ e.index = k
    BY EntryTypes
  <2>1. sent[s] \in Nat /\ sent' = [sent EXCEPT ![s] = @ + 1] /\ Sends(e)
    BY <1>3, <2>0, <2>a, Sending, StreamAssumption DEF PushChunk, TypeOK
  <2>2. e \in Entry /\ e.kind = "chunk" /\ e.index = sent[s]
    BY <2>0, <2>a
  <2>3. \A m \in 0..sent[s] : Listed(m)'
    <3>1. \A m \in 0..(sent[s] - 1) : Listed(m)
      BY DEF Gapless
    <3>2. \A m \in 0..(sent[s] - 1) : Listed(m)'
      BY <1>1, <2>1, <2>2, <3>1
    <3>3. Listed(k)'
      BY <1>1, <2>a, <2>1
    <3> QED
      BY <2>0, <3>2, <3>3
  <2>4. ASSUME NEW t \in Streams, NEW m \in 0..(sent'[t] - 1)
        PROVE  Listed(m)'
    <3>1. CASE t = s
      BY <2>1, <2>3, <3>1 DEF TypeOK
    <3>2. CASE t # s
      <4>1. m \in 0..(sent[t] - 1)
        BY <2>1, <3>2 DEF TypeOK
      <4> QED
        BY <1>1, <2>1, <2>2, <4>1 DEF Gapless
    <3> QED
      BY <3>1, <3>2
  <2>5. ASSUME NEW i \in Chunks', NEW m \in 0..list'[i].index
        PROVE  Listed(m)'
    <3>1. CASE i \in Chunks
      BY <1>1, <2>1, <2>2, <3>1 DEF Gapless
    <3>2. CASE i \notin Chunks
      <4>1. list'[i].index = sent[s]
        BY <1>1, <2>1, <2>2, <3>2
      <4> QED
        BY <2>3, <4>1
    <3> QED
      BY <3>1, <3>2
  <2> QED
    BY <2>4, <2>5 DEF Gapless
<1>4. ASSUME NEW e \in Entry, e.kind # "chunk", Sends(e), sent' = sent
      PROVE  Gapless'
  <2>1. ASSUME NEW s \in Streams, NEW m \in 0..(sent'[s] - 1)
        PROVE  Listed(m)'
    BY <1>1, <1>4, <2>1 DEF Gapless
  <2>2. ASSUME NEW i \in Chunks', NEW m \in 0..list'[i].index
        PROVE  Listed(m)'
    <3>1. i \in Chunks /\ m \in 0..list[i].index
      BY <1>1, <1>4
    <3> QED
      BY <1>1, <1>4, <3>1 DEF Gapless
  <2> QED
    BY <2>1, <2>2 DEF Gapless
<1>5. ASSUME NEW s \in Streams, PublishEnd(s) \/ PublishError(s)
      PROVE  Gapless'
  <2>1. /\ Done(s) \in Entry /\ Done(s).kind # "chunk"
        /\ Error(s) \in Entry /\ Error(s).kind # "chunk"
    BY EntryTypes
  <2>2. sent' = sent /\ (Sends(Done(s)) \/ Sends(Error(s)))
    BY <1>5, Sending DEF PublishEnd, PublishError
  <2> QED
    BY <1>4, <2>1, <2>2
<1>6. ASSUME NEW s \in Streams, Start(s) \/ Die(s)
      PROVE  Gapless'
  BY <1>2, <1>6 DEF Start, Die
<1>7. ASSUME NEW c \in Consumers, Subscribe(c) \/ Consume(c)
      PROVE  Gapless'
  BY <1>2, <1>7 DEF Subscribe, Consume, ReadHistory, Receive, StopWaiting
<1> QED
  BY <1>3, <1>5, <1>6, <1>7 DEF Next, Produce

\* A consumer is sent on in the order of the indices.
LEMMA OrderStep ==
    ASSUME IInv, "redis" \notin Faults, Next
    PROVE  InOrder' /\ Passed'
<1>0. TypeOK /\ Unread /\ Gapless /\ InOrder /\ Passed
  BY DEF IInv
<1>1. \A c \in Consumers : out[c] \in Seq(Entry) /\ DOMAIN out[c] = 1..Len(out[c])
                           /\ Len(out[c]) \in Nat /\ next[c] \in Nat
  BY <1>0 DEF TypeOK
<1>2. ASSUME UNCHANGED <<next, out>>,
             \A c \in Consumers : consumer'[c] = "live" => consumer[c] \in {"off", "subscribed", "live"}
      PROVE  InOrder' /\ Passed'
  <2>1. InOrder'
    BY <1>0, <1>2 DEF InOrder
  <2>2. Passed'
    BY <1>0, <1>2 DEF Passed, Unread
  <2> QED
    BY <2>1, <2>2
<1>3. ASSUME NEW s \in Streams, Start(s) \/ Produce(s)
      PROVE  InOrder' /\ Passed'
  BY <1>2, <1>3 DEF Start, Produce, PushChunk, PublishEnd, PublishError, Die
<1>4. ASSUME NEW c \in Consumers, Subscribe(c) \/ StopWaiting(c)
      PROVE  InOrder' /\ Passed'
  BY <1>0, <1>2, <1>4 DEF TypeOK, Subscribe, StopWaiting
<1>5. ASSUME NEW c \in Consumers, ReadHistory(c)
      PROVE  InOrder' /\ Passed'
  <2>1. /\ out' = [out EXCEPT ![c] = History] /\ next' = [next EXCEPT ![c] = Len(History)]
        /\ \A d \in Consumers : d # c => consumer'[d] = consumer[d]
    BY <1>0, <1>5 DEF ReadHistory, TypeOK
  <2>2. /\ History \in Seq(Entry) /\ Len(History) = Cardinality(Chunks)
        /\ \A n \in 1..Len(History) : \E i \in Chunks : History[n] = list[i]
    BY <1>0, HistoryType DEF TypeOK
  <2>3. \A n \in 1..Len(History) : History[n].index < Len(History)
    BY <1>0, <2>2, IndexBelowLength DEF TypeOK
  <2>4. \A m, n \in 1..Len(History) : m < n => History[m].index <= History[n].index
    BY <1>0, HistorySorted DEF TypeOK
  <2>5. out'[c] = History /\ next'[c] = Len(History)
        /\ \A d \in Consumers : d # c => out'[d] = out[d] /\ next'[d] = next[d]
    BY <1>0, <2>1 DEF TypeOK
  <2>6. InOrder'
    BY <1>0, <2>2, <2>4, <2>5 DEF InOrder
  <2>7. Passed'
    BY <1>0, <2>1, <2>3, <2>5 DEF Passed
  <2> QED
    BY <2>6, <2>7
<1>6. ASSUME NEW c \in Consumers, Receive(c)
      PROVE  InOrder' /\ Passed'
  <2> DEFINE e == Head(queue[c])
  <2>1. CASE UNCHANGED <<next, out>>
    BY <1>0, <1>2, <1>6, <2>1 DEF TypeOK, Receive
  <2>2. CASE ~UNCHANGED <<next, out>>
    <3>1. /\ e.index >= next[c] /\ out' = [out EXCEPT ![c] = Append(@, e)]
          /\ next' = [next EXCEPT ![c] = e.index + 1] /\ consumer' = consumer
          /\ consumer[c] = "live"
      BY <1>6, <2>2 DEF Receive
    <3>2. e \in Entry
      BY <1>0, <1>6, HeadTailProperties DEF Receive, TypeOK
    <3>3. e.index \in Nat
      BY <3>2 DEF Entry
    <3> HIDE DEF e
    <3>4. /\ out'[c] = Append(out[c], e) /\ next'[c] = e.index + 1
          /\ \A d \in Consumers : d # c => out'[d] = out[d] /\ next'[d] = next[d]
      BY <1>0, <3>1 DEF TypeOK
    <3>5. /\ DOMAIN out'[c] = 1..(Len(out[c]) + 1) /\ Len(out'[c]) = Len(out[c]) + 1
          /\ out'[c][Len(out[c]) + 1] = e
          /\ \A i \in 1..Len(out[c]) : out'[c][i] = out[c][i]
      BY <1>1, <3>2, <3>4, AppendProperties
    <3>6. \A i \in 1..Len(out[c]) : /\ out[c][i].index \in Nat
                                    /\ out[c][i].index < next[c]
      <4>1. \A i \in 1..Len(out[c]) : out[c][i] \in Entry
        BY <1>1, ElementOfSeq
      <4>2. \A i \in 1..Len(out[c]) : out[c][i].index \in Nat
        BY <4>1 DEF Entry
      <4> QED
        BY <1>0, <3>1, <4>2 DEF Passed
    <3>7. InOrder'
      <4> SUFFICES ASSUME NEW d \in Consumers,
                          NEW i \in DOMAIN out'[d], NEW j \in DOMAIN out'[d], i < j
                   PROVE  out'[d][i].index <= out'[d][j].index
        BY DEF InOrder
      <4>1. CASE d # c
        BY <1>0, <3>4, <4>1 DEF InOrder
      <4>2. CASE d = c /\ j <= Len(out[c])
        BY <1>0, <1>1, <3>5, <4>2 DEF InOrder
      <4>3. CASE d = c /\ j = Len(out[c]) + 1
        <5>1. i \in 1..Len(out[c])
          BY <1>1, <3>5, <4>3
        <5>2. out[c][i].index <= e.index
          BY <1>1, <3>1, <3>3, <3>6, <5>1
        <5> QED
          BY <3>5, <4>3, <5>1, <5>2
      <4> QED
        BY <1>1, <3>5, <4>1, <4>2, <4>3
    <3>8. Passed'
      <4> SUFFICES ASSUME NEW d \in Consumers, consumer'[d] = "live", NEW i \in 1..Len(out'[d])
                   PROVE  out'[d][i].index < next'[d]
        BY DEF Passed
      <4>1. CASE d # c
        BY <1>0, <3>1, <3>4, <4>1 DEF Passed
      <4>2. CASE d = c /\ i <= Len(out[c])
        <5>1. out[c][i].index < e.index + 1
          BY <1>1, <3>1, <3>3, <3>6, <4>2
        <5> QED
          BY <3>4, <3>5, <4>2, <5>1
      <4>3. CASE d = c /\ i = Len(out[c]) + 1
        BY <3>3, <3>4, <3>5, <4>3
      <4> QED
        BY <1>1, <3>5, <4>1, <4>2, <4>3
    <3> QED
      BY <3>7, <3>8
  <2> QED
    BY <2>1, <2>2
<1> QED
  BY <1>3, <1>4, <1>5, <1>6 DEF Next, Consume

-----------------------------------------------------------------------------
(* An only stream *)

\* What is at a place of an only stream's list.
LEMMA OwnEntry ==
    ASSUME OwnList, list \in Seq(Entry), sent[1] \in Nat, NEW n \in 1..Len(list)
    PROVE  /\ list[n].kind = "chunk" => n <= sent[1] /\ list[n] = Chunk(1, n - 1)
                                                    /\ list[n].index = n - 1
           /\ list[n].kind # "chunk" => n = sent[1] + 1
           /\ list[n].kind = "done" => sent[1] = Length
<1>1. Len(list) \in Nat /\ n \in Nat
  OBVIOUS
<1>2. \A m : Chunk(1, m).index = m /\ Chunk(1, m).kind = "chunk"
  BY DEF Chunk
<1>3. CASE n <= sent[1]
  BY <1>1, <1>2, <1>3 DEF OwnList
<1>4. CASE n > sent[1]
  <2>1. n = sent[1] + 1
    BY <1>1, <1>4 DEF OwnList
  <2>2. list[n].kind \in {"done", "error"} /\ (list[n].kind = "done" => sent[1] = Length)
    BY <1>1, <1>4, <2>1 DEF OwnList
  <2> QED
    BY <2>1, <2>2
<1> QED
  BY <1>1, <1>3, <1>4

\* A message goes to the end of the list and of every queue.
LEMMA OwnSending ==
    ASSUME TypeOK, OwnQueue, NEW e \in Entry, Sends(e), consumer' = consumer
    PROVE  /\ OwnQueue'
           /\ Len(list') = Len(list) + 1 /\ list'[Len(list) + 1] = e
           /\ \A n \in 1..Len(list) : list'[n] = list[n]
           /\ \A c \in Consumers : consumer[c] = "live" => Len(queue'[c]) = Len(queue[c]) + 1
<1>1. /\ Len(list) \in Nat /\ Len(list') = Len(list) + 1 /\ list'[Len(list) + 1] = e
      /\ \A n \in 1..Len(list) : list'[n] = list[n]
  BY AppendProperties DEF TypeOK, Sends
<1>2. ASSUME NEW c \in Consumers, consumer[c] \in {"subscribed", "live"}
      PROVE  /\ Len(queue[c]) \in Nat /\ Len(queue'[c]) = Len(queue[c]) + 1
             /\ queue'[c][Len(queue[c]) + 1] = e
             /\ \A j \in 1..Len(queue[c]) : queue'[c][j] = queue[c][j]
  <2>1. queue[c] \in Seq(Entry) /\ queue'[c] = Append(queue[c], e)
    BY <1>2 DEF TypeOK, Sends
  <2> QED
    BY <2>1, AppendProperties
<1>3. ASSUME NEW c \in Consumers, consumer'[c] \in {"subscribed", "live"}
      PROVE  \E gone \in Nat : /\ Len(list') = gone + Len(queue'[c])
                               /\ \A j \in 1..Len(queue'[c]) : queue'[c][j] = list'[gone + j]
  <2>1. consumer[c] \in {"subscribed", "live"}
    BY <1>3
  <2>2. PICK l \in Nat, q \in Nat : l = Len(list) /\ q = Len(queue[c])
    BY <1>1, <1>2, <2>1
  <2>3. PICK gone \in Nat : l = gone + q /\ \A j \in 1..q : queue[c][j] = list[gone + j]
    BY <2>1, <2>2 DEF OwnQueue
  <2>4. /\ Len(queue'[c]) = q + 1 /\ queue'[c][q + 1] = e
        /\ \A j \in 1..q : queue'[c][j] = queue[c][j]
    BY <1>2, <2>1, <2>2
  <2>5. /\ Len(list') = l + 1 /\ list'[l + 1] = e
        /\ \A n \in 1..l : list'[n] = list[n]
    BY <1>1, <2>2
  <2>6. ASSUME NEW j \in 1..(q + 1)
        PROVE  queue'[c][j] = list'[gone + j]
    <3>1. CASE j \in 1..q
      <4>1. gone + j \in 1..l
        BY <2>3, <3>1
      <4> QED
        BY <2>3, <2>4, <2>5, <3>1, <4>1
    <3>2. CASE j = q + 1
      <4>1. gone + j = l + 1
        BY <2>3, <3>2
      <4> QED
        BY <2>4, <2>5, <3>2, <4>1
    <3> QED
      BY <3>1, <3>2
  <2>7. Len(list') = gone + Len(queue'[c])
    BY <2>3, <2>4, <2>5
  <2> QED
    BY <2>4, <2>6, <2>7
<1>4. \A c \in Consumers : consumer[c] = "live" => Len(queue'[c]) = Len(queue[c]) + 1
  BY <1>2
<1> QED
  BY <1>1, <1>3, <1>4 DEF OwnQueue

LEMMA OwnStep ==
    ASSUME IInv, "redis" \notin Faults, Next
    PROVE  Own'
<1> SUFFICES ASSUME Solo' PROVE OwnList' /\ OwnQueue' /\ OwnOut'
  BY DEF Own
<1>0. TypeOK /\ Unread
  BY DEF IInv
<1>1. \A s \in Streams : producer'[s] = "off" => producer[s] = "off"
  BY <1>0 DEF Next, Produce, Consume, Start, PushChunk, PublishEnd, PublishError, Die,
     Subscribe, ReadHistory, Receive, StopWaiting, TypeOK
<1>2. Solo /\ OwnList /\ OwnQueue /\ OwnOut
  BY <1>1 DEF Solo, IInv, Own
<1>3. /\ 1 \in Streams /\ sent[1] \in Nat /\ Length \in Nat
      /\ list \in Seq(Entry) /\ Len(list) \in Nat
      /\ \A c \in Consumers : queue[c] \in Seq(Entry) /\ Len(queue[c]) \in Nat /\ next[c] \in Nat
  BY <1>0, StreamAssumption DEF TypeOK
<1>4. ASSUME NEW s \in Streams, producer[s] = "on" \/ producer'[s] = "on"
      PROVE  s = 1
  BY <1>2, <1>4 DEF Solo
<1>5. ASSUME Start(1) \/ Die(1)
      PROVE  OwnList' /\ OwnQueue' /\ OwnOut'
  <2>1. UNCHANGED <<sent, list, consumer, queue, next, out>> /\ Len(list) = sent[1]
    BY <1>2, <1>3, <1>5 DEF Start, Die, OwnList
  <2>2. OwnList'
    BY <1>2, <2>1 DEF OwnList
  <2> QED
    BY <1>2, <2>1, <2>2 DEF OwnQueue, OwnOut
<1>6. ASSUME PushChunk(1)
      PROVE  OwnList' /\ OwnQueue' /\ OwnOut'
  <2>0. PICK e \in Entry : e = Chunk(1, sent[1])
    BY <1>3, EntryTypes
  <2>1. /\ Sends(e) /\ UNCHANGED <<producer, consumer, next, out>>
        /\ sent'[1] = sent[1] + 1 /\ producer[1] = "on"
    BY <1>0, <1>3, <1>6, <2>0, Sending DEF PushChunk, TypeOK
  <2>2. Len(list) = sent[1]
    BY <1>2, <2>1 DEF OwnList
  <2>3. /\ OwnQueue' /\ Len(list') = Len(list) + 1 /\ list'[Len(list) + 1] = e
        /\ \A n \in 1..Len(list) : list'[n] = list[n]
        /\ \A c \in Consumers : consumer[c] = "live" => Len(queue'[c]) = Len(queue[c]) + 1
    BY <1>0, <1>2, <2>1, OwnSending
  <2>4. OwnList'
    <3>1. Len(list') = sent'[1]
      BY <2>1, <2>2, <2>3
    <3>2. ASSUME NEW i \in 1..sent'[1]
          PROVE  i \in 1..Len(list') /\ list'[i] = Chunk(1, i - 1)
      <4>1. CASE i <= sent[1]
        BY <1>2, <1>3, <2>1, <2>2, <2>3, <4>1 DEF OwnList
      <4>2. CASE i = sent[1] + 1
        BY <1>3, <2>0, <2>1, <2>2, <2>3, <4>2
      <4> QED
        BY <1>3, <2>1, <4>1, <4>2
    <3> QED
      BY <3>1, <3>2 DEF OwnList
  <2>5. OwnOut'
    BY <1>2, <1>3, <2>1, <2>3 DEF OwnOut
  <2> QED
    BY <2>3, <2>4, <2>5
<1>7. ASSUME PublishEnd(1) \/ PublishError(1)
      PROVE  OwnList' /\ OwnQueue' /\ OwnOut'
  <2>0. PICK e \in Entry : /\ Sends(e)
                          /\ \/ PublishEnd(1) /\ e.kind = "done"
                             \/ PublishError(1) /\ e.kind = "error"
    <3>1. /\ Done(1) \in Entry /\ Done(1).kind = "done"
          /\ Error(1) \in Entry /\ Error(1).kind = "error"
      BY <1>3, EntryTypes
    <3>2. PublishEnd(1) => Sends(Done(1))
      BY Sending DEF PublishEnd
    <3>3. PublishError(1) => Sends(Error(1))
      BY Sending DEF PublishError
    <3>4. CASE PublishEnd(1)
      BY <3>1, <3>2, <3>4
    <3>5. CASE PublishError(1)
      BY <3>1, <3>3, <3>5
    <3> QED
      BY <1>7, <3>4, <3>5
  <2>1. /\ UNCHANGED <<sent, consumer, next, out>> /\ producer[1] = "on"
        /\ producer'[1] = "ended"
        /\ e.kind \in {"done", "error"} /\ (e.kind = "done" => sent[1] = Length)
    BY <1>0, <1>3, <2>0 DEF PublishEnd, PublishError, TypeOK
  <2>2. Len(list) = sent[1]
    BY <1>2, <2>1 DEF OwnList
  <2>3. /\ OwnQueue' /\ Len(list') = Len(list) + 1 /\ list'[Len(list) + 1] = e
        /\ \A n \in 1..Len(list) : list'[n] = list[n]
        /\ \A c \in Consumers : consumer[c] = "live" => Len(queue'[c]) = Len(queue[c]) + 1
    BY <1>0, <1>2, <2>0, <2>1, OwnSending
  <2>4. OwnList'
    BY <1>2, <1>3, <2>1, <2>2, <2>3 DEF OwnList
  <2>5. OwnOut'
    BY <1>2, <1>3, <2>1, <2>3 DEF OwnOut
  <2> QED
    BY <2>3, <2>4, <2>5
<1>8. ASSUME NEW c \in Consumers, Subscribe(c) \/ StopWaiting(c)
      PROVE  OwnList' /\ OwnQueue' /\ OwnOut'
  <2>1. /\ UNCHANGED <<producer, sent, list, queue, next, out>>
        /\ \A d \in Consumers :
               \/ consumer'[d] = consumer[d] \/ consumer'[d] = "cut"
               \/ consumer'[d] = "subscribed" /\ queue[d] = <<>>
    BY <1>0, <1>8 DEF Subscribe, StopWaiting, TypeOK, Unread
  <2>2. OwnList'
    BY <1>2, <2>1 DEF OwnList
  <2>3. ASSUME NEW d \in Consumers, consumer'[d] \in {"subscribed", "live"}
        PROVE  \E g \in Nat : /\ Len(list') = g + Len(queue'[d])
                              /\ \A j \in 1..Len(queue'[d]) : queue'[d][j] = list'[g + j]
    <3>1. CASE consumer'[d] = consumer[d]
      BY <1>2, <2>1, <2>3, <3>1 DEF OwnQueue
    <3>2. CASE queue[d] = <<>>
      BY <1>3, <2>1, <3>2
    <3> QED
      BY <2>1, <2>3, <3>1, <3>2
  <2>4. OwnOut'
    BY <1>2, <2>1 DEF OwnOut
  <2> QED
    BY <2>2, <2>3, <2>4 DEF OwnQueue
<1>9. ASSUME NEW c \in Consumers, ReadHistory(c)
      PROVE  OwnList' /\ OwnQueue' /\ OwnOut'
  <2>1. /\ UNCHANGED <<producer, sent, list, queue>> /\ consumer[c] = "subscribed"
        /\ out'[c] = History /\ next'[c] = Len(History) /\ consumer'[c] = AfterHistory
        /\ \A d \in Consumers \ {c} : /\ out'[d] = out[d] /\ next'[d] = next[d]
                                     /\ consumer'[d] = consumer[d]
    BY <1>0, <1>9 DEF ReadHistory, TypeOK
  <2>2. Len(History) = sent[1] /\ \A n \in 1..sent[1] : History[n] = Chunk(1, n - 1)
    BY <1>2, <1>3, OwnHistory
  <2>3. OwnList'
    BY <1>2, <2>1 DEF OwnList
  <2>4. OwnQueue'
    BY <1>2, <2>1 DEF OwnQueue
  <2>5. AfterHistory = "live" => Len(list) = sent[1]
    <3>1. ASSUME Len(list) = sent[1] + 1
          PROVE  Has("done") \/ Has("error")
      BY <1>2, <1>3, <3>1 DEF OwnList, Has
    <3> QED
      BY <1>2, <3>1 DEF AfterHistory, OwnList
  <2>6. AfterHistory = "complete" => sent[1] = Length
    <3>1. ASSUME Has("done")
          PROVE  sent[1] = Length
      <4>1. PICK n \in 1..Len(list) : list[n].kind = "done"
        BY <1>3, <3>1 DEF Has
      <4> QED
        BY <1>2, <1>3, <4>1, OwnEntry
    <3> QED
      BY <3>1 DEF AfterHistory
  <2>7. ASSUME NEW d \in Consumers
        PROVE  /\ Len(out'[d]) = next'[d]
               /\ \A i \in 1..Len(out'[d]) : out'[d][i] = Chunk(1, i - 1)
               /\ consumer'[d] = "live" => /\ next'[d] <= sent'[1]
                                           /\ Len(list') <= next'[d] + Len(queue'[d])
               /\ consumer'[d] = "complete" => next'[d] = Length
    <3>1. CASE d = c
      BY <1>3, <2>1, <2>2, <2>5, <2>6, <3>1
    <3>2. CASE d # c
      BY <1>2, <2>1, <3>2 DEF OwnOut
    <3> QED
      BY <3>1, <3>2
  <2> QED
    BY <2>3, <2>4, <2>7 DEF OwnOut
<1>10. ASSUME NEW c \in Consumers, Receive(c)
       PROVE  OwnList' /\ OwnQueue' /\ OwnOut'
  <2> DEFINE e == Head(queue[c])
  <2>1. queue[c] \in Seq(Entry) /\ queue[c] # <<>> /\ consumer[c] = "live"
    BY <1>3, <1>10 DEF Receive
  <2>a. PICK q \in Nat, l \in Nat : Len(queue[c]) = q + 1 /\ l = Len(list)
    <3>1. Len(queue[c]) \in Nat /\ Len(queue[c]) # 0
      BY <2>1, EmptySeq
    <3>2. Len(queue[c]) - 1 \in Nat /\ Len(queue[c]) = (Len(queue[c]) - 1) + 1
      BY <3>1
    <3> QED
      BY <1>3, <3>2
  <2>2. /\ e = queue[c][1] /\ Tail(queue[c]) \in Seq(Entry) /\ Len(Tail(queue[c])) = q
        /\ \A j \in 1..q : Tail(queue[c])[j] = queue[c][j + 1]
    <3>1. /\ e = queue[c][1] /\ Tail(queue[c]) \in Seq(Entry)
          /\ Len(Tail(queue[c])) = Len(queue[c]) - 1
          /\ \A j \in 1..Len(Tail(queue[c])) : Tail(queue[c])[j] = queue[c][j + 1]
      BY <2>1, HeadTailProperties
    <3>2. Len(queue[c]) - 1 = q
      BY <2>a
    <3> QED
      BY <3>1, <3>2
  <2>3. PICK gone \in Nat : /\ l = gone + (q + 1)
                           /\ \A j \in 1..(q + 1) : queue[c][j] = list[gone + j]
    BY <1>2, <2>1, <2>a DEF OwnQueue
  <2>4. e = list[gone + 1] /\ gone + 1 \in 1..l
    BY <2>2, <2>3
  <2>5. /\ e.kind = "chunk" => e = Chunk(1, gone) /\ e.index = gone /\ gone + 1 <= sent[1]
        /\ e.kind = "done" => gone = sent[1] /\ sent[1] = Length
    <3>1. (gone + 1) - 1 = gone
      OBVIOUS
    <3>2. /\ e.kind = "chunk" => /\ gone + 1 <= sent[1] /\ e = Chunk(1, (gone + 1) - 1)
                                 /\ e.index = (gone + 1) - 1
          /\ e.kind # "chunk" => gone + 1 = sent[1] + 1
          /\ e.kind = "done" => sent[1] = Length
      BY <1>2, <1>3, <2>a, <2>4, OwnEntry
    <3>3. gone + 1 = sent[1] + 1 => gone = sent[1]
      BY <1>3
    <3> QED
      BY <3>1, <3>2, <3>3
  <2>6. /\ UNCHANGED <<producer, sent, list>>
        /\ queue'[c] = Tail(queue[c])
        /\ \A d \in Consumers \ {c} : /\ out'[d] = out[d] /\ next'[d] = next[d]
                                     /\ consumer'[d] = consumer[d] /\ queue'[d] = queue[d]
    BY <1>0, <1>10 DEF Receive, TypeOK
  <2>7. \/ /\ e.kind = "chunk" /\ e.index >= next[c] /\ consumer'[c] = "live"
           /\ out'[c] = Append(out[c], e) /\ next'[c] = e.index + 1
        \/ /\ e.kind = "chunk" /\ e.index < next[c] /\ consumer'[c] = "live"
           /\ out'[c] = out[c] /\ next'[c] = next[c]
        \/ /\ e.kind = "done" /\ consumer'[c] = "complete"
           /\ out'[c] = out[c] /\ next'[c] = next[c]
        \/ /\ consumer'[c] = "failed" /\ out'[c] = out[c] /\ next'[c] = next[c]
    BY <1>0, <1>10, <2>1 DEF Receive, TypeOK
  <2>8. /\ Len(out[c]) = next[c] /\ out[c] \in Seq(Entry) /\ e \in Entry
        /\ \A i \in 1..Len(out[c]) : out[c][i] = Chunk(1, i - 1)
        /\ next[c] <= sent[1]
    BY <1>0, <1>2, <2>1, HeadTailProperties DEF OwnOut, TypeOK
  <2>9. gone <= next[c] /\ Len(list') = (gone + 1) + q /\ Len(queue'[c]) = q
    <3>1. l <= next[c] + (q + 1)
      BY <1>2, <2>1, <2>a DEF OwnOut
    <3>2. next[c] \in Nat
      BY <1>3
    <3>3. gone <= next[c]
      BY <2>3, <3>1, <3>2
    <3>4. Len(list') = l
      BY <2>a, <2>6
    <3>5. l = (gone + 1) + q
      BY <2>3
    <3> QED
      BY <2>2, <2>6, <3>3, <3>4, <3>5
  <2> HIDE DEF e
  <2>10. OwnList'
    BY <1>2, <2>6 DEF OwnList
  <2>11. OwnQueue'
    <3>1. ASSUME NEW j \in 1..q
          PROVE  queue'[c][j] = list'[(gone + 1) + j]
      <4>1. j + 1 \in 1..(q + 1) /\ gone + (j + 1) = (gone + 1) + j
        OBVIOUS
      <4> QED
        BY <2>2, <2>3, <2>6, <4>1
    <3>2. \E g \in Nat : /\ Len(list') = g + Len(queue'[c])
                         /\ \A j \in 1..Len(queue'[c]) : queue'[c][j] = list'[g + j]
      BY <2>9, <3>1
    <3>3. ASSUME NEW d \in Consumers \ {c}, consumer'[d] \in {"subscribed", "live"}
          PROVE  \E g \in Nat : /\ Len(list') = g + Len(queue'[d])
                                /\ \A j \in 1..Len(queue'[d]) : queue'[d][j] = list'[g + j]
      <4>1. queue'[d] = queue[d] /\ list' = list /\ consumer[d] \in {"subscribed", "live"}
        BY <2>6, <3>3
      <4> QED
        BY <1>2, <4>1 DEF OwnQueue
    <3> QED
      BY <3>2, <3>3 DEF OwnQueue
  <2>12. /\ Len(out'[c]) = next'[c]
         /\ \A i \in 1..Len(out'[c]) : out'[c][i] = Chunk(1, i - 1)
         /\ consumer'[c] = "live" => /\ next'[c] <= sent'[1]
                                     /\ Len(list') <= next'[c] + Len(queue'[c])
         /\ consumer'[c] = "complete" => next'[c] = Length
    <3>1. CASE /\ e.kind = "chunk" /\ e.index >= next[c] /\ consumer'[c] = "live"
               /\ out'[c] = Append(out[c], e) /\ next'[c] = e.index + 1
      <4>1. next[c] = gone /\ e = Chunk(1, next[c]) /\ next'[c] = next[c] + 1
        BY <1>3, <2>4, <2>5, <2>8, <2>9, <3>1
      <4>2. /\ Len(out'[c]) = next[c] + 1 /\ out'[c][next[c] + 1] = e
            /\ \A i \in 1..next[c] : out'[c][i] = out[c][i]
        BY <2>8, <3>1, AppendProperties
      <4>3. ASSUME NEW i \in 1..Len(out'[c])
            PROVE  out'[c][i] = Chunk(1, i - 1)
        <5>1. CASE i <= next[c]
          BY <1>3, <2>8, <4>2, <5>1
        <5>2. CASE i = next[c] + 1
          BY <1>3, <4>1, <4>2, <5>2
        <5> QED
          BY <1>3, <4>2, <5>1, <5>2
      <4>4. sent'[1] = sent[1] /\ gone + 1 <= sent[1] /\ next'[c] = gone + 1
        BY <2>5, <2>6, <3>1, <4>1
      <4>5. Len(out'[c]) = next'[c]
        BY <4>1, <4>2
      <4>6. next'[c] <= sent'[1] /\ Len(list') <= next'[c] + Len(queue'[c])
        <5>1. Len(list') = next'[c] + Len(queue'[c]) /\ next'[c] + Len(queue'[c]) \in Nat
          BY <2>9, <4>4
        <5> QED
          BY <4>4, <5>1
      <4> QED
        BY <3>1, <4>3, <4>5, <4>6
    <3>2. CASE /\ e.kind = "chunk" /\ e.index < next[c] /\ consumer'[c] = "live"
               /\ out'[c] = out[c] /\ next'[c] = next[c]
      BY <1>3, <2>4, <2>5, <2>6, <2>8, <2>9, <3>2
    <3>3. CASE /\ e.kind = "done" /\ consumer'[c] = "complete"
               /\ out'[c] = out[c] /\ next'[c] = next[c]
      <4>1. gone = sent[1] /\ sent[1] = Length /\ next[c] \in Nat /\ sent[1] \in Nat
        BY <1>3, <2>5, <3>3
      <4>2. next'[c] = Length
        BY <2>8, <2>9, <3>3, <4>1
      <4>3. consumer'[c] # "live"
        BY <3>3
      <4> QED
        BY <2>8, <3>3, <4>2, <4>3
    <3>4. CASE consumer'[c] = "failed" /\ out'[c] = out[c] /\ next'[c] = next[c]
      BY <2>8, <3>4
    <3> QED
      BY <2>7, <3>1, <3>2, <3>3, <3>4
  <2>13. ASSUME NEW d \in Consumers \ {c}
         PROVE  /\ Len(out'[d]) = next'[d]
                /\ \A i \in 1..Len(out'[d]) : out'[d][i] = Chunk(1, i - 1)
                /\ consumer'[d] = "live" => /\ next'[d] <= sent'[1]
                                            /\ Len(list') <= next'[d] + Len(queue'[d])
                /\ consumer'[d] = "complete" => next'[d] = Length
    BY <1>2, <2>6 DEF OwnOut
  <2> QED
    BY <2>10, <2>11, <2>12, <2>13 DEF OwnOut
<1>11. ASSUME NEW s \in Streams, Start(s) \/ Produce(s)
       PROVE  OwnList' /\ OwnQueue' /\ OwnOut'
  <2>1. s = 1
    BY <1>0, <1>4, <1>11 DEF Start, Produce, PushChunk, PublishEnd, PublishError, Die, TypeOK
  <2> QED
    BY <1>5, <1>6, <1>7, <1>11, <2>1 DEF Produce
<1> QED
  BY <1>8, <1>9, <1>10, <1>11 DEF Next, Consume

-----------------------------------------------------------------------------
(* The theorems *)

LEMMA SharingInvariant ==
    ASSUME "redis" \notin Faults
    PROVE  Spec => []IInv
<1>1. IInv /\ [Next]_vars => IInv'
  <2> SUFFICES ASSUME IInv, [Next]_vars PROVE IInv'
    OBVIOUS
  <2>1. CASE Next
    <3>1. TypeOK' /\ Begun' /\ Unread' /\ Gapless'
      BY <2>1, TypeStep, BegunStep, UnreadStep, GaplessStep DEF IInv
    <3>2. InOrder' /\ Passed' /\ Own'
      BY <2>1, OrderStep, OwnStep
    <3> QED
      BY <3>1, <3>2 DEF IInv
  <2>2. CASE UNCHANGED vars
    <3>1. TypeOK' /\ Begun' /\ Unread'
      BY <2>2 DEF vars, IInv, TypeOK, Begun, Unread
    <3>2. Gapless' /\ InOrder' /\ Passed'
      BY <2>2 DEF vars, IInv, Gapless, Listed, Chunks, InOrder, Passed
    <3>3. Own'
      BY <2>2 DEF vars, IInv, Own, Solo, OwnList, OwnQueue, OwnOut
    <3> QED
      BY <3>1, <3>2, <3>3 DEF IInv
  <2> QED
    BY <2>1, <2>2
<1> QED
  BY <1>1, Initially, PTL DEF Spec

\* For any streams and any consumers: while Redis answers, no client is sent
\* an index again that it has passed, however many streams of the key run and
\* however each of them ends.
THEOREM NeverBackwards ==
    ASSUME "redis" \notin Faults
    PROVE  Spec => []InOrder
<1>1. IInv => InOrder
  BY DEF IInv
<1> QED
  BY <1>1, SharingInvariant, PTL

\* When one stream at most was begun, all the others are still off.
LEMMA OneStreamIsFirst ==
    ASSUME TypeOK, Begun, OneStream
    PROVE  Solo
<1> SUFFICES ASSUME NEW s \in Streams \ {1}, producer[s] # "off"
             PROVE  FALSE
  BY DEF Solo
<1> DEFINE started == {t \in Streams : producer[t] # "off"}
<1>1. {1, s} \subseteq started
  BY StreamAssumption DEF Begun
<1>2. IsFiniteSet(started) /\ Cardinality(started) \in Nat
  BY StreamAssumption, FS_Subset, FS_CardinalityType
<1>3. Cardinality({1, s}) = 2
  <2>1. IsFiniteSet({1}) /\ Cardinality({1}) = 1 /\ s \notin {1}
    BY FS_Singleton
  <2>2. Cardinality({1} \cup {s}) = Cardinality({1}) + 1
    BY <2>1, FS_AddElement
  <2>3. {1} \cup {s} = {1, s}
    OBVIOUS
  <2> QED
    BY <2>1, <2>2, <2>3
<1>4. 2 <= Cardinality(started)
  BY <1>1, <1>2, <1>3, FS_Subset
<1>5. Cardinality(started) <= 1
  BY DEF OneStream
<1> HIDE DEF started
<1> QED
  BY <1>2, <1>4, <1>5

\* For any length of the stream and any consumers: while Redis answers, who
\* joined the only stream of its key is sent exactly that stream, misses none
\* of it between the list and the channel, and has all of it when it is told
\* "done".
THEOREM ReplayExact ==
    ASSUME "redis" \notin Faults
    PROVE  Spec => []ReplayIsExact
<1>1. IInv => ReplayIsExact
  <2> SUFFICES ASSUME IInv, OneStream
               PROVE  ExactPrefix /\ DoneMeansComplete /\ NothingMissed
    BY DEF ReplayIsExact
  <2>1. TypeOK /\ Begun /\ Solo /\ OwnList /\ OwnQueue /\ OwnOut
    BY OneStreamIsFirst DEF IInv, Own
  <2>2. ExactPrefix
    <3>1. \A c \in Consumers : DOMAIN out[c] = 1..Len(out[c])
      BY <2>1 DEF TypeOK
    <3> QED
      BY <2>1, <3>1 DEF ExactPrefix, OwnOut
  <2>3. DoneMeansComplete
    BY <2>1 DEF DoneMeansComplete, OwnOut
  <2>4. ASSUME NEW c \in Consumers, consumer[c] = "live",
               NEW s \in Streams, NEW i \in next[c]..(sent[s] - 1)
        PROVE  \E j \in DOMAIN queue[c] : queue[c][j] = Chunk(s, i)
    <3>1. /\ next[c] \in Nat /\ sent[s] \in Nat /\ queue[c] \in Seq(Entry)
          /\ Len(queue[c]) \in Nat /\ DOMAIN queue[c] = 1..Len(queue[c])
          /\ list \in Seq(Entry) /\ Len(list) \in Nat
      BY <2>1, StreamAssumption DEF TypeOK
    <3>2. s = 1
      <4>1. sent[s] # 0
        BY <2>4, <3>1
      <4> QED
        BY <2>1, <4>1 DEF Solo, Begun
    <3>3. i \in Nat /\ next[c] <= i /\ i + 1 \in 1..sent[1]
      BY <2>4, <3>1, <3>2
    <3>4. i + 1 \in 1..Len(list) /\ list[i + 1] = Chunk(1, (i + 1) - 1)
      BY <2>1, <3>3 DEF OwnList
    <3>5. PICK gone \in Nat : /\ Len(list) = gone + Len(queue[c])
                             /\ \A j \in 1..Len(queue[c]) : queue[c][j] = list[gone + j]
      BY <2>1, <2>4 DEF OwnQueue
    <3>6. gone <= i
      <4>1. Len(list) <= next[c] + Len(queue[c])
        BY <2>1, <2>4 DEF OwnOut
      <4> QED
        BY <3>1, <3>3, <3>5, <4>1
    <3>7. (i + 1) - gone \in 1..Len(queue[c]) /\ gone + ((i + 1) - gone) = i + 1
      BY <3>1, <3>3, <3>4, <3>5, <3>6
    <3>8. queue[c][(i + 1) - gone] = Chunk(1, i)
      BY <3>3, <3>4, <3>5, <3>7
    <3> QED
      BY <3>1, <3>2, <3>7, <3>8
  <2>5. NothingMissed
    BY <2>4 DEF NothingMissed
  <2> QED
    BY <2>2, <2>3, <2>5
<1> QED
  BY <1>1, SharingInvariant, PTL
=============================================================================
