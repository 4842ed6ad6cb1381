----------------------------- MODULE StreamDedup -----------------------------
(***************************************************************************)
(* Sharing one upstream stream among identical requests (push_stream_chunk,*)
(* publish_stream_end, publish_stream_error and wait_for_stream_dedup in   *)
(* inferroute/cache.py).  The owner's stream appends every chunk to a      *)
(* Redis list and publishes it on a channel, in one MULTI transaction; a   *)
(* joined request subscribes, replays the list, and then follows the       *)
(* channel.                                                                *)
(*                                                                         *)
(* One key.  Several streams of it may run, also at the same time: the     *)
(* dedup lock is released before a stream's body starts (see Admission),   *)
(* and a stream that failed leaves no cache entry.                         *)
(***************************************************************************)
EXTENDS Integers, Sequences, FiniteSets

CONSTANTS
    Streams,    \* upstream streams of this key, numbered from 1
    Consumers,  \* requests that joined
    Length,     \* chunks of a stream
    Faults      \* what may go wrong, see FaultKinds

FaultKinds == {"error", "die", "redis"}

ASSUME StreamAssumption ==
    /\ Streams \subseteq Nat \ {0} /\ 1 \in Streams /\ IsFiniteSet(Streams)
    /\ Length \in Nat
    /\ Faults \subseteq FaultKinds

VARIABLES
    producer,  \* per stream: "off", "on" or "ended"
    sent,      \* per stream: its chunk_idx
    list,      \* the chunk list; nothing ever deletes it, its TTL is 120 s
    consumer,  \* per consumer: "off", "subscribed", "live", or how it ended: "complete"
               \* on a done marker, "cut" on a deadline or a read timeout (the client
               \* sees [DONE] after either), "failed" on an error marker
    queue,     \* per consumer: channel messages not yet read
    next,      \* per consumer: next_expected_index
    out        \* per consumer: the chunks yielded to its client

vars == <<producer, sent, list, consumer, queue, next, out>>

Chunk(s, i) == [kind |-> "chunk", from |-> s, index |-> i]
Done(s)     == [kind |-> "done",  from |-> s, index |-> Length]
Error(s)    == [kind |-> "error", from |-> s, index |-> 0]

Init ==
    /\ producer = [s \in Streams |-> "off"]
    /\ sent = [s \in Streams |-> 0]
    /\ list = <<>>
    /\ consumer = [c \in Consumers |-> "off"]
    /\ queue = [c \in Consumers |-> <<>>]
    /\ next = [c \in Consumers |-> 0]
    /\ out = [c \in Consumers |-> <<>>]

-----------------------------------------------------------------------------
(* Streams *)

\* Append to the list and publish, or - a Redis error is logged and the
\* stream goes on - neither.
Broadcast(entry) ==
    \/ /\ list' = Append(list, entry)
       /\ queue' = [c \in Consumers |->
                      IF consumer[c] \in {"subscribed", "live"}
                      THEN Append(queue[c], entry) ELSE queue[c]]
    \/ "redis" \in Faults /\ UNCHANGED <<list, queue>>

Start(s) ==
    /\ producer[s] = "off"
    /\ \A t \in Streams : t < s => producer[t] # "off"
    /\ producer' = [producer EXCEPT ![s] = "on"]
    /\ UNCHANGED <<sent, list, consumer, queue, next, out>>

PushChunk(s) ==
    /\ producer[s] = "on"
    /\ sent[s] < Length
    /\ Broadcast(Chunk(s, sent[s]))
    /\ sent' = [sent EXCEPT ![s] = @ + 1]
    /\ UNCHANGED <<producer, consumer, next, out>>

PublishEnd(s) ==
    /\ producer[s] = "on"
    /\ sent[s] = Length
    /\ Broadcast(Done(s))
    /\ producer' = [producer EXCEPT ![s] = "ended"]
    /\ UNCHANGED <<sent, consumer, next, out>>

PublishError(s) ==
    /\ "error" \in Faults
    /\ producer[s] = "on"
    /\ Broadcast(Error(s))
    /\ producer' = [producer EXCEPT ![s] = "ended"]
    /\ UNCHANGED <<sent, consumer, next, out>>

\* The stream stops without a word: its client left, the generator raised,
\* the gateway died.  An owner that does not stream looks the same.
Die(s) ==
    /\ "die" \in Faults
    /\ producer[s] = "on"
    /\ producer' = [producer EXCEPT ![s] = "ended"]
    /\ UNCHANGED <<sent, list, consumer, queue, next, out>>

-----------------------------------------------------------------------------
(* wait_for_stream_dedup *)

\* Fault: a consumer follows the channel without replaying the list.
SubscribeOnly(c) ==
    /\ consumer[c] = "off"
    /\ consumer' = [consumer EXCEPT ![c] = "live"]
    /\ UNCHANGED <<producer, sent, list, queue, next, out>>

Subscribe(c) ==
    /\ consumer[c] = "off"
    /\ consumer' = [consumer EXCEPT ![c] = "subscribed"]
    /\ UNCHANGED <<producer, sent, list, queue, next, out>>

Has(kind) == \E i \in DOMAIN list : list[i].kind = kind

Chunks == {i \in DOMAIN list : list[i].kind = "chunk"}

\* Chunks go by index, and those with the same index by their place.
UpTo(i) ==
    {j \in Chunks : \/ list[j].index < list[i].index
                    \/ list[j].index = list[i].index /\ j <= i}

\* The list's chunks in index order; the sort is stable.
History ==
    [n \in 1..Cardinality(Chunks) |-> list[CHOOSE i \in Chunks : Cardinality(UpTo(i)) = n]]

\* A marker in the list ends the wait before it starts.
AfterHistory == IF Has("done") THEN "complete" ELSE IF Has("error") THEN "failed" ELSE "live"

\* Fault: what the list held is not discounted from the channel.
ReadHistoryFromZero(c) ==
    /\ consumer[c] = "subscribed"
    /\ out' = [out EXCEPT ![c] = History]
    /\ consumer' = [consumer EXCEPT ![c] = AfterHistory]
    /\ UNCHANGED <<producer, sent, list, queue, next>>

\* Everything in the list is yielded before its markers are looked at.
ReadHistory(c) ==
    /\ consumer[c] = "subscribed"
    /\ out' = [out EXCEPT ![c] = History]
    /\ next' = [next EXCEPT ![c] = Len(History)]
    /\ consumer' = [consumer EXCEPT ![c] = AfterHistory]
    /\ UNCHANGED <<producer, sent, list, queue>>

Receive(c) ==
    /\ consumer[c] = "live"
    /\ queue[c] # <<>>
    /\ queue' = [queue EXCEPT ![c] = Tail(@)]
    /\ LET e == Head(queue[c]) IN
       \/ /\ e.kind = "chunk" /\ e.index >= next[c]
          /\ out' = [out EXCEPT ![c] = Append(@, e)]
          /\ next' = [next EXCEPT ![c] = e.index + 1]
          /\ UNCHANGED consumer
       \/ /\ e.kind = "chunk" /\ e.index < next[c]
          /\ UNCHANGED <<consumer, next, out>>
       \/ /\ e.kind = "done"
          /\ consumer' = [consumer EXCEPT ![c] = "complete"]
          /\ UNCHANGED <<next, out>>
       \/ /\ e.kind = "error"
          /\ consumer' = [consumer EXCEPT ![c] = "failed"]
          /\ UNCHANGED <<next, out>>
    /\ UNCHANGED <<producer, sent, list>>

\* Fault: the wait ends with the done marker only.
StopWhenDone(c) ==
    /\ consumer[c] = "live"
    /\ Has("done")
    /\ consumer' = [consumer EXCEPT ![c] = "cut"]
    /\ UNCHANGED <<producer, sent, list, queue, next, out>>

\* The 30-second deadline, or a read timeout that finds the lock gone - which
\* it is while a stream runs - whether or not the list has its done marker.
StopWaiting(c) ==
    /\ consumer[c] = "live"
    /\ consumer' = [consumer EXCEPT ![c] = "cut"]
    /\ UNCHANGED <<producer, sent, list, queue, next, out>>

-----------------------------------------------------------------------------

Produce(s) == PushChunk(s) \/ PublishEnd(s) \/ PublishError(s) \/ Die(s)

Consume(c) == ReadHistory(c) \/ Receive(c) \/ StopWaiting(c)

Next ==
    \/ \E s \in Streams : Start(s) \/ Produce(s)
    \/ \E c \in Consumers : Subscribe(c) \/ Consume(c)

Spec == Init /\ [][Next]_vars

\* A stream that runs goes on or stops, and a consumer's generator is resumed.
FairSpec ==
    /\ Spec
    /\ \A s \in Streams : WF_vars(Produce(s))
    /\ \A c \in Consumers : WF_vars(Consume(c))

-----------------------------------------------------------------------------
(* Properties *)

\* What a consumer has yielded is a gapless prefix of the stream, each chunk
\* once: the switch from the list to the channel neither loses nor repeats the
\* chunks that were pushed between the subscription and the read of the list.
ExactPrefix ==
    \A c \in Consumers : \A i \in DOMAIN out[c] : out[c][i] = Chunk(1, i - 1)

\* A consumer that saw the done marker has yielded the whole stream.
DoneMeansComplete ==
    \A c \in Consumers : consumer[c] = "complete" => Len(out[c]) = Length

\* Nothing is lost on the way: every chunk pushed is in the consumer's output
\* or still ahead of it in its queue, so a consumer that is not cut off
\* reaches the end.
NothingMissed ==
    \A c \in Consumers : \A s \in Streams :
        consumer[c] = "live" =>
            \A i \in next[c]..(sent[s] - 1) :
                \E j \in DOMAIN queue[c] : queue[c][j] = Chunk(s, i)

OneStream == Cardinality({s \in Streams : producer[s] # "off"}) <= 1

\* While Redis answers, a consumer of the only stream of its key replays it
\* exactly.  A second stream within the list's lifetime is spliced into it.
ReplayIsExact == OneStream => ExactPrefix /\ DoneMeansComplete /\ NothingMissed

\* However many streams of the key run, one after another or at once, and
\* however each of them ends, a consumer's client never sees an index again
\* that it has passed.
InOrder ==
    \A c \in Consumers : \A i, j \in DOMAIN out[c] :
        i < j => out[c][i].index <= out[c][j].index

\* Every joined request ends, also when the stream dies without a marker.
ConsumersEnd ==
    \A c \in Consumers :
        consumer[c] = "subscribed" ~> consumer[c] \in {"complete", "cut", "failed"}

-----------------------------------------------------------------------------
(* What the documentation says *)

\* architecture.md: the second request "streams the same response
\* simultaneously" - the response of one upstream stream, not of two.
SameResponse ==
    \A c \in Consumers : \A i, j \in DOMAIN out[c] : out[c][i].from = out[c][j].from
=============================================================================
