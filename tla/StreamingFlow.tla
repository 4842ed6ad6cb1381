---------------------------- MODULE StreamingFlow ---------------------------
(***************************************************************************)
(* The body of one streaming response (inferroute/main.py): the generators *)
(* of handle_streaming_flow - "plain", or "speculative" when the first     *)
(* chunks are held back until their quality is checked - and of            *)
(* handle_cascade_streaming_flow, which holds back every model's answer    *)
(* until one is accepted.                                                  *)
(*                                                                         *)
(* The generator yields a chunk to its client and then pushes it to the    *)
(* requests that joined the stream.  At every yield or await the client    *)
(* may disconnect, and no except block sees that.                          *)
(***************************************************************************)
EXTENDS SequencesExt, FiniteSets

CONSTANTS
    Backends,
    MaxChain,   \* bound on the length of a cascade
    MaxChunks,  \* bound on the chunks of one model's answer
    HoldLimit   \* chunks a speculative answer is held back for (15)

ASSUME StreamAssumption ==
    /\ {MaxChain, MaxChunks, HoldLimit} \subseteq Nat \ {0}

VARIABLES
    kind,     \* which generator
    chain,    \* the backends it may call, in order
    step,     \* position of the current call
    pc,
    got,      \* chunks received from the current call
    ended,    \* the current call's stream came to its end
    held,     \* chunks received and not yet yielded
    sent,     \* chunks yielded to the client
    shared,   \* chunks pushed to the joined requests
    depth,    \* QUEUE_DEPTH of each backend, this request's share
    ok, bad,  \* record_success and record_failure calls per backend
    rejected, \* calls whose answer did not pass the quality check
    cached,   \* what is in the exact cache, as <<call, chunks>>
    told      \* the message that ended the shared stream

vars == <<kind, chain, step, pc, got, ended, held, sent, shared, depth, ok, bad,
          rejected, cached, told>>

Kinds == {"plain", "speculative", "cascade"}

Sequences(lengths) == UNION {[1..n -> Backends] : n \in lengths}

\* The router names a fallback for every speculative flow.
Chains(k) ==
    CASE k = "plain"       -> {s \in Sequences(1..2) : IsInjective(s)}
      [] k = "speculative" -> {s \in Sequences({2}) : IsInjective(s)}
      [] k = "cascade"     -> Sequences(1..MaxChain)

Zero    == [b \in Backends |-> 0]
Nothing == <<0, 0>>
Stats   == <<0, 0>>  \* the chunk that ends a complete stream

Ended == {"closed", "broken", "gone"}

Init ==
    /\ kind \in Kinds /\ chain \in Chains(kind) /\ step = 1
    /\ pc = "start"
    /\ got = 0 /\ ended = FALSE /\ held = <<>>
    /\ sent = <<>> /\ shared = <<>>
    /\ depth = Zero /\ ok = Zero /\ bad = Zero
    /\ rejected = {}
    /\ cached = Nothing
    /\ told = "nothing"

Current == chain[step]
AtLast  == step = Len(chain)

Up(f, b)   == [f EXCEPT ![b] = @ + 1]
Down(f, b) == [f EXCEPT ![b] = @ - 1]

\* Chunks are held back: always by a cascade; by a speculative flow until the
\* primary's first chunks passed the check, after which they are yielded.
Holding ==
    \/ kind = "cascade"
    \/ kind = "speculative" /\ step = 1 /\ sent = <<>>

\* The fallback of a plain or speculative flow.
OnFallback == kind # "cascade" /\ step = 2

-----------------------------------------------------------------------------
(* The upstream call *)

\* Fault: the chunks held back of the call before are kept.
StartKeepingHeld ==
    /\ pc = "start"
    /\ depth' = Up(depth, Current)
    /\ got' = 0 /\ ended' = FALSE
    /\ pc' = "recv"
    /\ UNCHANGED <<held, sent, shared, ok, bad, rejected, cached, told>>

Start ==
    /\ pc = "start"
    /\ depth' = Up(depth, Current)
    /\ got' = 0 /\ ended' = FALSE /\ held' = <<>>
    /\ pc' = "recv"
    /\ UNCHANGED <<sent, shared, ok, bad, rejected, cached, told>>

Receive == pc = "recv" /\ got < MaxChunks /\ got' = got + 1

\* A chunk goes to the client at once ...
Pass ==
    /\ Receive
    /\ ~Holding
    /\ sent' = Append(sent, <<step, got'>>)
    /\ pc' = "push"
    /\ UNCHANGED <<ended, held, shared, depth, ok, bad, rejected, cached, told>>

\* ... or waits for the check.
Hold ==
    /\ Receive
    /\ Holding
    /\ held' = Append(held, <<step, got'>>)
    /\ pc' = IF kind = "speculative" /\ Len(held') >= HoldLimit THEN "judge" ELSE "recv"
    /\ UNCHANGED <<ended, sent, shared, depth, ok, bad, rejected, cached, told>>

EndOfStream ==
    /\ pc = "recv"
    /\ ~OnFallback
    /\ ended' = TRUE
    /\ pc' = IF Holding THEN "judge" ELSE "succeed"
    /\ UNCHANGED <<got, held, sent, shared, depth, ok, bad, rejected, cached, told>>

-----------------------------------------------------------------------------
(* Failures *)

\* The next call, if there is one.
FailOver == IF AtLast THEN pc' = "fail" ELSE pc' = "start"

\* Fault: a call that is not the last one fails without leaving its queue.
StreamFailsInQueue ==
    /\ pc = "recv"
    /\ ~OnFallback
    /\ bad' = Up(bad, Current)
    /\ depth' = IF AtLast THEN Down(depth, Current) ELSE depth
    /\ FailOver
    /\ UNCHANGED <<got, ended, held, sent, shared, ok, rejected, cached, told>>

\* The adapter raises.  The fallback's failure does not come here.
StreamFails ==
    /\ pc = "recv"
    /\ ~OnFallback
    /\ bad' = Up(bad, Current)
    /\ depth' = Down(depth, Current)
    /\ FailOver
    /\ UNCHANGED <<got, ended, held, sent, shared, ok, rejected, cached, told>>

\* Fault: the fallback's stream ends like the primary's.
FallbackEnds ==
    /\ pc = "recv"
    /\ OnFallback
    /\ ended' = TRUE
    /\ pc' = "succeed"
    /\ UNCHANGED <<got, held, sent, shared, depth, ok, bad, rejected, cached, told>>

\* handle_streaming_flow never assigns the fallback's breaker (cb_fb): when
\* the fallback's stream ends or fails, reporting it raises a NameError, the
\* handler's own report raises another, and the generator is torn down.
FallbackBreaks ==
    /\ pc = "recv"
    /\ OnFallback
    /\ ended' \in BOOLEAN
    /\ pc' = "broken"
    /\ UNCHANGED <<got, held, sent, shared, depth, ok, bad, rejected, cached, told>>

\* A plain or speculative flow without a fallback tells the joined requests,
\* a cascade whose models all failed tells its own client only.
GiveUp ==
    /\ pc = "fail"
    /\ told' = IF kind = "cascade" THEN told ELSE "error"
    /\ pc' = "closed"
    /\ UNCHANGED <<got, ended, held, sent, shared, depth, ok, bad, rejected, cached>>

-----------------------------------------------------------------------------
(* Quality *)

JudgeSpeculative(good) ==
    /\ kind = "speculative"
    /\ IF good THEN pc' = "flush" /\ UNCHANGED <<depth, ok, bad, rejected>>
       ELSE /\ rejected' = rejected \cup {step}
            /\ bad' = Up(bad, Current)
            /\ depth' = Down(depth, Current)
            /\ FailOver
            /\ UNCHANGED ok

\* The answer of the last model is accepted whatever its score.
JudgeCascade(good) ==
    /\ kind = "cascade"
    /\ ok' = Up(ok, Current)
    /\ IF good \/ AtLast THEN pc' = "flush" /\ UNCHANGED <<depth, rejected>>
       ELSE /\ rejected' = rejected \cup {step}
            /\ depth' = Down(depth, Current)
            /\ pc' = "start"
    /\ UNCHANGED bad

Judge ==
    /\ pc = "judge"
    /\ \E good \in BOOLEAN : JudgeSpeculative(good) \/ JudgeCascade(good)
    /\ UNCHANGED <<got, ended, held, sent, shared, cached, told>>

-----------------------------------------------------------------------------
(* Chunks out *)

\* Where the generator goes when nothing is held back any more.
Emptied ==
    IF ~ended THEN "recv" ELSE IF kind = "cascade" THEN "store" ELSE "succeed"

\* Fault: all that was held back is yielded before any of it is pushed.
FlushAtOnce ==
    /\ pc = "flush"
    /\ sent' = sent \o held
    /\ held' = <<>>
    /\ pc' = IF held = <<>> THEN Emptied ELSE "push"
    /\ UNCHANGED <<got, ended, shared, depth, ok, bad, rejected, cached, told>>

Flush ==
    /\ pc = "flush"
    /\ IF held = <<>> THEN pc' = Emptied /\ UNCHANGED <<sent, held>>
       ELSE /\ sent' = Append(sent, Head(held))
            /\ held' = Tail(held)
            /\ pc' = "push"
    /\ UNCHANGED <<got, ended, shared, depth, ok, bad, rejected, cached, told>>

Push ==
    /\ pc = "push"
    /\ shared' = Append(shared, Last(sent))
    /\ pc' = IF Last(sent) = Stats THEN "end"
             ELSE IF held # <<>> THEN "flush" ELSE Emptied
    /\ UNCHANGED <<got, ended, held, sent, depth, ok, bad, rejected, cached, told>>

-----------------------------------------------------------------------------
(* After the stream *)

Succeed ==
    /\ pc = "succeed"
    /\ ok' = Up(ok, Current)
    /\ pc' = "check"
    /\ UNCHANGED <<got, ended, held, sent, shared, depth, bad, rejected, cached, told>>

\* Fault: an answer that is not valid ends the stream without a word.
CheckQuietly ==
    /\ pc = "check"
    /\ pc' \in {"store", "leave"}
    /\ UNCHANGED <<got, ended, held, sent, shared, depth, ok, bad, rejected, cached, told>>

\* validate_stream_chunk on the text of a plain or speculative answer.  It may
\* raise (a schema of the client's that is none), outside of any try.
Check ==
    /\ pc = "check"
    /\ \/ pc' = "store" /\ UNCHANGED told
       \/ pc' = "leave" /\ told' = "error"
       \/ pc' = "broken" /\ UNCHANGED told
    /\ UNCHANGED <<got, ended, held, sent, shared, depth, ok, bad, rejected, cached>>

Store ==
    /\ pc = "store"
    /\ cached' = <<step, got>>
    /\ pc' = "share"
    /\ UNCHANGED <<got, ended, held, sent, shared, depth, ok, bad, rejected, told>>

\* publish_dedup_result, which a joined stream does not listen to, and the
\* statistics as the last chunk.
Share ==
    /\ pc = "share"
    /\ sent' = Append(sent, Stats)
    /\ pc' = "push"
    /\ UNCHANGED <<got, ended, held, shared, depth, ok, bad, rejected, cached, told>>

PublishEnd ==
    /\ pc = "end"
    /\ told' = "done"
    /\ pc' = "leave"
    /\ UNCHANGED <<got, ended, held, sent, shared, depth, ok, bad, rejected, cached>>

Leave ==
    /\ pc = "leave"
    /\ depth' = Down(depth, Current)
    /\ pc' = "closed"
    /\ UNCHANGED <<got, ended, held, sent, shared, ok, bad, rejected, cached, told>>

\* The client goes: GeneratorExit or CancelledError is no Exception.
Disconnect ==
    /\ pc \notin Ended
    /\ pc' = "gone"
    /\ UNCHANGED <<got, ended, held, sent, shared, depth, ok, bad, rejected, cached, told>>

-----------------------------------------------------------------------------

Next ==
    /\ \/ Start \/ Pass \/ Hold \/ EndOfStream
       \/ StreamFails \/ FallbackBreaks \/ GiveUp
       \/ Judge \/ Flush \/ Push
       \/ Succeed \/ Check \/ Store \/ Share \/ PublishEnd \/ Leave
       \/ Disconnect
    /\ UNCHANGED <<kind, chain>>
    /\ step' = IF pc' = "start" THEN step + 1 ELSE step

Spec == Init /\ [][Next]_vars

-----------------------------------------------------------------------------
(* Properties *)

\* The joined requests are never ahead of the client and at most the chunk
\* behind that is being pushed, in the client's order.
SharedFollowsClient ==
    /\ IsPrefix(shared, sent)
    /\ Len(sent) - Len(shared) \in
           CASE pc = "push" -> {1} [] pc = "gone" -> {0, 1} [] OTHER -> {0}

\* An answer that did not pass its check is never seen, not in part, though a
\* speculative one is held back for no more than its first chunks.
RejectedUnseen ==
    /\ \A i \in DOMAIN sent : sent[i][1] \notin rejected
    /\ kind = "speculative" => Len(held) <= HoldLimit

Answer(call, n) == [i \in 1..n |-> <<call, i>>]

\* The exact cache holds the whole answer the client was sent and nothing of
\* another call, so that a cached answer reads like the streamed one.
CachedIsWhatClientSaw ==
    cached # Nothing =>
        LET whole == Answer(cached[1], cached[2])
        IN  sent \in {whole, Append(whole, Stats)}

\* A generator that came to its end is in no backend's queue, whichever calls
\* failed or were rejected; one that was torn down still is.
DepthSettles == pc = "closed" => depth = Zero

Calls(b) == Cardinality({i \in 1..step : chain[i] = b})

\* By then the breakers have heard of every call exactly once.
CallsJudgedOnce == pc = "closed" => \A b \in Backends : ok[b] + bad[b] = Calls(b)

\* What the calls leave behind once the generator has come to its end.
CallsSettle == DepthSettles /\ CallsJudgedOnce

\* The joined requests are told how it ended, so that they do not wait for
\* their deadline, except when every model of a cascade failed; and "done" is
\* said only behind the complete, cached stream.
JoinedHearTheEnd ==
    /\ pc = "closed" /\ (kind = "cascade" => cached # Nothing) => told # "nothing"
    /\ told = "done" =>
          cached # Nothing /\ shared = Append(Answer(cached[1], cached[2]), Stats)

-----------------------------------------------------------------------------
(* What the documentation says *)

\* docs/architecture.md: when the quality check fails the gateway "opens a
\* secondary cloud stream to transparently complete the request for the
\* client".
FallbackCompletes == OnFallback /\ 1 \in rejected /\ ended => pc # "broken"
=============================================================================
