------------------------------ MODULE Admission ------------------------------
(***************************************************************************)
(* POST /v1/chat/completions (chat_completions in inferroute/main.py) from *)
(* the exact-cache lookup to the answer: the response cache, the dedup     *)
(* lock and its pub/sub channel in Redis (inferroute/cache.py), and the    *)
(* concurrency limiter's slot count in the gateway process.  Many requests *)
(* run the handler concurrently; every await is a point where they         *)
(* interleave, so every action is one Redis command, one limiter call or   *)
(* one upstream outcome.  Requests with the same key are the ones whose    *)
(* normalised bodies hash to the same digest: `stream` is not part of it.  *)
(*                                                                         *)
(* The limiter is AimdControl's: slots below a limit that any release may  *)
(* move (VegasLimiter, which refines it, says by which latencies), also    *)
(* below the number of slots that are out.  What the upstream handlers do  *)
(* to breakers, chunks and the ledger is modelled elsewhere; here they     *)
(* answer, fail and tell the waiters, or fail and tell nobody.             *)
(***************************************************************************)
EXTENDS AimdControl, FiniteSets

CONSTANTS
    Requests,  \* the requests of a behaviour, each served once
    Keys,      \* the digests they have
    KeyOf,     \* the digest of each
    Streaming, \* the values of "stream" clients send, a subset of BOOLEAN
    Faults,    \* what may go wrong, see FaultKinds
    NoOne      \* an unset lock

FaultKinds == {"ttl", "redis", "upstream", "routing", "crash"}

ASSUME AdmissionAssumption ==
    /\ IsFiniteSet(Requests) /\ Requests # {}
    /\ KeyOf \in [Requests -> Keys]
    /\ Streaming \subseteq BOOLEAN
    /\ Faults \subseteq FaultKinds
    /\ NoOne \notin Requests

VARIABLES
    pc,      \* where each request's handler is
    stream,  \* its answer is to be a stream
    owner,   \* its is_owner
    holds,   \* it was granted a slot that was not returned yet
    lock,    \* the dedup lock of each key, naming who set it
    cached,  \* the exact-cache entry of each key is present
    inbox,   \* what the channel delivered to a subscribed waiter
    loose    \* auxiliary: the keys whose lock lost its exclusion, see Loosen

vars == <<pc, stream, owner, holds, limit, active, lock, cached, inbox, loose>>

\* The limiter's state, and the lock's.
slots == <<holds, limit, active>>
locks == <<lock, loose>>

\* Handlers that ended, by how.
Final == {"hit", "shared", "joined", "done", "refused", "broken", "lost"}

\* An upstream call is running or its result is being handled.
Serving == {"exec", "store", "publish", "fail"}
Body    == {"body", "bodystore", "bodypublish"}

Phases == {"new", "lock", "subscribe", "waiting", "admit", "reject", "route",
           "unlock", "slot"} \cup Serving \cup Body \cup Final

TypeOK ==
    /\ pc \in [Requests -> Phases]
    /\ stream \in [Requests -> BOOLEAN]
    /\ owner \in [Requests -> BOOLEAN]
    /\ holds \in [Requests -> BOOLEAN]
    /\ WithinBounds
    /\ lock \in [Keys -> Requests \cup {NoOne}]
    /\ cached \in [Keys -> BOOLEAN]
    /\ inbox \in [Requests -> {"empty", "result", "error"}]
    /\ loose \subseteq Keys

Init ==
    /\ pc = [r \in Requests |-> "new"]
    /\ stream = [r \in Requests |-> FALSE]
    /\ owner = [r \in Requests |-> FALSE]
    /\ holds = [r \in Requests |-> FALSE]
    /\ ControlInit
    /\ lock = [k \in Keys |-> NoOne]
    /\ cached = [k \in Keys |-> FALSE]
    /\ inbox = [r \in Requests |-> "empty"]
    /\ loose = {}

Goto(r, phase) == pc' = [pc EXCEPT ![r] = phase]

\* cache.py logs a Redis error and goes on: a lookup that fails is a miss, a
\* lock that fails is granted, a write or a publish that fails is not made.
RedisFails == "redis" \in Faults

\* Auxiliary: from here on the lock of k no longer keeps others out.
Loosen(k) == loose' = loose \cup {k}

-----------------------------------------------------------------------------
(* Cache, lock and waiting *)

Lookup(r) ==
    /\ pc[r] = "new"
    /\ \E s \in Streaming : stream' = [stream EXCEPT ![r] = s]
    /\ \/ cached[KeyOf[r]] /\ Goto(r, "hit")
       \/ (~cached[KeyOf[r]] \/ RedisFails) /\ Goto(r, "lock")
    /\ UNCHANGED <<owner, slots, locks, cached, inbox>>

\* Fault: the lock is SET without NX.
TakeLock(r) ==
    /\ pc[r] = "lock"
    /\ lock' = [lock EXCEPT ![KeyOf[r]] = r]
    /\ owner' = [owner EXCEPT ![r] = TRUE]
    /\ Goto(r, "admit")
    /\ UNCHANGED <<stream, slots, cached, inbox, loose>>

\* SET NX succeeds on a free lock only.
AcquireLock(r) ==
    /\ pc[r] = "lock"
    /\ \/ /\ lock[KeyOf[r]] = NoOne
          /\ lock' = [lock EXCEPT ![KeyOf[r]] = r]
          /\ owner' = [owner EXCEPT ![r] = TRUE]
          /\ Goto(r, "admit")
          /\ UNCHANGED loose
       \/ /\ RedisFails
          /\ owner' = [owner EXCEPT ![r] = TRUE]
          /\ Goto(r, "admit")
          /\ Loosen(KeyOf[r])
          /\ UNCHANGED lock
       \/ /\ lock[KeyOf[r]] # NoOne
          /\ Goto(r, IF stream[r] THEN "joined" ELSE "subscribe")
          /\ UNCHANGED <<locks, owner>>
    /\ UNCHANGED <<stream, slots, cached, inbox>>

Subscribe(r) ==
    /\ pc[r] = "subscribe"
    /\ \/ Goto(r, "waiting")
       \/ RedisFails /\ Goto(r, "admit")
    /\ UNCHANGED <<stream, owner, slots, locks, cached, inbox>>

Receive(r) ==
    /\ pc[r] = "waiting"
    /\ inbox[r] # "empty"
    /\ Goto(r, IF inbox[r] = "result" THEN "shared" ELSE "admit")
    /\ UNCHANGED <<stream, owner, slots, locks, cached, inbox>>

\* Fault: a waiter without a deadline stays until the lock is gone.
GiveUpUnlocked(r) ==
    /\ pc[r] = "waiting"
    /\ lock[KeyOf[r]] = NoOne
    /\ Goto(r, "admit")
    /\ UNCHANGED <<stream, owner, slots, locks, cached, inbox>>

\* The deadline, or the one-second read timeout, or a Redis error.
GiveUp(r) ==
    /\ pc[r] = "waiting"
    /\ Goto(r, "admit")
    /\ UNCHANGED <<stream, owner, slots, locks, cached, inbox>>

-----------------------------------------------------------------------------
(* The limiter and the router *)

AcquireSlot(r) ==
    /\ pc[r] = "admit"
    /\ \/ /\ Grant
          /\ holds' = [holds EXCEPT ![r] = TRUE]
          /\ Goto(r, "route")
       \/ active >= limit /\ Goto(r, "reject") /\ UNCHANGED slots
    /\ UNCHANGED <<stream, owner, locks, cached, inbox>>

\* DEL does not look at whose lock it is.
DeleteLock(r) ==
    \/ lock' = [lock EXCEPT ![KeyOf[r]] = NoOne] /\ UNCHANGED loose
    \/ RedisFails /\ UNCHANGED lock /\ Loosen(KeyOf[r])

\* Fault: the limiter is asked inside the try block, so a refused request
\* goes through its cleanup.
RefuseInsideTry(r) ==
    /\ pc[r] = "reject"
    /\ DeleteLock(r)
    /\ Goto(r, "slot")
    /\ UNCHANGED <<stream, owner, slots, cached, inbox>>

\* A refused request deletes the lock of its key, also when it is a duplicate
\* that waited in vain and the lock is another's.
Refuse(r) ==
    /\ pc[r] = "reject"
    /\ IF lock[KeyOf[r]] \in {r, NoOne}
       THEN DeleteLock(r)
       ELSE /\ lock' \in {lock, [lock EXCEPT ![KeyOf[r]] = NoOne]}
            /\ lock' = lock => RedisFails
            /\ Loosen(KeyOf[r])
    /\ Goto(r, "refused")
    /\ UNCHANGED <<stream, owner, slots, cached, inbox>>

\* choose_backend runs before the try block.  A stream's handler returns its
\* StreamingResponse here, before the response body runs; router_r1 ignores
\* `stream` and answers inside the try block, like a blocking request.
Route(r) ==
    /\ pc[r] = "route"
    /\ \/ Goto(r, IF stream[r] THEN "unlock" ELSE "exec") /\ UNCHANGED stream
       \/ stream[r] /\ Goto(r, "exec") /\ stream' = [stream EXCEPT ![r] = FALSE]
       \/ "routing" \in Faults /\ Goto(r, "broken") /\ UNCHANGED stream
    /\ UNCHANGED <<owner, slots, locks, cached, inbox>>

-----------------------------------------------------------------------------
(* Upstream, inside the try block *)

\* Fault: the cleanup of owners forgets the lock.
AfterTryLocked(r) == IF owner[r] THEN "slot" ELSE "done"

\* The finally block cleans up after owners only.
AfterTry(r) == IF owner[r] THEN "unlock" ELSE "done"

Upstream(r) ==
    /\ pc[r] = "exec"
    /\ \/ Goto(r, "store")
       \/ "upstream" \in Faults /\ Goto(r, "fail")
       \/ "upstream" \in Faults /\ Goto(r, AfterTry(r))
    /\ UNCHANGED <<stream, owner, slots, locks, cached, inbox>>

StoreExact(r) ==
    /\ pc[r] \in {"store", "bodystore"}
    /\ \/ cached' = [cached EXCEPT ![KeyOf[r]] = TRUE]
       \/ RedisFails /\ UNCHANGED cached
    /\ Goto(r, IF pc[r] = "store" THEN "publish" ELSE "bodypublish")
    /\ UNCHANGED <<stream, owner, slots, locks, inbox>>

\* Waiters take the first message; who subscribes later never sees it.
Deliver(r, message) ==
    \/ inbox' = [w \in Requests |->
                    IF pc[w] = "waiting" /\ inbox[w] = "empty" /\ KeyOf[w] = KeyOf[r]
                    THEN message ELSE inbox[w]]
    \/ RedisFails /\ UNCHANGED inbox

PublishResult(r) ==
    /\ pc[r] \in {"publish", "bodypublish"}
    /\ Deliver(r, "result")
    /\ Goto(r, IF pc[r] = "publish" THEN AfterTry(r) ELSE "done")
    /\ UNCHANGED <<stream, owner, slots, locks, cached>>

\* Fault: the cleanup follows the calls instead of standing in a finally.
PublishErrorAndLeave(r) ==
    /\ pc[r] = "fail"
    /\ Deliver(r, "error")
    /\ Goto(r, "done")
    /\ UNCHANGED <<stream, owner, slots, locks, cached>>

PublishError(r) ==
    /\ pc[r] = "fail"
    /\ Deliver(r, "error")
    /\ Goto(r, AfterTry(r))
    /\ UNCHANGED <<stream, owner, slots, locks, cached>>

-----------------------------------------------------------------------------
(* The finally block, and the body of a stream after it *)

Unlock(r) ==
    /\ pc[r] = "unlock"
    /\ DeleteLock(r)
    /\ Goto(r, "slot")
    /\ UNCHANGED <<stream, owner, slots, cached, inbox>>

ReleaseSlot(r) ==
    /\ pc[r] = "slot"
    /\ Return
    /\ holds' = [holds EXCEPT ![r] = FALSE]
    /\ Goto(r, IF stream[r] THEN "body" ELSE "done")
    /\ UNCHANGED <<stream, owner, locks, cached, inbox>>

StreamBody(r) ==
    /\ pc[r] = "body"
    /\ \/ Goto(r, "bodystore")
       \/ "upstream" \in Faults /\ Goto(r, "done")
    /\ UNCHANGED <<stream, owner, slots, locks, cached, inbox>>

-----------------------------------------------------------------------------
(* The environment *)

\* The lock lives 30 seconds, whatever its owner does.
LockExpires(k) ==
    /\ "ttl" \in Faults
    /\ lock[k] # NoOne
    /\ lock' = [lock EXCEPT ![k] = NoOne]
    /\ Loosen(k)
    /\ UNCHANGED <<pc, stream, owner, slots, cached, inbox>>

CacheExpires(k) ==
    /\ "ttl" \in Faults
    /\ cached[k]
    /\ cached' = [cached EXCEPT ![k] = FALSE]
    /\ UNCHANGED <<pc, stream, owner, slots, locks, inbox>>

InProgress == {r \in Requests : pc[r] \notin Final \cup {"new"}}

\* The gateway restarts: its requests, its slot count and the limit it had
\* found are gone, the keys in Redis are not.
Crash ==
    /\ "crash" \in Faults
    /\ InProgress # {}
    /\ pc' = [r \in Requests |-> IF r \in InProgress THEN "lost" ELSE pc[r]]
    /\ holds' = [r \in Requests |-> FALSE]
    /\ limit' = InitialLimit
    /\ active' = 0
    /\ UNCHANGED <<stream, owner, locks, cached, inbox>>

-----------------------------------------------------------------------------

Step(r) ==
    \/ AcquireLock(r) \/ Subscribe(r) \/ Receive(r) \/ GiveUp(r)
    \/ AcquireSlot(r) \/ Refuse(r) \/ Route(r)
    \/ Upstream(r) \/ StoreExact(r) \/ PublishResult(r) \/ PublishError(r)
    \/ Unlock(r) \/ ReleaseSlot(r) \/ StreamBody(r)

Next ==
    \/ \E r \in Requests : Lookup(r) \/ Step(r)
    \/ \E k \in Keys : LockExpires(k) \/ CacheExpires(k)
    \/ Crash

Spec == Init /\ [][Next]_vars

\* The event loop resumes every handler whose await completes, and every
\* await does: upstream calls and waits on the channel have timeouts.
FairSpec == Spec /\ \A r \in Requests : WF_vars(Step(r))

-----------------------------------------------------------------------------
(* Properties *)

Holders == {r \in Requests : holds[r]}

\* The limiter's counter is exactly the number of slots granted and not
\* returned, however its limit moves meanwhile: no path returns a slot twice,
\* or one it never had, which would admit more than the limit.
SlotsCounted == active = Cardinality(Holders)

\* A handler that ended with its slot still held was not an owner (the wait
\* for a duplicate fell through), or routing raised outside the try block.
OnlyTheseLeakSlots ==
    \A r \in Requests : pc[r] \in Final /\ holds[r] => ~owner[r] \/ pc[r] = "broken"

\* A lock outlives the request that set it only when routing raised, when the
\* gateway restarted, or when Redis failed the DEL: what its TTL is for.
OnlyTheseLeakLocks ==
    \A k \in Keys \ loose : lock[k] # NoOne /\ pc[lock[k]] \in Final \cup Body
                               => pc[lock[k]] \in {"broken", "lost"}

\* The lock's exclusion: two owners of one key serve it together only after
\* its lock expired, Redis failed a SET or DEL of it, or a refused duplicate
\* deleted it under its owner; nothing else, such as an owner's cleanup or
\* a restart, loosens it.  (A stream's body runs unlocked.)
OwnersExclusive ==
    \A r, s \in Requests :
        /\ KeyOf[r] = KeyOf[s] /\ owner[r] /\ owner[s]
        /\ pc[r] \in Serving /\ pc[s] \in Serving
        => r = s \/ KeyOf[r] \in loose

\* Everybody is answered: nobody waits for ever on an owner that failed,
\* crashed, or published before the waiter had subscribed.
EveryRequestEnds == \A r \in Requests : pc[r] # "new" ~> pc[r] \in Final

-----------------------------------------------------------------------------
(* What the documentation says *)

\* architecture.md: "If an identical prompt is already being processed by the
\* gateway, the second request does not hit the upstream model."
OneUpstreamCall ==
    \A r, s \in Requests :
        /\ KeyOf[r] = KeyOf[s]
        /\ pc[r] \in {"exec", "body"} /\ pc[s] \in {"exec", "body"}
        => r = s

\* architecture.md draws release_slot after the last chunk of a stream.
UpstreamHoldsSlot == \A r \in Requests : pc[r] \in {"exec", "body"} => holds[r]

\* release_dedup_lock: "Release the dedup lock after processing is complete".
LockedWhileServing ==
    \A r \in Requests : pc[r] \in Serving /\ owner[r] => lock[KeyOf[r]] = r

\* main.py, before the limiter: "We are the owner!" - and so, with the
\* cleanup of owners in the finally block, no ended request keeps a slot.
FinishedHoldNoSlot == \A r \in Requests : pc[r] \in Final => ~holds[r]
=============================================================================
