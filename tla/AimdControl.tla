----------------------------- MODULE AimdControl -----------------------------
(***************************************************************************)
(* What inferroute/rate_limiter.py promises its callers, whatever the      *)
(* latencies: slots are granted below the limit only, and the limit moves  *)
(* by +1 up to MaxLimit, or by a tenth down, the latter only on a queue    *)
(* estimate above Beta.  The estimate is the part of the limit that is     *)
(* queued, so it is always smaller than the limit.                         *)
(***************************************************************************)
EXTENDS Integers

CONSTANTS InitialLimit, MinLimit, MaxLimit, Alpha, Beta

ASSUME LimitAssumption ==
    /\ MinLimit \in Nat /\ InitialLimit \in Nat /\ MaxLimit \in Nat
    /\ Alpha \in Nat /\ Beta \in Nat /\ Alpha <= Beta + 1
    /\ MinLimit <= InitialLimit /\ InitialLimit <= MaxLimit

VARIABLES
    limit,  \* self.limit
    active  \* self.active_requests

ControlInit == limit = InitialLimit /\ active = 0

\* Fault: one slot too many.
GrantAtLimit == active <= limit /\ active' = active + 1 /\ UNCHANGED limit

Grant ==
    /\ active < limit
    /\ active' = active + 1
    /\ UNCHANGED limit

\* Fault: an increase without its cap.
IncreaseUncapped == limit + 1

\* Fault: an increase that stops short of the maximum.
IncreaseBelowMax == IF limit + 1 < MaxLimit THEN limit + 1 ELSE limit

Increase == IF limit + 1 <= MaxLimit THEN limit + 1 ELSE MaxLimit

Decrease == IF (9 * limit) \div 10 >= MinLimit THEN (9 * limit) \div 10 ELSE MinLimit

\* The limit after a release that estimated a queue of q.
Adjusted(q) ==
    IF q < Alpha THEN Increase ELSE IF q > Beta THEN Decrease ELSE limit

Return ==
    /\ active' = IF active > 0 THEN active - 1 ELSE 0
    /\ \/ UNCHANGED limit
       \/ \E q \in 0..(limit - 1) : limit' = Adjusted(q)

ControlNext == Grant \/ Return

ControlSpec == ControlInit /\ [][ControlNext]_<<limit, active>>

-----------------------------------------------------------------------------

\* The smallest limit a decrease can produce: it needs an estimate above Beta,
\* hence a limit of at least Beta + 2.
Floor ==
    LET lowest == (9 * (Beta + 2)) \div 10
    IN  IF lowest <= InitialLimit THEN lowest ELSE InitialLimit

\* The limit never falls below Floor, so a MinLimit under it (2 against 6 with
\* the defaults) is never reached, nor does the limit exceed MaxLimit.
LimitWithinBounds == limit \in Nat /\ Floor <= limit /\ limit <= MaxLimit

\* However the limit moves, no more than MaxLimit requests hold a slot.
ActiveWithinBounds == active \in Nat /\ active <= MaxLimit

WithinBounds == LimitWithinBounds /\ ActiveWithinBounds
=============================================================================
