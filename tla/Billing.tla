------------------------------- MODULE Billing -------------------------------
(***************************************************************************)
(* One tenant's wallet row and transaction ledger: the gate every endpoint *)
(* runs first (verify_api_key and check_wallet_balance in inferroute/      *)
(* auth.py), the charge after an answered request (db_log_request), the    *)
(* balance and the recharge endpoints (inferroute/main.py).                *)
(*                                                                         *)
(* Each operation is a database session of its own that SELECTs the wallet *)
(* and later COMMITs a value computed from what it read; sessions of the   *)
(* same tenant run concurrently under PostgreSQL's READ COMMITTED.  A      *)
(* commit writes the wallet and the ledger entry together or not at all.   *)
(* Money is in whole units; the ledger is kept as the sums of its negative *)
(* and of its positive entries.                                            *)
(***************************************************************************)
EXTENDS Integers

CONSTANTS
    Sessions,     \* concurrent clients of the tenant
    Operations,   \* what they do: a subset of {"chat", "recharge", "balance"}
    Trial,        \* balance of a new wallet ($5.00)
    Amount,       \* of a recharge
    Costs,        \* what a request may cost, 0 when served from a cache
    DatabaseFails,\* whether the database may be unreachable
    MaxDebit,     \* bound: chats start while less than this was charged
    MaxCredit     \* bound: recharges start while less than this was recharged

ASSUME BillingAssumption ==
    /\ Operations \subseteq {"chat", "recharge", "balance"}
    /\ Trial \in Nat \ {0} /\ Amount \in Nat \ {0}
    /\ Costs \subseteq Nat
    /\ DatabaseFails \in BOOLEAN
    /\ MaxDebit \in Nat /\ MaxCredit \in Nat

Absent == -1  \* there is no wallet row

VARIABLES
    wallet,    \* balance_usd of the committed row, or Absent
    debits,    \* what the committed charges sum up to
    credits,   \* what the committed recharges sum up to
    pc,        \* where each session is
    op,        \* the operation it runs
    cost,      \* what its request cost
    snapshot,  \* the wallet it read
    forgiven,  \* cost that max(0, ...) did not collect (not in the code)
    raced      \* kinds of operation that committed a change between another
               \* session's read and commit (not in the code)

vars == <<wallet, debits, credits, pc, op, cost, snapshot, forgiven, raced>>

TypeOK ==
    /\ wallet \in Nat \cup {Absent}
    /\ debits \in Nat /\ credits \in Nat
    /\ pc \in [Sessions -> {"idle", "create", "refused", "serve", "read", "commit"}]
    /\ op \in [Sessions -> {"chat", "recharge", "balance"}]
    /\ cost \in [Sessions -> Costs \cup {0}]
    /\ snapshot \in [Sessions -> Nat \cup {Absent}]
    /\ forgiven \in Nat
    /\ raced \subseteq {"chat", "recharge"}

Init ==
    /\ wallet = Absent
    /\ debits = 0 /\ credits = 0
    /\ pc = [s \in Sessions |-> "idle"]
    /\ op = [s \in Sessions |-> "balance"]
    /\ cost = [s \in Sessions |-> 0]
    /\ snapshot = [s \in Sessions |-> Absent]
    /\ forgiven = 0
    /\ raced = {}

Goto(s, phase) == pc' = [pc EXCEPT ![s] = phase]

Admitted(s) == IF op'[s] = "chat" THEN "serve" ELSE "read"

-----------------------------------------------------------------------------
(* The gate *)

Starts(operation) ==
    /\ operation = "chat" => debits < MaxDebit
    /\ operation = "recharge" => credits < MaxCredit

\* A dry wallet is refused whatever the endpoint; a database error admits.
Authenticate(s, operation) ==
    /\ pc[s] = "idle"
    /\ Starts(operation)
    /\ op' = [op EXCEPT ![s] = operation]
    /\ \/ wallet = Absent /\ Goto(s, "create")
       \/ wallet = 0      /\ Goto(s, "refused")
       \/ wallet > 0      /\ Goto(s, Admitted(s))
       \/ DatabaseFails   /\ Goto(s, Admitted(s))
    /\ UNCHANGED <<wallet, debits, credits, cost, snapshot, forgiven, raced>>

\* The INSERT of a trial wallet; losing a race for it raises an integrity
\* error, which admits like any other database error.
CreateTrial(s) ==
    /\ pc[s] = "create"
    /\ \/ wallet' = IF wallet = Absent THEN Trial ELSE wallet
       \/ DatabaseFails /\ UNCHANGED wallet
    /\ Goto(s, IF op[s] = "chat" THEN "serve" ELSE "read")
    /\ UNCHANGED <<debits, credits, op, cost, snapshot, forgiven, raced>>

Leave(s) ==
    /\ pc[s] = "refused"
    /\ Goto(s, "idle")
    /\ UNCHANGED <<wallet, debits, credits, op, cost, snapshot, forgiven, raced>>

-----------------------------------------------------------------------------
(* The operation *)

\* The request is answered; its charge runs afterwards in the background.
Serve(s) ==
    /\ pc[s] = "serve"
    /\ \E c \in Costs : cost' = [cost EXCEPT ![s] = c]
    /\ Goto(s, "read")
    /\ UNCHANGED <<wallet, debits, credits, op, snapshot, forgiven, raced>>

ReadWallet(s) ==
    /\ pc[s] = "read"
    /\ snapshot' = [snapshot EXCEPT ![s] = wallet]
    /\ Goto(s, "commit")
    /\ UNCHANGED <<wallet, debits, credits, op, cost, forgiven, raced>>

\* Fault: a wallet created by the charge has no trial balance.
BaseWithoutTrial(s) == IF snapshot[s] = Absent THEN 0 ELSE snapshot[s]

Base(s) == IF snapshot[s] = Absent THEN Trial ELSE snapshot[s]

NewBalance(s) ==
    CASE op[s] = "chat"     -> IF cost[s] > Base(s) THEN 0 ELSE Base(s) - cost[s]
      [] op[s] = "recharge" -> Base(s) + Amount
      [] op[s] = "balance"  -> Base(s)

\* The TransactionLedger row; a query and a free answer write none.
Entry(s) ==
    /\ debits' = debits + (IF op[s] = "chat" THEN cost[s] ELSE 0)
    /\ credits' = credits + (IF op[s] = "recharge" THEN Amount ELSE 0)

\* A session whose read is still to be followed by its commit.
Overlaps(s) == \E other \in Sessions \ {s} : pc[other] = "commit"

Races(s) ==
    raced' = IF op[s] # "balance" /\ Overlaps(s) THEN raced \cup {op[s]} ELSE raced

Forgives(s) ==
    forgiven' = IF op[s] = "chat" /\ cost[s] > Base(s)
                THEN forgiven + (cost[s] - Base(s)) ELSE forgiven

End(s) ==
    /\ Goto(s, "idle")
    /\ cost' = [cost EXCEPT ![s] = 0]
    /\ snapshot' = [snapshot EXCEPT ![s] = Absent]
    /\ UNCHANGED op

\* Fault: wallet and ledger are committed one after the other, and the second
\* commit may fail.
CommitApart(s) ==
    /\ pc[s] = "commit"
    /\ snapshot[s] = Absent => wallet = Absent
    /\ wallet' = IF NewBalance(s) = snapshot[s] THEN wallet ELSE NewBalance(s)
    /\ \/ Entry(s)
       \/ DatabaseFails /\ UNCHANGED <<debits, credits>>
    /\ Forgives(s) /\ Races(s)
    /\ End(s)

\* The UPDATE writes an absolute value, and only if the session changed it.
\* The INSERT of a missing row fails if somebody else inserted it meanwhile;
\* a failed commit is logged and everything in it is lost.
Commit(s) ==
    /\ pc[s] = "commit"
    /\ \/ /\ snapshot[s] = Absent => wallet = Absent
          /\ wallet' = IF NewBalance(s) = snapshot[s] THEN wallet ELSE NewBalance(s)
          /\ Entry(s) /\ Forgives(s) /\ Races(s)
       \/ /\ DatabaseFails \/ (snapshot[s] = Absent /\ wallet # Absent)
          /\ UNCHANGED <<wallet, debits, credits, forgiven, raced>>
    /\ End(s)

-----------------------------------------------------------------------------

Step(s) == CreateTrial(s) \/ Leave(s) \/ Serve(s) \/ ReadWallet(s) \/ Commit(s)

Next == \E s \in Sessions :
            Step(s) \/ \E operation \in Operations : Authenticate(s, operation)

Spec == Init /\ [][Next]_vars

\* Sessions run to their end, and somebody tries to recharge again and again.
Fairness ==
    \A s \in Sessions :
        /\ WF_vars(Step(s))
        /\ "recharge" \in Operations => SF_vars(Authenticate(s, "recharge"))

FairSpec == Spec /\ Fairness

-----------------------------------------------------------------------------
(* Properties *)

\* What the ledger says the tenant should have.
Booked == Trial + credits - debits

Balance == IF wallet = Absent THEN Trial ELSE wallet

\* A tenant is never charged more than the ledger shows: concurrent sessions
\* may overwrite each other's deductions, and that, like the floor at zero,
\* errs on its side.  The one exception is a recharge committed while another
\* session is about to commit what it read before (db_log_request's absolute
\* write of the balance), which overwrites the recharge.
NeverOvercharged == "recharge" \notin raced => Balance >= Booked

\* While sessions do not overlap, wallet and ledger differ by exactly what the
\* floor at zero did not collect, also when commits fail.
SerialAccounts == raced = {} => Balance = Booked + forgiven

-----------------------------------------------------------------------------
(* What the documentation says *)

\* auth.py refuses a dry wallet with "Wallet balance dry. Please recharge.":
\* a tenant that tries to gets out of it.
DryWalletRecovers == wallet = 0 ~> wallet > 0
=============================================================================
