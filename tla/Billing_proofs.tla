--------------------------- MODULE Billing_proofs ---------------------------
(***************************************************************************)
(* Billing for any number of concurrent sessions, costs and trial credit.  *)
(***************************************************************************)
EXTENDS Billing, TLAPS

\* Only a session about to commit holds a read, and only of a row that exists.
ReadsAreHeld ==
    \A s \in Sessions :
        snapshot[s] # Absent => pc[s] = "commit" /\ wallet # Absent

\* Nothing is booked before the row exists.
BookedOnRow == wallet = Absent => debits = 0 /\ credits = 0

\* What makes NeverOvercharged inductive: as long as no recharge raced, neither
\* the row nor a value somebody is about to write back is below the books.
NothingBelowBooks ==
    "recharge" \notin raced =>
        /\ wallet # Absent => wallet >= Booked
        /\ \A s \in Sessions : snapshot[s] # Absent => snapshot[s] >= Booked

IInv == TypeOK /\ ReadsAreHeld /\ BookedOnRow /\ NothingBelowBooks

\* Before the first step nothing is booked and nothing was read.
LEMMA Initially == Init => IInv
BY BillingAssumption DEF Init, IInv, TypeOK, ReadsAreHeld, BookedOnRow,
    NothingBelowBooks, Booked, Absent

\* A commit that fails changes nothing but the session.
LEMMA CommitFails ==
    ASSUME IInv, NEW s \in Sessions, End(s),
           UNCHANGED <<wallet, debits, credits, forgiven, raced>>
    PROVE  IInv'
<1> USE BillingAssumption DEF IInv, Absent
<1>1. TypeOK'
  BY DEF End, Goto, TypeOK
<1>2. \A t \in Sessions : snapshot'[t] # -1 => snapshot'[t] = snapshot[t] /\ pc'[t] = pc[t]
  BY DEF End, Goto, TypeOK
<1> QED
  BY <1>1, <1>2 DEF ReadsAreHeld, BookedOnRow, NothingBelowBooks, Booked

\* The types of what a commit reads.
LEMMA CommitTypes ==
    ASSUME IInv, NEW s \in Sessions
    PROVE  /\ op[s] \in {"chat", "recharge", "balance"}
           /\ cost[s] \in Nat /\ snapshot[s] \in Nat \cup {-1}
           /\ wallet \in Nat \cup {-1} /\ debits \in Nat /\ credits \in Nat
           /\ forgiven \in Nat /\ raced \subseteq {"chat", "recharge"}
<1>1. cost[s] \in Nat
  <2>1. cost[s] \in Costs \/ cost[s] = 0
    BY DEF IInv, TypeOK
  <2>2. CASE cost[s] \in Costs
    BY <2>2, BillingAssumption, Zenon
  <2>3. CASE cost[s] = 0
    BY <2>3
  <2> QED
    BY <2>1, <2>2, <2>3
<1> QED
  BY <1>1 DEF IInv, TypeOK, Absent

\* A commit that succeeds writes no less than what the books then show.
LEMMA CommitSucceeds ==
    ASSUME IInv, NEW s \in Sessions, pc[s] = "commit",
           snapshot[s] = Absent => wallet = Absent,
           wallet' = IF NewBalance(s) = snapshot[s] THEN wallet ELSE NewBalance(s),
           Entry(s), Forgives(s), Races(s), End(s)
    PROVE  IInv'
<1> USE BillingAssumption DEF IInv, Absent
<1>1. /\ op[s] \in {"chat", "recharge", "balance"}
      /\ cost[s] \in Nat /\ snapshot[s] \in Nat \cup {-1}
      /\ wallet \in Nat \cup {-1} /\ debits \in Nat /\ credits \in Nat
      /\ forgiven \in Nat /\ raced \subseteq {"chat", "recharge"}
  BY CommitTypes
<1>2. Base(s) \in Nat /\ NewBalance(s) \in Nat /\ wallet' \in Nat
  <2>1. Base(s) \in Nat
    BY <1>1 DEF Base
  <2>2. NewBalance(s) \in Nat
    BY <1>1, <2>1 DEF NewBalance
  <2>3. NewBalance(s) = snapshot[s] => wallet # -1
    BY <2>2 DEF ReadsAreHeld
  <2> QED
    BY <1>1, <2>1, <2>2, <2>3
<1>3. debits' \in Nat /\ credits' \in Nat
  BY <1>1 DEF Entry
<1>4. TypeOK'
  <2>1. forgiven' \in Nat
    BY <1>1, <1>2 DEF Forgives
  <2>2. raced' \subseteq {"chat", "recharge"}
    <3>1. CASE op[s] = "balance"
      BY <1>1, <3>1 DEF Races
    <3>2. CASE op[s] \in {"chat", "recharge"}
      BY <1>1, <3>2 DEF Races
    <3> QED
      BY <1>1, <3>1, <3>2
  <2>3. TypeOK
    OBVIOUS
  <2> QED
    BY <1>2, <1>3, <2>1, <2>2, <2>3 DEF End, Goto, TypeOK
<1>5. \A t \in Sessions : snapshot'[t] # -1 =>
          t # s /\ snapshot'[t] = snapshot[t] /\ pc'[t] = pc[t] /\ pc[t] = "commit"
  BY DEF End, Goto, TypeOK, ReadsAreHeld
<1>6. ReadsAreHeld'
  BY <1>2, <1>5 DEF ReadsAreHeld
<1>7. BookedOnRow'
  BY <1>2 DEF BookedOnRow
<1>8. ASSUME "recharge" \notin raced'
      PROVE  /\ wallet' >= Booked'
             /\ \A t \in Sessions : snapshot'[t] # -1 => snapshot'[t] >= Booked'
  <2>1. "recharge" \notin raced
    BY <1>8 DEF Races
  <2>2. Base(s) >= Booked /\ Booked \in Int
    BY <1>1, <2>1 DEF Base, Booked, BookedOnRow, NothingBelowBooks
  <2>3. wallet # -1 => wallet >= Booked
    BY <2>1 DEF NothingBelowBooks
  <2>4. \A t \in Sessions : snapshot'[t] # -1 => snapshot'[t] >= Booked /\ snapshot'[t] \in Nat
    BY <1>4, <1>5, <2>1 DEF NothingBelowBooks, TypeOK
  <2>5. CASE op[s] = "recharge"
    <3>1. ~Overlaps(s)
      BY <1>1, <1>8, <2>5 DEF Races
    <3>2. \A t \in Sessions : snapshot'[t] = -1
      BY <1>5, <3>1 DEF Overlaps
    <3>3. NewBalance(s) = Base(s) + Amount /\ Booked' = Booked + Amount
      BY <1>1, <2>5 DEF NewBalance, Entry, Booked
    <3>4. NewBalance(s) # snapshot[s]
      BY <1>1, <1>2, <3>3 DEF Base
    <3> QED
      BY <1>2, <2>2, <3>2, <3>3, <3>4
  <2>6. CASE op[s] = "chat"
    <3>1. NewBalance(s) >= Base(s) - cost[s]
      BY <1>1, <1>2, <2>6 DEF NewBalance
    <3>2. Booked' = Booked - cost[s]
      BY <1>1, <2>6 DEF Entry, Booked
    <3>3. wallet' >= Booked'
      BY <1>1, <1>2, <2>2, <2>3, <3>1, <3>2
    <3> QED
      BY <1>1, <2>2, <2>4, <3>2, <3>3
  <2>7. CASE op[s] = "balance"
    <3>1. NewBalance(s) = Base(s) /\ Booked' = Booked
      BY <1>1, <2>7 DEF NewBalance, Entry, Booked
    <3> QED
      BY <1>1, <1>2, <2>2, <2>3, <2>4, <3>1
  <2> QED
    BY <1>1, <2>5, <2>6, <2>7
<1> QED
  BY <1>4, <1>6, <1>7, <1>8 DEF NothingBelowBooks

\* Every other step leaves the books alone, and reads or creates a wallet.
LEMMA OtherSteps ==
    ASSUME IInv, NEW s \in Sessions,
           \/ CreateTrial(s) \/ Leave(s) \/ Serve(s) \/ ReadWallet(s)
           \/ \E operation \in Operations : Authenticate(s, operation)
    PROVE  IInv'
<1> USE BillingAssumption DEF IInv, Absent, ReadsAreHeld, BookedOnRow,
        NothingBelowBooks, Booked, Goto, TypeOK
<1>1. CASE CreateTrial(s)
  BY <1>1 DEF CreateTrial
<1>2. CASE Leave(s)
  BY <1>2 DEF Leave
<1>3. CASE Serve(s)
  BY <1>3 DEF Serve
<1>4. CASE ReadWallet(s)
  BY <1>4 DEF ReadWallet
<1>5. ASSUME NEW operation \in Operations, Authenticate(s, operation)
      PROVE  IInv'
  <2>1. operation \in {"chat", "recharge", "balance"}
    OBVIOUS
  <2> QED
    BY <1>5, <2>1 DEF Authenticate, Admitted
<1> QED
  BY <1>1, <1>2, <1>3, <1>4, <1>5

\* No step leaves the inductive invariant.
LEMMA StepKeepsBooks == IInv /\ [Next]_vars => IInv'
<1> SUFFICES ASSUME IInv, [Next]_vars PROVE IInv'
  OBVIOUS
<1>1. CASE UNCHANGED vars
  BY <1>1 DEF vars, IInv, TypeOK, ReadsAreHeld, BookedOnRow,
              NothingBelowBooks, Booked
<1>2. ASSUME NEW s \in Sessions, Commit(s) PROVE IInv'
  BY <1>2, CommitFails, CommitSucceeds DEF Commit
<1> QED
  BY <1>1, <1>2, OtherSteps DEF Next, Step

\* However many sessions of a tenant run concurrently, and whatever the
\* database loses, a tenant is never charged more than the ledger shows,
\* unless a recharge was committed into another session's read and write.
THEOREM NobodyOvercharged == Spec => [](TypeOK /\ NeverOvercharged)
<1>1. IInv => TypeOK /\ NeverOvercharged
  BY BillingAssumption DEF IInv, TypeOK, BookedOnRow, NothingBelowBooks,
     NeverOvercharged, Balance, Booked, Absent
<1> QED
  BY Initially, StepKeepsBooks, <1>1, PTL DEF Spec

-----------------------------------------------------------------------------

\* What makes SerialAccounts inductive: a session that committed a change
\* behind another one's read would have raced, so every value read is still
\* the one in the row.
ReadsAreCurrent ==
    raced = {} => \A s \in Sessions : snapshot[s] # Absent => snapshot[s] = wallet

SInv == ReadsAreCurrent /\ SerialAccounts

LEMMA InitiallySerial == Init => SInv
  BY BillingAssumption DEF Init, SInv, ReadsAreCurrent, SerialAccounts, Balance,
     Booked, Absent

\* A commit that fails forgets a read.
LEMMA CommitFailsSerial ==
    ASSUME IInv, SInv, NEW s \in Sessions, End(s),
           UNCHANGED <<wallet, debits, credits, forgiven, raced>>
    PROVE  SInv'
<1>1. \A t \in Sessions : snapshot'[t] # Absent => snapshot'[t] = snapshot[t]
  BY DEF End, IInv, TypeOK
<1> QED
  BY <1>1 DEF SInv, ReadsAreCurrent, SerialAccounts, Balance, Booked

\* A commit that succeeds, and does not race, moves the row as it moves the
\* books, but for what the floor at zero forgives.
LEMMA CommitSucceedsSerial ==
    ASSUME IInv, SInv, NEW s \in Sessions, pc[s] = "commit",
           snapshot[s] = Absent => wallet = Absent,
           wallet' = IF NewBalance(s) = snapshot[s] THEN wallet ELSE NewBalance(s),
           Entry(s), Forgives(s), Races(s), End(s)
    PROVE  SInv'
<1> SUFFICES ASSUME raced' = {}
             PROVE  /\ \A t \in Sessions : snapshot'[t] # Absent => snapshot'[t] = wallet'
                    /\ Balance' = Booked' + forgiven'
  BY DEF SInv, ReadsAreCurrent, SerialAccounts
<1>1. /\ op[s] \in {"chat", "recharge", "balance"}
      /\ cost[s] \in Nat /\ snapshot[s] \in Nat \cup {-1}
      /\ wallet \in Nat \cup {-1} /\ debits \in Nat /\ credits \in Nat
      /\ forgiven \in Nat
  BY CommitTypes
<1>2. raced = {} /\ (op[s] # "balance" => ~Overlaps(s))
  BY DEF Races
<1>3. /\ Balance = Booked + forgiven
      /\ snapshot[s] = wallet /\ Base(s) = Balance
  BY <1>2 DEF SInv, ReadsAreCurrent, SerialAccounts, Base, Balance
<1>4. \A t \in Sessions : snapshot'[t] # Absent =>
          t # s /\ snapshot'[t] = snapshot[t] /\ snapshot[t] = wallet
                /\ wallet # Absent /\ pc[t] = "commit"
  BY <1>2 DEF End, IInv, TypeOK, ReadsAreHeld, SInv, ReadsAreCurrent
<1>5. Base(s) \in Nat /\ NewBalance(s) \in Nat
  <2>1. Base(s) \in Nat
    BY <1>1, BillingAssumption DEF Base, Absent
  <2> QED
    BY <1>1, <2>1, BillingAssumption DEF NewBalance
<1>6. wallet' = NewBalance(s) /\ Balance' = NewBalance(s)
  BY <1>1, <1>3, <1>5 DEF Balance, Absent
<1>7. CASE op[s] = "balance"
  <2>1. NewBalance(s) = Balance /\ Booked' = Booked /\ forgiven' = forgiven
    BY <1>1, <1>3, <1>7 DEF NewBalance, Entry, Booked, Forgives
  <2> QED
    BY <1>3, <1>4, <1>6, <2>1 DEF Balance
<1>8. CASE op[s] # "balance"
  <2>1. \A t \in Sessions : snapshot'[t] = Absent
    BY <1>2, <1>4, <1>8 DEF Overlaps
  <2>2. CASE op[s] = "recharge"
    BY <1>1, <1>3, <1>6, <2>1, <2>2, BillingAssumption
       DEF NewBalance, Entry, Booked, Forgives
  <2>3. CASE op[s] = "chat"
    BY <1>1, <1>3, <1>5, <1>6, <2>1, <2>3, BillingAssumption
       DEF NewBalance, Entry, Booked, Forgives
  <2> QED
    BY <1>1, <1>8, <2>2, <2>3
<1> QED
  BY <1>7, <1>8

\* Every other step leaves the books alone; a row is created with the balance
\* a missing one stands for.
LEMMA OtherStepsSerial ==
    ASSUME IInv, SInv, NEW s \in Sessions,
           \/ CreateTrial(s) \/ Leave(s) \/ Serve(s) \/ ReadWallet(s)
           \/ \E operation \in Operations : Authenticate(s, operation)
    PROVE  SInv'
<1> USE DEF SInv, ReadsAreCurrent, SerialAccounts, Balance, Booked
<1>1. CASE CreateTrial(s)
  BY <1>1, BillingAssumption DEF CreateTrial, IInv, ReadsAreHeld, Absent
<1>2. CASE Leave(s)
  BY <1>2 DEF Leave
<1>3. CASE Serve(s)
  BY <1>3 DEF Serve
<1>4. CASE ReadWallet(s)
  BY <1>4 DEF ReadWallet, IInv, TypeOK
<1>5. ASSUME NEW operation \in Operations, Authenticate(s, operation)
      PROVE  SInv'
  BY <1>5 DEF Authenticate
<1> QED
  BY <1>1, <1>2, <1>3, <1>4, <1>5

\* However many sessions of a tenant follow one another, whatever they cost
\* and whichever commits fail: until two of them overlap, wallet and ledger
\* differ by exactly what the floor at zero did not collect (db_log_request).
THEOREM AccountsAgree == Spec => []SerialAccounts
<1>1. IInv /\ [Next]_vars => IInv'
  BY StepKeepsBooks
<1>2. IInv /\ SInv /\ [Next]_vars => SInv'
  <2> SUFFICES ASSUME IInv, SInv, [Next]_vars PROVE SInv'
    OBVIOUS
  <2>1. CASE UNCHANGED vars
    BY <2>1 DEF vars, SInv, ReadsAreCurrent, SerialAccounts, Balance, Booked
  <2>2. ASSUME NEW s \in Sessions, Commit(s) PROVE SInv'
    BY <2>2, CommitFailsSerial, CommitSucceedsSerial DEF Commit
  <2> QED
    BY <2>1, <2>2, OtherStepsSerial DEF Next, Step
<1>3. SInv => SerialAccounts
  BY DEF SInv
<1> QED
  BY Initially, InitiallySerial, <1>1, <1>2, <1>3, PTL DEF Spec
=============================================================================
