---------------------------- MODULE EscrowLedger ----------------------------
(***************************************************************************)
(* InMemoryLedger (include/Ledger.h, src/core/Ledger.cpp): balances of     *)
(* peers and the escrows of tasks, shared by threads.                      *)
(*                                                                         *)
(* credit, debit and transfer hold balances_mutex_ for the whole of their  *)
(* work and are one action.  The escrow operations take one mutex after    *)
(* the other and are split where they hold none.  What changes nothing is  *)
(* left out: the queries, invalid arguments, events (their callback runs   *)
(* without a lock), and removeAccount, which only removes an account whose *)
(* balance is stored as zero, and setBalance_unsafe stores no zero.        *)
(***************************************************************************)
EXTENDS Integers, FiniteSets, Functions, Maps

CONSTANTS
  LedgerThreads, Peers, EscrowTasks,
  LedgerAmounts,    \* amounts of the calls
  MaxBalance,       \* 2^64 - 1 in the code
  MaxFunded         \* bound on the funds in the ledger

ASSUME LedgerAssumption ==
  /\ IsFiniteSet(LedgerThreads) /\ IsFiniteSet(Peers) /\ IsFiniteSet(EscrowTasks)
  /\ LedgerAmounts \subseteq Nat \ {0}      \* validateAmount, Escrow::isValid
  /\ MaxBalance \in Nat /\ MaxFunded \in Nat

VARIABLES
  balances,     \* balances_
  escrows,      \* escrows_
  call,         \* the escrow operation each thread is in, and what it holds
  funded,       \* history: what was credited less what was debited
  overwritten   \* history: the amounts of escrows that another one replaced

ledgerVars == <<balances, escrows, call, funded, overwritten>>

Escrow == [client : Peers, amount : LedgerAmounts, locked : BOOLEAN]

Idle == [at |-> "idle"]
Calls ==
  {Idle} \cup
  [at : {"debit", "insert"}, task : EscrowTasks, escrow : Escrow] \cup
  [at : {"pay", "putback"}, task : EscrowTasks, escrow : Escrow, payee : Peers]

LedgerInit ==
  /\ balances = EmptyMap /\ escrows = EmptyMap
  /\ call = [w \in LedgerThreads |-> Idle]
  /\ funded = 0 /\ overwritten = 0

-----------------------------------------------------------------------------
(* Balances, under balances_mutex_.                                        *)

GetBalance(peer) == IF peer \in DOMAIN balances THEN balances[peer] ELSE 0

SetBalance(map, peer, balance) ==
  IF balance = 0 THEN Erase(map, peer) ELSE Put(map, peer, balance)

\* Fault: the sum is not checked for an overflow.
AlwaysFits(peer, amount) == TRUE

\* Otherwise credit throws.
Fits(peer, amount) == GetBalance(peer) <= MaxBalance - amount

Credited(peer, amount) == SetBalance(balances, peer, GetBalance(peer) + amount)
Debited(peer, amount) == SetBalance(balances, peer, GetBalance(peer) - amount)

Credit(peer, amount) ==
  /\ Fits(peer, amount)
  /\ funded + amount <= MaxFunded
  /\ balances' = Credited(peer, amount)
  /\ funded' = funded + amount
  /\ UNCHANGED <<escrows, call, overwritten>>

Debit(peer, amount) ==
  /\ GetBalance(peer) >= amount
  /\ balances' = Debited(peer, amount)
  /\ funded' = funded - amount
  /\ UNCHANGED <<escrows, call, overwritten>>

Transfer(from, to, amount) ==
  /\ from # to
  /\ GetBalance(from) >= amount /\ Fits(to, amount)
  /\ balances' = SetBalance(Debited(from, amount), to, GetBalance(to) + amount)
  /\ UNCHANGED <<escrows, call, funded, overwritten>>

-----------------------------------------------------------------------------
(* Escrows.                                                                *)

Return(w) == call' = [call EXCEPT ![w] = Idle]
GoTo(w, at) == call' = [call EXCEPT ![w].at = at]

\* escrows_[task] = escrow, whatever it held.
Store(task, escrow) ==
  /\ escrows' = Put(escrows, task, escrow)
  /\ overwritten' = overwritten + (IF task \in DOMAIN escrows THEN escrows[task].amount ELSE 0)

\* putInEscrow finds the task free, ...
PutInEscrow(w, task, escrow) ==
  /\ call[w] = Idle
  /\ task \notin DOMAIN escrows
  /\ call' = [call EXCEPT ![w] = [at |-> "debit", task |-> task, escrow |-> escrow]]
  /\ UNCHANGED <<balances, escrows, funded, overwritten>>

\* ... debits the client, or gives up, ...
DebitClient(w) ==
  /\ call[w].at = "debit"
  /\ LET escrow == call[w].escrow
     IN  \/ /\ GetBalance(escrow.client) >= escrow.amount
            /\ balances' = Debited(escrow.client, escrow.amount)
            /\ GoTo(w, "insert")
         \/ /\ GetBalance(escrow.client) < escrow.amount
            /\ Return(w)
            /\ UNCHANGED balances
  /\ UNCHANGED <<escrows, funded, overwritten>>

\* ... and stores the escrow without looking again.
InsertEscrow(w) ==
  /\ call[w].at = "insert"
  /\ Store(call[w].task, call[w].escrow)
  /\ Return(w)
  /\ UNCHANGED <<balances, funded>>

\* releaseEscrow takes the escrow off the table for the worker, refundEscrow for
\* its client.
TakeEscrow(w, task, payee) ==
  /\ call[w] = Idle
  /\ task \in DOMAIN escrows /\ ~escrows[task].locked
  /\ escrows' = Erase(escrows, task)
  /\ call' = [call EXCEPT ![w] =
       [at |-> "pay", task |-> task, escrow |-> escrows[task], payee |-> payee]]
  /\ UNCHANGED <<balances, funded, overwritten>>

ReleaseEscrow(w, task, worker) == TakeEscrow(w, task, worker)

RefundEscrow(w, task) ==
  task \in DOMAIN escrows /\ TakeEscrow(w, task, escrows[task].client)

\* Fault: no rollback when the credit throws.
PayOrLose(w) ==
  /\ call[w].at = "pay"
  /\ LET escrow == call[w].escrow  payee == call[w].payee
     IN  balances' = IF Fits(payee, escrow.amount)
                       THEN Credited(payee, escrow.amount) ELSE balances
  /\ Return(w)
  /\ UNCHANGED <<escrows, funded, overwritten>>

PayEscrow(w) ==
  /\ call[w].at = "pay"
  /\ LET escrow == call[w].escrow  payee == call[w].payee
     IN  \/ /\ Fits(payee, escrow.amount)
            /\ balances' = Credited(payee, escrow.amount)
            /\ Return(w)
         \/ /\ ~Fits(payee, escrow.amount)
            /\ GoTo(w, "putback")
            /\ UNCHANGED balances
  /\ UNCHANGED <<escrows, funded, overwritten>>

\* The rollback, which does not look either.
PutBack(w) ==
  /\ call[w].at = "putback"
  /\ Store(call[w].task, call[w].escrow)
  /\ Return(w)
  /\ UNCHANGED <<balances, funded>>

-----------------------------------------------------------------------------
\* What a thread has taken out of one table and not yet put into the other.
Held(c) == IF c.at \in {"insert", "pay", "putback"} THEN c.escrow.amount ELSE 0

Booked == SumFunction(balances)
Escrowed == SumFunction([task \in DOMAIN escrows |-> escrows[task].amount])
InFlight == SumFunction([w \in LedgerThreads |-> Held(call[w])])

\* Both tables at once, with both mutexes.
ClearLedger ==
  /\ balances # EmptyMap \/ escrows # EmptyMap
  /\ balances' = EmptyMap /\ escrows' = EmptyMap
  /\ funded' = InFlight /\ overwritten' = 0
  /\ UNCHANGED call

LedgerNext ==
  \/ \E peer \in Peers, amount \in LedgerAmounts : Credit(peer, amount) \/ Debit(peer, amount)
  \/ \E from, to \in Peers, amount \in LedgerAmounts : Transfer(from, to, amount)
  \/ \E w \in LedgerThreads :
       \/ \E task \in EscrowTasks, escrow \in Escrow : PutInEscrow(w, task, escrow)
       \/ \E task \in EscrowTasks, worker \in Peers : ReleaseEscrow(w, task, worker)
       \/ \E task \in EscrowTasks : RefundEscrow(w, task)
       \/ DebitClient(w) \/ InsertEscrow(w) \/ PayEscrow(w) \/ PutBack(w)
  \/ ClearLedger

LedgerSpec == LedgerInit /\ [][LedgerNext]_ledgerVars

-----------------------------------------------------------------------------
(* Properties.                                                             *)

\* Every variable has its type: no balance wraps around and none is stored as zero
\* (credit, transfer, setBalance_unsafe).
LedgerTypeOK ==
  /\ IsMap(balances, Peers, 1 .. MaxBalance)
  /\ IsMap(escrows, EscrowTasks, Escrow)
  /\ call \in [LedgerThreads -> Calls]
  /\ funded \in Nat /\ overwritten \in Nat

\* No escrow operation creates or loses money, in whatever order the threads get
\* the mutexes and whether or not the last credit of a release overflows: what was
\* paid in is in a balance, in an escrow or between the two, except for escrows
\* that were replaced.
FundsConserved == Booked + Escrowed + InFlight + overwritten = funded

=============================================================================
