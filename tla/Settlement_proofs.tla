-------------------------- MODULE Settlement_proofs --------------------------
(***************************************************************************)
(* Proofs about the parts of the node that settle or keep something        *)
(* exactly once: the escrow ledger, the prover swarm, the gold bridge, the *)
(* atomic swaps and the snapshot file; and about the five side by side.    *)
(***************************************************************************)
EXTENDS MCSettlement, DataTheorems

-----------------------------------------------------------------------------
(* The escrow ledger.                                                      *)

LedgerBalances == 1 .. MaxBalance
AmountsOf(map) == [task \in DOMAIN map |-> map[task].amount]
HeldBy(calls) == [w \in LedgerThreads |-> Held(calls[w])]

BalanceIn(map, peer) == IF peer \in DOMAIN map THEN map[peer] ELSE 0

\* setBalance_unsafe changes the sum of the balances by what it changes the balance.
LEMMA SetBalanceSum ==
  ASSUME NEW map, IsMap(map, Peers, LedgerBalances), NEW peer \in Peers,
         NEW balance \in 0 .. MaxBalance
  PROVE  /\ IsMap(SetBalance(map, peer, balance), Peers, LedgerBalances)
         /\ SumFunction(SetBalance(map, peer, balance))
              = SumFunction(map) - BalanceIn(map, peer) + balance
         /\ \A other \in Peers \ {peer} :
              BalanceIn(SetBalance(map, peer, balance), other) = BalanceIn(map, other)
<1> DEFINE new == SetBalance(map, peer, balance)
           S == DOMAIN map
<1>1. IsFiniteSet(S) /\ S \subseteq Peers /\ map \in [S -> LedgerBalances]
  BY LedgerAssumption, FS_Subset DEF IsMap
<1>2. LedgerBalances \subseteq Int /\ MaxBalance \in Nat /\ balance \in Int
  BY LedgerAssumption DEF LedgerBalances
<1>3. map \in [S -> Int]
  BY <1>1, <1>2
<1>4. SumFunction(map) \in Int
  BY <1>1, <1>3, SumInt
<1>5. CASE balance = 0 /\ peer \in S
  <2>1. new = [k \in S \ {peer} |-> map[k]]
    BY <1>5 DEF SetBalance, Erase
  <2>2. SumFunction(map) = map[peer] + SumFunction([k \in S \ {peer} |-> map[k]])
    BY <1>1, <1>3, <1>5, SumRemove
  <2>3. map[peer] \in Int /\ SumFunction([k \in S \ {peer} |-> map[k]]) \in Int
    BY <1>1, <1>3, <1>5, SumRemove
  <2>4. IsMap(new, Peers, LedgerBalances)
    BY <1>1, <2>1 DEF IsMap
  <2>5. \A other \in Peers \ {peer} : BalanceIn(new, other) = BalanceIn(map, other)
    BY <2>1 DEF BalanceIn
  <2>6. BalanceIn(map, peer) = map[peer]
    BY <1>5 DEF BalanceIn
  <2>7. SumFunction(new) = SumFunction(map) - BalanceIn(map, peer) + balance
    <3> HIDE DEF new, S
    <3> QED
      BY <1>4, <1>5, <2>1, <2>2, <2>3, <2>6
  <2> QED
    BY <2>4, <2>5, <2>7
<1>6. CASE balance = 0 /\ peer \notin S
  <2>1. new = map
    BY <1>1, <1>6 DEF SetBalance, Erase
  <2>2. BalanceIn(map, peer) = 0
    BY <1>6 DEF BalanceIn
  <2> QED
    BY <1>4, <1>6, <2>1, <2>2
<1>7. CASE balance # 0
  <2>1. new = [k \in S \cup {peer} |-> IF k = peer THEN balance ELSE map[k]]
    BY <1>7 DEF SetBalance, Put
  <2>2. balance \in LedgerBalances
    BY <1>2, <1>7 DEF LedgerBalances
  <2>3. new \in [S \cup {peer} -> LedgerBalances]
    BY <1>1, <2>1, <2>2
  <2>4. IsMap(new, Peers, LedgerBalances)
    BY <1>1, <2>1, <2>3 DEF IsMap
  <2>5. \A other \in Peers \ {peer} : BalanceIn(new, other) = BalanceIn(map, other)
    BY <2>1 DEF BalanceIn
  <2>6. new \in [S \cup {peer} -> Int] /\ new[peer] = balance /\ \A y \in S \ {peer} : new[y] = map[y]
    BY <1>2, <2>1, <2>3
  <2>7. SumFunction(new) = SumFunction(map) - BalanceIn(map, peer) + balance
    <3>1. CASE peer \in S
      <4>1. S \cup {peer} = S /\ BalanceIn(map, peer) = map[peer]
        BY <3>1 DEF BalanceIn
      <4> HIDE DEF new, S
      <4>2. new \in [S -> Int]
        BY <2>6, <4>1
      <4>3. SumFunction(new) = SumFunction(map) - map[peer] + new[peer]
        BY <1>1, <1>3, <2>6, <3>1, <4>2, SumUpdate
      <4> QED
        BY <2>6, <4>1, <4>3
    <3>2. CASE peer \notin S
      <4>1. BalanceIn(map, peer) = 0 /\ \A y \in S : new[y] = map[y]
        BY <2>6, <3>2 DEF BalanceIn
      <4> DEFINE T == S \cup {peer}
      <4>2. new \in [T -> Int] /\ T = S \cup {peer}
        BY <2>6
      <4> HIDE DEF new, S, T
      <4>3. SumFunction(new) = SumFunction(map) + new[peer]
        BY <1>1, <1>3, <3>2, <4>1, <4>2, SumInsert
      <4> QED
        BY <1>2, <1>4, <2>6, <4>1, <4>3
    <3> QED
      BY <3>1, <3>2
  <2> QED
    BY <2>4, <2>5, <2>7
<1> QED
  BY <1>5, <1>6, <1>7

LEMMA EscrowAmount ==
  /\ LedgerAmounts \subseteq Nat /\ LedgerAmounts \subseteq Int
  /\ \A escrow \in Escrow : escrow.amount \in LedgerAmounts /\ escrow.client \in Peers
BY LedgerAssumption DEF Escrow

\* Storing an escrow adds its amount to the table, less that of the one it replaces.
LEMMA PutEscrowSum ==
  ASSUME NEW map, IsMap(map, EscrowTasks, Escrow), NEW task \in EscrowTasks, NEW escrow \in Escrow
  PROVE  /\ IsMap(Put(map, task, escrow), EscrowTasks, Escrow)
         /\ SumFunction(AmountsOf(Put(map, task, escrow)))
              = SumFunction(AmountsOf(map))
                - (IF task \in DOMAIN map THEN map[task].amount ELSE 0) + escrow.amount
<1> DEFINE new == Put(map, task, escrow)
           S == DOMAIN map
           f == AmountsOf(map)
           g == AmountsOf(new)
<1>1. IsFiniteSet(S) /\ S \subseteq EscrowTasks /\ map \in [S -> Escrow]
  BY LedgerAssumption, FS_Subset DEF IsMap
<1>2. f \in [S -> Int] /\ \A k \in S : f[k] = map[k].amount
  BY <1>1, EscrowAmount DEF AmountsOf
<1>3. /\ new \in [S \cup {task} -> Escrow] /\ DOMAIN new = S \cup {task}
      /\ new[task] = escrow /\ \A k \in S \ {task} : new[k] = map[k]
  BY <1>1 DEF Put
<1> HIDE DEF new
<1>4. IsMap(new, EscrowTasks, Escrow)
  BY <1>1, <1>3 DEF IsMap
<1>5. /\ g \in [S \cup {task} -> Int] /\ g[task] = escrow.amount
      /\ \A k \in S \ {task} : g[k] = f[k]
  BY <1>2, <1>3, EscrowAmount DEF AmountsOf
<1>6. SumFunction(f) \in Int /\ escrow.amount \in Int
  <2> HIDE DEF f
  <2> QED
    BY <1>1, <1>2, SumInt, EscrowAmount
<1>7. SumFunction(g) = SumFunction(f) - (IF task \in S THEN map[task].amount ELSE 0) + escrow.amount
  <2>1. CASE task \in S
    <3>1. S \cup {task} = S
      BY <2>1
    <3> HIDE DEF f, g, S
    <3>2. g \in [S -> Int]
      BY <1>5, <3>1
    <3>3. SumFunction(g) = SumFunction(f) - f[task] + g[task]
      BY <1>1, <1>2, <1>5, <2>1, <3>2, SumUpdate
    <3> QED
      BY <1>2, <1>5, <2>1, <3>3
  <2>2. CASE task \notin S
    <3>1. \A k \in S : g[k] = f[k]
      BY <1>5, <2>2
    <3> DEFINE T == S \cup {task}
    <3>2. IsFiniteSet(S) /\ f \in [S -> Int] /\ g \in [T -> Int] /\ T = S \cup {task}
      BY <1>1, <1>2, <1>5
    <3> HIDE DEF f, g, S, T
    <3>3. SumFunction(g) = SumFunction(f) + g[task]
      BY <2>2, <3>1, <3>2, SumInsert
    <3> QED
      BY <1>5, <1>6, <2>2, <3>3
  <2> QED
    BY <2>1, <2>2
<1> QED
  BY <1>4, <1>7 DEF new

\* Taking an escrow off the table takes its amount off.
LEMMA EraseEscrowSum ==
  ASSUME NEW map, IsMap(map, EscrowTasks, Escrow), NEW task \in DOMAIN map
  PROVE  /\ IsMap(Erase(map, task), EscrowTasks, Escrow)
         /\ SumFunction(AmountsOf(Erase(map, task))) = SumFunction(AmountsOf(map)) - map[task].amount
<1> DEFINE S == DOMAIN map
           f == AmountsOf(map)
           r == [k \in S \ {task} |-> f[k]]
<1>1. IsFiniteSet(S) /\ S \subseteq EscrowTasks /\ map \in [S -> Escrow]
  BY LedgerAssumption, FS_Subset DEF IsMap
<1>2. f \in [S -> Int] /\ f[task] = map[task].amount
  BY <1>1, EscrowAmount DEF AmountsOf
<1>3. AmountsOf(Erase(map, task)) = r
  BY DEF AmountsOf, Erase
<1>4. IsMap(Erase(map, task), EscrowTasks, Escrow)
  BY <1>1 DEF Erase, IsMap
<1>5. /\ SumFunction(f) \in Int /\ SumFunction(r) \in Int
      /\ SumFunction(f) = f[task] + SumFunction(r)
  <2> HIDE DEF f
  <2> QED
    BY <1>1, <1>2, SumRemove
<1>6. f[task] \in Int
  BY <1>2
<1> HIDE DEF f, r
<1>7. SumFunction(r) = SumFunction(f) - f[task]
  BY <1>5, <1>6
<1> QED
  BY <1>2, <1>3, <1>4, <1>7 DEF f

\* A call that holds an escrow names it.
LEMMA CallFacts ==
  ASSUME NEW c \in Calls
  PROVE  /\ Held(c) \in Nat
         /\ c.at \in {"debit", "insert", "pay", "putback"} =>
              c.escrow \in Escrow /\ c.task \in EscrowTasks
         /\ c.at \in {"pay", "putback"} => c.payee \in Peers
         /\ c.at \in {"insert", "pay", "putback"} => Held(c) = c.escrow.amount
         /\ c.at = "debit" => Held(c) = 0
<1>1. CASE c = Idle
  BY <1>1 DEF Idle, Held
<1>2. CASE c \in [at : {"debit", "insert"}, task : EscrowTasks, escrow : Escrow]
  BY <1>2, EscrowAmount DEF Held
<1>3. CASE c \in [at : {"pay", "putback"}, task : EscrowTasks, escrow : Escrow, payee : Peers]
  BY <1>3, EscrowAmount DEF Held
<1> QED
  BY <1>1, <1>2, <1>3 DEF Calls

\* What is in flight changes by what the thread that moves holds.
LEMMA CallSum ==
  ASSUME NEW calls \in [LedgerThreads -> Calls], NEW w \in LedgerThreads, NEW c \in Calls
  PROVE  /\ [calls EXCEPT ![w] = c] \in [LedgerThreads -> Calls]
         /\ SumFunction(HeldBy([calls EXCEPT ![w] = c]))
              = SumFunction(HeldBy(calls)) - Held(calls[w]) + Held(c)
<1> DEFINE new == [calls EXCEPT ![w] = c]
           f == HeldBy(calls)
           g == HeldBy(new)
<1>1. new \in [LedgerThreads -> Calls] /\ new[w] = c /\ \A v \in LedgerThreads \ {w} : new[v] = calls[v]
  OBVIOUS
<1> HIDE DEF new
<1>2. f \in [LedgerThreads -> Int] /\ g \in [LedgerThreads -> Int]
  BY <1>1, CallFacts DEF HeldBy
<1>3. f[w] = Held(calls[w]) /\ g[w] = Held(c) /\ \A v \in LedgerThreads \ {w} : g[v] = f[v]
  BY <1>1 DEF HeldBy
<1>4. SumFunction(g) = SumFunction(f) - f[w] + g[w]
  <2> HIDE DEF f, g
  <2> QED
    BY <1>2, <1>3, LedgerAssumption, SumUpdate
<1> QED
  BY <1>1, <1>3, <1>4 DEF new

LedgerTyped ==
  /\ IsMap(balances, Peers, LedgerBalances)
  /\ IsMap(escrows, EscrowTasks, Escrow)
  /\ call \in [LedgerThreads -> Calls]
  /\ overwritten \in Nat

FundedTyped == funded \in Int

\* That the funds in the ledger are never negative rests on their conservation: a
\* debit takes from a balance, which is part of them.
LedgerInv == LedgerTyped /\ FundedTyped /\ FundsConserved

LEMMA LedgerTerms ==
  /\ Booked = SumFunction(balances)
  /\ Escrowed = SumFunction(AmountsOf(escrows))
  /\ InFlight = SumFunction(HeldBy(call))
BY DEF Booked, Escrowed, InFlight, AmountsOf, HeldBy

LEMMA LedgerTermsPrime ==
  /\ Booked' = SumFunction(balances')
  /\ Escrowed' = SumFunction(AmountsOf(escrows'))
  /\ InFlight' = SumFunction(HeldBy(call'))
BY DEF Booked, Escrowed, InFlight, AmountsOf, HeldBy

\* The parts of the funds are natural numbers, and a balance is part of them.
LEMMA LedgerSums ==
  ASSUME LedgerTyped
  PROVE  /\ Booked \in Nat /\ Escrowed \in Nat /\ InFlight \in Nat
         /\ \A peer \in Peers :
              /\ GetBalance(peer) = BalanceIn(balances, peer)
              /\ GetBalance(peer) \in 0 .. MaxBalance
              /\ GetBalance(peer) <= Booked
<1> DEFINE S == DOMAIN balances
<1>1. IsFiniteSet(S) /\ S \subseteq Peers /\ balances \in [S -> LedgerBalances]
  BY LedgerAssumption, FS_Subset DEF IsMap, LedgerTyped
<1>2. balances \in [S -> Nat] /\ LedgerBalances \subseteq 0 .. MaxBalance
  BY <1>1 DEF LedgerBalances
<1>3. Booked \in Nat /\ \A peer \in S : balances[peer] <= Booked
  <2> HIDE DEF S
  <2> QED
    BY <1>1, <1>2, SumNat DEF Booked
<1>4. Escrowed \in Nat
  <2> DEFINE T == DOMAIN escrows
             f == AmountsOf(escrows)
  <2>1. IsFiniteSet(T) /\ escrows \in [T -> Escrow]
    BY LedgerAssumption, FS_Subset DEF IsMap, LedgerTyped
  <2>2. f \in [T -> Nat]
    BY <2>1, EscrowAmount DEF AmountsOf
  <2>3. SumFunction(f) \in Nat
    <3> HIDE DEF T, f
    <3> QED
      BY <2>1, <2>2, SumNat
  <2> QED
    BY <2>3, LedgerTerms
<1>5. InFlight \in Nat
  <2> DEFINE f == HeldBy(call)
  <2>1. f \in [LedgerThreads -> Nat]
    BY CallFacts DEF HeldBy, LedgerTyped
  <2>2. SumFunction(f) \in Nat
    <3> HIDE DEF f
    <3> QED
      BY <2>1, SumNat, LedgerAssumption
  <2> QED
    BY <2>2, LedgerTerms
<1>6. ASSUME NEW peer \in Peers
      PROVE  /\ GetBalance(peer) = BalanceIn(balances, peer)
             /\ GetBalance(peer) \in 0 .. MaxBalance
             /\ GetBalance(peer) <= Booked
  BY <1>1, <1>2, <1>3, LedgerAssumption DEF GetBalance, BalanceIn
<1> QED
  BY <1>3, <1>4, <1>5, <1>6

\* The balances after a credit that fits, and after a debit that is covered.
LEMMA CreditedSum ==
  ASSUME LedgerTyped, NEW peer \in Peers, NEW amount \in LedgerAmounts, Fits(peer, amount)
  PROVE  /\ IsMap(Credited(peer, amount), Peers, LedgerBalances)
         /\ SumFunction(Credited(peer, amount)) = Booked + amount
<1>1. amount \in Nat /\ MaxBalance \in Nat
  BY EscrowAmount, LedgerAssumption
<1>2. GetBalance(peer) \in 0 .. MaxBalance /\ GetBalance(peer) = BalanceIn(balances, peer) /\ Booked \in Nat
  BY LedgerSums
<1>3. GetBalance(peer) + amount \in 0 .. MaxBalance
  BY <1>1, <1>2 DEF Fits
<1>4. /\ IsMap(Credited(peer, amount), Peers, LedgerBalances)
      /\ SumFunction(Credited(peer, amount))
           = SumFunction(balances) - BalanceIn(balances, peer) + (GetBalance(peer) + amount)
  BY <1>3, SetBalanceSum DEF Credited, LedgerTyped
<1> QED
  BY <1>1, <1>2, <1>4 DEF Booked

LEMMA DebitedSum ==
  ASSUME LedgerTyped, NEW peer \in Peers, NEW amount \in LedgerAmounts, GetBalance(peer) >= amount
  PROVE  /\ IsMap(Debited(peer, amount), Peers, LedgerBalances)
         /\ SumFunction(Debited(peer, amount)) = Booked - amount
         /\ amount <= Booked
         /\ \A other \in Peers \ {peer} :
              BalanceIn(Debited(peer, amount), other) = BalanceIn(balances, other)
<1>1. amount \in Nat /\ MaxBalance \in Nat
  BY EscrowAmount, LedgerAssumption
<1>2. /\ GetBalance(peer) \in 0 .. MaxBalance /\ GetBalance(peer) = BalanceIn(balances, peer)
      /\ Booked \in Nat /\ GetBalance(peer) <= Booked
  BY LedgerSums
<1>3. GetBalance(peer) - amount \in 0 .. MaxBalance
  BY <1>1, <1>2
<1>4. /\ IsMap(Debited(peer, amount), Peers, LedgerBalances)
      /\ SumFunction(Debited(peer, amount))
           = SumFunction(balances) - BalanceIn(balances, peer) + (GetBalance(peer) - amount)
      /\ \A other \in Peers \ {peer} :
           BalanceIn(Debited(peer, amount), other) = BalanceIn(balances, other)
  BY <1>3, SetBalanceSum DEF Debited, LedgerTyped
<1> QED
  BY <1>1, <1>2, <1>4 DEF Booked

\* A step that moves b into the balances, e into the escrows, i into flight and o to
\* what was overwritten conserves the funds if it changes them by the sum.
LEMMA Moved ==
  ASSUME LedgerTyped, FundedTyped, FundsConserved,
         NEW b \in Int, NEW e \in Int, NEW i \in Int, NEW o \in Int,
         Booked' = Booked + b, Escrowed' = Escrowed + e, InFlight' = InFlight + i,
         overwritten' = overwritten + o, funded' = funded + (b + e + i + o)
  PROVE  FundedTyped' /\ FundsConserved'
<1>1. Booked \in Int /\ Escrowed \in Int /\ InFlight \in Int /\ overwritten \in Int /\ funded \in Int
  BY LedgerSums DEF LedgerTyped, FundedTyped
<1> QED
  BY <1>1 DEF FundedTyped, FundsConserved

LEMMA CreditStep ==
  ASSUME LedgerInv, NEW peer \in Peers, NEW amount \in LedgerAmounts, Credit(peer, amount)
  PROVE  LedgerInv'
<1>0. LedgerTyped /\ FundedTyped /\ FundsConserved /\ amount \in Int
  BY EscrowAmount DEF LedgerInv
<1>1. IsMap(balances', Peers, LedgerBalances) /\ Booked' = Booked + amount
  BY <1>0, CreditedSum, LedgerTermsPrime DEF Credit
<1>2. LedgerTyped'
  BY <1>0, <1>1 DEF Credit, LedgerTyped
<1>3. Escrowed' = Escrowed + 0 /\ InFlight' = InFlight + 0 /\ overwritten' = overwritten + 0
  BY <1>0, LedgerSums, LedgerTerms, LedgerTermsPrime DEF Credit, LedgerTyped
<1>4. funded' = funded + (amount + 0 + 0 + 0)
  BY <1>0 DEF Credit, FundedTyped
<1>5. FundedTyped' /\ FundsConserved'
  BY <1>0, <1>1, <1>3, <1>4, Moved
<1> QED
  BY <1>2, <1>5 DEF LedgerInv

LEMMA DebitStep ==
  ASSUME LedgerInv, NEW peer \in Peers, NEW amount \in LedgerAmounts, Debit(peer, amount)
  PROVE  LedgerInv'
<1>0. LedgerTyped /\ FundedTyped /\ FundsConserved /\ amount \in Int /\ -amount \in Int /\ Booked \in Int
  BY EscrowAmount, LedgerSums DEF LedgerInv
<1>1. IsMap(balances', Peers, LedgerBalances) /\ Booked' = Booked - amount
  BY <1>0, DebitedSum, LedgerTermsPrime DEF Debit
<1>2. LedgerTyped'
  BY <1>0, <1>1 DEF Debit, LedgerTyped
<1>3. Escrowed' = Escrowed + 0 /\ InFlight' = InFlight + 0 /\ overwritten' = overwritten + 0
  BY <1>0, LedgerSums, LedgerTerms, LedgerTermsPrime DEF Debit, LedgerTyped
<1>4. Booked' = Booked + (-amount) /\ funded' = funded + ((-amount) + 0 + 0 + 0)
  BY <1>0, <1>1 DEF Debit, FundedTyped
<1>5. FundedTyped' /\ FundsConserved'
  BY <1>0, <1>3, <1>4, Moved
<1> QED
  BY <1>2, <1>5 DEF LedgerInv

LEMMA TransferStep ==
  ASSUME LedgerInv, NEW from \in Peers, NEW to \in Peers, NEW amount \in LedgerAmounts,
         Transfer(from, to, amount)
  PROVE  LedgerInv'
<1>0. LedgerTyped /\ FundedTyped /\ FundsConserved /\ amount \in Nat /\ Booked \in Int /\ MaxBalance \in Nat
  BY EscrowAmount, LedgerSums, LedgerAssumption DEF LedgerInv
<1> DEFINE debited == Debited(from, amount)
<1>1. from # to /\ GetBalance(from) >= amount /\ Fits(to, amount)
      /\ balances' = SetBalance(debited, to, GetBalance(to) + amount)
  BY DEF Transfer
<1>2. /\ IsMap(debited, Peers, LedgerBalances)
      /\ SumFunction(debited) = Booked - amount
      /\ BalanceIn(debited, to) = BalanceIn(balances, to)
  BY <1>0, <1>1, DebitedSum
<1> HIDE DEF debited
<1>3. GetBalance(to) \in 0 .. MaxBalance /\ GetBalance(to) = BalanceIn(balances, to)
  BY <1>0, LedgerSums
<1>4. GetBalance(to) + amount \in 0 .. MaxBalance
  BY <1>0, <1>1, <1>3 DEF Fits
<1>5. /\ IsMap(balances', Peers, LedgerBalances)
      /\ SumFunction(balances') = SumFunction(debited) - BalanceIn(debited, to) + (GetBalance(to) + amount)
  BY <1>1, <1>2, <1>4, SetBalanceSum
<1>6. Booked' = Booked + 0
  BY <1>0, <1>2, <1>3, <1>5, LedgerTermsPrime
<1>7. LedgerTyped'
  BY <1>0, <1>5 DEF Transfer, LedgerTyped
<1>8. Escrowed' = Escrowed + 0 /\ InFlight' = InFlight + 0 /\ overwritten' = overwritten + 0
  BY <1>0, LedgerSums, LedgerTerms, LedgerTermsPrime DEF Transfer, LedgerTyped
<1>9. funded' = funded + (0 + 0 + 0 + 0)
  BY <1>0 DEF Transfer, FundedTyped
<1>10. FundedTyped' /\ FundsConserved'
  BY <1>0, <1>6, <1>8, <1>9, Moved
<1> QED
  BY <1>7, <1>10 DEF LedgerInv

\* putInEscrow before the debit: nothing moves.
LEMMA PutInEscrowStep ==
  ASSUME LedgerInv, NEW w \in LedgerThreads, NEW task \in EscrowTasks, NEW escrow \in Escrow,
         PutInEscrow(w, task, escrow)
  PROVE  LedgerInv'
<1>0. LedgerTyped /\ FundedTyped /\ FundsConserved
  BY DEF LedgerInv
<1> DEFINE c == [at |-> "debit", task |-> task, escrow |-> escrow]
<1>1. c \in Calls /\ Held(c) = 0 /\ Held(call[w]) = 0 /\ call' = [call EXCEPT ![w] = c]
  BY DEF Calls, Held, Idle, PutInEscrow
<1> HIDE DEF c
<1>2. /\ call' \in [LedgerThreads -> Calls]
      /\ SumFunction(HeldBy(call')) = SumFunction(HeldBy(call)) - Held(call[w]) + Held(c)
  BY <1>0, <1>1, CallSum DEF LedgerTyped
<1>3. InFlight' = InFlight + 0
  BY <1>0, <1>1, <1>2, LedgerSums, LedgerTerms, LedgerTermsPrime
<1>4. LedgerTyped'
  BY <1>0, <1>2 DEF PutInEscrow, LedgerTyped
<1>5. Booked' = Booked + 0 /\ Escrowed' = Escrowed + 0 /\ overwritten' = overwritten + 0
  BY <1>0, LedgerSums, LedgerTerms, LedgerTermsPrime DEF PutInEscrow, LedgerTyped
<1>6. funded' = funded + (0 + 0 + 0 + 0)
  BY <1>0 DEF PutInEscrow, FundedTyped
<1>7. FundedTyped' /\ FundsConserved'
  BY <1>0, <1>3, <1>5, <1>6, Moved
<1> QED
  BY <1>4, <1>7 DEF LedgerInv

LEMMA CallMoved ==
  ASSUME LedgerTyped, NEW w \in LedgerThreads, NEW c \in Calls, call' = [call EXCEPT ![w] = c]
  PROVE  /\ call' \in [LedgerThreads -> Calls]
         /\ InFlight' = InFlight + (Held(c) - Held(call[w]))
         /\ Held(c) \in Int /\ Held(call[w]) \in Int /\ call[w] \in Calls
<1>1. call \in [LedgerThreads -> Calls] /\ call[w] \in Calls
  BY DEF LedgerTyped
<1>2. Held(c) \in Int /\ Held(call[w]) \in Int /\ InFlight \in Int
  BY <1>1, CallFacts, LedgerSums
<1>3. /\ call' \in [LedgerThreads -> Calls]
      /\ SumFunction(HeldBy(call')) = SumFunction(HeldBy(call)) - Held(call[w]) + Held(c)
  BY <1>1, CallSum
<1>4. InFlight' = InFlight - Held(call[w]) + Held(c)
  BY <1>3, LedgerTerms, LedgerTermsPrime
<1> QED
  BY <1>1, <1>2, <1>3, <1>4

LEMMA IdleCall == Idle \in Calls /\ Held(Idle) = 0
BY DEF Calls, Idle, Held

\* A thread that goes on to the next part of its operation keeps its escrow.
LEMMA NextPart ==
  ASSUME NEW c \in Calls, NEW to, \/ c.at = "debit" /\ to = "insert"
                                  \/ c.at = "pay" /\ to = "putback"
  PROVE  [c EXCEPT !.at = to] \in Calls /\ Held([c EXCEPT !.at = to]) = c.escrow.amount
<1>1. CASE c = Idle
  BY <1>1 DEF Idle
<1>2. CASE c \in [at : {"debit", "insert"}, task : EscrowTasks, escrow : Escrow]
  BY <1>2 DEF Held, Calls
<1>3. CASE c \in [at : {"pay", "putback"}, task : EscrowTasks, escrow : Escrow, payee : Peers]
  BY <1>3 DEF Held, Calls
<1> QED
  BY <1>1, <1>2, <1>3 DEF Calls

LEMMA DebitClientStep ==
  ASSUME LedgerInv, NEW w \in LedgerThreads, DebitClient(w)
  PROVE  LedgerInv'
<1>0. LedgerTyped /\ FundedTyped /\ FundsConserved
  BY DEF LedgerInv
<1> DEFINE escrow == call[w].escrow
<1>1. call[w] \in Calls /\ call[w].at = "debit"
  BY <1>0 DEF LedgerTyped, DebitClient
<1>2. escrow \in Escrow /\ Held(call[w]) = 0
  BY <1>1, CallFacts
<1>3. /\ escrow.client \in Peers /\ escrow.amount \in LedgerAmounts
      /\ escrow.amount \in Int
  <2> HIDE DEF escrow
  <2> QED
    BY <1>2, EscrowAmount
<1>4. Escrowed' = Escrowed + 0 /\ overwritten' = overwritten + 0 /\ funded' = funded + 0
  BY <1>0, LedgerSums, LedgerTerms, LedgerTermsPrime DEF DebitClient, LedgerTyped, FundedTyped
<1>5. CASE /\ GetBalance(escrow.client) >= escrow.amount
           /\ balances' = Debited(escrow.client, escrow.amount)
           /\ GoTo(w, "insert")
  <2> DEFINE c == [call[w] EXCEPT !.at = "insert"]
             amount == escrow.amount
  <2>1. c \in Calls /\ Held(c) = amount
    BY <1>1, NextPart
  <2>2. call' = [call EXCEPT ![w] = c]
    BY <1>0, <1>5 DEF GoTo, LedgerTyped
  <2>3. IsMap(balances', Peers, LedgerBalances) /\ SumFunction(balances') = Booked - amount
    BY <1>0, <1>3, <1>5, DebitedSum
  <2> HIDE DEF c
  <2>4. call' \in [LedgerThreads -> Calls] /\ InFlight' = InFlight + (Held(c) - Held(call[w]))
    BY <1>0, <2>1, <2>2, CallMoved
  <2>5. LedgerTyped'
    BY <1>0, <2>3, <2>4 DEF DebitClient, LedgerTyped
  <2>6. amount \in Int /\ -amount \in Int
    BY <1>3
  <2> HIDE DEF amount
  <2>7. Booked' = Booked + (-amount) /\ InFlight' = InFlight + amount
    BY <1>0, <1>2, <2>1, <2>3, <2>4, <2>6, LedgerSums, LedgerTermsPrime
  <2>8. funded' = funded + ((-amount) + 0 + amount + 0)
    BY <1>4, <2>6
  <2>9. FundedTyped' /\ FundsConserved'
    BY <1>0, <1>4, <2>6, <2>7, <2>8, Moved
  <2> QED
    BY <2>5, <2>9 DEF LedgerInv
<1>6. CASE Return(w) /\ UNCHANGED balances
  <2>1. call' = [call EXCEPT ![w] = Idle]
    BY <1>6 DEF Return
  <2>2. call' \in [LedgerThreads -> Calls] /\ InFlight' = InFlight + (Held(Idle) - Held(call[w]))
    BY <1>0, <2>1, IdleCall, CallMoved
  <2>3. LedgerTyped'
    BY <1>0, <1>6, <2>2 DEF DebitClient, LedgerTyped
  <2>4. Booked' = Booked + 0 /\ InFlight' = InFlight + 0
    BY <1>0, <1>2, <1>6, <2>2, IdleCall, LedgerSums, LedgerTerms, LedgerTermsPrime
  <2>5. funded' = funded + (0 + 0 + 0 + 0)
    BY <1>4
  <2>6. FundedTyped' /\ FundsConserved'
    BY <1>0, <1>4, <2>4, <2>5, Moved
  <2> QED
    BY <2>3, <2>6 DEF LedgerInv
<1> QED
  BY <1>5, <1>6 DEF DebitClient

\* Storing what a thread holds, over whatever is there.
LEMMA StoreStep ==
  ASSUME LedgerInv, NEW w \in LedgerThreads, call[w].at \in {"insert", "putback"},
         Store(call[w].task, call[w].escrow), Return(w), UNCHANGED <<balances, funded>>
  PROVE  LedgerInv'
<1>0. LedgerTyped /\ FundedTyped /\ FundsConserved
  BY DEF LedgerInv
<1> DEFINE escrow == call[w].escrow
           task == call[w].task
           amount == escrow.amount
           old == IF task \in DOMAIN escrows THEN escrows[task].amount ELSE 0
<1>1. call[w] \in Calls
  BY <1>0 DEF LedgerTyped
<1>2. escrow \in Escrow /\ task \in EscrowTasks /\ Held(call[w]) = amount
  BY <1>1, CallFacts
<1>3. amount \in Int
  BY <1>2, EscrowAmount
<1>4. escrows' = Put(escrows, task, escrow) /\ overwritten' = overwritten + old
  BY DEF Store
<1>5. old \in Nat
  BY <1>0, EscrowAmount DEF LedgerTyped, IsMap
<1> HIDE DEF escrow, task
<1>6. /\ IsMap(escrows', EscrowTasks, Escrow)
      /\ SumFunction(AmountsOf(escrows')) = SumFunction(AmountsOf(escrows)) - old + amount
  BY <1>0, <1>2, <1>4, PutEscrowSum DEF LedgerTyped
<1>7. call' = [call EXCEPT ![w] = Idle]
  BY DEF Return
<1>8. call' \in [LedgerThreads -> Calls] /\ InFlight' = InFlight + (Held(Idle) - Held(call[w]))
  BY <1>0, <1>7, IdleCall, CallMoved
<1> HIDE DEF old, amount
<1>9. LedgerTyped'
  BY <1>0, <1>4, <1>5, <1>6, <1>8 DEF LedgerTyped
<1>10. Escrowed' = Escrowed + (amount - old) /\ InFlight' = InFlight + (-amount)
  BY <1>0, <1>2, <1>3, <1>5, <1>6, <1>8, IdleCall, LedgerSums, LedgerTerms, LedgerTermsPrime
<1>11. Booked' = Booked + 0
  BY <1>0, LedgerSums, LedgerTerms, LedgerTermsPrime
<1>12. funded' = funded + (0 + (amount - old) + (-amount) + old)
  BY <1>0, <1>3, <1>5 DEF FundedTyped
<1>13. amount - old \in Int /\ -amount \in Int /\ old \in Int
  BY <1>3, <1>5
<1>14. FundedTyped' /\ FundsConserved'
  BY <1>0, <1>4, <1>10, <1>11, <1>12, <1>13, Moved
<1> QED
  BY <1>9, <1>14 DEF LedgerInv

\* releaseEscrow and refundEscrow take the escrow off the table.
LEMMA TakeEscrowStep ==
  ASSUME LedgerInv, NEW w \in LedgerThreads, NEW task \in EscrowTasks, NEW payee \in Peers,
         TakeEscrow(w, task, payee)
  PROVE  LedgerInv'
<1>0. LedgerTyped /\ FundedTyped /\ FundsConserved
  BY DEF LedgerInv
<1> DEFINE escrow == escrows[task]
           amount == escrow.amount
           c == [at |-> "pay", task |-> task, escrow |-> escrow, payee |-> payee]
<1>1. task \in DOMAIN escrows /\ escrow \in Escrow
  BY <1>0 DEF LedgerTyped, IsMap, TakeEscrow
<1>2. amount \in Int
  <2> HIDE DEF escrow
  <2> QED
    BY <1>1, EscrowAmount
<1>3. c \in Calls /\ Held(c) = amount /\ call' = [call EXCEPT ![w] = c]
  BY <1>1 DEF Calls, Held, TakeEscrow
<1>4. Held(call[w]) = 0
  BY IdleCall DEF TakeEscrow
<1>5. /\ IsMap(escrows', EscrowTasks, Escrow)
      /\ SumFunction(AmountsOf(escrows')) = SumFunction(AmountsOf(escrows)) - amount
  BY <1>0, <1>1, EraseEscrowSum DEF LedgerTyped, TakeEscrow
<1> HIDE DEF c
<1>6. call' \in [LedgerThreads -> Calls] /\ InFlight' = InFlight + (Held(c) - Held(call[w]))
  BY <1>0, <1>3, CallMoved
<1>7. LedgerTyped'
  BY <1>0, <1>5, <1>6 DEF LedgerTyped, TakeEscrow
<1> HIDE DEF amount
<1>8. Escrowed' = Escrowed + (-amount) /\ InFlight' = InFlight + amount
  BY <1>0, <1>2, <1>3, <1>4, <1>5, <1>6, LedgerSums, LedgerTerms, LedgerTermsPrime
<1>9. Booked' = Booked + 0 /\ overwritten' = overwritten + 0
  BY <1>0, LedgerSums, LedgerTerms, LedgerTermsPrime DEF LedgerTyped, TakeEscrow
<1>10. funded' = funded + (0 + (-amount) + amount + 0) /\ -amount \in Int
  BY <1>0, <1>2 DEF FundedTyped, TakeEscrow
<1>11. FundedTyped' /\ FundsConserved'
  BY <1>0, <1>2, <1>8, <1>9, <1>10, Moved
<1> QED
  BY <1>7, <1>11 DEF LedgerInv

LEMMA PayEscrowStep ==
  ASSUME LedgerInv, NEW w \in LedgerThreads, PayEscrow(w)
  PROVE  LedgerInv'
<1>0. LedgerTyped /\ FundedTyped /\ FundsConserved
  BY DEF LedgerInv
<1> DEFINE amount == call[w].escrow.amount
           payee == call[w].payee
<1>1. call[w] \in Calls /\ call[w].at = "pay"
  BY <1>0 DEF LedgerTyped, PayEscrow
<1>2. call[w].escrow \in Escrow /\ payee \in Peers /\ Held(call[w]) = amount
  BY <1>1, CallFacts
<1>3. amount \in LedgerAmounts /\ amount \in Int
  BY <1>2, EscrowAmount
<1>4. Escrowed' = Escrowed + 0 /\ overwritten' = overwritten + 0 /\ funded' = funded + 0
  BY <1>0, LedgerSums, LedgerTerms, LedgerTermsPrime DEF PayEscrow, LedgerTyped, FundedTyped
<1>5. CASE Fits(payee, amount) /\ balances' = Credited(payee, amount) /\ Return(w)
  <2>1. IsMap(balances', Peers, LedgerBalances) /\ SumFunction(balances') = Booked + amount
    <3> HIDE DEF amount, payee
    <3> QED
      BY <1>0, <1>2, <1>3, <1>5, CreditedSum
  <2>2. call' = [call EXCEPT ![w] = Idle]
    BY <1>5 DEF Return
  <2>3. call' \in [LedgerThreads -> Calls] /\ InFlight' = InFlight + (Held(Idle) - Held(call[w]))
    BY <1>0, <2>2, IdleCall, CallMoved
  <2>4. LedgerTyped'
    BY <1>0, <2>1, <2>3 DEF PayEscrow, LedgerTyped
  <2> HIDE DEF amount
  <2>5. Booked' = Booked + amount /\ InFlight' = InFlight + (-amount)
    BY <1>0, <1>2, <1>3, <2>1, <2>3, IdleCall, LedgerSums, LedgerTermsPrime
  <2>6. funded' = funded + (amount + 0 + (-amount) + 0) /\ -amount \in Int
    BY <1>0, <1>3, <1>4
  <2>7. FundedTyped' /\ FundsConserved'
    BY <1>0, <1>3, <1>4, <2>5, <2>6, Moved
  <2> QED
    BY <2>4, <2>7 DEF LedgerInv
<1>6. CASE GoTo(w, "putback") /\ UNCHANGED balances
  <2> DEFINE c == [call[w] EXCEPT !.at = "putback"]
  <2>1. c \in Calls /\ Held(c) = amount
    BY <1>1, NextPart
  <2>2. call' = [call EXCEPT ![w] = c]
    BY <1>0, <1>6 DEF GoTo, LedgerTyped
  <2> HIDE DEF c
  <2>3. call' \in [LedgerThreads -> Calls] /\ InFlight' = InFlight + (Held(c) - Held(call[w]))
    BY <1>0, <2>1, <2>2, CallMoved
  <2>4. LedgerTyped'
    BY <1>0, <1>6, <2>3 DEF PayEscrow, LedgerTyped
  <2> HIDE DEF amount
  <2>5. Booked' = Booked + 0 /\ InFlight' = InFlight + 0
    BY <1>0, <1>2, <1>3, <1>6, <2>1, <2>3, LedgerSums, LedgerTerms, LedgerTermsPrime
  <2>6. funded' = funded + (0 + 0 + 0 + 0)
    BY <1>4
  <2>7. FundedTyped' /\ FundsConserved'
    BY <1>0, <1>4, <2>5, <2>6, Moved
  <2> QED
    BY <2>4, <2>7 DEF LedgerInv
<1> QED
  BY <1>5, <1>6 DEF PayEscrow

LEMMA ClearLedgerStep ==
  ASSUME LedgerInv, ClearLedger
  PROVE  LedgerInv'
<1>0. LedgerTyped /\ InFlight \in Nat
  BY LedgerSums DEF LedgerInv
<1>1. balances' = EmptyMap /\ escrows' = EmptyMap /\ call' = call
      /\ funded' = InFlight /\ overwritten' = 0
  BY DEF ClearLedger
<1>2. DOMAIN EmptyMap = {} /\ DOMAIN AmountsOf(EmptyMap) = {}
  BY DEF EmptyMap, AmountsOf
<1>3. IsMap(EmptyMap, Peers, LedgerBalances) /\ IsMap(EmptyMap, EscrowTasks, Escrow)
  BY DEF EmptyMap, IsMap
<1>4. SumFunction(EmptyMap) = 0 /\ SumFunction(AmountsOf(EmptyMap)) = 0
  BY <1>2, SumEmpty
<1>5. Booked' = 0 /\ Escrowed' = 0 /\ InFlight' = InFlight
  BY <1>1, <1>4, LedgerTerms, LedgerTermsPrime
<1>6. LedgerTyped'
  BY <1>0, <1>1, <1>3 DEF LedgerTyped
<1>7. FundedTyped' /\ FundsConserved'
  BY <1>0, <1>1, <1>5 DEF FundedTyped, FundsConserved
<1> QED
  BY <1>6, <1>7 DEF LedgerInv

LEMMA LedgerStarts == LedgerInit => LedgerInv
<1> SUFFICES ASSUME LedgerInit PROVE LedgerInv
  OBVIOUS
<1>2. DOMAIN EmptyMap = {} /\ DOMAIN AmountsOf(EmptyMap) = {}
  BY DEF EmptyMap, AmountsOf
<1>3. IsMap(EmptyMap, Peers, LedgerBalances) /\ IsMap(EmptyMap, EscrowTasks, Escrow)
  BY DEF EmptyMap, IsMap
<1>4. SumFunction(EmptyMap) = 0 /\ SumFunction(AmountsOf(EmptyMap)) = 0
  BY <1>2, SumEmpty
<1> DEFINE f == HeldBy(call)
<1>5. f \in [LedgerThreads -> Nat] /\ \A w \in LedgerThreads : f[w] = 0
  BY IdleCall DEF LedgerInit, HeldBy
<1>6. SumFunction(f) = 0
  <2> HIDE DEF f
  <2> QED
    BY <1>5, SumZero, LedgerAssumption
<1>7. Booked = 0 /\ Escrowed = 0 /\ InFlight = 0
  BY <1>4, <1>6, LedgerTerms DEF LedgerInit
<1>8. LedgerTyped
  BY <1>3, IdleCall DEF LedgerInit, LedgerTyped
<1> QED
  BY <1>7, <1>8 DEF LedgerInit, LedgerInv, FundedTyped, FundsConserved

LEMMA LedgerSteps == LedgerInv /\ [LedgerNext]_ledgerVars => LedgerInv'
<1> SUFFICES ASSUME LedgerInv, [LedgerNext]_ledgerVars PROVE LedgerInv'
  OBVIOUS
<1>1. ASSUME NEW peer \in Peers, NEW amount \in LedgerAmounts,
             Credit(peer, amount) \/ Debit(peer, amount)
      PROVE  LedgerInv'
  BY <1>1, CreditStep, DebitStep
<1>2. ASSUME NEW from \in Peers, NEW to \in Peers, NEW amount \in LedgerAmounts,
             Transfer(from, to, amount)
      PROVE  LedgerInv'
  BY <1>2, TransferStep
<1>3. ASSUME NEW w \in LedgerThreads, NEW task \in EscrowTasks, NEW escrow \in Escrow,
             PutInEscrow(w, task, escrow)
      PROVE  LedgerInv'
  BY <1>3, PutInEscrowStep
<1>4. ASSUME NEW w \in LedgerThreads, NEW task \in EscrowTasks, NEW worker \in Peers,
             ReleaseEscrow(w, task, worker)
      PROVE  LedgerInv'
  BY <1>4, TakeEscrowStep DEF ReleaseEscrow
<1>5. ASSUME NEW w \in LedgerThreads, NEW task \in EscrowTasks, RefundEscrow(w, task)
      PROVE  LedgerInv'
  <2>1. task \in DOMAIN escrows /\ IsMap(escrows, EscrowTasks, Escrow)
    BY <1>5 DEF RefundEscrow, LedgerInv, LedgerTyped
  <2>2. escrows[task] \in Escrow
    BY <2>1 DEF IsMap
  <2>3. escrows[task].client \in Peers
    BY <2>2, EscrowAmount
  <2> QED
    BY <1>5, <2>3, TakeEscrowStep DEF RefundEscrow
<1>6. ASSUME NEW w \in LedgerThreads, DebitClient(w) \/ PayEscrow(w)
      PROVE  LedgerInv'
  BY <1>6, DebitClientStep, PayEscrowStep
<1>7. ASSUME NEW w \in LedgerThreads, InsertEscrow(w) \/ PutBack(w)
      PROVE  LedgerInv'
  BY <1>7, StoreStep DEF InsertEscrow, PutBack
<1>8. CASE ClearLedger
  BY <1>8, ClearLedgerStep
<1>9. CASE UNCHANGED ledgerVars
  BY <1>9 DEF ledgerVars, LedgerInv, LedgerTyped, FundedTyped, FundsConserved,
              Booked, Escrowed, InFlight
<1> QED
  BY <1>1, <1>2, <1>3, <1>4, <1>5, <1>6, <1>7, <1>8, <1>9 DEF LedgerNext

\* Money is conserved whatever the threads do between the two mutexes of the escrow
\* operations (putInEscrow, releaseEscrow, refundEscrow, clear).
THEOREM FundsAreConserved == LedgerSpec => []FundsConserved
<1>1. LedgerInv => FundsConserved
  BY DEF LedgerInv
<1> QED
  BY <1>1, LedgerStarts, LedgerSteps, PTL DEF LedgerSpec

\* The types of the ledger: no balance wraps around or is stored as zero, and no more
\* is ever debited than was credited.
THEOREM LedgerTypeCorrect == LedgerSpec => []LedgerTypeOK
<1>1. ASSUME LedgerInv PROVE LedgerTypeOK
  <2>1. LedgerTyped /\ FundedTyped /\ FundsConserved
    BY <1>1 DEF LedgerInv
  <2>2. funded \in Nat
    BY <2>1, LedgerSums DEF FundsConserved, LedgerTyped
  <2> QED
    BY <2>1, <2>2 DEF LedgerTypeOK, LedgerTyped, LedgerBalances
<1> QED
  BY <1>1, LedgerStarts, LedgerSteps, PTL DEF LedgerSpec

-----------------------------------------------------------------------------
(* The prover swarm.                                                       *)

\* What the JSON library makes of the clock is a natural number again.
LEMMA RoundTripNat ==
  ASSUME NEW n \in Nat, n < 1000 * Exact
  PROVE  RoundTrip(n) \in Nat
<1>0. Exact \in Nat
  BY ExactAssumption
<1> DEFINE Fit(u) == u \in DecimalUnits /\ n < Exact * u /\ \A v \in DecimalUnits : n < Exact * v => u <= v
<1>1. \E u : Fit(u)
  <2>1. CASE n < Exact * 1
    BY <1>0, <2>1 DEF DecimalUnits
  <2>2. CASE ~(n < Exact * 1) /\ n < Exact * 10
    BY <1>0, <2>2 DEF DecimalUnits
  <2>3. CASE ~(n < Exact * 1) /\ ~(n < Exact * 10) /\ n < Exact * 100
    BY <1>0, <2>3 DEF DecimalUnits
  <2>4. CASE ~(n < Exact * 1) /\ ~(n < Exact * 10) /\ ~(n < Exact * 100)
    BY <1>0, <2>4 DEF DecimalUnits
  <2> QED
    BY <2>1, <2>2, <2>3, <2>4
<1>2. LastDigit(n) \in DecimalUnits
  BY <1>1 DEF LastDigit
<1>3. LastDigit(n) \in {1, 10, 100, 1000}
  BY <1>2 DEF DecimalUnits
<1> DEFINE u == LastDigit(n)
<1> HIDE DEF u
<1>4. RoundTrip(n) = ((n + u \div 2) \div u) * u
  BY DEF RoundTrip, u
<1>5. u \in {1, 10, 100, 1000}
  BY <1>3 DEF u
<1> QED
  BY <1>4, <1>5

LEMMA SwarmConstants ==
  /\ ProverKeys \subseteq Nat /\ NoProver \notin ProverKeys /\ Latencies \subseteq Nat
  /\ Scale \in Nat /\ Alpha \in Nat /\ Beta \in Nat /\ MaxRetries \in Nat
  /\ WriteOutcomes \subseteq BOOLEAN /\ StartTime \in Nat /\ MaxTime \in Nat
  /\ StartTime < 1000 * Exact /\ MaxTime < 1000 * Exact
BY SwarmAssumption

LEMMA SwarmRecords ==
  /\ NewJob \in ProverJob /\ ~NewJob.completed
  /\ \A job \in ProverJob :
       /\ Waiting(job) \in ProverJob /\ Waiting(job).completed = job.completed
       /\ job.completed \in BOOLEAN
BY SwarmConstants DEF NewJob, ProverJob, Waiting

LEMMA ProverRecords ==
  /\ NewIdentity \in ProverIdentity
  /\ \A prover \in ProverIdentity :
       /\ Penalised(prover) \in ProverIdentity
       /\ Penalised(prover).banned = prover.banned
       /\ Penalised(prover).reputation <= prover.reputation
       /\ Banned(prover) \in ProverIdentity
       /\ Banned(prover).banned /\ Banned(prover).reputation <= prover.reputation
       /\ \A latency \in Latencies :
            /\ Rewarded(prover, latency) \in ProverIdentity
            /\ Rewarded(prover, latency).banned = prover.banned
<1>1. NewIdentity \in ProverIdentity
  <2>1. Scale \div 2 \in Nat
    BY SwarmConstants
  <2> QED
    BY <2>1, SwarmConstants DEF NewIdentity, ProverIdentity
<1>2. ASSUME NEW prover \in ProverIdentity
      PROVE  /\ Penalised(prover) \in ProverIdentity
             /\ Penalised(prover).banned = prover.banned
             /\ Penalised(prover).reputation <= prover.reputation
  <2>1. prover.reputation \in Nat /\ Beta \in Nat
    BY SwarmConstants DEF ProverIdentity
  <2> DEFINE r == IF prover.reputation < Beta THEN 0 ELSE prover.reputation - Beta
  <2>2. r \in Nat /\ r <= prover.reputation
    BY <2>1
  <2>3. Penalised(prover) = [prover EXCEPT !.reputation = r]
    BY DEF Penalised
  <2> HIDE DEF r
  <2> QED
    BY <2>2, <2>3 DEF ProverIdentity
<1>3. ASSUME NEW prover \in ProverIdentity
      PROVE  /\ Banned(prover) \in ProverIdentity
             /\ Banned(prover).banned /\ Banned(prover).reputation <= prover.reputation
  BY DEF Banned, ProverIdentity
<1>4. ASSUME NEW prover \in ProverIdentity, NEW latency \in Latencies
      PROVE  /\ Rewarded(prover, latency) \in ProverIdentity
             /\ Rewarded(prover, latency).banned = prover.banned
  <2> DEFINE r == prover.reputation + Alpha \div (1 + latency)
             l == (prover.latency + latency) \div 2
  <2>1. /\ prover.reputation \in Nat /\ prover.latency \in Nat
        /\ Alpha \in Nat /\ latency \in Nat
    BY SwarmConstants DEF ProverIdentity
  <2>2. Alpha \div (1 + latency) \in Nat
    BY <2>1
  <2>3. r \in Nat /\ l \in Nat
    BY <2>1, <2>2
  <2>4. Rewarded(prover, latency)
          = [reputation |-> r, capacity |-> prover.capacity, latency |-> l, banned |-> prover.banned]
    BY DEF Rewarded
  <2> HIDE DEF r, l
  <2> QED
    BY <2>3, <2>4 DEF ProverIdentity
<1> QED
  BY <1>1, <1>2, <1>3, <1>4

JobsTyped == IsMap(jobs, JobIds, ProverJob)
ProversTyped == IsMap(provers, ProverKeys, ProverIdentity)
QueuesTyped == queue \in Seq(JobIds) /\ queueOnDisk \in Seq(JobIds) /\ dropped \subseteq JobIds
ClockTyped == now \in Nat /\ now < 1000 * Exact

\* q lists stored jobs, each once, and every open one but those in gone.
Lists(q, js, gone) ==
  /\ IsInjective(q)
  /\ \A job \in ToSet(q) : job \in DOMAIN js
  /\ \A job \in DOMAIN js : js[job].completed \/ job \in gone \/ job \in ToSet(q)

Undisturbed(q, r, js) == q = r /\ \A job \in ToSet(q) : ~js[job].completed

LEMMA QueuedMeans ==
  OpenJobsQueued <=>
    /\ Lists(queue, jobs, dropped) /\ Lists(queueOnDisk, jobs, dropped)
    /\ dropped = {} => Undisturbed(queue, queueOnDisk, jobs)
<1>1. OpenJobsQueued <=>
        /\ \A q \in {queue, queueOnDisk} : Lists(q, jobs, dropped)
        /\ dropped = {} => queue = queueOnDisk /\ \A job \in ToSet(queue) : Open(job)
  BY DEF OpenJobsQueued, Lists, Open
<1>2. Lists(queue, jobs, dropped) => \A job \in ToSet(queue) : job \in DOMAIN jobs
  BY DEF Lists
<1> QED
  BY <1>1, <1>2 DEF Undisturbed, Open

LEMMA QueuedMeansPrime ==
  OpenJobsQueued' <=>
    /\ Lists(queue', jobs', dropped') /\ Lists(queueOnDisk', jobs', dropped')
    /\ dropped' = {} => Undisturbed(queue', queueOnDisk', jobs')
<1>1. OpenJobsQueued' <=>
        /\ \A q \in {queue', queueOnDisk'} : Lists(q, jobs', dropped')
        /\ dropped' = {} => queue' = queueOnDisk' /\ \A job \in ToSet(queue') : Open(job)'
  BY DEF OpenJobsQueued, Lists, Open
<1>2. Lists(queue', jobs', dropped') => \A job \in ToSet(queue') : job \in DOMAIN jobs'
  BY DEF Lists
<1> QED
  BY <1>1, <1>2 DEF Undisturbed, Open

SwarmInv == JobsTyped /\ ProversTyped /\ QueuesTyped /\ ClockTyped /\ OpenJobsQueued

\* A step that keeps the jobs, the flags of the jobs and the queues keeps the invariant.
LEMMA FlagsKept ==
  ASSUME SwarmInv, JobsTyped', DOMAIN jobs' = DOMAIN jobs,
         \A job \in DOMAIN jobs : jobs'[job].completed = jobs[job].completed,
         UNCHANGED <<queue, queueOnDisk, dropped>>
  PROVE  QueuesTyped' /\ OpenJobsQueued'
<1>1. QueuesTyped'
  BY DEF SwarmInv, QueuesTyped
<1>2. /\ Lists(queue, jobs, dropped) /\ Lists(queueOnDisk, jobs, dropped)
      /\ dropped = {} => Undisturbed(queue, queueOnDisk, jobs)
  BY QueuedMeans DEF SwarmInv
<1>3. \A q : Lists(q, jobs, dropped) => Lists(q, jobs', dropped)
  BY DEF Lists
<1>4. Lists(queue, jobs', dropped) /\ Lists(queueOnDisk, jobs', dropped)
  BY <1>2, <1>3
<1>5. ASSUME dropped = {} PROVE Undisturbed(queue, queueOnDisk, jobs')
  BY <1>2, <1>5 DEF Undisturbed, Lists
<1> QED
  BY <1>1, <1>4, <1>5, QueuedMeansPrime

LEMMA SubmitJobStep ==
  ASSUME SwarmInv, NEW job \in JobIds, SubmitJob(job)
  PROVE  SwarmInv'
<1>0. PICK ok \in WriteOutcomes :
        /\ queue' = IF ok THEN Append(queue, job) ELSE queue
        /\ queueOnDisk' = IF ok THEN queue' ELSE queueOnDisk
        /\ jobs' = IF ok THEN Put(jobs, job, NewJob) ELSE jobs
  BY DEF SubmitJob
<1>1. UNCHANGED <<provers, now, dropped>> /\ job \notin DOMAIN jobs
  BY DEF SubmitJob
<1>2. ProversTyped' /\ ClockTyped'
  BY <1>1 DEF SwarmInv, ProversTyped, ClockTyped
<1>3. CASE ~ok
  <2>1. UNCHANGED <<queue, queueOnDisk, jobs, dropped>>
    BY <1>0, <1>1, <1>3
  <2>2. JobsTyped'
    BY <2>1 DEF SwarmInv, JobsTyped
  <2>3. QueuesTyped' /\ OpenJobsQueued'
    BY <2>1, <2>2, FlagsKept
  <2> QED
    BY <1>2, <2>2, <2>3 DEF SwarmInv
<1>4. CASE ok
  <2>1. queue' = Append(queue, job) /\ queueOnDisk' = queue' /\ jobs' = Put(jobs, job, NewJob)
    BY <1>0, <1>4
  <2>2. /\ DOMAIN jobs' = DOMAIN jobs \cup {job} /\ jobs'[job] = NewJob
        /\ \A j \in DOMAIN jobs : jobs'[j] = jobs[j]
    BY <1>1, <2>1 DEF Put
  <2>3. JobsTyped'
    BY <1>1, <2>1, <2>2, SwarmRecords DEF SwarmInv, JobsTyped, IsMap, Put
  <2>4. Lists(queue, jobs, dropped) /\ (dropped = {} => Undisturbed(queue, queueOnDisk, jobs))
    BY QueuedMeans DEF SwarmInv
  <2>5. job \notin ToSet(queue) /\ IsInjective(queue)
    BY <1>1, <2>4 DEF Lists
  <2>6. queue' \in Seq(JobIds) /\ ToSet(queue') = ToSet(queue) \cup {job} /\ IsInjective(queue')
    BY <2>1, <2>5, AppendElements DEF SwarmInv, QueuesTyped
  <2>7. Lists(queue', jobs', dropped')
    <3>1. \A j \in ToSet(queue') : j \in DOMAIN jobs'
      BY <2>2, <2>4, <2>6 DEF Lists
    <3>2. \A j \in DOMAIN jobs' : jobs'[j].completed \/ j \in dropped' \/ j \in ToSet(queue')
      BY <1>1, <2>2, <2>4, <2>6 DEF Lists
    <3> QED
      BY <2>6, <3>1, <3>2 DEF Lists
  <2>8. ASSUME dropped' = {} PROVE Undisturbed(queue', queueOnDisk', jobs')
    <3>1. \A j \in ToSet(queue) : j \in DOMAIN jobs /\ ~jobs[j].completed
      BY <1>1, <2>4, <2>8 DEF Undisturbed, Lists
    <3> QED
      BY <2>1, <2>2, <2>6, <3>1, SwarmRecords DEF Undisturbed
  <2>9. OpenJobsQueued'
    BY <2>1, <2>7, <2>8, QueuedMeansPrime
  <2>10. QueuesTyped'
    BY <1>1, <2>1, <2>6 DEF SwarmInv, QueuesTyped
  <2> QED
    BY <1>2, <2>3, <2>9, <2>10 DEF SwarmInv
<1> QED
  BY <1>3, <1>4

LEMMA AssignJobStep ==
  ASSUME SwarmInv, NEW i \in DOMAIN queue, AssignJob(i)
  PROVE  SwarmInv'
<1> DEFINE job == queue[i]
<1>0. PICK p \in BestProvers : jobs' = [jobs EXCEPT ![job] = AssignedTo(@, p)]
  BY DEF AssignJob
<1>1. UNCHANGED <<queue, queueOnDisk, provers, now, dropped>> /\ job \in DOMAIN jobs
  BY DEF AssignJob, Open
<1>2. jobs[job].retries < MaxRetries
  BY DEF AssignJob
<1> HIDE DEF job
<1>3. p \in ProverKeys
  BY DEF BestProvers, SwarmInv, ProversTyped, IsMap
<1>4. jobs[job] \in ProverJob /\ jobs \in [DOMAIN jobs -> ProverJob] /\ DOMAIN jobs \subseteq JobIds
  BY <1>1 DEF SwarmInv, JobsTyped, IsMap
<1>5. RoundTrip(now) \in Nat
  BY RoundTripNat DEF SwarmInv, ClockTyped
<1>6. AssignedTo(jobs[job], p) \in ProverJob /\ AssignedTo(jobs[job], p).completed = jobs[job].completed
  <2>1. jobs[job].retries + 1 \in 0 .. MaxRetries
    BY <1>2, <1>4, SwarmConstants DEF ProverJob
  <2> QED
    BY <1>3, <1>4, <1>5, <2>1 DEF AssignedTo, ProverJob
<1>7. /\ jobs' \in [DOMAIN jobs -> ProverJob] /\ DOMAIN jobs' = DOMAIN jobs
      /\ \A j \in DOMAIN jobs : jobs'[j].completed = jobs[j].completed
  BY <1>0, <1>1, <1>4, <1>6
<1>8. JobsTyped'
  BY <1>4, <1>7 DEF JobsTyped, IsMap
<1>9. QueuesTyped' /\ OpenJobsQueued'
  BY <1>1, <1>7, <1>8, FlagsKept
<1>10. ProversTyped' /\ ClockTyped'
  BY <1>1 DEF SwarmInv, ProversTyped, ClockTyped
<1> QED
  BY <1>8, <1>9, <1>10 DEF SwarmInv

LEMMA RecordJobSuccessStep ==
  ASSUME SwarmInv, NEW job \in JobIds, NEW latency \in Latencies, RecordJobSuccess(job, latency)
  PROVE  SwarmInv'
<1> DEFINE assignee == jobs[job].assigned
<1>0. PICK ok \in WriteOutcomes :
        /\ jobs' = IF ok THEN [jobs EXCEPT ![job].completed = TRUE] ELSE jobs
        /\ provers' =
             IF ok /\ assignee \in DOMAIN provers
               THEN [provers EXCEPT ![assignee] = Rewarded(@, latency)]
               ELSE provers
        /\ queueOnDisk' =
             IF ok /\ Contains(queue, job) THEN queue' ELSE queueOnDisk
        /\ dropped' = IF ok THEN dropped ELSE dropped \cup {job}
  BY DEF RecordJobSuccess
<1>1. /\ job \in DOMAIN jobs /\ ~jobs[job].completed
      /\ queue' = RemoveFirst(queue, job) /\ now' = now
  BY DEF RecordJobSuccess, Open
<1>2. ClockTyped'
  BY <1>1 DEF SwarmInv, ClockTyped
<1>3. provers \in [DOMAIN provers -> ProverIdentity] /\ DOMAIN provers \subseteq ProverKeys
  BY DEF SwarmInv, ProversTyped, IsMap
<1>4. ProversTyped'
  <2> HIDE DEF assignee
  <2>1. provers' \in [DOMAIN provers -> ProverIdentity]
    BY <1>0, <1>3, ProverRecords
  <2> QED
    BY <1>3, <2>1 DEF ProversTyped, IsMap
<1>5. jobs \in [DOMAIN jobs -> ProverJob] /\ DOMAIN jobs \subseteq JobIds
  BY DEF SwarmInv, JobsTyped, IsMap
<1>6. /\ jobs' \in [DOMAIN jobs -> ProverJob] /\ DOMAIN jobs' = DOMAIN jobs
      /\ \A j \in DOMAIN jobs \ {job} : jobs'[j] = jobs[j]
      /\ ok => jobs'[job].completed
      /\ ~ok => jobs' = jobs
  BY <1>0, <1>1, <1>5 DEF ProverJob
<1>7. JobsTyped'
  BY <1>5, <1>6 DEF JobsTyped, IsMap
<1>8. /\ Lists(queue, jobs, dropped) /\ Lists(queueOnDisk, jobs, dropped)
      /\ dropped = {} => Undisturbed(queue, queueOnDisk, jobs)
  BY QueuedMeans DEF SwarmInv
<1>9. queue \in Seq(JobIds) /\ queueOnDisk \in Seq(JobIds) /\ dropped \subseteq JobIds
  BY DEF SwarmInv, QueuesTyped
<1>10. /\ queue' \in Seq(JobIds) /\ ToSet(queue) \ {job} \subseteq ToSet(queue')
       /\ ToSet(queue') \subseteq ToSet(queue)
       /\ IsInjective(queue') /\ job \notin ToSet(queue')
       /\ ~Contains(queue, job) => queue' = queue
  BY <1>1, <1>8, <1>9, RemoveFirstElements DEF Lists
<1>11. QueuesTyped'
  BY <1>0, <1>9, <1>10 DEF QueuesTyped
<1>12. Lists(queue', jobs', dropped')
  <2>1. \A j \in ToSet(queue') : j \in DOMAIN jobs'
    BY <1>6, <1>8, <1>10 DEF Lists
  <2>2. \A j \in DOMAIN jobs' : jobs'[j].completed \/ j \in dropped' \/ j \in ToSet(queue')
    BY <1>0, <1>6, <1>8, <1>10 DEF Lists
  <2> QED
    BY <1>10, <2>1, <2>2 DEF Lists
<1>13. Lists(queueOnDisk, jobs', dropped')
  BY <1>0, <1>6, <1>8 DEF Lists
<1>14. Lists(queueOnDisk', jobs', dropped')
  BY <1>0, <1>12, <1>13
<1>15. ASSUME dropped' = {} PROVE Undisturbed(queue', queueOnDisk', jobs')
  <2>1. ok /\ dropped = {}
    BY <1>0, <1>15
  <2>2. queue = queueOnDisk /\ \A j \in ToSet(queue) : ~jobs[j].completed
    BY <1>8, <2>1 DEF Undisturbed
  <2>3. queue' = queueOnDisk'
    BY <1>0, <1>10, <2>1, <2>2
  <2>4. ASSUME NEW j \in ToSet(queue') PROVE ~jobs'[j].completed
    <3>1. j \in ToSet(queue) /\ j # job /\ j \in DOMAIN jobs
      BY <1>8, <1>10 DEF Lists
    <3> QED
      BY <1>6, <2>2, <3>1
  <2> QED
    BY <2>3, <2>4 DEF Undisturbed
<1>16. OpenJobsQueued'
  BY <1>12, <1>14, <1>15, QueuedMeansPrime
<1> QED
  BY <1>2, <1>4, <1>7, <1>11, <1>16 DEF SwarmInv

\* recordJobFailure and checkTimeouts: the jobs in late wait again, and their provers
\* are penalised.
LEMMA JobsPutBack ==
  ASSUME SwarmInv, NEW late \in SUBSET DOMAIN jobs,
         jobs' = PutAll(jobs, [job \in late |-> Waiting(jobs[job])]),
         provers' = PutAll(provers, PenaltiesFor(late)),
         UNCHANGED <<queue, queueOnDisk, now, dropped>>
  PROVE  /\ SwarmInv'
         /\ DOMAIN jobs' = DOMAIN jobs
         /\ \A job \in DOMAIN jobs : jobs'[job] = IF job \in late THEN Waiting(jobs[job]) ELSE jobs[job]
         /\ DOMAIN provers' = DOMAIN provers
         /\ \A p \in DOMAIN provers : provers'[p] \in {provers[p], Penalised(provers[p])}
<1>1. jobs \in [DOMAIN jobs -> ProverJob] /\ DOMAIN jobs \subseteq JobIds
  BY DEF SwarmInv, JobsTyped, IsMap
<1>2. /\ DOMAIN jobs' = DOMAIN jobs
      /\ \A job \in DOMAIN jobs : jobs'[job] = IF job \in late THEN Waiting(jobs[job]) ELSE jobs[job]
  BY DEF PutAll
<1>3. jobs' = [job \in DOMAIN jobs |-> IF job \in late THEN Waiting(jobs[job]) ELSE jobs[job]]
  BY DEF PutAll
<1>4. jobs' \in [DOMAIN jobs -> ProverJob]
  BY <1>1, <1>3, SwarmRecords
<1>5. JobsTyped'
  BY <1>1, <1>4 DEF JobsTyped, IsMap
<1>6. \A job \in DOMAIN jobs : jobs'[job].completed = jobs[job].completed
  BY <1>1, <1>2, SwarmRecords
<1>7. QueuesTyped' /\ OpenJobsQueued'
  BY <1>2, <1>5, <1>6, FlagsKept
<1>8. provers \in [DOMAIN provers -> ProverIdentity] /\ DOMAIN provers \subseteq ProverKeys
  BY DEF SwarmInv, ProversTyped, IsMap
<1> DEFINE hit == {jobs[job].assigned : job \in late} \cap DOMAIN provers
<1>9. PenaltiesFor(late) = [p \in hit |-> Penalised(provers[p])] /\ hit \subseteq DOMAIN provers
  BY DEF PenaltiesFor
<1> HIDE DEF hit
<1>10. provers' = [p \in DOMAIN provers |-> IF p \in hit THEN Penalised(provers[p]) ELSE provers[p]]
  BY <1>9 DEF PutAll
<1>11. provers' \in [DOMAIN provers -> ProverIdentity]
  BY <1>8, <1>10, ProverRecords
<1>12. ProversTyped' /\ ClockTyped'
  BY <1>8, <1>11 DEF ProversTyped, IsMap, SwarmInv, ClockTyped
<1>13. \A p \in DOMAIN provers : provers'[p] \in {provers[p], Penalised(provers[p])}
  BY <1>10
<1> QED
  BY <1>2, <1>5, <1>7, <1>11, <1>12, <1>13 DEF SwarmInv

\* recordJobFailure is the case of one job.
LEMMA FailurePutsBack ==
  ASSUME NEW job \in JobIds, RecordJobFailure(job)
  PROVE  /\ {job} \in SUBSET DOMAIN jobs /\ ~jobs[job].completed
         /\ JobsTyped => jobs' = PutAll(jobs, [j \in {job} |-> Waiting(jobs[j])])
         /\ provers' = PutAll(provers, PenaltiesFor({job}))
         /\ UNCHANGED <<queue, queueOnDisk, now, dropped>>
<1>1. job \in DOMAIN jobs /\ jobs' = [jobs EXCEPT ![job] = Waiting(@)]
  BY DEF RecordJobFailure, Open
<1>2. JobsTyped => jobs' = PutAll(jobs, [j \in {job} |-> Waiting(jobs[j])])
  BY <1>1 DEF PutAll, JobsTyped, IsMap
<1> QED
  BY <1>1, <1>2 DEF RecordJobFailure, Open

LEMMA TimeoutPutsBack ==
  ASSUME CheckTimeouts
  PROVE  \E late \in SUBSET DOMAIN jobs :
           /\ \A job \in late : ~jobs[job].completed
           /\ jobs' = PutAll(jobs, [j \in late |-> Waiting(jobs[j])])
           /\ provers' = PutAll(provers, PenaltiesFor(late))
           /\ UNCHANGED <<queue, queueOnDisk, now, dropped>>
<1> DEFINE late == {job \in ToSet(queue) :
                      /\ Open(job) /\ jobs[job].assigned # NoProver
                      /\ jobs[job].at # 0 /\ now > jobs[job].at
                      /\ now - jobs[job].at > Timeout}
<1>1. late \in SUBSET DOMAIN jobs /\ \A job \in late : ~jobs[job].completed
  BY DEF Open
<1>2. /\ jobs' = PutAll(jobs, [j \in late |-> Waiting(jobs[j])])
      /\ provers' = PutAll(provers, PenaltiesFor(late))
      /\ UNCHANGED <<queue, queueOnDisk, now, dropped>>
  BY DEF CheckTimeouts
<1> HIDE DEF late
<1> QED
  BY <1>1, <1>2

LEMMA RegisterProverStep ==
  ASSUME SwarmInv, NEW p \in ProverKeys, RegisterProver(p)
  PROVE  SwarmInv'
<1>1. UNCHANGED <<queue, queueOnDisk, jobs, now, dropped>> /\ provers' = Put(provers, p, NewIdentity)
  BY DEF RegisterProver
<1>2. ProversTyped'
  BY <1>1, ProverRecords DEF SwarmInv, ProversTyped, IsMap, Put
<1>3. JobsTyped' /\ ClockTyped'
  BY <1>1 DEF SwarmInv, JobsTyped, ClockTyped
<1>4. QueuesTyped' /\ OpenJobsQueued'
  BY <1>1, <1>3, FlagsKept
<1> QED
  BY <1>2, <1>3, <1>4 DEF SwarmInv

LEMMA HardBanProverStep ==
  ASSUME SwarmInv, NEW p \in ProverKeys, HardBanProver(p)
  PROVE  SwarmInv'
<1>1. /\ UNCHANGED <<queue, queueOnDisk, jobs, now, dropped>> /\ p \in DOMAIN provers
      /\ provers' = [provers EXCEPT ![p] = Banned(@)]
  BY DEF HardBanProver
<1>2. ProversTyped'
  BY <1>1, ProverRecords DEF SwarmInv, ProversTyped, IsMap
<1>3. JobsTyped' /\ ClockTyped'
  BY <1>1 DEF SwarmInv, JobsTyped, ClockTyped
<1>4. QueuesTyped' /\ OpenJobsQueued'
  BY <1>1, <1>3, FlagsKept
<1> QED
  BY <1>2, <1>3, <1>4 DEF SwarmInv

LEMMA SwarmTickStep ==
  ASSUME SwarmInv, SwarmTick
  PROVE  SwarmInv'
<1>1. UNCHANGED <<queue, queueOnDisk, jobs, provers, dropped>>
  BY DEF SwarmTick
<1>2. JobsTyped' /\ ProversTyped'
  BY <1>1 DEF SwarmInv, JobsTyped, ProversTyped
<1>3. ClockTyped'
  BY SwarmConstants, ExactAssumption DEF SwarmInv, ClockTyped, SwarmTick
<1>4. QueuesTyped' /\ OpenJobsQueued'
  BY <1>1, <1>2, FlagsKept
<1> QED
  BY <1>2, <1>3, <1>4 DEF SwarmInv

LEMMA SwarmRestartStep ==
  ASSUME SwarmInv, SwarmRestart
  PROVE  SwarmInv'
<1>1. UNCHANGED <<queueOnDisk, jobs, provers, now, dropped>> /\ queue' = queueOnDisk
  BY DEF SwarmRestart
<1>2. JobsTyped' /\ ProversTyped' /\ ClockTyped' /\ QueuesTyped'
  BY <1>1 DEF SwarmInv, JobsTyped, ProversTyped, ClockTyped, QueuesTyped
<1>3. /\ Lists(queueOnDisk, jobs, dropped)
      /\ dropped = {} => Undisturbed(queue, queueOnDisk, jobs)
  BY QueuedMeans DEF SwarmInv
<1>4. dropped = {} => Undisturbed(queueOnDisk, queueOnDisk, jobs)
  BY <1>3 DEF Undisturbed
<1>5. OpenJobsQueued'
  BY <1>1, <1>3, <1>4, QueuedMeansPrime
<1> QED
  BY <1>2, <1>5 DEF SwarmInv

LEMMA SwarmStarts == SwarmInit => SwarmInv
<1> SUFFICES ASSUME SwarmInit PROVE SwarmInv
  OBVIOUS
<1>1. DOMAIN EmptyMap = {} /\ ToSet(<<>>) = {}
  BY DEF EmptyMap, ToSet
<1>2. JobsTyped /\ ProversTyped /\ QueuesTyped
  BY <1>1 DEF SwarmInit, JobsTyped, ProversTyped, QueuesTyped, IsMap, EmptyMap
<1>3. ClockTyped
  BY SwarmConstants DEF SwarmInit, ClockTyped
<1>4. IsInjective(<<>>)
  BY DEF IsInjective
<1>5. OpenJobsQueued
  BY <1>1, <1>4, QueuedMeans DEF SwarmInit, Lists, Undisturbed
<1> QED
  BY <1>2, <1>3, <1>5 DEF SwarmInv

LEMMA SwarmSteps == SwarmInv /\ [SwarmNext]_swarmVars => SwarmInv'
<1> SUFFICES ASSUME SwarmInv, [SwarmNext]_swarmVars PROVE SwarmInv'
  OBVIOUS
<1>1. ASSUME NEW job \in JobIds, RecordJobFailure(job) PROVE SwarmInv'
  <2>1. JobsTyped
    BY DEF SwarmInv
  <2> QED
    BY <1>1, <2>1, FailurePutsBack, JobsPutBack
<1>2. CASE CheckTimeouts
  BY <1>2, TimeoutPutsBack, JobsPutBack
<1>3. CASE UNCHANGED swarmVars
  BY <1>3 DEF swarmVars, SwarmInv, JobsTyped, ProversTyped, QueuesTyped, ClockTyped, OpenJobsQueued, Open
<1> QED
  BY <1>1, <1>2, <1>3, SubmitJobStep, AssignJobStep, RecordJobSuccessStep, RegisterProverStep,
     HardBanProverStep, SwarmTickStep, SwarmRestartStep DEF SwarmNext

\* No job that submitJob accepted is lost, through write failures and restarts.
THEOREM JobsStayQueued == SwarmSpec => []OpenJobsQueued
<1>1. SwarmInv => OpenJobsQueued
  BY DEF SwarmInv
<1> QED
  BY <1>1, SwarmStarts, SwarmSteps, PTL DEF SwarmSpec

\* The types of the swarm: no reputation falls below zero.
THEOREM SwarmTypeCorrect == SwarmSpec => []SwarmTypeOK
<1>1. SwarmInv => SwarmTypeOK
  BY DEF SwarmInv, SwarmTypeOK, JobsTyped, ProversTyped, QueuesTyped, ClockTyped
<1> QED
  BY <1>1, SwarmStarts, SwarmSteps, PTL DEF SwarmSpec

BansKept == \A p \in DOMAIN provers : provers[p].banned => provers'[p].banned

RisesPaidFor ==
  \A p \in DOMAIN provers :
    provers'[p].reputation > provers[p].reputation =>
      \E job \in DOMAIN jobs :
        /\ jobs[job].assigned = p
        /\ ~jobs[job].completed /\ jobs'[job].completed

CompletedKept == \A job \in DOMAIN jobs : jobs[job].completed => jobs'[job] = jobs[job]

LEMMA ProverTypes ==
  ASSUME SwarmInv
  PROVE  \A p \in DOMAIN provers : provers[p] \in ProverIdentity /\ provers[p].reputation \in Nat
BY DEF SwarmInv, ProversTyped, IsMap, ProverIdentity

LEMMA ProversAlone ==
  ASSUME SwarmInv, UNCHANGED provers
  PROVE  BansKept /\ RisesPaidFor
<1>1. \A p \in DOMAIN provers : provers[p].reputation \in Nat
  BY ProverTypes
<1> QED
  BY <1>1 DEF BansKept, RisesPaidFor

LEMMA JobsAlone ==
  ASSUME UNCHANGED jobs
  PROVE  CompletedKept
BY DEF CompletedKept

\* A prover that is only penalised, or not touched at all, is not paid.
LEMMA OnlyPenalised ==
  ASSUME SwarmInv, \A p \in DOMAIN provers : provers'[p] \in {provers[p], Penalised(provers[p])}
  PROVE  BansKept /\ RisesPaidFor
<1>1. ASSUME NEW p \in DOMAIN provers
      PROVE  /\ provers[p].banned => provers'[p].banned
             /\ ~(provers'[p].reputation > provers[p].reputation)
  <2>1. provers[p] \in ProverIdentity /\ provers[p].reputation \in Nat
    BY ProverTypes
  <2>2. /\ Penalised(provers[p]) \in ProverIdentity
        /\ Penalised(provers[p]).banned = provers[p].banned
        /\ Penalised(provers[p]).reputation <= provers[p].reputation
    BY <2>1, ProverRecords
  <2>3. Penalised(provers[p]).reputation \in Nat
    BY <2>2 DEF ProverIdentity
  <2>4. CASE provers'[p] = provers[p]
    BY <2>1, <2>4
  <2>5. CASE provers'[p] = Penalised(provers[p])
    BY <2>1, <2>2, <2>3, <2>5
  <2> QED
    BY <2>4, <2>5
<1> QED
  BY <1>1 DEF BansKept, RisesPaidFor

LEMMA PutBackKeeps ==
  ASSUME SwarmInv, NEW late \in SUBSET DOMAIN jobs, \A job \in late : ~jobs[job].completed,
         jobs' = PutAll(jobs, [job \in late |-> Waiting(jobs[job])]),
         provers' = PutAll(provers, PenaltiesFor(late)),
         UNCHANGED <<queue, queueOnDisk, now, dropped>>
  PROVE  BansKept /\ RisesPaidFor /\ CompletedKept
<1>1. /\ \A job \in DOMAIN jobs : jobs'[job] = IF job \in late THEN Waiting(jobs[job]) ELSE jobs[job]
      /\ \A p \in DOMAIN provers : provers'[p] \in {provers[p], Penalised(provers[p])}
  BY JobsPutBack
<1>2. CompletedKept
  BY <1>1 DEF CompletedKept
<1> QED
  BY <1>1, <1>2, OnlyPenalised

LEMMA AssignJobKeeps ==
  ASSUME SwarmInv, NEW i \in DOMAIN queue, AssignJob(i)
  PROVE  BansKept /\ RisesPaidFor /\ CompletedKept
<1>1. PICK p \in BestProvers : jobs' = [jobs EXCEPT ![queue[i]] = AssignedTo(@, p)]
  BY DEF AssignJob
<1>2. UNCHANGED provers /\ ~jobs[queue[i]].completed
  BY DEF AssignJob, Open
<1>3. CompletedKept
  BY <1>1, <1>2 DEF CompletedKept, SwarmInv, JobsTyped, IsMap
<1> QED
  BY <1>2, <1>3, ProversAlone

\* Only a result that is written pays, and only the assignee of the job it completes.
LEMMA RecordJobSuccessKeeps ==
  ASSUME SwarmInv, NEW job \in JobIds, NEW latency \in Latencies, RecordJobSuccess(job, latency)
  PROVE  BansKept /\ RisesPaidFor /\ CompletedKept
<1> DEFINE assignee == jobs[job].assigned
<1>0. PICK ok \in WriteOutcomes :
        /\ jobs' = IF ok THEN [jobs EXCEPT ![job].completed = TRUE] ELSE jobs
        /\ provers' =
             IF ok /\ assignee \in DOMAIN provers
               THEN [provers EXCEPT ![assignee] = Rewarded(@, latency)]
               ELSE provers
  BY DEF RecordJobSuccess
<1>1. job \in DOMAIN jobs /\ ~jobs[job].completed
  BY DEF RecordJobSuccess, Open
<1>2. jobs \in [DOMAIN jobs -> ProverJob]
  BY DEF SwarmInv, JobsTyped, IsMap
<1>3. provers \in [DOMAIN provers -> ProverIdentity]
  BY DEF SwarmInv, ProversTyped, IsMap
<1>4. CompletedKept
  BY <1>0, <1>1, <1>2 DEF CompletedKept
<1>5. CASE ok /\ assignee \in DOMAIN provers
  <2>1. /\ \A p \in DOMAIN provers \ {assignee} : provers'[p] = provers[p]
        /\ provers'[assignee] = Rewarded(provers[assignee], latency)
    BY <1>0, <1>3, <1>5
  <2>2. provers'[assignee].banned = provers[assignee].banned
    <3>1. provers[assignee] \in ProverIdentity
      BY <1>3, <1>5
    <3>2. Rewarded(provers[assignee], latency).banned = provers[assignee].banned
      <4> HIDE DEF assignee
      <4> QED
        BY <3>1, ProverRecords
    <3> QED
      BY <2>1, <3>2
  <2>3. BansKept
    <3> HIDE DEF assignee
    <3> QED
      BY <2>1, <2>2 DEF BansKept
  <2>4. jobs'[job].completed
    <3>1. jobs[job] \in ProverJob /\ jobs'[job] = [jobs[job] EXCEPT !.completed = TRUE]
      BY <1>0, <1>1, <1>2, <1>5
    <3> QED
      BY <3>1 DEF ProverJob
  <2>5. \A p \in DOMAIN provers \ {assignee} : ~(provers'[p].reputation > provers[p].reputation)
    BY <2>1, ProverTypes
  <2>6. RisesPaidFor
    BY <1>1, <2>4, <2>5 DEF RisesPaidFor
  <2> QED
    BY <1>4, <2>3, <2>6
<1>6. CASE ~(ok /\ assignee \in DOMAIN provers)
  BY <1>0, <1>4, <1>6, ProversAlone
<1> QED
  BY <1>5, <1>6

LEMMA HardBanProverKeeps ==
  ASSUME SwarmInv, NEW p \in ProverKeys, HardBanProver(p)
  PROVE  BansKept /\ RisesPaidFor /\ CompletedKept
<1>1. UNCHANGED jobs /\ p \in DOMAIN provers /\ provers' = [provers EXCEPT ![p] = Banned(@)]
  BY DEF HardBanProver
<1>2. /\ \A q \in DOMAIN provers \ {p} : provers'[q] = provers[q]
      /\ provers'[p] = Banned(provers[p])
  BY <1>1 DEF SwarmInv, ProversTyped, IsMap
<1>3. provers'[p].banned /\ provers'[p].reputation = 0 /\ provers[p].reputation \in Nat
  BY <1>1, <1>2, ProverTypes DEF Banned
<1>4. BansKept
  BY <1>2, <1>3 DEF BansKept
<1>5. \A q \in DOMAIN provers : ~(provers'[q].reputation > provers[q].reputation)
  BY <1>2, <1>3, ProverTypes
<1> QED
  BY <1>1, <1>4, <1>5, JobsAlone DEF RisesPaidFor

LEMMA RegisterProverKeeps ==
  ASSUME SwarmInv, NEW p \in ProverKeys, RegisterProver(p)
  PROVE  BansKept /\ RisesPaidFor /\ CompletedKept
<1>1. UNCHANGED jobs /\ \A q \in DOMAIN provers : provers'[q] = provers[q]
  BY DEF RegisterProver, Put
<1>2. \A q \in DOMAIN provers : ~(provers'[q].reputation > provers[q].reputation)
  BY <1>1, ProverTypes
<1> QED
  BY <1>1, <1>2, JobsAlone DEF BansKept, RisesPaidFor

LEMMA SwarmKeeps ==
  SwarmInv /\ [SwarmNext]_swarmVars => BansKept /\ RisesPaidFor /\ CompletedKept
<1> SUFFICES ASSUME SwarmInv, [SwarmNext]_swarmVars PROVE BansKept /\ RisesPaidFor /\ CompletedKept
  OBVIOUS
<1>1. ASSUME NEW job \in JobIds, SubmitJob(job) PROVE BansKept /\ RisesPaidFor /\ CompletedKept
  <2>1. UNCHANGED provers /\ job \notin DOMAIN jobs
    BY <1>1 DEF SubmitJob
  <2>2. \A j \in DOMAIN jobs : jobs'[j] = jobs[j]
    BY <1>1 DEF SubmitJob, Put
  <2> QED
    BY <2>1, <2>2, ProversAlone DEF CompletedKept
<1>2. ASSUME NEW job \in JobIds, RecordJobFailure(job) PROVE BansKept /\ RisesPaidFor /\ CompletedKept
  <2>1. JobsTyped
    BY DEF SwarmInv
  <2>2. \A j \in {job} : ~jobs[j].completed
    BY <1>2, FailurePutsBack
  <2> QED
    BY <1>2, <2>1, <2>2, FailurePutsBack, PutBackKeeps
<1>3. CASE CheckTimeouts
  BY <1>3, TimeoutPutsBack, PutBackKeeps
<1>4. CASE SwarmTick \/ SwarmRestart \/ UNCHANGED swarmVars
  <2>1. UNCHANGED <<provers, jobs>>
    BY <1>4 DEF SwarmTick, SwarmRestart, swarmVars
  <2> QED
    BY <2>1, ProversAlone, JobsAlone
<1> QED
  BY <1>1, <1>2, <1>3, <1>4, AssignJobKeeps, RecordJobSuccessKeeps, HardBanProverKeeps,
     RegisterProverKeeps DEF SwarmNext

\* hardBanProver is for good.
THEOREM BansAreForever == SwarmSpec => BannedForever
<1>1. SwarmInv /\ [SwarmNext]_swarmVars =>
        [\A p \in DOMAIN provers : provers[p].banned => provers'[p].banned]_swarmVars
  BY SwarmKeeps DEF BansKept
<1> QED
  BY <1>1, SwarmStarts, SwarmSteps, PTL DEF SwarmSpec, BannedForever

\* A job is paid for once, to the prover it is assigned to.
THEOREM JobsArePaidOnce == SwarmSpec => PaidOnce
<1>1. SwarmInv /\ [SwarmNext]_swarmVars =>
        [/\ \A p \in DOMAIN provers :
              provers'[p].reputation > provers[p].reputation =>
                \E job \in DOMAIN jobs :
                  /\ jobs[job].assigned = p
                  /\ ~jobs[job].completed /\ jobs'[job].completed
         /\ \A job \in DOMAIN jobs :
              jobs[job].completed => jobs'[job] = jobs[job]]_swarmVars
  BY SwarmKeeps DEF RisesPaidFor, CompletedKept
<1> QED
  BY <1>1, SwarmStarts, SwarmSteps, PTL DEF SwarmSpec, PaidOnce

-----------------------------------------------------------------------------
(* The gold bridge.                                                        *)

Item == [serial : Coins, available : BOOLEAN]

\* A coin is on one shelf (addGoldCoin).
ShelvedOnce ==
  \A l, m \in DOMAIN shelves : \A item \in Shelved(l), other \in Shelved(m) :
    item.serial = other.serial => l = m

\* A token is named by its first owner and its coin.
TokensNamed == \A id \in DOMAIN tokens : tokens[id].owner = id[1] /\ tokens[id].serial = id[2]

\* Only issued tokens are on the lists of the owners.
ListsNameTokens == \A u \in DOMAIN ownerTokens : \A id \in ToSet(ownerTokens[u]) : id \in DOMAIN tokens

LocationsTyped == locsIndex \in Seq(Locations) /\ IsInjective(locsIndex)
ShelvesTyped == IsMap(shelves, Locations, Seq(Item))
TokensTyped == IsMap(tokens, TokenIds, Token)
ListsTyped == IsMap(ownerTokens, Users, Seq(TokenIds))
ConversionsTyped == IsMap(conversions, ConversionIds, ConversionData)
GoldClockTyped == goldTime \in 0 .. MaxGoldTime /\ relisted \subseteq Coins

GoldInv ==
  /\ LocationsTyped /\ ShelvesTyped /\ TokensTyped /\ ListsTyped /\ ConversionsTyped /\ GoldClockTyped
  /\ ShelvedOnce /\ TokensNamed /\ ListsNameTokens
  /\ CoinBacksOneToken /\ OwnersListed /\ CompletedHasToken

LEMMA GoldConstants ==
  /\ WeightOf \in [Coins -> Nat] /\ Amounts \subseteq Nat /\ BtcPrice \in Nat
  /\ GoldPrice \in Nat /\ GoldPrice # 0 /\ MaxGoldTime \in Nat
  /\ BurnOptions \subseteq BOOLEAN /\ GoldWrites \subseteq BOOLEAN
BY GoldAssumption

\* q is as good a list for a token as OwnersListed asks: it is on it once, or not at all.
ListsIt(q, id, due) == IF due THEN Once(q, id) ELSE id \notin ToSet(q)

Due(id, u) == tokens[id].owner = u /\ ~tokens[id].redeemed

LEMMA OwnedTyped ==
  ASSUME ListsTyped, NEW u \in Users
  PROVE  OwnedBy(u) \in Seq(TokenIds)
BY DEF ListsTyped, IsMap, OwnedBy

LEMMA OwnedTypedPrime ==
  ASSUME ListsTyped', NEW u \in Users
  PROVE  OwnedBy(u)' \in Seq(TokenIds)
BY DEF ListsTyped, IsMap, OwnedBy

LEMMA CountListsIt ==
  ASSUME NEW q \in Seq(TokenIds), NEW id, NEW due \in BOOLEAN
  PROVE  Cardinality({i \in DOMAIN q : q[i] = id}) = (IF due THEN 1 ELSE 0) <=> ListsIt(q, id, due)
BY OnceCount DEF ListsIt

LEMMA OwnersMean ==
  ASSUME ListsTyped, TokensTyped
  PROVE  OwnersListed <=>
           \A id \in DOMAIN tokens :
             tokens[id].serial \in relisted \/ \A u \in Users : ListsIt(OwnedBy(u), id, Due(id, u))
<1>1. ASSUME NEW id \in DOMAIN tokens, NEW u \in Users
      PROVE  Cardinality({i \in DOMAIN OwnedBy(u) : OwnedBy(u)[i] = id})
               = (IF tokens[id].owner = u /\ ~tokens[id].redeemed THEN 1 ELSE 0)
               <=> ListsIt(OwnedBy(u), id, Due(id, u))
  <2>1. Due(id, u) \in BOOLEAN /\ Due(id, u) = (tokens[id].owner = u /\ ~tokens[id].redeemed)
    BY DEF Due
  <2>2. OwnedBy(u) \in Seq(TokenIds)
    BY OwnedTyped
  <2> QED
    BY <2>1, <2>2, CountListsIt
<1> QED
  BY <1>1 DEF OwnersListed

LEMMA OwnersMeanPrime ==
  ASSUME ListsTyped', TokensTyped'
  PROVE  OwnersListed' <=>
           \A id \in DOMAIN tokens' :
             tokens'[id].serial \in relisted' \/ \A u \in Users : ListsIt(OwnedBy(u)', id, Due(id, u)')
<1>1. ASSUME NEW id \in DOMAIN tokens', NEW u \in Users
      PROVE  Cardinality({i \in DOMAIN OwnedBy(u)' : OwnedBy(u)'[i] = id})
               = (IF tokens'[id].owner = u /\ ~tokens'[id].redeemed THEN 1 ELSE 0)
               <=> ListsIt(OwnedBy(u)', id, Due(id, u)')
  <2>1. Due(id, u)' \in BOOLEAN /\ Due(id, u)' = (tokens'[id].owner = u /\ ~tokens'[id].redeemed)
    BY DEF Due
  <2>2. OwnedBy(u)' \in Seq(TokenIds)
    BY OwnedTypedPrime
  <2> QED
    BY <2>1, <2>2, CountListsIt
<1> QED
  BY <1>1 DEF OwnersListed

\* Nothing is put on a shelf or made available.
FewerForSale ==
  \A l \in DOMAIN shelves' : \A item \in ToSet(shelves'[l]) :
    /\ l \in DOMAIN shelves
    /\ \E old \in Shelved(l) : old.serial = item.serial /\ (item.available => old.available)

LEMMA FewerShelvedOnce ==
  ASSUME ShelvedOnce, FewerForSale
  PROVE  ShelvedOnce'
BY DEF ShelvedOnce, FewerForSale, Shelved

LEMMA FewerBacksOneToken ==
  ASSUME CoinBacksOneToken, FewerForSale, UNCHANGED <<tokens, relisted>>
  PROVE  CoinBacksOneToken'
<1> SUFFICES ASSUME NEW id \in DOMAIN tokens, tokens[id].serial \notin relisted
             PROVE  /\ \A other \in DOMAIN tokens \ {id} : tokens[other].serial # tokens[id].serial
                    /\ \A l \in DOMAIN shelves' : \A item \in ToSet(shelves'[l]) :
                         item.serial = tokens[id].serial => ~item.available
  BY DEF CoinBacksOneToken, Shelved
<1>1. /\ \A other \in DOMAIN tokens \ {id} : tokens[other].serial # tokens[id].serial
      /\ \A l \in DOMAIN shelves : \A item \in Shelved(l) :
           item.serial = tokens[id].serial => ~item.available
  BY DEF CoinBacksOneToken
<1>2. ASSUME NEW l \in DOMAIN shelves', NEW item \in ToSet(shelves'[l]), item.serial = tokens[id].serial
      PROVE  ~item.available
  BY <1>1, <1>2 DEF FewerForSale
<1> QED
  BY <1>1, <1>2

\* What the steps that leave tokens, lists and conversions alone keep.
LEMMA TokensAlone ==
  ASSUME GoldInv, UNCHANGED <<tokens, ownerTokens, relisted>>
  PROVE  TokensTyped' /\ ListsTyped' /\ TokensNamed' /\ ListsNameTokens' /\ OwnersListed'
BY DEF GoldInv, TokensTyped, ListsTyped, TokensNamed, ListsNameTokens, OwnersListed, OwnedBy

LEMMA ConversionsAlone ==
  ASSUME GoldInv, UNCHANGED <<tokens, conversions>>
  PROVE  ConversionsTyped' /\ CompletedHasToken'
BY DEF GoldInv, ConversionsTyped, CompletedHasToken

LEMMA StockAlone ==
  ASSUME GoldInv, UNCHANGED <<locsIndex, shelves, tokens, relisted>>
  PROVE  LocationsTyped' /\ ShelvesTyped' /\ ShelvedOnce' /\ CoinBacksOneToken'
BY DEF GoldInv, LocationsTyped, ShelvesTyped, ShelvedOnce, CoinBacksOneToken, Shelved

LEMMA AddLocationStep ==
  ASSUME GoldInv, NEW l \in Locations, AddLocation(l)
  PROVE  GoldInv'
<1>1. UNCHANGED <<tokens, ownerTokens, conversions, goldTime, relisted>>
  BY DEF AddLocation
<1>2. TokensTyped' /\ ListsTyped' /\ TokensNamed' /\ ListsNameTokens' /\ OwnersListed'
  BY <1>1, TokensAlone
<1>3. ConversionsTyped' /\ CompletedHasToken'
  BY <1>1, ConversionsAlone
<1>4. GoldClockTyped'
  BY <1>1 DEF GoldInv, GoldClockTyped
<1>5. LocationsTyped'
  <2>1. locsIndex \in Seq(Locations) /\ IsInjective(locsIndex)
    BY DEF GoldInv, LocationsTyped
  <2>2. locsIndex' = locsIndex \/ (~Contains(locsIndex, l) /\ locsIndex' = Append(locsIndex, l))
    BY DEF AddLocation
  <2>3. ~Contains(locsIndex, l) => l \notin ToSet(locsIndex)
    BY <2>1 DEF Contains, ToSet
  <2>4. CASE locsIndex' = locsIndex
    BY <2>1, <2>4 DEF LocationsTyped
  <2>5. CASE l \notin ToSet(locsIndex) /\ locsIndex' = Append(locsIndex, l)
    <3>1. locsIndex' \in Seq(Locations) /\ IsInjective(locsIndex')
      BY <2>1, <2>5, AppendElements
    <3> QED
      BY <3>1 DEF LocationsTyped
  <2> QED
    BY <2>2, <2>3, <2>4, <2>5
<1>6. shelves' = shelves \/ shelves' = Put(shelves, l, <<>>)
  BY DEF AddLocation
<1>7. ShelvesTyped'
  <2>1. shelves \in [DOMAIN shelves -> Seq(Item)] /\ DOMAIN shelves \subseteq Locations
    BY DEF GoldInv, ShelvesTyped, IsMap
  <2>2. <<>> \in Seq(Item)
    OBVIOUS
  <2>3. CASE shelves' = shelves
    BY <2>1, <2>3 DEF ShelvesTyped, IsMap
  <2>4. CASE shelves' = Put(shelves, l, <<>>)
    <3> DEFINE empty == <<>>
    <3>1. empty \in Seq(Item) /\ shelves' = Put(shelves, l, empty)
      BY <2>2, <2>4
    <3> HIDE DEF empty
    <3> QED
      BY <2>1, <3>1 DEF ShelvesTyped, IsMap, Put
  <2> QED
    BY <1>6, <2>3, <2>4
<1>8. FewerForSale
  <2>1. ToSet(<<>>) = {}
    BY DEF ToSet
  <2>2. CASE shelves' = shelves
    BY <2>2 DEF FewerForSale, Shelved
  <2>3. CASE shelves' = Put(shelves, l, <<>>)
    <3>1. /\ DOMAIN shelves' = DOMAIN shelves \cup {l} /\ shelves'[l] = <<>>
          /\ \A m \in DOMAIN shelves \ {l} : shelves'[m] = shelves[m]
      BY <2>3 DEF Put
    <3>2. ASSUME NEW m \in DOMAIN shelves', NEW item \in ToSet(shelves'[m])
          PROVE  m \in DOMAIN shelves /\ item \in Shelved(m)
      BY <2>1, <3>1 DEF Shelved
    <3> QED
      BY <3>2 DEF FewerForSale
  <2> QED
    BY <1>6, <2>2, <2>3
<1>9. ShelvedOnce' /\ CoinBacksOneToken'
  BY <1>1, <1>8, FewerShelvedOnce, FewerBacksOneToken DEF GoldInv
<1> QED
  BY <1>2, <1>3, <1>4, <1>5, <1>7, <1>9 DEF GoldInv

\* A coin that is put on a shelf is on no other, and relisted if a token has it.
LEMMA AddGoldCoinStep ==
  ASSUME GoldInv, NEW l \in Locations, NEW c \in Coins, AddGoldCoin(l, c)
  PROVE  GoldInv'
<1>0. UNCHANGED <<locsIndex, tokens, ownerTokens, conversions, goldTime>> /\ l \in DOMAIN shelves /\ ~OnAShelf(c)
  BY DEF AddGoldCoin
<1> DEFINE new == [serial |-> c, available |-> TRUE]
<1>1. PICK stored \in GoldWrites :
        /\ shelves' = IF stored THEN [shelves EXCEPT ![l] = Append(@, new)] ELSE shelves
        /\ relisted' = IF stored /\ \E id \in DOMAIN tokens : tokens[id].serial = c
                         THEN relisted \cup {c} ELSE relisted
  BY DEF AddGoldCoin
<1>2. CASE ~stored
  <2>1. UNCHANGED <<shelves, relisted>>
    BY <1>1, <1>2
  <2>2. GoldClockTyped'
    BY <1>0, <2>1 DEF GoldInv, GoldClockTyped
  <2> QED
    BY <1>0, <2>1, <2>2, TokensAlone, ConversionsAlone, StockAlone DEF GoldInv
<1>3. CASE stored
  <2>1. new \in Item /\ new.serial = c
    BY DEF Item
  <2>2. shelves \in [DOMAIN shelves -> Seq(Item)] /\ DOMAIN shelves \subseteq Locations
    BY DEF GoldInv, ShelvesTyped, IsMap
  <2> HIDE DEF new
  <2>3. /\ shelves' \in [DOMAIN shelves -> Seq(Item)] /\ DOMAIN shelves' = DOMAIN shelves
        /\ shelves'[l] = Append(shelves[l], new)
        /\ \A m \in DOMAIN shelves \ {l} : shelves'[m] = shelves[m]
    BY <1>0, <1>1, <1>3, <2>1, <2>2
  <2>4. ShelvesTyped'
    BY <2>2, <2>3 DEF ShelvesTyped, IsMap
  <2>5. ToSet(shelves'[l]) = ToSet(shelves[l]) \cup {new}
    BY <1>0, <2>1, <2>2, <2>3, AppendElements
  <2>6. \A m \in DOMAIN shelves : \A item \in ToSet(shelves'[m]) : item \in Shelved(m) \/ (m = l /\ item = new)
    BY <2>3, <2>5 DEF Shelved
  <2>7. \A m \in DOMAIN shelves : \A item \in Shelved(m) : item.serial # c
    BY <1>0 DEF OnAShelf
  <2>8. ShelvedOnce'
    <3> SUFFICES ASSUME NEW k \in DOMAIN shelves, NEW m \in DOMAIN shelves,
                        NEW item \in ToSet(shelves'[k]), NEW other \in ToSet(shelves'[m]),
                        item.serial = other.serial
                 PROVE  k = m
      BY <2>3 DEF ShelvedOnce, Shelved
    <3>1. ShelvedOnce
      BY DEF GoldInv
    <3> QED
      BY <2>1, <2>6, <2>7, <3>1 DEF ShelvedOnce
  <2>9. CoinBacksOneToken'
    <3> SUFFICES ASSUME NEW id \in DOMAIN tokens, tokens[id].serial \notin relisted'
                 PROVE  /\ \A other \in DOMAIN tokens \ {id} : tokens[other].serial # tokens[id].serial
                        /\ \A m \in DOMAIN shelves : \A item \in ToSet(shelves'[m]) :
                             item.serial = tokens[id].serial => ~item.available
      BY <1>0, <2>3 DEF CoinBacksOneToken, Shelved
    <3>1. tokens[id].serial \notin relisted /\ tokens[id].serial # c
      BY <1>1, <1>3
    <3>2. CoinBacksOneToken
      BY DEF GoldInv
    <3> QED
      BY <2>1, <2>6, <3>1, <3>2 DEF CoinBacksOneToken
  <2>10. relisted \subseteq relisted' /\ relisted' \subseteq Coins
    BY <1>1 DEF GoldInv, GoldClockTyped
  <2>11. LocationsTyped' /\ TokensTyped' /\ ListsTyped' /\ TokensNamed' /\ ListsNameTokens'
    BY <1>0 DEF GoldInv, LocationsTyped, TokensTyped, ListsTyped, TokensNamed, ListsNameTokens
  <2>12. OwnersListed'
    <3>1. \A u \in Users : OwnedBy(u)' = OwnedBy(u)
      BY <1>0 DEF OwnedBy
    <3>2. OwnersListed
      BY DEF GoldInv
    <3> QED
      BY <1>0, <2>10, <3>1, <3>2 DEF OwnersListed
  <2>13. GoldClockTyped'
    BY <1>0, <2>10 DEF GoldInv, GoldClockTyped
  <2>14. ConversionsTyped' /\ CompletedHasToken'
    BY <1>0, ConversionsAlone
  <2> QED
    BY <2>4, <2>8, <2>9, <2>11, <2>12, <2>13, <2>14 DEF GoldInv
<1> QED
  BY <1>2, <1>3

\* Marking a coin as dispensed.
LEMMA DispensedShelves ==
  ASSUME ShelvesTyped, NEW l \in DOMAIN shelves, NEW c, shelves' = Dispensed(l, c)
  PROVE  /\ ShelvesTyped' /\ FewerForSale
         /\ \A item \in ToSet(shelves'[l]) : item.serial = c => ~item.available
<1> DEFINE old == shelves[l]
           q == [i \in DOMAIN old |-> IF old[i].serial = c THEN [old[i] EXCEPT !.available = FALSE] ELSE old[i]]
<1>1. shelves \in [DOMAIN shelves -> Seq(Item)] /\ DOMAIN shelves \subseteq Locations /\ old \in Seq(Item)
  BY DEF ShelvesTyped, IsMap
<1>2. shelves' = [shelves EXCEPT ![l] = q]
  BY DEF Dispensed
<1>3. DOMAIN old = 1 .. Len(old) /\ Len(old) \in Nat /\ \A i \in 1 .. Len(old) : old[i] \in Item
  BY <1>1
<1> HIDE DEF old
<1>4. \A i \in 1 .. Len(old) :
        /\ [old[i] EXCEPT !.available = FALSE] \in Item
        /\ [old[i] EXCEPT !.available = FALSE].serial = old[i].serial
        /\ ~[old[i] EXCEPT !.available = FALSE].available
  BY <1>3 DEF Item
<1>5. /\ DOMAIN q = 1 .. Len(old)
      /\ \A i \in 1 .. Len(old) :
           /\ q[i] \in Item /\ q[i].serial = old[i].serial
           /\ q[i].available => old[i].available
           /\ q[i].serial = c => ~q[i].available
  BY <1>3, <1>4
<1>6. q \in [1 .. Len(old) -> Item]
  BY <1>3, <1>4
<1> HIDE DEF q
<1>7. q \in Seq(Item)
  BY <1>3, <1>6
<1>8. /\ shelves' \in [DOMAIN shelves -> Seq(Item)] /\ DOMAIN shelves' = DOMAIN shelves
      /\ shelves'[l] = q /\ \A m \in DOMAIN shelves \ {l} : shelves'[m] = shelves[m]
  BY <1>1, <1>2, <1>7
<1>9. ShelvesTyped'
  BY <1>1, <1>8 DEF ShelvesTyped, IsMap
<1>10. ASSUME NEW item \in ToSet(q)
       PROVE  /\ item.serial = c => ~item.available
              /\ \E o \in ToSet(old) : o.serial = item.serial /\ (item.available => o.available)
  <2>1. PICK i \in 1 .. Len(old) : item = q[i]
    BY <1>5 DEF ToSet
  <2>2. old[i] \in ToSet(old)
    BY <1>3 DEF ToSet
  <2> QED
    BY <1>5, <2>1, <2>2
<1>11. FewerForSale
  <2>1. ASSUME NEW m \in DOMAIN shelves', NEW item \in ToSet(shelves'[m])
        PROVE  /\ m \in DOMAIN shelves
               /\ \E o \in Shelved(m) : o.serial = item.serial /\ (item.available => o.available)
    <3>1. m \in DOMAIN shelves
      BY <1>8
    <3>2. CASE m = l
      BY <1>8, <1>10, <3>1, <3>2 DEF Shelved, old
    <3>3. CASE m # l
      <4>1. item \in Shelved(m)
        BY <1>8, <3>1, <3>3 DEF Shelved
      <4> QED
        BY <3>1, <4>1
    <3> QED
      BY <3>2, <3>3
  <2> QED
    BY <2>1 DEF FewerForSale
<1> QED
  BY <1>8, <1>9, <1>10, <1>11

LEMMA MarkAsDispensedStep ==
  ASSUME GoldInv, NEW l \in Locations, NEW c \in Coins, MarkAsDispensed(l, c)
  PROVE  GoldInv'
<1>1. /\ UNCHANGED <<locsIndex, tokens, ownerTokens, conversions, goldTime, relisted>>
      /\ l \in DOMAIN shelves /\ shelves' = Dispensed(l, c)
  BY DEF MarkAsDispensed
<1>2. ShelvesTyped' /\ FewerForSale
  BY <1>1, DispensedShelves DEF GoldInv
<1>3. ShelvedOnce' /\ CoinBacksOneToken'
  BY <1>1, <1>2, FewerShelvedOnce, FewerBacksOneToken DEF GoldInv
<1>4. LocationsTyped' /\ GoldClockTyped'
  BY <1>1 DEF GoldInv, LocationsTyped, GoldClockTyped
<1> QED
  BY <1>1, <1>2, <1>3, <1>4, TokensAlone, ConversionsAlone DEF GoldInv

LEMMA RedeemTokenStep ==
  ASSUME GoldInv, NEW id \in DOMAIN tokens, RedeemToken(id)
  PROVE  GoldInv'
<1>u. PICK u \in Users : u = tokens[id].owner
  BY DEF GoldInv, TokensTyped, IsMap, Token
<1>0. /\ UNCHANGED <<locsIndex, shelves, relisted, conversions, goldTime>>
      /\ tokens' = [tokens EXCEPT ![id].redeemed = TRUE]
      /\ ownerTokens' = IF Contains(OwnedBy(u), id)
                          THEN [ownerTokens EXCEPT ![u] = RemoveFirst(@, id)] ELSE ownerTokens
  BY <1>u DEF RedeemToken, stockVars
<1>1. tokens \in [DOMAIN tokens -> Token] /\ DOMAIN tokens \subseteq TokenIds
  BY DEF GoldInv, TokensTyped, IsMap
<1>2. tokens[id] \in Token /\ tokens' = [tokens EXCEPT ![id] = [tokens[id] EXCEPT !.redeemed = TRUE]]
  BY <1>0, <1>1
<1>3. /\ [tokens[id] EXCEPT !.redeemed = TRUE] \in Token
      /\ [tokens[id] EXCEPT !.redeemed = TRUE].owner = tokens[id].owner
      /\ [tokens[id] EXCEPT !.redeemed = TRUE].serial = tokens[id].serial
      /\ [tokens[id] EXCEPT !.redeemed = TRUE].redeemed
  BY <1>2 DEF Token
<1>4. /\ tokens' \in [DOMAIN tokens -> Token] /\ DOMAIN tokens' = DOMAIN tokens
      /\ \A t \in DOMAIN tokens : tokens'[t].owner = tokens[t].owner /\ tokens'[t].serial = tokens[t].serial
      /\ \A t \in DOMAIN tokens \ {id} : tokens'[t] = tokens[t]
      /\ tokens'[id].redeemed
  BY <1>1, <1>2, <1>3
<1>5. TokensTyped' /\ TokensNamed'
  BY <1>1, <1>4 DEF GoldInv, TokensTyped, IsMap, TokensNamed
<1>6. CoinBacksOneToken'
  BY <1>0, <1>4 DEF GoldInv, CoinBacksOneToken, Shelved
<1>7. CompletedHasToken' /\ ConversionsTyped'
  BY <1>0, <1>4 DEF GoldInv, CompletedHasToken, ConversionsTyped
<1>8. LocationsTyped' /\ ShelvesTyped' /\ ShelvedOnce' /\ GoldClockTyped'
  BY <1>0 DEF GoldInv, LocationsTyped, ShelvesTyped, ShelvedOnce, Shelved, GoldClockTyped
<1>9. ownerTokens \in [DOMAIN ownerTokens -> Seq(TokenIds)] /\ DOMAIN ownerTokens \subseteq Users
  BY DEF GoldInv, ListsTyped, IsMap
<1>10. CASE ~Contains(OwnedBy(u), id)
  <2>1. ownerTokens' = ownerTokens
    BY <1>0, <1>10
  <2>2. ListsTyped' /\ ListsNameTokens'
    BY <1>4, <2>1 DEF GoldInv, ListsTyped, ListsNameTokens
  <2>3. OwnersListed'
    <3>1. ASSUME NEW t \in DOMAIN tokens, tokens[t].serial \notin relisted, NEW v \in Users
          PROVE  ListsIt(OwnedBy(v)', t, Due(t, v)')
      <4>1. OwnedBy(v)' = OwnedBy(v) /\ OwnedBy(v) \in Seq(TokenIds)
        BY <2>1, OwnedTyped DEF OwnedBy, GoldInv
      <4>2. ListsIt(OwnedBy(v), t, Due(t, v))
        BY <3>1, OwnersMean DEF GoldInv
      <4>3. CASE t # id
        BY <1>4, <4>1, <4>2, <4>3 DEF Due
      <4>4. CASE t = id
        <5>1. ~Due(id, v)'
          BY <1>4 DEF Due
        <5>2. v = u => id \notin ToSet(OwnedBy(v))
          BY <1>10, <4>1 DEF Contains, ToSet
        <5>3. v # u => ~Due(id, v)
          BY <1>u DEF Due
        <5> QED
          BY <4>1, <4>2, <4>4, <5>1, <5>2, <5>3 DEF ListsIt
      <4> QED
        BY <4>3, <4>4
    <3> QED
      BY <1>0, <1>4, <1>5, <2>2, <3>1, OwnersMeanPrime
  <2> QED
    BY <1>5, <1>6, <1>7, <1>8, <2>2, <2>3 DEF GoldInv
<1>11. CASE Contains(OwnedBy(u), id)
  <2> DEFINE q == OwnedBy(u)
             r == RemoveFirst(q, id)
  <2>1. u \in DOMAIN ownerTokens /\ q = ownerTokens[u] /\ q \in Seq(TokenIds)
    <3>1. u \in DOMAIN ownerTokens
      BY <1>11 DEF OwnedBy, Contains
    <3> QED
      BY <1>9, <3>1 DEF OwnedBy
  <2>2. ownerTokens' = [ownerTokens EXCEPT ![u] = r]
    BY <1>0, <1>11, <2>1
  <2> HIDE DEF q
  <2>3. r \in Seq(TokenIds) /\ ToSet(r) \subseteq ToSet(q)
    BY <2>1, RemoveFirstElements
  <2>4. /\ Once(q, id) => id \notin ToSet(r)
        /\ \A x \in TokenIds \ {id} : Once(q, x) => Once(r, x)
    BY <1>11, <2>1, RemoveFirstOnce DEF q
  <2> HIDE DEF r
  <2>5. /\ ownerTokens' \in [DOMAIN ownerTokens -> Seq(TokenIds)] /\ DOMAIN ownerTokens' = DOMAIN ownerTokens
        /\ ownerTokens'[u] = r /\ \A v \in DOMAIN ownerTokens \ {u} : ownerTokens'[v] = ownerTokens[v]
    BY <1>9, <2>1, <2>2, <2>3
  <2>6. ListsTyped'
    BY <1>9, <2>5 DEF ListsTyped, IsMap
  <2>7. ListsNameTokens'
    BY <1>4, <2>1, <2>3, <2>5 DEF GoldInv, ListsNameTokens
  <2>8. OwnedBy(u)' = r /\ \A v \in Users \ {u} : OwnedBy(v)' = OwnedBy(v)
    BY <2>1, <2>5 DEF OwnedBy
  <2>9. ASSUME NEW t \in DOMAIN tokens, tokens[t].serial \notin relisted, NEW v \in Users
        PROVE  ListsIt(OwnedBy(v)', t, Due(t, v)')
    <3>1. ListsIt(OwnedBy(v), t, Due(t, v))
      BY <2>9, OwnersMean DEF GoldInv
    <3>2. CASE t # id
      <4>1. Due(t, v)' = Due(t, v) /\ t \in TokenIds \ {id}
        BY <1>1, <1>4, <3>2 DEF Due
      <4>2. CASE v = u
        BY <2>3, <2>4, <2>8, <3>1, <4>1, <4>2 DEF ListsIt, q
      <4>3. CASE v # u
        BY <2>8, <3>1, <4>1, <4>3
      <4> QED
        BY <4>2, <4>3
    <3>3. CASE t = id
      <4>1. ~Due(id, v)'
        BY <1>4 DEF Due
      <4>2. CASE v = u
        <5>1. id \in ToSet(q)
          BY <1>11, <2>1 DEF Contains, ToSet, q
        <5>2. Once(q, id)
          BY <3>1, <3>3, <4>2, <5>1 DEF ListsIt, q
        <5> QED
          BY <2>4, <2>8, <3>3, <4>1, <4>2, <5>2 DEF ListsIt
      <4>3. CASE v # u
        <5>1. ~Due(id, v)
          BY <1>u, <4>3 DEF Due
        <5> QED
          BY <2>8, <3>1, <3>3, <4>1, <4>3, <5>1 DEF ListsIt
      <4> QED
        BY <4>2, <4>3
    <3> QED
      BY <3>2, <3>3
  <2>10. OwnersListed'
    BY <1>0, <1>4, <1>5, <2>6, <2>9, OwnersMeanPrime
  <2> QED
    BY <1>5, <1>6, <1>7, <1>8, <2>6, <2>7, <2>10 DEF GoldInv
<1> QED
  BY <1>10, <1>11

\* A conversion that takes a new value, with the token it should have.
LEMMA ConversionMoved ==
  ASSUME GoldInv, UNCHANGED tokens, NEW id \in ConversionIds, NEW c \in ConversionData,
         conversions' = Put(conversions, id, c), c.status # "COMPLETED", c.token = <<>>
  PROVE  ConversionsTyped' /\ CompletedHasToken'
<1>1. conversions \in [DOMAIN conversions -> ConversionData] /\ DOMAIN conversions \subseteq ConversionIds
  BY DEF GoldInv, ConversionsTyped, IsMap
<1>2. /\ DOMAIN conversions' = DOMAIN conversions \cup {id} /\ conversions'[id] = c
      /\ \A k \in DOMAIN conversions \ {id} : conversions'[k] = conversions[k]
      /\ conversions' \in [DOMAIN conversions \cup {id} -> ConversionData]
  BY <1>1 DEF Put
<1>3. ConversionsTyped'
  BY <1>1, <1>2 DEF ConversionsTyped, IsMap
<1>4. CompletedHasToken'
  BY <1>2 DEF GoldInv, CompletedHasToken
<1> QED
  BY <1>3, <1>4

LEMMA ConversionFields ==
  ASSUME NEW c \in ConversionData
  PROVE  /\ c.burn \in BOOLEAN /\ c.paidBy \in BtcTxs \cup {"none"} /\ c.weight \in Nat
         /\ c.token \in TokenIds \cup {<<>>} /\ c.coin \in Coins \cup {"none"}
BY DEF ConversionData

LEMMA PaidTyped ==
  ASSUME NEW c \in ConversionData, NEW tx \in BtcTxs
  PROVE  /\ Paid(c, tx) \in ConversionData /\ Paid(c, tx).token = c.token
         /\ Paid(c, tx).status = "PAYMENT_CONFIRMED"
BY ConversionFields DEF Paid, ConversionData

LEMMA ReachedTyped ==
  ASSUME NEW c \in ConversionData, NEW weight \in Nat, NEW coin \in Coins \cup {"none"},
         NEW token \in TokenIds \cup {<<>>}, NEW status \in {"FAILED", "GOLD_RESERVED", "COMPLETED"}
  PROVE  /\ Reached(c, status, weight, coin, token) \in ConversionData
         /\ Reached(c, status, weight, coin, token).token = token
         /\ Reached(c, status, weight, coin, token).coin = coin
         /\ Reached(c, status, weight, coin, token).status = status
BY ConversionFields DEF Reached, ConversionData

LEMMA GoldWeightNat ==
  ASSUME NEW amount \in Nat
  PROVE  GoldWeight(amount) \in Nat
<1>1. ASSUME NEW a \in Nat, NEW b \in Nat, b # 0 PROVE a \div b \in Nat
  BY <1>1
<1>2. amount * BtcPrice \in Nat
  BY GoldConstants
<1>3. (amount * BtcPrice) * 995 \in Nat
  BY <1>2
<1>4. 1000 * GoldPrice \in Nat /\ 1000 * GoldPrice # 0
  BY GoldConstants
<1> QED
  BY <1>1, <1>3, <1>4 DEF GoldWeight

\* The steps that only write a conversion.
LEMMA OnlyConversions ==
  ASSUME GoldInv, UNCHANGED <<locsIndex, shelves, relisted, tokens, ownerTokens>>,
         GoldClockTyped', ConversionsTyped', CompletedHasToken'
  PROVE  GoldInv'
<1>1. TokensTyped' /\ ListsTyped' /\ TokensNamed' /\ ListsNameTokens' /\ OwnersListed'
  BY TokensAlone
<1>2. LocationsTyped' /\ ShelvesTyped' /\ ShelvedOnce' /\ CoinBacksOneToken'
  BY StockAlone
<1> QED
  BY <1>1, <1>2 DEF GoldInv

LEMMA InitiateConversionStep ==
  ASSUME GoldInv, NEW u \in Users, NEW amount \in Amounts, NEW burn \in BurnOptions,
         InitiateConversion(u, amount, burn)
  PROVE  GoldInv'
<1>0. UNCHANGED <<locsIndex, shelves, relisted, tokens, ownerTokens, goldTime>>
  BY DEF InitiateConversion, stockVars
<1>1. PICK id \in ConversionIds : id = <<u, amount, goldTime>>
  BY DEF GoldInv, GoldClockTyped, ConversionIds
<1> DEFINE c == [burn |-> burn, paidBy |-> "none", weight |-> 0, token |-> <<>>, coin |-> "none",
                 status |-> "PENDING_PAYMENT"]
<1>2. c \in ConversionData /\ c.status # "COMPLETED" /\ c.token = <<>>
  BY GoldConstants DEF ConversionData
<1>3. conversions' = Put(conversions, id, c)
  BY <1>1 DEF InitiateConversion
<1>4. GoldClockTyped'
  BY <1>0 DEF GoldInv, GoldClockTyped
<1> HIDE DEF c
<1>5. ConversionsTyped' /\ CompletedHasToken'
  BY <1>0, <1>2, <1>3, ConversionMoved
<1> QED
  BY <1>0, <1>4, <1>5, OnlyConversions

LEMMA ConversionAt ==
  ASSUME GoldInv, NEW id \in DOMAIN conversions
  PROVE  /\ id \in ConversionIds /\ conversions[id] \in ConversionData
         /\ conversions \in [DOMAIN conversions -> ConversionData]
         /\ id[1] \in Users /\ id[2] \in Nat
         /\ conversions[id].status # "COMPLETED" => conversions[id].token = <<>>
<1>1. /\ id \in ConversionIds /\ conversions[id] \in ConversionData
      /\ conversions \in [DOMAIN conversions -> ConversionData]
  BY DEF GoldInv, ConversionsTyped, IsMap
<1>2. id[1] \in Users /\ id[2] \in Nat
  BY <1>1, GoldConstants DEF ConversionIds
<1>3. conversions[id].status # "COMPLETED" => conversions[id].token = <<>>
  BY DEF GoldInv, CompletedHasToken
<1> QED
  BY <1>1, <1>2, <1>3

LEMMA ConfirmPaymentStep ==
  ASSUME GoldInv, NEW id \in DOMAIN conversions, NEW tx \in BtcTxs, ConfirmPayment(id, tx)
  PROVE  GoldInv'
<1>0. /\ UNCHANGED <<locsIndex, shelves, relisted, tokens, ownerTokens, goldTime>>
      /\ conversions[id].status = "PENDING_PAYMENT"
      /\ conversions' = [conversions EXCEPT ![id] = Paid(conversions[id], tx)]
  BY DEF ConfirmPayment, stockVars
<1>1. /\ id \in ConversionIds /\ conversions[id] \in ConversionData
      /\ conversions \in [DOMAIN conversions -> ConversionData] /\ conversions[id].token = <<>>
  BY <1>0, ConversionAt
<1> DEFINE c == Paid(conversions[id], tx)
<1>2. c \in ConversionData /\ c.status # "COMPLETED" /\ c.token = <<>>
  BY <1>1, PaidTyped
<1>3. conversions' = [conversions EXCEPT ![id] = c]
  BY <1>0
<1>4. GoldClockTyped'
  BY <1>0 DEF GoldInv, GoldClockTyped
<1> HIDE DEF c
<1>5. conversions' = Put(conversions, id, c)
  BY <1>1, <1>3 DEF Put
<1>6. ConversionsTyped' /\ CompletedHasToken'
  BY <1>0, <1>1, <1>2, <1>5, ConversionMoved
<1> QED
  BY <1>0, <1>4, <1>6, OnlyConversions

LEMMA ConversionFailsStep ==
  ASSUME GoldInv, NEW id \in DOMAIN conversions, NEW weight, ConversionFails(id, weight)
  PROVE  GoldInv'
<1> DEFINE old == conversions[id]
           c == Reached(old, "FAILED", GoldWeight(id[2]), old.coin, old.token)
<1>0. /\ UNCHANGED <<locsIndex, shelves, relisted, tokens, ownerTokens, goldTime>>
      /\ old.status = "PAYMENT_CONFIRMED"
      /\ conversions' = [conversions EXCEPT ![id] = c]
  BY DEF ConversionFails, stockVars
<1>1. /\ id \in ConversionIds /\ old \in ConversionData /\ id[2] \in Nat
      /\ conversions \in [DOMAIN conversions -> ConversionData] /\ old.token = <<>>
  BY <1>0, ConversionAt
<1>2. GoldWeight(id[2]) \in Nat /\ old.coin \in Coins \cup {"none"} /\ old.token \in TokenIds \cup {<<>>}
  BY <1>1, GoldWeightNat, ConversionFields
<1>3. c \in ConversionData /\ c.status = "FAILED" /\ c.token = <<>>
  <2> DEFINE w == GoldWeight(id[2])
             coin == old.coin
             token == old.token
  <2> HIDE DEF w, coin, token, old
  <2>1. w \in Nat /\ coin \in Coins \cup {"none"} /\ token \in TokenIds \cup {<<>>} /\ old \in ConversionData
    BY <1>1, <1>2 DEF w, coin, token
  <2>2. /\ Reached(old, "FAILED", w, coin, token) \in ConversionData
        /\ Reached(old, "FAILED", w, coin, token).status = "FAILED"
        /\ Reached(old, "FAILED", w, coin, token).token = token
    BY <2>1, ReachedTyped
  <2> QED
    BY <1>1, <2>2 DEF w, coin, token
<1>4. GoldClockTyped'
  BY <1>0 DEF GoldInv, GoldClockTyped
<1> HIDE DEF c
<1>5. conversions' = Put(conversions, id, c)
  BY <1>0, <1>1 DEF Put
<1>6. ConversionsTyped' /\ CompletedHasToken'
  BY <1>0, <1>1, <1>3, <1>5, ConversionMoved
<1> QED
  BY <1>0, <1>4, <1>6, OnlyConversions

LEMMA GoldTickStep ==
  ASSUME GoldInv, GoldTick
  PROVE  GoldInv'
<1>1. UNCHANGED <<locsIndex, shelves, relisted, tokens, ownerTokens, conversions>>
  BY DEF GoldTick, stockVars
<1>2. GoldClockTyped'
  BY <1>1, GoldConstants DEF GoldTick, GoldInv, GoldClockTyped
<1>3. ConversionsTyped' /\ CompletedHasToken'
  BY <1>1, ConversionsAlone
<1> QED
  BY <1>1, <1>2, <1>3, OnlyConversions

LEMMA GoldRestartStep ==
  ASSUME GoldInv, GoldRestart
  PROVE  GoldInv'
<1>1. UNCHANGED <<locsIndex, shelves, relisted, tokens, ownerTokens, goldTime>> /\ conversions' = EmptyMap
  BY DEF GoldRestart, stockVars
<1>2. GoldClockTyped'
  BY <1>1 DEF GoldInv, GoldClockTyped
<1>3. DOMAIN EmptyMap = {}
  BY DEF EmptyMap
<1>4. ConversionsTyped' /\ CompletedHasToken'
  BY <1>1, <1>3 DEF ConversionsTyped, CompletedHasToken, IsMap, EmptyMap
<1> QED
  BY <1>1, <1>2, <1>4, OnlyConversions

\* findAndReserve finds a coin that is for sale: the set has a first position.
LEMMA ReservedForSale ==
  ASSUME GoldInv, NEW weight, Stock(weight) # {}
  PROVE  ReserveGold(weight) \in Stock(weight)
<1> DEFINE At == Stock(weight)
           First(at) == \A other \in At : at[1] < other[1] \/ (at[1] = other[1] /\ at[2] <= other[2])
<1>1. \A at \in At : at[1] \in Nat /\ at[2] \in Nat /\ at = <<at[1], at[2]>>
  BY DEF Stock, GoldInv, LocationsTyped
<1>2. ReserveGold(weight) = CHOOSE at \in At : First(at)
  BY DEF ReserveGold
<1> HIDE DEF At
<1> DEFINE A == {at[1] : at \in At}
<1>3. A \in SUBSET Nat /\ A # {}
  BY <1>1 DEF At
<1>4. PICK a \in A : \A m \in A : a <= m
  <2> HIDE DEF A
  <2> QED
    BY <1>3, LeastNatural
<1> DEFINE B == {at[2] : at \in {x \in At : x[1] = a}}
<1>5. B \in SUBSET Nat /\ B # {}
  BY <1>1
<1>6. PICK b \in B : \A m \in B : b <= m
  <2> HIDE DEF B
  <2> QED
    BY <1>5, LeastNatural
<1>7. PICK at \in At : at[1] = a /\ at[2] = b
  OBVIOUS
<1>8. ASSUME NEW other \in At
      PROVE  at[1] < other[1] \/ (at[1] = other[1] /\ at[2] <= other[2])
  <2>1. other[1] \in A /\ (other[1] = a => other[2] \in B)
    OBVIOUS
  <2>2. a \in Nat /\ b \in Nat /\ other[1] \in Nat /\ other[2] \in Nat
    BY <1>1, <1>7
  <2> HIDE DEF A, B
  <2> QED
    BY <1>4, <1>6, <1>7, <2>1, <2>2
<1>9. \E x \in At : First(x)
  BY <1>7, <1>8
<1> HIDE DEF First
<1> QED
  BY <1>2, <1>9 DEF At

\* The token of a coin that is for sale and was not relisted is its first.
LEMMA IssueStep ==
  ASSUME GoldInv, NEW u \in Users, NEW c \in Coins, NEW l \in DOMAIN shelves,
         \E item \in Shelved(l) : item.serial = c /\ item.available,
         shelves' = Dispensed(l, c), IssueToken(u, c), UNCHANGED <<locsIndex, relisted, goldTime>>
  PROVE  /\ LocationsTyped' /\ ShelvesTyped' /\ TokensTyped' /\ ListsTyped' /\ GoldClockTyped'
         /\ ShelvedOnce' /\ TokensNamed' /\ ListsNameTokens'
         /\ CoinBacksOneToken' /\ OwnersListed'
         /\ <<u, c, goldTime>> \in DOMAIN tokens'
         /\ DOMAIN tokens \subseteq DOMAIN tokens'
         /\ \A t \in DOMAIN tokens : tokens'[t].owner = tokens[t].owner /\ tokens'[t].serial = tokens[t].serial
<1>1. PICK id \in TokenIds : id = <<u, c, goldTime>>
  BY DEF GoldInv, GoldClockTyped, TokenIds
<1> DEFINE token == [owner |-> u, serial |-> c, redeemed |-> FALSE]
<1>2. /\ tokens' = Put(tokens, id, token)
      /\ ownerTokens' = Put(ownerTokens, u, Append(OwnedBy(u), id))
  BY <1>1 DEF IssueToken
<1>3. token \in Token /\ token.owner = u /\ token.serial = c /\ ~token.redeemed
  BY DEF Token
<1> HIDE DEF token
<1>4. tokens \in [DOMAIN tokens -> Token] /\ DOMAIN tokens \subseteq TokenIds
  BY DEF GoldInv, TokensTyped, IsMap
<1>5. /\ tokens' \in [DOMAIN tokens \cup {id} -> Token] /\ DOMAIN tokens' = DOMAIN tokens \cup {id}
      /\ tokens'[id] = token /\ \A t \in DOMAIN tokens \ {id} : tokens'[t] = tokens[t]
  BY <1>2, <1>3, <1>4 DEF Put
<1>6. TokensTyped'
  BY <1>4, <1>5 DEF TokensTyped, IsMap
<1>7. id[1] = u /\ id[2] = c
  BY <1>1
<1>8. TokensNamed'
  BY <1>3, <1>5, <1>7 DEF GoldInv, TokensNamed
<1>9. \A t \in DOMAIN tokens : tokens'[t].owner = tokens[t].owner /\ tokens'[t].serial = tokens[t].serial
  BY <1>3, <1>5, <1>7 DEF GoldInv, TokensNamed
<1>10. /\ ShelvesTyped' /\ FewerForSale
       /\ \A item \in ToSet(shelves'[l]) : item.serial = c => ~item.available
  BY DispensedShelves DEF GoldInv
<1>11. ShelvedOnce'
  BY <1>10, FewerShelvedOnce DEF GoldInv
<1>12. LocationsTyped' /\ GoldClockTyped'
  BY DEF GoldInv, LocationsTyped, GoldClockTyped
<1>13. ASSUME NEW t \in DOMAIN tokens, tokens[t].serial = c
       PROVE  c \in relisted
  BY <1>13 DEF GoldInv, CoinBacksOneToken
<1>14. CoinBacksOneToken'
  <2> SUFFICES ASSUME NEW t \in DOMAIN tokens', tokens'[t].serial \notin relisted
               PROVE  /\ \A other \in DOMAIN tokens' \ {t} : tokens'[other].serial # tokens'[t].serial
                      /\ \A m \in DOMAIN shelves' : \A item \in ToSet(shelves'[m]) :
                           item.serial = tokens'[t].serial => ~item.available
    BY DEF CoinBacksOneToken, Shelved
  <2>1. CASE t \in DOMAIN tokens \ {id}
    <3>1. /\ \A other \in DOMAIN tokens \ {t} : tokens[other].serial # tokens[t].serial
          /\ \A m \in DOMAIN shelves : \A item \in Shelved(m) :
               item.serial = tokens[t].serial => ~item.available
      BY <1>9, <2>1 DEF GoldInv, CoinBacksOneToken
    <3>2. tokens'[t].serial = tokens[t].serial /\ tokens[t].serial # c
      BY <1>9, <1>13, <2>1
    <3>3. \A other \in DOMAIN tokens' \ {t} : tokens'[other].serial # tokens'[t].serial
      BY <1>3, <1>5, <3>1, <3>2
    <3>4. \A m \in DOMAIN shelves' : \A item \in ToSet(shelves'[m]) :
            item.serial = tokens'[t].serial => ~item.available
      BY <1>10, <3>1, <3>2 DEF FewerForSale
    <3> QED
      BY <3>3, <3>4
  <2>2. CASE t = id
    <3>1. tokens'[t].serial = c /\ c \notin relisted
      BY <1>3, <1>5, <2>2
    <3>2. \A other \in DOMAIN tokens' \ {t} : tokens'[other].serial # c
      BY <1>5, <1>13, <2>2, <3>1
    <3>3. ASSUME NEW m \in DOMAIN shelves', NEW item \in ToSet(shelves'[m]), item.serial = c
          PROVE  ~item.available
      <4>1. m \in DOMAIN shelves /\ \E old \in Shelved(m) : old.serial = c
        BY <1>10, <3>3 DEF FewerForSale
      <4>2. m = l
        BY <4>1 DEF GoldInv, ShelvedOnce
      <4> QED
        BY <1>10, <3>3, <4>2
    <3> QED
      BY <3>1, <3>2, <3>3
  <2> QED
    BY <1>5, <2>1, <2>2
<1> DEFINE q == OwnedBy(u)
           r == Append(q, id)
<1>15. q \in Seq(TokenIds)
  BY OwnedTyped DEF GoldInv
<1>16. r \in Seq(TokenIds) /\ ToSet(r) = ToSet(q) \cup {id}
  BY <1>15, AppendElements
<1>17. /\ id \notin ToSet(q) => Once(r, id)
       /\ \A x \in TokenIds \ {id} : Once(q, x) => Once(r, x)
  <2> HIDE DEF q
  <2> QED
    BY <1>15, AppendOnce
<1>18. ownerTokens \in [DOMAIN ownerTokens -> Seq(TokenIds)] /\ DOMAIN ownerTokens \subseteq Users
  BY DEF GoldInv, ListsTyped, IsMap
<1>19. ownerTokens' = Put(ownerTokens, u, r)
  BY <1>2
<1> HIDE DEF r
<1>20. /\ ownerTokens' \in [DOMAIN ownerTokens \cup {u} -> Seq(TokenIds)]
       /\ DOMAIN ownerTokens' = DOMAIN ownerTokens \cup {u}
       /\ ownerTokens'[u] = r /\ \A v \in DOMAIN ownerTokens \ {u} : ownerTokens'[v] = ownerTokens[v]
  BY <1>16, <1>18, <1>19 DEF Put
<1>21. ListsTyped'
  BY <1>18, <1>20 DEF ListsTyped, IsMap
<1>22. OwnedBy(u)' = r /\ \A v \in Users \ {u} : OwnedBy(v)' = OwnedBy(v)
  BY <1>20 DEF OwnedBy
<1>23. \A v \in Users : \A t \in ToSet(OwnedBy(v)) : t \in DOMAIN tokens
  <2>1. ToSet(<<>>) = {}
    BY DEF ToSet
  <2> QED
    BY <2>1 DEF GoldInv, ListsNameTokens, OwnedBy
<1>24. ListsNameTokens'
  BY <1>5, <1>16, <1>20, <1>23 DEF GoldInv, ListsNameTokens
<1>25. ASSUME NEW t \in DOMAIN tokens', tokens'[t].serial \notin relisted, NEW v \in Users
       PROVE  ListsIt(OwnedBy(v)', t, Due(t, v)')
  <2>1. CASE t \in DOMAIN tokens \ {id}
    <3>1. ListsIt(OwnedBy(v), t, Due(t, v))
      BY <1>5, <1>25, <2>1, OwnersMean DEF GoldInv
    <3>2. Due(t, v)' = Due(t, v) /\ t \in TokenIds \ {id}
      BY <1>4, <1>5, <2>1 DEF Due
    <3>3. CASE v = u
      BY <1>16, <1>17, <1>22, <3>1, <3>2, <3>3 DEF ListsIt
    <3>4. CASE v # u
      BY <1>22, <3>1, <3>2, <3>4
    <3> QED
      BY <3>3, <3>4
  <2>2. CASE t = id
    <3>1. id \notin DOMAIN tokens
      BY <1>3, <1>5, <1>7, <1>13, <1>25, <2>2 DEF GoldInv, TokensNamed
    <3>2. id \notin ToSet(OwnedBy(v)) /\ id \notin ToSet(q)
      BY <1>23, <3>1
    <3>3. Due(id, v)' = (u = v)
      BY <1>3, <1>5 DEF Due
    <3>4. CASE v = u
      BY <1>17, <1>22, <2>2, <3>2, <3>3, <3>4 DEF ListsIt
    <3>5. CASE v # u
      BY <1>22, <2>2, <3>2, <3>3, <3>5 DEF ListsIt
    <3> QED
      BY <3>4, <3>5
  <2> QED
    BY <1>5, <2>1, <2>2
<1>26. OwnersListed'
  BY <1>6, <1>21, <1>25, OwnersMeanPrime
<1> QED
  BY <1>1, <1>5, <1>6, <1>8, <1>9, <1>10, <1>11, <1>12, <1>14, <1>21, <1>24, <1>26

LEMMA ExecuteConversionStep ==
  ASSUME GoldInv, NEW id \in DOMAIN conversions, NEW weight, ExecuteConversion(id, weight)
  PROVE  GoldInv'
<1>0. /\ UNCHANGED <<locsIndex, goldTime, relisted>> /\ Stock(weight) # {}
      /\ conversions[id].status = "PAYMENT_CONFIRMED"
  BY DEF ExecuteConversion
<1>1. PICK at \in Stock(weight) : at = ReserveGold(weight)
  BY <1>0, ReservedForSale
<1>2. PICK l \in DOMAIN shelves : l = locsIndex[at[1]]
  BY DEF Stock
<1>3. at[2] \in DOMAIN shelves[l] /\ shelves[l][at[2]].available
  BY <1>2 DEF Stock
<1>4. shelves[l] \in Seq(Item)
  BY DEF GoldInv, ShelvesTyped, IsMap
<1>5. shelves[l][at[2]] \in Item /\ shelves[l][at[2]] \in Shelved(l)
  BY <1>3, <1>4 DEF Shelved, ToSet
<1>6. PICK c \in Coins : c = shelves[l][at[2]].serial
  BY <1>5 DEF Item
<1>7. \E item \in Shelved(l) : item.serial = c /\ item.available
  BY <1>3, <1>5, <1>6
<1> DEFINE old == conversions[id]
           w == GoldWeight(id[2])
<1>8. \/ /\ shelves' = Dispensed(l, c)
         /\ IssueToken(id[1], c)
         /\ conversions' = [conversions EXCEPT ![id] = Reached(old, "COMPLETED", w, c, <<id[1], c, goldTime>>)]
      \/ /\ conversions' = [conversions EXCEPT ![id] = Reached(old, "GOLD_RESERVED", w, c, <<>>)]
         /\ UNCHANGED <<shelves, tokens, ownerTokens>>
  BY <1>1, <1>2, <1>6 DEF ExecuteConversion
<1>9. /\ id \in ConversionIds /\ old \in ConversionData /\ id[1] \in Users /\ id[2] \in Nat
      /\ conversions \in [DOMAIN conversions -> ConversionData]
  BY ConversionAt
<1>10. w \in Nat
  BY <1>9, GoldWeightNat
<1>11. CASE /\ conversions' = [conversions EXCEPT ![id] = Reached(old, "GOLD_RESERVED", w, c, <<>>)]
            /\ UNCHANGED <<shelves, tokens, ownerTokens>>
  <2> DEFINE new == Reached(old, "GOLD_RESERVED", w, c, <<>>)
  <2>1. new \in ConversionData /\ new.status = "GOLD_RESERVED" /\ new.token = <<>>
    <3> DEFINE none == <<>>
    <3>1. none \in TokenIds \cup {<<>>}
      OBVIOUS
    <3> HIDE DEF w, old, none
    <3>2. /\ Reached(old, "GOLD_RESERVED", w, c, none) \in ConversionData
          /\ Reached(old, "GOLD_RESERVED", w, c, none).status = "GOLD_RESERVED"
          /\ Reached(old, "GOLD_RESERVED", w, c, none).token = none
      BY <1>9, <1>10, <3>1, ReachedTyped
    <3> QED
      BY <3>2 DEF none
  <2> HIDE DEF new
  <2>2. conversions' = Put(conversions, id, new)
    BY <1>9, <1>11 DEF Put, new
  <2>3. ConversionsTyped' /\ CompletedHasToken'
    BY <1>9, <1>11, <2>1, <2>2, ConversionMoved
  <2>4. GoldClockTyped'
    BY <1>0 DEF GoldInv, GoldClockTyped
  <2> QED
    BY <1>0, <1>11, <2>3, <2>4, OnlyConversions
<1>12. CASE /\ shelves' = Dispensed(l, c)
            /\ IssueToken(id[1], c)
            /\ conversions' = [conversions EXCEPT ![id] = Reached(old, "COMPLETED", w, c, <<id[1], c, goldTime>>)]
  <2> DEFINE u == id[1]
             token == <<u, c, goldTime>>
             new == Reached(old, "COMPLETED", w, c, token)
  <2>0. u \in Users /\ IssueToken(u, c)
    BY <1>9, <1>12
  <2>1. token \in TokenIds \cup {<<>>}
    BY <2>0 DEF GoldInv, GoldClockTyped, TokenIds
  <2>2. token \in TokenIds /\ token[1] = u /\ token[2] = c
    BY <2>0 DEF GoldInv, GoldClockTyped, TokenIds
  <2> HIDE DEF u
  <2>3. /\ LocationsTyped' /\ ShelvesTyped' /\ TokensTyped' /\ ListsTyped' /\ GoldClockTyped'
        /\ ShelvedOnce' /\ TokensNamed' /\ ListsNameTokens'
        /\ CoinBacksOneToken' /\ OwnersListed'
        /\ token \in DOMAIN tokens'
        /\ DOMAIN tokens \subseteq DOMAIN tokens'
        /\ \A t \in DOMAIN tokens : tokens'[t].owner = tokens[t].owner /\ tokens'[t].serial = tokens[t].serial
    BY <1>0, <1>7, <1>12, <2>0, IssueStep
  <2> HIDE DEF token
  <2>4. /\ new \in ConversionData /\ new.status = "COMPLETED" /\ new.token = token /\ new.coin = c
    <3> HIDE DEF w, old
    <3> QED
      BY <1>9, <1>10, <2>1, ReachedTyped
  <2>5. conversions' = [conversions EXCEPT ![id] = new]
    BY <1>12 DEF token, u
  <2> HIDE DEF new
  <2>6. /\ conversions' \in [DOMAIN conversions -> ConversionData] /\ DOMAIN conversions' = DOMAIN conversions
        /\ conversions'[id] = new /\ \A k \in DOMAIN conversions \ {id} : conversions'[k] = conversions[k]
    BY <1>9, <2>4, <2>5
  <2>7. ConversionsTyped'
    BY <2>6 DEF GoldInv, ConversionsTyped, IsMap
  <2>8. tokens'[token].owner = id[1] /\ tokens'[token].serial = c
    BY <2>2, <2>3 DEF TokensNamed, u
  <2>9. CompletedHasToken'
    <3>1. CompletedHasToken
      BY DEF GoldInv
    <3> QED
      BY <2>3, <2>4, <2>6, <2>8, <3>1 DEF CompletedHasToken
  <2> QED
    BY <2>3, <2>7, <2>9 DEF GoldInv
<1> QED
  BY <1>8, <1>11, <1>12

LEMMA GoldStarts == GoldInit => GoldInv
<1> SUFFICES ASSUME GoldInit PROVE GoldInv
  OBVIOUS
<1>1. DOMAIN EmptyMap = {} /\ IsInjective(<<>>)
  BY DEF EmptyMap, IsInjective
<1>2. \A K, V : IsMap(EmptyMap, K, V)
  BY DEF IsMap, EmptyMap
<1>3. /\ LocationsTyped /\ ShelvesTyped /\ TokensTyped /\ ListsTyped /\ ConversionsTyped
  BY <1>1, <1>2 DEF GoldInit, LocationsTyped, ShelvesTyped, TokensTyped, ListsTyped, ConversionsTyped
<1>4. GoldClockTyped
  BY GoldConstants DEF GoldInit, GoldClockTyped
<1>5. ShelvedOnce /\ TokensNamed /\ ListsNameTokens /\ CoinBacksOneToken /\ OwnersListed /\ CompletedHasToken
  BY <1>1 DEF GoldInit, ShelvedOnce, TokensNamed, ListsNameTokens, CoinBacksOneToken, OwnersListed,
              CompletedHasToken
<1> QED
  BY <1>3, <1>4, <1>5 DEF GoldInv

LEMMA GoldSteps == GoldInv /\ [GoldNext]_goldVars => GoldInv'
<1> SUFFICES ASSUME GoldInv, [GoldNext]_goldVars PROVE GoldInv'
  OBVIOUS
<1>1. CASE UNCHANGED goldVars
  <2>1. UNCHANGED <<locsIndex, shelves, relisted, tokens, ownerTokens, conversions, goldTime>>
    BY <1>1 DEF goldVars
  <2>2. GoldClockTyped'
    BY <2>1 DEF GoldInv, GoldClockTyped
  <2> QED
    BY <2>1, <2>2, ConversionsAlone, OnlyConversions
<1> QED
  BY <1>1, AddLocationStep, AddGoldCoinStep, MarkAsDispensedStep, RedeemTokenStep, InitiateConversionStep,
     ConfirmPaymentStep, ConversionFailsStep, ExecuteConversionStep, GoldTickStep, GoldRestartStep
  DEF GoldNext

\* Coins, tokens, owners' lists and conversions agree through failed batches and restarts.
THEOREM GoldIsSound == GoldSpec => []GoldSound
<1>1. GoldInv => GoldSound
  BY DEF GoldInv, GoldSound
<1> QED
  BY <1>1, GoldStarts, GoldSteps, PTL DEF GoldSpec

\* The types of the bridge, and an index of locations without duplicates.
THEOREM GoldTypeCorrect == GoldSpec => []GoldTypeOK
<1>1. GoldInv => GoldTypeOK
  BY DEF GoldInv, GoldTypeOK, LocationsTyped, ShelvesTyped, TokensTyped, ListsTyped, ConversionsTyped,
         GoldClockTyped, Item
<1> QED
  BY <1>1, GoldStarts, GoldSteps, PTL DEF GoldSpec

-----------------------------------------------------------------------------
(* The atomic swaps.  A refund happens at or after the time lock, time     *)
(* does not go back, and a claim happens before the time lock.             *)

\* A swap with a refunded leg has passed its time lock, and no leg is settled
\* twice.
SwapSound(swap, moment) ==
  /\ swap.timelock \in Nat
  /\ swap.claimed \cap swap.refunded = {}
  /\ swap.refunded # {} => moment >= swap.timelock

SwapInv ==
  /\ IsMap(atomicSwaps, SwapIds, SwapData)
  /\ clock \in Nat
  /\ \A id \in DOMAIN atomicSwaps : id.time <= clock
  /\ \A id \in DOMAIN atomicSwaps : SwapSound(atomicSwaps[id], clock)

LEMMA SwapInvInit == Init => SwapInv
  BY DEF Init, SwapInv, IsMap, EmptyMap, SwapSound

\* Every step keeps the invariant; each action of Next is one step of the proof.
LEMMA SwapInvNext == SwapInv /\ [Next]_vars => SwapInv'
<1> SUFFICES ASSUME SwapInv, [Next]_vars
             PROVE  SwapInv'
  OBVIOUS
<1> USE DEF SwapInv, IsMap
<1>1. ASSUME NEW A \in Parties, NEW B \in Parties, NEW hashLock \in Secrets,
             NEW duration \in Durations, CreateAtomicSwap(A, B, hashLock, duration)
      PROVE  SwapInv'
  <2> DEFINE id == [A |-> A, B |-> B, time |-> clock]
             new == [hashLock |-> hashLock, timelock |-> clock + duration,
                     claimed |-> {}, refunded |-> {}]
  <2>1. id \in SwapIds /\ id.time <= clock
    BY DEF SwapIds
  <2>2. new \in SwapData /\ SwapSound(new, clock)
    BY <1>1, SwapAssumption DEF SwapData, SwapSound
  <2>3. atomicSwaps' = Put(atomicSwaps, id, new) /\ clock' = clock
    BY <1>1 DEF CreateAtomicSwap
  <2> HIDE DEF id, new
  <2>4. /\ DOMAIN atomicSwaps' = DOMAIN atomicSwaps \cup {id}
        /\ \A k \in DOMAIN atomicSwaps' :
             atomicSwaps'[k] = IF k = id THEN new ELSE atomicSwaps[k]
        /\ atomicSwaps' = [k \in DOMAIN atomicSwaps' |-> atomicSwaps'[k]]
    BY <2>3 DEF Put
  <2> QED
    BY <2>1, <2>2, <2>3, <2>4
<1>2. ASSUME NEW id \in DOMAIN atomicSwaps, NEW side \in {"A", "B"}, NEW secret \in Secrets,
             ClaimAtomicSwap(id, side, secret)
      PROVE  SwapInv'
  <2>1. /\ atomicSwaps' = [atomicSwaps EXCEPT ![id].claimed = @ \cup {side}]
        /\ clock' = clock
        /\ clock < atomicSwaps[id].timelock
    BY <1>2 DEF ClaimAtomicSwap
  <2>2. atomicSwaps[id] \in SwapData
    OBVIOUS
  <2>3. /\ atomicSwaps'[id] \in SwapData
        /\ SwapSound(atomicSwaps'[id], clock)
    BY <2>1, <2>2 DEF SwapData, SwapSound
  <2> QED
    BY <2>1, <2>3
<1>3. ASSUME NEW id \in DOMAIN atomicSwaps, NEW side \in {"A", "B"},
             RefundAtomicSwap(id, side)
      PROVE  SwapInv'
  <2>1. /\ atomicSwaps' = [atomicSwaps EXCEPT ![id].refunded = @ \cup {side}]
        /\ clock' = clock
        /\ clock >= atomicSwaps[id].timelock
        /\ side \notin atomicSwaps[id].claimed
    BY <1>3 DEF RefundAtomicSwap
  <2>2. atomicSwaps[id] \in SwapData
    OBVIOUS
  <2>3. /\ atomicSwaps'[id] \in SwapData
        /\ SwapSound(atomicSwaps'[id], clock)
    BY <2>1, <2>2 DEF SwapData, SwapSound
  <2> QED
    BY <2>1, <2>3
<1>4. CASE Tick
  <2>1. \A id \in DOMAIN atomicSwaps : id.time <= clock + 1
    BY DEF SwapIds
  <2>2. \A id \in DOMAIN atomicSwaps : SwapSound(atomicSwaps[id], clock + 1)
    BY DEF SwapSound
  <2> QED
    BY <1>4, <2>1, <2>2 DEF Tick
<1>5. CASE Restart
  BY <1>5 DEF Restart, EmptyMap
<1>6. CASE UNCHANGED vars
  BY <1>6 DEF vars
<1> QED
  BY <1>1, <1>2, <1>3, <1>4, <1>5, <1>6 DEF Next

\* A leg of a swap is never both claimed and refunded, for any number of swaps and
\* any time locks, as long as the clock is not set back.
THEOREM LegsSettledOnce == Spec => []LegSettledOnce
<1>1. SwapInv => LegSettledOnce
  BY DEF SwapInv, SwapSound, LegSettledOnce
<1> QED
  BY <1>1, SwapInvInit, SwapInvNext, PTL DEF Spec

\* Every swap has its type and was not made in the future.
THEOREM SwapTypeCorrect == Spec => []SwapTypeOK
<1>1. SwapInv => SwapTypeOK
  BY DEF SwapInv, SwapTypeOK
<1> QED
  BY <1>1, SwapInvInit, SwapInvNext, PTL DEF Spec

-----------------------------------------------------------------------------
(* The snapshot file.  What the reader makes of one more line, of the      *)
(* beginning of an append and of a whole one, whatever it has read before. *)

FileLines == {Header, End, Misread, Junk} \cup {Record(p[1], p[2]) : p \in Nat \X Nat}
ReaderStates ==
  [inSnapshot : BOOLEAN, current : Seq(Nat \X Nat), latest : Seq(Nat \X Nat)]

LEMMA FileLineTags ==
  ASSUME NEW line \in FileLines
  PROVE  /\ line.tag \in {"SNAPSHOT", "END_SNAPSHOT", "record", "junk"}
         /\ line.tag = "record" => line.record \in Nat \X Nat
         /\ line.tag = "SNAPSHOT" <=> line = Header
         /\ line.tag = "END_SNAPSHOT" <=> line = End
<1>1. CASE line \in {Header, End, Misread, Junk}
  BY <1>1 DEF Header, End, Misread, Junk
<1>2. CASE line \notin {Header, End, Misread, Junk}
  <2>1. PICK p \in Nat \X Nat : line = Record(p[1], p[2])
    BY <1>2 DEF FileLines
  <2>2. line.tag = "record" /\ line.record = <<p[1], p[2]>>
    BY <2>1 DEF Record
  <2> QED BY <2>2 DEF Header, End
<1> QED BY <1>1, <1>2

LEMMA ReadLineCases ==
  ASSUME NEW state \in ReaderStates, NEW line \in FileLines
  PROVE  /\ line.tag = "SNAPSHOT" => ReadLine(state, line) = Started(state)
         /\ line.tag = "END_SNAPSHOT" /\ state.inSnapshot => ReadLine(state, line) = Ended(state)
         /\ line.tag = "record" /\ state.inSnapshot =>
              ReadLine(state, line) = Extended(state, line.record)
         /\ \/ line.tag = "junk"
            \/ line.tag \in {"END_SNAPSHOT", "record"} /\ ~state.inSnapshot
            => ReadLine(state, line) = state
BY Zenon DEF ReadLine

LEMMA ReadLineType ==
  ASSUME NEW state \in ReaderStates, NEW line \in FileLines
  PROVE  ReadLine(state, line) \in ReaderStates
<1>1. Started(state) \in ReaderStates /\ Ended(state) \in ReaderStates
  BY DEF Started, Ended, ReaderStates
<1>2. line.tag = "record" => Extended(state, line.record) \in ReaderStates
  BY FileLineTags DEF Extended, ReaderStates
<1>3. line.tag \in {"SNAPSHOT", "END_SNAPSHOT", "record", "junk"}
  BY FileLineTags
<1>4. \/ ReadLine(state, line) = Started(state) \/ ReadLine(state, line) = Ended(state)
      \/ ReadLine(state, line) = state
      \/ line.tag = "record" /\ ReadLine(state, line) = Extended(state, line.record)
  BY <1>3, ReadLineCases
<1> QED BY <1>1, <1>2, <1>4

IsReading(run, lines) ==
  /\ run \in [0 .. Len(lines) -> ReaderStates] /\ run[0] = Nothing
  /\ \A n \in 1 .. Len(lines) : run[n] = ReadLine(run[n - 1], lines[n])

LEMMA NothingRead == Nothing \in ReaderStates
BY DEF Nothing, ReaderStates

LEMMA ReadingExists ==
  ASSUME NEW lines \in Seq(FileLines)
  PROVE  \E run : IsReading(run, lines)
<1> DEFINE f == [pair \in ReaderStates \X FileLines |-> ReadLine(pair[1], pair[2])]
<1>1. f \in [ReaderStates \X FileLines -> ReaderStates]
  BY ReadLineType
<1>2. \A r \in ReaderStates : \A line \in FileLines : f[<<r, line>>] = ReadLine(r, line)
  OBVIOUS
<1> HIDE DEF f
<1>3. PICK run : RunsThrough(run, f, ReaderStates, Nothing, lines)
  BY <1>1, NothingRead, RunThroughExists
<1>4. ASSUME NEW n \in 1 .. Len(lines) PROVE run[n] = ReadLine(run[n - 1], lines[n])
  <2>1. n - 1 \in 0 .. Len(lines) /\ lines[n] \in FileLines
    OBVIOUS
  <2>2. run[n - 1] \in ReaderStates /\ run[n] = f[<<run[n - 1], lines[n]>>]
    BY <1>3, <2>1 DEF RunsThrough
  <2> QED BY <1>2, <2>1, <2>2
<1>5. IsReading(run, lines)
  BY <1>3, <1>4 DEF IsReading, RunsThrough
<1> QED BY <1>5

LEMMA ReadingIsLoop ==
  ASSUME NEW lines \in Seq(FileLines), NEW run, IsReading(run, lines)
  PROVE  ReadThrough(lines) = run[Len(lines)]
<1> DEFINE Body(g, n) == IF n = 0 THEN Nothing ELSE ReadLine(g[n - 1], lines[n])
           g == CHOOSE g : g = [n \in 0 .. Len(lines) |-> Body(g, n)]
<1>1. ReadThrough(lines) = g[Len(lines)]
  BY DEF ReadThrough
<1>2. g = [n \in 0 .. Len(lines) |-> Body(g, n)]
  <2>1. ASSUME NEW n \in 0 .. Len(lines) PROVE run[n] = Body(run, n)
    BY DEF IsReading
  <2>2. run = [n \in 0 .. Len(lines) |-> Body(run, n)]
    BY <2>1 DEF IsReading
  <2> QED BY <2>2
<1> HIDE DEF g
<1> DEFINE Same == {n \in Nat : n <= Len(lines) => g[n] = run[n]}
<1>3. 0 \in Same
  BY <1>2 DEF IsReading
<1>4. ASSUME NEW n \in Same PROVE n + 1 \in Same
  <2> SUFFICES ASSUME n + 1 <= Len(lines) PROVE g[n + 1] = run[n + 1]
    OBVIOUS
  <2>1. /\ n \in Nat /\ g[n] = run[n] /\ n + 1 \in 0 .. Len(lines) /\ n + 1 \in 1 .. Len(lines)
        /\ n + 1 # 0 /\ (n + 1) - 1 = n
    OBVIOUS
  <2>2. g[n + 1] = ReadLine(g[n], lines[n + 1])
    BY <1>2, <2>1
  <2>3. run[n + 1] = ReadLine(run[n], lines[n + 1])
    BY <2>1 DEF IsReading
  <2> QED BY <2>1, <2>2, <2>3
<1>5. Same = Nat
  <2>1. Same \in SUBSET Nat
    OBVIOUS
  <2> HIDE DEF Same
  <2> QED BY <1>3, <1>4, <2>1, ClosedSetIsNat
<1> QED BY <1>1, <1>5

\* What the loop has after no line, and after one line more.
LEMMA ReadThroughSteps ==
  ASSUME NEW lines \in Seq(FileLines)
  PROVE  /\ ReadThrough(lines) \in ReaderStates
         /\ lines = <<>> => ReadThrough(lines) = Nothing
         /\ \A line \in FileLines :
              ReadThrough(Append(lines, line)) = ReadLine(ReadThrough(lines), line)
<1>1. PICK run : IsReading(run, lines)
  BY ReadingExists
<1>2. ReadThrough(lines) = run[Len(lines)]
  BY <1>1, ReadingIsLoop
<1>3. Len(lines) \in Nat /\ Len(lines) \in 0 .. Len(lines) /\ run[Len(lines)] \in ReaderStates
  BY <1>1 DEF IsReading
<1>4. ASSUME NEW line \in FileLines
      PROVE  ReadThrough(Append(lines, line)) = ReadLine(ReadThrough(lines), line)
  <2>1. PICK longer : longer = Append(lines, line)
    OBVIOUS
  <2>2. /\ longer \in Seq(FileLines) /\ Len(longer) = Len(lines) + 1
        /\ longer[Len(lines) + 1] = line
        /\ \A n \in 1 .. Len(lines) : longer[n] = lines[n]
    BY <2>1
  <2>3. PICK next : IsReading(next, longer)
    BY <2>2, ReadingExists
  <2>4. IsReading([n \in 0 .. Len(lines) |-> next[n]], lines)
    <3> DEFINE short == [n \in 0 .. Len(lines) |-> next[n]]
    <3>1. short \in [0 .. Len(lines) -> ReaderStates] /\ short[0] = Nothing
      BY <1>3, <2>2, <2>3 DEF IsReading
    <3>2. ASSUME NEW n \in 1 .. Len(lines) PROVE short[n] = ReadLine(short[n - 1], lines[n])
      <4>1. n \in 1 .. Len(longer) /\ n \in 0 .. Len(lines) /\ n - 1 \in 0 .. Len(lines)
        BY <1>3, <2>2
      <4>2. next[n] = ReadLine(next[n - 1], longer[n])
        BY <2>3, <4>1 DEF IsReading
      <4> QED BY <2>2, <4>1, <4>2
    <3> QED BY <3>1, <3>2 DEF IsReading
  <2>5. ReadThrough(lines) = next[Len(lines)]
    <3>1. ReadThrough(lines) = [n \in 0 .. Len(lines) |-> next[n]][Len(lines)]
      BY <2>4, ReadingIsLoop
    <3> QED BY <1>3, <3>1
  <2>6. ReadThrough(longer) = next[Len(lines) + 1]
    BY <2>2, <2>3, ReadingIsLoop
  <2>7. next[Len(lines) + 1] = ReadLine(next[Len(lines)], line)
    <3>1. Len(lines) + 1 \in 1 .. Len(longer) /\ (Len(lines) + 1) - 1 = Len(lines)
      BY <1>3, <2>2
    <3> QED BY <2>2, <2>3, <3>1 DEF IsReading
  <2> QED BY <2>1, <2>5, <2>6, <2>7
<1>5. lines = <<>> => run[Len(lines)] = Nothing
  BY <1>1 DEF IsReading
<1> QED BY <1>2, <1>3, <1>4, <1>5

-----------------------------------------------------------------------------
(* Reading an append.                                                      *)

LEMMA LinesElements ==
  ASSUME NEW n \in Nat
  PROVE  /\ Lines(n) \in Seq(FileLines) /\ Len(Lines(n)) = SnapshotRecords + 2
         /\ Lines(n)[1] = Header /\ Lines(n)[SnapshotRecords + 2] = End
         /\ \A i \in 1 .. SnapshotRecords : Lines(n)[i + 1] = Record(n, i)
<1>1. SnapshotRecords \in Nat
  BY SnapshotAssumption
<1>2. PICK m : m = [i \in 1 .. SnapshotRecords |-> Record(n, i)]
  OBVIOUS
<1>3. Header \in FileLines /\ End \in FileLines /\ \A i \in Nat : Record(n, i) \in FileLines
  <2>1. Header \in FileLines /\ End \in FileLines
    BY DEF FileLines
  <2>2. ASSUME NEW i \in Nat PROVE Record(n, i) \in FileLines
    <3>1. <<n, i>> \in Nat \X Nat /\ <<n, i>>[1] = n /\ <<n, i>>[2] = i
      OBVIOUS
    <3> QED BY <3>1 DEF FileLines
  <2> QED BY <2>1, <2>2
<1>4. /\ m \in Seq(FileLines) /\ Len(m) = SnapshotRecords
      /\ \A i \in 1 .. SnapshotRecords : m[i] = Record(n, i)
  BY <1>1, <1>2, <1>3
<1>5. PICK h, e : h = Header /\ e = End /\ h \in FileLines /\ e \in FileLines
  BY <1>3
<1>6. PICK c : c = <<h>> \o m
  OBVIOUS
<1>7. /\ c \in Seq(FileLines) /\ Len(c) = SnapshotRecords + 1 /\ c[1] = h
      /\ \A i \in 1 .. SnapshotRecords : c[i + 1] = m[i]
  BY <1>1, <1>4, <1>5, <1>6
<1>8. PICK d : d = c \o <<e>>
  OBVIOUS
<1>9. /\ d \in Seq(FileLines) /\ Len(d) = SnapshotRecords + 2 /\ d[SnapshotRecords + 2] = e
      /\ \A i \in 1 .. SnapshotRecords + 1 : d[i] = c[i]
  BY <1>1, <1>5, <1>7, <1>8
<1>10. Lines(n) = d
  BY <1>2, <1>5, <1>6, <1>8 DEF Lines
<1>11. d[1] = h /\ \A i \in 1 .. SnapshotRecords : d[i + 1] = Record(n, i)
  BY <1>1, <1>4, <1>7, <1>9
<1> QED BY <1>5, <1>9, <1>10, <1>11

\* What the reader has after the first k lines of snapshot n.
ReadPart(before, after, n, k) ==
  /\ after \in ReaderStates /\ after.latest = before.latest
  /\ k >= 1 => after.inSnapshot /\ after.current = [i \in 1 .. k - 1 |-> <<n, i>>]

LEMMA ReadPartOne ==
  ASSUME NEW before \in ReaderStates, NEW n \in Nat
  PROVE  ReadPart(before, ReadLine(before, Header), n, 1)
<1>1. Header \in FileLines /\ Header.tag = "SNAPSHOT"
  BY DEF FileLines, Header
<1>2. ReadLine(before, Header) = Started(before)
  BY <1>1, ReadLineCases
<1>3. Started(before) \in ReaderStates /\ Started(before).latest = before.latest
      /\ Started(before).inSnapshot /\ Started(before).current = <<>>
  BY DEF Started, ReaderStates
<1>4. [i \in 1 .. 1 - 1 |-> <<n, i>>] = <<>>
  OBVIOUS
<1> QED BY <1>2, <1>3, <1>4 DEF ReadPart

LEMMA ReadPartMore ==
  ASSUME NEW before \in ReaderStates, NEW after, NEW n \in Nat, NEW k \in Nat, k >= 1,
         ReadPart(before, after, n, k)
  PROVE  ReadPart(before, ReadLine(after, Record(n, k)), n, k + 1)
<1>1. after \in ReaderStates /\ after.latest = before.latest /\ after.inSnapshot
      /\ after.current = [i \in 1 .. k - 1 |-> <<n, i>>]
  BY DEF ReadPart
<1>2. PICK line : line = Record(n, k)
  OBVIOUS
<1>3. line \in FileLines /\ line.tag = "record" /\ line.record = <<n, k>>
  <2>1. <<n, k>> \in Nat \X Nat /\ <<n, k>>[1] = n /\ <<n, k>>[2] = k
    OBVIOUS
  <2> QED BY <1>2, <2>1 DEF FileLines, Record
<1>4. ReadLine(after, line) = Extended(after, <<n, k>>)
  BY <1>1, <1>3, ReadLineCases
<1>5. PICK c : c = after.current
  OBVIOUS
<1>6. /\ Extended(after, <<n, k>>).latest = before.latest /\ Extended(after, <<n, k>>).inSnapshot
      /\ Extended(after, <<n, k>>).current = Append(c, <<n, k>>)
  BY <1>1, <1>5 DEF Extended
<1>7. ReadLine(after, line) \in ReaderStates
  BY <1>1, <1>3, ReadLineType
<1>8. Append(c, <<n, k>>) = [i \in 1 .. (k + 1) - 1 |-> <<n, i>>]
  <2>1. c = [i \in 1 .. k - 1 |-> <<n, i>>] /\ c \in Seq(Nat \X Nat)
    BY <1>1, <1>5 DEF ReaderStates
  <2>2. Len(c) = k - 1
    BY <2>1
  <2> QED BY <2>1, <2>2
<1> QED BY <1>2, <1>4, <1>6, <1>7, <1>8 DEF ReadPart

LEMMA ReadPrefix ==
  ASSUME NEW lines \in Seq(FileLines), NEW n \in Nat, NEW k \in 0 .. SnapshotRecords + 1
  PROVE  ReadPart(ReadThrough(lines), ReadThrough(lines \o SubSeq(Lines(n), 1, k)), n, k)
<1>1. PICK more \in Seq(FileLines) : more = Lines(n)
  BY LinesElements
<1>2. /\ SnapshotRecords \in Nat /\ Len(more) = SnapshotRecords + 2 /\ more[1] = Header
      /\ \A i \in 1 .. SnapshotRecords : more[i + 1] = Record(n, i)
  BY <1>1, LinesElements, SnapshotAssumption
<1>3. PICK before \in ReaderStates : before = ReadThrough(lines)
  BY ReadThroughSteps
<1> DEFINE After(j) == ReadThrough(lines \o SubSeq(more, 1, j))
           Good == {j \in Nat : j <= SnapshotRecords + 1 => ReadPart(before, After(j), n, j)}
<1>4. 0 \in Good
  <2>1. lines \o SubSeq(more, 1, 0) = lines
    BY <1>1
  <2>2. After(0) = before
    BY <1>3, <2>1
  <2>3. ReadPart(before, before, n, 0)
    BY DEF ReadPart
  <2> QED BY <2>2, <2>3
<1>5. ASSUME NEW j \in Good PROVE j + 1 \in Good
  <2> SUFFICES ASSUME j + 1 <= SnapshotRecords + 1 PROVE ReadPart(before, After(j + 1), n, j + 1)
    OBVIOUS
  <2>1. j \in Nat /\ ReadPart(before, After(j), n, j)
    BY <1>2
  <2>2. PICK a, e : a = SubSeq(more, 1, j) /\ e = more[j + 1]
    OBVIOUS
  <2>3. a \in Seq(FileLines) /\ e \in FileLines /\ SubSeq(more, 1, j + 1) = Append(a, e)
    BY <1>1, <1>2, <2>1, <2>2
  <2>4. lines \o a \in Seq(FileLines) /\ lines \o Append(a, e) = Append(lines \o a, e)
    BY <2>3
  <2>5. After(j + 1) = ReadLine(After(j), e)
    <3>1. ReadThrough(Append(lines \o a, e)) = ReadLine(ReadThrough(lines \o a), e)
      BY <2>3, <2>4, ReadThroughSteps
    <3>2. After(j + 1) = ReadThrough(Append(lines \o a, e)) /\ After(j) = ReadThrough(lines \o a)
      BY <2>2, <2>3, <2>4
    <3> QED BY <3>1, <3>2
  <2>6. CASE j = 0
    <3>1. lines \o SubSeq(more, 1, 0) = lines
      BY <1>1
    <3>2. After(0) = before
      BY <1>3, <3>1
    <3>3. e = Header
      BY <1>2, <2>2, <2>6
    <3>4. ReadPart(before, ReadLine(before, Header), n, 1)
      BY ReadPartOne
    <3> QED BY <2>5, <2>6, <3>2, <3>3, <3>4
  <2>7. CASE j # 0
    <3>1. j >= 1 /\ j \in 1 .. SnapshotRecords
      BY <1>2, <2>1, <2>7
    <3>2. e = Record(n, j)
      BY <1>2, <2>2, <3>1
    <3> HIDE DEF After
    <3>3. ReadPart(before, ReadLine(After(j), Record(n, j)), n, j + 1)
      BY <2>1, <3>1, ReadPartMore
    <3> QED BY <2>5, <3>2, <3>3
  <2> QED BY <2>6, <2>7
<1>6. Good = Nat
  <2>1. Good \in SUBSET Nat
    OBVIOUS
  <2> HIDE DEF Good
  <2> QED BY <1>4, <1>5, <2>1, ClosedSetIsNat
<1>7. k \in Good /\ k <= SnapshotRecords + 1
  BY <1>2, <1>6
<1> QED BY <1>1, <1>3, <1>7

\* A whole append is loaded, whatever was read before it.
LEMMA ReadWhole ==
  ASSUME NEW lines \in Seq(FileLines), NEW n \in Nat
  PROVE  ReadThrough(lines \o Lines(n)).latest = Captured(n)
<1>1. PICK more \in Seq(FileLines) : more = Lines(n)
  BY LinesElements
<1>2. /\ SnapshotRecords \in Nat /\ Len(more) = SnapshotRecords + 2 /\ more[SnapshotRecords + 2] = End
  BY <1>1, LinesElements, SnapshotAssumption
<1>3. PICK a : a = SubSeq(more, 1, SnapshotRecords + 1)
  OBVIOUS
<1>4. a \in Seq(FileLines) /\ more = Append(a, End) /\ End \in FileLines
  <2>1. a \in Seq(FileLines) /\ Len(a) = SnapshotRecords + 1
        /\ \A i \in 1 .. SnapshotRecords + 1 : a[i] = more[i]
    BY <1>1, <1>2, <1>3
  <2>2. End \in FileLines
    BY DEF FileLines
  <2>3. PICK e : e = End
    OBVIOUS
  <2>4. more = Append(a, e)
    BY <1>1, <1>2, <2>1, <2>2, <2>3
  <2> QED BY <2>1, <2>2, <2>3, <2>4
<1>5. PICK after : after = ReadThrough(lines \o a)
  OBVIOUS
<1>6. /\ after \in ReaderStates /\ after.inSnapshot
      /\ after.current = [i \in 1 .. SnapshotRecords |-> <<n, i>>]
  <2>1. SnapshotRecords + 1 \in 0 .. SnapshotRecords + 1 /\ (SnapshotRecords + 1) - 1 = SnapshotRecords
        /\ SnapshotRecords + 1 >= 1
    BY <1>2
  <2>2. ReadPart(ReadThrough(lines), after, n, SnapshotRecords + 1)
    BY <1>1, <1>3, <1>5, <2>1, ReadPrefix
  <2> QED BY <2>1, <2>2 DEF ReadPart
<1>7. lines \o a \in Seq(FileLines) /\ lines \o Append(a, End) = Append(lines \o a, End)
  <2>1. PICK e \in FileLines : e = End
    BY <1>4
  <2> QED BY <1>4, <2>1
<1>8. ReadThrough(lines \o more) = ReadLine(after, End)
  BY <1>4, <1>5, <1>7, ReadThroughSteps
<1>9. ReadLine(after, End) = Ended(after)
  <2>1. End.tag = "END_SNAPSHOT"
    BY DEF End
  <2> QED BY <1>4, <1>6, <2>1, ReadLineCases
<1>10. Ended(after).latest = after.current
  BY DEF Ended
<1> QED BY <1>1, <1>6, <1>8, <1>9, <1>10 DEF Captured

-----------------------------------------------------------------------------
(* The file.  As long as no line of it was torn, its last end line belongs *)
(* to the snapshot that the reader has.                                    *)

Clean(lines) == \A i \in 1 .. Len(lines) : lines[i] \notin {Misread, Junk}
EndsIn(lines) == {i \in 1 .. Len(lines) : lines[i] = End}

LastEnds(lines, i) ==
  /\ i \in EndsIn(lines) /\ i >= 2 /\ \A j \in EndsIn(lines) : j <= i
  /\ ReadThrough(lines).latest = Captured(lines[i - 1].record[1])

LatestKept(lines) ==
  IF EndsIn(lines) = {} THEN ReadThrough(lines).latest = <<>>
                        ELSE \E i \in EndsIn(lines) : LastEnds(lines, i)

FileInv ==
  /\ file \in Seq(FileLines) /\ appended \in Nat
  /\ torn \in {"none", "number", "end", "other"} /\ intact \in BOOLEAN
  /\ intact => torn = "none" /\ ReadThrough(file).latest = Captured(appended)
  /\ Clean(file) => LatestKept(file)

\* An append that was cut between lines leaves the last snapshot the last.
LEMMA PartKeepsLatest ==
  ASSUME NEW lines \in Seq(FileLines), NEW n \in Nat, NEW k \in 0 .. SnapshotRecords + 1,
         LatestKept(lines)
  PROVE  LatestKept(lines \o SubSeq(Lines(n), 1, k))
<1>1. PICK more \in Seq(FileLines) : more = Lines(n)
  BY LinesElements
<1>2. /\ SnapshotRecords \in Nat /\ Len(more) = SnapshotRecords + 2 /\ more[1] = Header
      /\ \A i \in 1 .. SnapshotRecords : more[i + 1] = Record(n, i)
  BY <1>1, LinesElements, SnapshotAssumption
<1>3. ASSUME NEW i \in 1 .. SnapshotRecords + 1 PROVE more[i] # End
  <2>1. CASE i = 1
    BY <1>2, <2>1 DEF Header, End
  <2>2. CASE i # 1
    <3>1. i - 1 \in 1 .. SnapshotRecords /\ (i - 1) + 1 = i
      BY <1>2, <2>2
    <3>2. more[i] = Record(n, i - 1)
      BY <1>2, <3>1
    <3> QED BY <3>2 DEF Record, End
  <2> QED BY <2>1, <2>2
<1>4. PICK a : a = SubSeq(more, 1, k)
  OBVIOUS
<1>5. a \in Seq(FileLines) /\ Len(a) = k /\ \A i \in 1 .. k : a[i] = more[i]
  BY <1>1, <1>2, <1>4
<1>6. PICK m \in Nat : m = Len(lines)
  OBVIOUS
<1>7. PICK q : q = lines \o a
  OBVIOUS
<1>8. /\ q \in Seq(FileLines) /\ Len(q) = m + k /\ \A i \in 1 .. m : q[i] = lines[i]
      /\ \A i \in 1 .. k : q[m + i] = a[i]
  BY <1>5, <1>6, <1>7
<1>9. ReadThrough(q).latest = ReadThrough(lines).latest
  <2>1. ReadPart(ReadThrough(lines), ReadThrough(q), n, k)
    BY <1>1, <1>4, <1>7, ReadPrefix
  <2> QED BY <2>1 DEF ReadPart
<1>10. EndsIn(q) = EndsIn(lines)
  <2>1. ASSUME NEW i \in m + 1 .. m + k PROVE q[i] # End
    <3>1. i - m \in 1 .. k /\ m + (i - m) = i /\ i - m \in 1 .. SnapshotRecords + 1
      BY <1>2
    <3>2. q[i] = more[i - m]
      BY <1>5, <1>8, <3>1
    <3> QED BY <1>3, <3>1, <3>2
  <2>2. \A i \in 1 .. m + k : i \in 1 .. m \/ i \in m + 1 .. m + k
    OBVIOUS
  <2>3. 1 .. m \subseteq 1 .. m + k
    OBVIOUS
  <2> QED BY <1>6, <1>8, <2>1, <2>2, <2>3 DEF EndsIn
<1>11. ASSUME NEW i \in EndsIn(lines), LastEnds(lines, i) PROVE LastEnds(q, i)
  <2>1. i \in 1 .. m /\ i >= 2 /\ i - 1 \in 1 .. m
    BY <1>6, <1>11 DEF LastEnds, EndsIn
  <2>2. q[i - 1] = lines[i - 1]
    BY <1>8, <2>1
  <2> QED BY <1>9, <1>10, <1>11, <2>2 DEF LastEnds
<1>12. LatestKept(q)
  BY <1>9, <1>10, <1>11 DEF LatestKept
<1> QED BY <1>1, <1>4, <1>7, <1>12

\* A whole append makes its snapshot the last.
LEMMA WholeIsLatest ==
  ASSUME NEW lines \in Seq(FileLines), NEW n \in Nat
  PROVE  LatestKept(lines \o Lines(n))
<1>1. PICK more \in Seq(FileLines) : more = Lines(n)
  BY LinesElements
<1>2. PICK r \in Nat : r = SnapshotRecords
  BY SnapshotAssumption
<1>3. /\ Len(more) = r + 2 /\ more[r + 2] = End
      /\ \A i \in 1 .. r : more[i + 1] = Record(n, i)
  BY <1>1, <1>2, LinesElements
<1>4. PICK m \in Nat : m = Len(lines)
  OBVIOUS
<1>5. PICK q : q = lines \o more
  OBVIOUS
<1>6. q \in Seq(FileLines) /\ Len(q) = m + (r + 2) /\ \A i \in 1 .. r + 2 : q[m + i] = more[i]
  <2>1. /\ q \in Seq(FileLines) /\ Len(q) = m + Len(more)
        /\ \A i \in 1 .. Len(more) : q[m + i] = more[i]
    BY <1>1, <1>4, <1>5
  <2> QED BY <1>3, <2>1
<1>7. PICK last : last = m + (r + 2)
  OBVIOUS
<1>8. /\ last \in EndsIn(q) /\ last >= 2 /\ \A j \in EndsIn(q) : j <= last
  <2>1. last \in 1 .. Len(q) /\ last >= 2 /\ q[last] = End
    BY <1>3, <1>6, <1>7
  <2> QED BY <1>6, <1>7, <2>1 DEF EndsIn
<1>9. ReadThrough(q).latest = Captured(n)
  BY <1>1, <1>5, ReadWhole
<1>10. Captured(q[last - 1].record[1]) = Captured(n)
  <2>1. CASE r = 0
    BY <1>2, <2>1 DEF Captured
  <2>2. CASE r # 0
    <3>1. r + 1 \in 1 .. r + 2 /\ last - 1 = m + (r + 1) /\ r \in 1 .. r
      BY <1>7, <2>2
    <3>2. q[last - 1] = Record(n, r)
      BY <1>3, <1>6, <3>1
    <3>3. Record(n, r).record[1] = n
      BY DEF Record
    <3> QED BY <3>2, <3>3
  <2> QED BY <2>1, <2>2
<1>11. LastEnds(q, last)
  BY <1>8, <1>9, <1>10 DEF LastEnds
<1> QED BY <1>1, <1>5, <1>8, <1>11 DEF LatestKept

\* An append to a torn line leaves a line that is neither.
LEMMA TornIsNotClean ==
  ASSUME NEW lines \in Seq(FileLines), NEW more \in Seq(FileLines), more # <<>>,
         more[1] \in {Misread, Junk}
  PROVE  ~Clean(lines \o more)
<1>1. PICK m \in Nat : m = Len(lines)
  OBVIOUS
<1>2. PICK q : q = lines \o more
  OBVIOUS
<1>3. m + 1 \in 1 .. Len(q) /\ q[m + 1] = more[1]
  BY <1>1, <1>2
<1> QED BY <1>2, <1>3 DEF Clean

LEMMA CleanPart ==
  ASSUME NEW lines \in Seq(FileLines), NEW more \in Seq(FileLines), Clean(lines \o more)
  PROVE  Clean(lines)
<1>1. PICK m \in Nat : m = Len(lines)
  OBVIOUS
<1>2. PICK q : q = lines \o more
  OBVIOUS
<1>3. \A i \in 1 .. m : i \in 1 .. Len(q) /\ q[i] = lines[i]
  BY <1>1, <1>2
<1> QED BY <1>1, <1>2, <1>3 DEF Clean

\* What the next append becomes.
LEMMA JoinedLines ==
  ASSUME torn \in {"none", "number", "end", "other"}, NEW n \in Nat
  PROVE  /\ Joined(Lines(n)) \in Seq(FileLines) /\ Len(Joined(Lines(n))) = SnapshotRecords + 2
         /\ torn = "none" => Joined(Lines(n)) = Lines(n)
         /\ torn # "none" => Joined(Lines(n))[1] \in {Misread, Junk}
<1>1. PICK more \in Seq(FileLines) : more = Lines(n)
  BY LinesElements
<1>2. Len(more) = SnapshotRecords + 2 /\ SnapshotRecords \in Nat
  BY <1>1, LinesElements, SnapshotAssumption
<1>3. Tail(more) \in Seq(FileLines) /\ Len(Tail(more)) = SnapshotRecords + 1
  <2>1. more # <<>>
    BY <1>2
  <2>2. Tail(more) \in Seq(FileLines) /\ Len(Tail(more)) = Len(more) - 1
    BY <1>1, <2>1
  <2> QED BY <1>2, <2>2
<1>4. ASSUME NEW e \in FileLines
      PROVE  /\ <<e>> \o Tail(more) \in Seq(FileLines)
             /\ Len(<<e>> \o Tail(more)) = SnapshotRecords + 2 /\ (<<e>> \o Tail(more))[1] = e
  <2>1. PICK q \in Seq(FileLines) : q = Tail(more)
    BY <1>3
  <2>2. /\ <<e>> \o q \in Seq(FileLines) /\ Len(<<e>> \o q) = 1 + Len(q) /\ (<<e>> \o q)[1] = e
    OBVIOUS
  <2> QED BY <1>2, <1>3, <2>1, <2>2
<1>5. Misread \in FileLines /\ Junk \in FileLines
  BY DEF FileLines
<1>6. CASE torn = "none"
  <2>1. Joined(Lines(n)) = Lines(n)
    BY <1>6, Zenon DEF Joined
  <2> QED BY <1>1, <1>2, <1>6, <2>1
<1>7. CASE torn = "number"
  <2>1. Joined(Lines(n)) = <<Misread>> \o Tail(more)
    BY <1>1, <1>7, Zenon DEF Joined
  <2> QED BY <1>4, <1>5, <1>7, <2>1
<1>8. CASE torn \in {"end", "other"}
  <2>1. Joined(Lines(n)) = <<Junk>> \o Tail(more)
    BY <1>1, <1>8, Zenon DEF Joined
  <2> QED BY <1>4, <1>5, <1>8, <2>1
<1> QED BY <1>6, <1>7, <1>8

LEMMA AppendSnapshotKeeps == ASSUME FileInv, AppendSnapshot PROVE FileInv'
<1>1. /\ appended' = appended + 1 /\ torn' = "none" /\ intact' = (torn = "none")
      /\ file' = file \o Joined(Lines(appended'))
  BY DEF AppendSnapshot
<1>2. file \in Seq(FileLines) /\ appended \in Nat /\ torn \in {"none", "number", "end", "other"}
  BY DEF FileInv
<1>3. PICK n \in Nat : n = appended'
  BY <1>1, <1>2
<1>4. PICK more \in Seq(FileLines) : more = Joined(Lines(n)) /\ more # <<>>
  BY <1>2, JoinedLines, SnapshotAssumption
<1>5. file' = file \o more /\ file' \in Seq(FileLines)
  BY <1>1, <1>2, <1>3, <1>4
<1>6. torn = "none" => /\ ReadThrough(file').latest = Captured(n)
                  /\ LatestKept(file')
  BY <1>2, <1>4, <1>5, JoinedLines, ReadWhole, WholeIsLatest
<1>7. torn # "none" => ~Clean(file')
  BY <1>2, <1>4, <1>5, JoinedLines, TornIsNotClean
<1>8. intact' \in BOOLEAN /\ (intact' => torn = "none") /\ appended' \in Nat
  BY <1>1, <1>3, Zenon
<1>9. torn' \in {"none", "number", "end", "other"}
  BY <1>1
<1> QED BY <1>1, <1>3, <1>5, <1>6, <1>7, <1>8, <1>9, Zenon DEF FileInv

LEMMA CutAppendKeeps ==
  ASSUME FileInv, NEW k \in 0 .. SnapshotRecords + 1, NEW cut \in {"none", "number", "end", "other"},
         CutAppend(k, cut)
  PROVE  FileInv'
<1>1. /\ appended' = appended + 1 /\ intact' = FALSE
      /\ file' = file \o (IF k = 0 THEN <<>> ELSE SubSeq(Joined(Lines(appended')), 1, k))
      /\ torn' = IF k = 0 /\ torn # "none" THEN (IF cut = "none" THEN torn ELSE "other") ELSE cut
  BY DEF CutAppend
<1>2. file \in Seq(FileLines) /\ appended \in Nat /\ torn \in {"none", "number", "end", "other"}
      /\ (Clean(file) => LatestKept(file))
  BY DEF FileInv
<1>3. PICK n \in Nat : n = appended'
  BY <1>1, <1>2
<1>4. intact' \in BOOLEAN /\ ~intact' /\ appended' \in Nat
  BY <1>1, <1>3, Zenon
<1>5. torn' \in {"none", "number", "end", "other"}
  BY <1>1, <1>2
<1>6. file' \in Seq(FileLines) /\ (Clean(file') => LatestKept(file'))
  <2>1. CASE k = 0
    <3>1. file' = file
      BY <1>1, <1>2, <2>1
    <3> QED BY <1>2, <3>1
  <2>2. CASE k # 0
    <3>1. PICK all \in Seq(FileLines) : all = Joined(Lines(n)) /\ Len(all) = SnapshotRecords + 2
      BY <1>2, JoinedLines
    <3>2. PICK more : more = SubSeq(all, 1, k)
      OBVIOUS
    <3>3. more \in Seq(FileLines) /\ more # <<>> /\ more[1] = all[1]
      BY <2>2, <3>1, <3>2, SnapshotAssumption
    <3>4. file' = file \o more /\ file' \in Seq(FileLines)
      BY <1>1, <1>2, <1>3, <2>2, <3>1, <3>2, <3>3
    <3>5. CASE torn = "none"
      <4>1. all = Lines(n)
        BY <1>2, <3>1, <3>5, JoinedLines
      <4>2. Clean(file') => Clean(file)
        BY <1>2, <3>3, <3>4, CleanPart
      <4>3. LatestKept(file) => LatestKept(file')
        BY <1>2, <3>2, <3>4, <4>1, PartKeepsLatest
      <4> QED BY <1>2, <3>4, <4>2, <4>3
    <3>6. CASE torn # "none"
      <4>1. more[1] \in {Misread, Junk}
        BY <1>2, <3>1, <3>3, <3>6, JoinedLines
      <4> QED BY <1>2, <3>3, <3>4, <4>1, TornIsNotClean
    <3> QED BY <3>5, <3>6
  <2> QED BY <2>1, <2>2
<1> QED BY <1>4, <1>5, <1>6, Zenon DEF FileInv

LEMMA FileInvNext == FileInv /\ [FileNext]_fileVars => FileInv'
<1> SUFFICES ASSUME FileInv, [FileNext]_fileVars PROVE FileInv'
  OBVIOUS
<1>1. CASE UNCHANGED <<file, torn, appended, intact>>
  BY <1>1, Zenon DEF FileInv
<1>2. CASE AppendSnapshot
  BY <1>2, AppendSnapshotKeeps
<1>3. CASE \E k \in 0 .. SnapshotRecords + 1, cut \in {"none", "number", "end", "other"} : CutAppend(k, cut)
  BY <1>3, CutAppendKeeps
<1>4. ReadBack => UNCHANGED <<file, torn, appended, intact>>
  BY DEF ReadBack
<1>5. UNCHANGED fileVars => UNCHANGED <<file, torn, appended, intact>>
  BY DEF fileVars
<1> QED BY <1>1, <1>2, <1>3, <1>4, <1>5 DEF FileNext

LEMMA FileInvInit == FileInit => FileInv
<1> SUFFICES ASSUME FileInit PROVE FileInv
  OBVIOUS
<1>1. file = <<>> /\ torn = "none" /\ appended = 0 /\ intact = FALSE
  BY DEF FileInit
<1>2. file \in Seq(FileLines) /\ ReadThrough(file) = Nothing
  <2>1. file \in Seq(FileLines) /\ file = <<>>
    BY <1>1
  <2> QED BY <2>1, ReadThroughSteps
<1>3. EndsIn(file) = {}
  BY <1>1 DEF EndsIn
<1>4. LatestKept(file)
  BY <1>2, <1>3 DEF LatestKept, Nothing
<1>5. appended \in Nat /\ torn \in {"none", "number", "end", "other"}
  BY <1>1
<1>6. intact \in BOOLEAN /\ ~intact
  BY <1>1, Zenon
<1> QED BY <1>2, <1>4, <1>5, <1>6, Zenon DEF FileInv

LEMMA FileInvImplies == FileInv => SnapshotsSurvive
<1> SUFFICES ASSUME FileInv PROVE SnapshotsSurvive
  OBVIOUS
<1>1. file \in Seq(FileLines)
  BY DEF FileInv
<1>2. ASSUME torn = "none" PROVE LoadLatestSnapshot = ReadThrough(file).latest
  <2>1. LoadLatestSnapshot = ReadThrough(file \o <<>>).latest
    BY <1>2, Zenon DEF LoadLatestSnapshot
  <2>2. file \o <<>> = file
    BY <1>1
  <2> QED BY <2>1, <2>2
<1>3. IntactSnapshotLoaded
  BY <1>2, Zenon DEF FileInv, IntactSnapshotLoaded
<1>4. CutsBetweenLinesHarmless
  <2>1. DOMAIN file = 1 .. Len(file)
    BY <1>1
  <2>2. SUFFICES ASSUME torn = "none", Clean(file)
                 PROVE  IF EndsIn(file) = {} THEN LoadLatestSnapshot = <<>>
                        ELSE LET last == CHOOSE i \in EndsIn(file) : \A j \in EndsIn(file) : j <= i
                             IN  LoadLatestSnapshot = Captured(file[last - 1].record[1])
    BY <2>1, Zenon DEF CutsBetweenLinesHarmless, Clean, EndsIn
  <2>3. LatestKept(file) /\ LoadLatestSnapshot = ReadThrough(file).latest
    BY <1>2, <2>2, Zenon DEF FileInv
  <2>4. CASE EndsIn(file) = {}
    BY <2>3, <2>4 DEF LatestKept
  <2>5. CASE EndsIn(file) # {}
    <3>1. PICK g \in EndsIn(file) : LastEnds(file, g)
      BY <2>3, <2>5 DEF LatestKept
    <3>2. PICK last : last = CHOOSE i \in EndsIn(file) : \A j \in EndsIn(file) : j <= i
      OBVIOUS
    <3>3. last \in EndsIn(file) /\ \A j \in EndsIn(file) : j <= last
      BY <3>1, <3>2, Zenon DEF LastEnds
    <3>4. last = g
      <4>1. last <= g /\ g <= last /\ last \in Int /\ g \in Int
        BY <3>1, <3>3 DEF LastEnds, EndsIn
      <4> QED BY <4>1
    <3>5. LoadLatestSnapshot = Captured(file[last - 1].record[1])
      BY <2>3, <3>1, <3>4 DEF LastEnds
    <3> QED BY <2>5, <3>2, <3>5
  <2> QED BY <2>4, <2>5
<1> QED BY <1>3, <1>4 DEF SnapshotsSurvive

\* Wherever the process ended while it appended to the file of L2 snapshots, a snapshot
\* that was written whole on lines of its own is what loadLatestSnapshotFromFile
\* returns; and while appends were cut only between lines, it returns the last snapshot
\* that was ended: for snapshots of any size and any number of appends.
THEOREM SnapshotsAreKept == FileSpec => []SnapshotsSurvive
BY FileInvImplies, FileInvInit, FileInvNext, PTL DEF FileSpec

-----------------------------------------------------------------------------
(* All parts together.  They share no variable, so a behaviour of the node *)
(* is a behaviour of each.                                                 *)

settlementVars == <<vars, swarmVars, goldVars, ledgerVars, fileVars, part>>

LEMMA EveryPartMoves ==
  [SettlementNext]_settlementVars =>
    /\ [Next]_vars /\ [SwarmNext]_swarmVars /\ [GoldNext]_goldVars
    /\ [LedgerNext]_ledgerVars /\ [FileNext]_fileVars
<1> SUFFICES ASSUME [SettlementNext]_settlementVars
             PROVE  /\ [Next]_vars /\ [SwarmNext]_swarmVars /\ [GoldNext]_goldVars
                    /\ [LedgerNext]_ledgerVars /\ [FileNext]_fileVars
  OBVIOUS
<1>1. CASE UNCHANGED settlementVars
  BY <1>1 DEF settlementVars
<1>2. CASE SettlementNext
  BY <1>2 DEF SettlementNext
<1> QED
  BY <1>1, <1>2

\* The node that runs them all behaves, part by part, as the swaps, the swarm, the gold
\* bridge, the ledger and the snapshot file do alone.
THEOREM PartsSideBySide ==
  SettlementSpec => Spec /\ SwarmSpec /\ GoldSpec /\ LedgerSpec /\ FileSpec
<1>1. SettlementInit => Init /\ SwarmInit /\ GoldInit /\ LedgerInit /\ FileInit
  BY DEF SettlementInit
<1> QED
  BY <1>1, EveryPartMoves, PTL
     DEF SettlementSpec, settlementVars, Spec, SwarmSpec, GoldSpec, LedgerSpec, FileSpec

\* Every variable of the parts keeps its type, balances and reputations their range, in
\* the node that runs them all.
THEOREM SettlementTypeCorrect == SettlementSpec => []SettlementTypeOK
BY PartsSideBySide, SwapTypeCorrect, SwarmTypeCorrect, GoldTypeCorrect, LedgerTypeCorrect, PTL
   DEF SettlementTypeOK

=============================================================================
