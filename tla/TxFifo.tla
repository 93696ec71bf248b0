------------------------------- MODULE TxFifo -------------------------------
(***************************************************************************)
(* What the mempool and the block producer promise together: transactions  *)
(* that are accepted and valid are included in blocks in the order they    *)
(* were accepted in, each acceptance once and none left out.               *)
(***************************************************************************)
EXTENDS Naturals, Sequences

CONSTANT Entries     \* accepted transactions

VARIABLES
  waiting,   \* accepted, valid and not included yet, in order
  included   \* included in blocks, in order

FifoInit == waiting = <<>> /\ included = <<>>

Accept(e) ==
  /\ waiting' = Append(waiting, e)
  /\ UNCHANGED included

\* A block takes some of the oldest.
Include(n) ==
  /\ included' = included \o SubSeq(waiting, 1, n)
  /\ waiting' = SubSeq(waiting, n + 1, Len(waiting))

FifoNext ==
  \/ \E e \in Entries : Accept(e)
  \/ \E n \in 1 .. Len(waiting) : Include(n)

FifoSpec == FifoInit /\ [][FifoNext]_<<waiting, included>>

=============================================================================
