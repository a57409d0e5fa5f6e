------------------------------ MODULE BoundedFifo ------------------------------
(***************************************************************************)
(* What a memory channel promises: values come out in the order in which   *)
(* they were offered, each at most once.  Offers beyond the capacity are   *)
(* only waiting to be taken on, and those may be withdrawn; an offer that  *)
(* was taken on is never lost while there is somebody to receive it.       *)
(***************************************************************************)
EXTENDS Naturals, Sequences

CONSTANT Value

VARIABLES
    capacity,  \* how many offers are taken on
    offered,   \* values taken on, and behind them values waiting to be
    delivered, \* values received, in order
    broken     \* there is nobody left to receive

fifoVars == <<capacity, offered, delivered, broken>>

FifoInit == capacity \in Nat /\ offered = <<>> /\ delivered = <<>> /\ broken = FALSE

Offer(v) ==
    /\ ~broken
    /\ offered' = Append(offered, v)
    /\ UNCHANGED <<delivered, broken>>

\* A value goes straight from its sender to a receiver that was waiting.
Handover(v) ==
    /\ ~broken
    /\ offered = <<>>
    /\ delivered' = Append(delivered, v)
    /\ UNCHANGED <<offered, broken>>

Take ==
    /\ offered # <<>>
    /\ delivered' = Append(delivered, Head(offered))
    /\ offered' = Tail(offered)
    /\ UNCHANGED broken

\* Some of the offers that are only waiting are withdrawn; the others, those at
\* the positions kept, stay in their order.
Withdraw ==
    /\ \E kept \in [1 .. Len(offered') -> 1 .. Len(offered)] :
          /\ \A i, j \in 1 .. Len(offered') : i < j => kept[i] < kept[j]
          /\ \A i \in 1 .. Len(offered') : offered'[i] = offered[kept[i]]
          /\ \A k \in 1 .. Len(offered) :
                k <= capacity => \E i \in 1 .. Len(offered') : kept[i] = k
    /\ UNCHANGED <<delivered, broken>>

\* The last receiver goes away, and with it everything that was offered.
Break ==
    /\ broken' = TRUE
    /\ offered' = <<>>
    /\ UNCHANGED delivered

FifoNext ==
    /\ \/ \E v \in Value : Offer(v) \/ Handover(v)
       \/ Take
       \/ Withdraw
       \/ Break
    /\ UNCHANGED capacity

FifoSpec == FifoInit /\ [][FifoNext]_fifoVars
================================================================================
