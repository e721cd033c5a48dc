---------------------------- MODULE BoundedFifo -----------------------------
(***************************************************************************)
(* What common/lock_free_queue.hpp promises: a FIFO of at most Capacity    *)
(* items whose push and pop take effect at one instant.  A push is refused *)
(* only when the queue is full at that instant, a pop only when it is      *)
(* empty.                                                                  *)
(***************************************************************************)
EXTENDS Integers, Sequences

CONSTANTS Capacity, Items, Producers

VARIABLES queue,   \* the items, oldest first
          sent,    \* what the current push of each producer returned, if it has taken effect
          got      \* whether the current pop has taken effect, and the item it took, if any

fifoVars == <<queue, sent, got>>

FifoInit == /\ queue = <<>>
            /\ sent = [p \in Producers |-> "idle"]
            /\ got = [done |-> FALSE, taken |-> <<>>]

Put(p, item) == /\ sent[p] = "idle"
                /\ Len(queue) < Capacity
                /\ queue' = Append(queue, item)
                /\ sent' = [sent EXCEPT ![p] = "accepted"]
                /\ UNCHANGED got

PutRefused(p) == /\ sent[p] = "idle"
                 /\ Len(queue) = Capacity
                 /\ sent' = [sent EXCEPT ![p] = "refused"]
                 /\ UNCHANGED <<queue, got>>

PutEnds(p) == /\ sent[p] # "idle"
              /\ sent' = [sent EXCEPT ![p] = "idle"]
              /\ UNCHANGED <<queue, got>>

Take == /\ ~ got.done
        /\ queue # <<>>
        /\ got' = [done |-> TRUE, taken |-> <<Head(queue)>>]
        /\ queue' = Tail(queue)
        /\ UNCHANGED sent

TakeRefused == /\ ~ got.done
               /\ queue = <<>>
               /\ got' = [done |-> TRUE, taken |-> <<>>]
               /\ UNCHANGED <<queue, sent>>

TakeEnds == /\ got.done
            /\ got' = [done |-> FALSE, taken |-> <<>>]
            /\ UNCHANGED <<queue, sent>>

FifoNext == \/ \E p \in Producers : \/ \E item \in Items : Put(p, item)
                                    \/ PutRefused(p)
                                    \/ PutEnds(p)
            \/ Take \/ TakeRefused \/ TakeEnds

FifoSpec == FifoInit /\ [][FifoNext]_fifoVars
=============================================================================
