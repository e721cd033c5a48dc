--------------------------- MODULE LockFreeQueue ----------------------------
(***************************************************************************)
(* common/lock_free_queue.hpp: the ring through which the host's threads   *)
(* hand frames and packets on (encodeQueue between the capture thread and  *)
(* the packetizer, sendQueue in front of the sender thread).               *)
(*                                                                         *)
(* One step per access to shared memory.  Only the indices are atomic; a   *)
(* slot is a unique_ptr or vector that is moved, so a slot that has been   *)
(* moved from holds Null.  The indices are size_t, that is, integers       *)
(* modulo IndexMod (2^64 in the code), and they do wrap here.              *)
(*                                                                         *)
(* The class is written for one producer.  Producers is a parameter so     *)
(* that the use session_manager.cpp makes of sendQueue can be checked too. *)
(***************************************************************************)
EXTENDS Integers, Sequences

CONSTANTS Capacity,   \* slots, a power of two in the code (static_assert)
          IndexMod,   \* the range of the indices
          Items,      \* what may be pushed
          Producers,  \* threads that call push
          Null        \* a default-constructed or moved-from item

ASSUME QueueAssumption ==
    /\ Capacity \in Nat \ {0}
    /\ IndexMod \in Nat
    /\ IndexMod > Capacity
    /\ IndexMod % Capacity = 0
    /\ Null \notin Items

Index == 0 .. IndexMod - 1

VARIABLES m_buffer,   \* slot -> item
          m_head, m_tail,
          push,       \* producer -> the state of its call of push
          pop         \* the state of the consumer's call of pop

queueVars == <<m_buffer, m_head, m_tail, push, pop>>

SlotShort(i) == i % (Capacity - 1)       \* mutant: a slot is never used
Slot(i)      == i % Capacity             \* i & (Capacity - 1)

Succ(i)          == (i + 1) % IndexMod

Dist(t, h) == (t - h) % IndexMod         \* unsigned t - h

Full(t, h)        == Dist(t, h) >= Capacity

NeverEmpty(h, t) == FALSE                \* mutant: pop without the empty test
Empty(h, t)      == h = t

\* pc: idle -> head -> write -> store -> done (ok says what push returns)
PushState == [pc : {"idle", "head", "write", "store", "done"},
              item : Items \cup {Null}, tail : Index, ok : BOOLEAN]

\* pc: idle -> tail -> move -> store -> done
PopState == [pc : {"idle", "tail", "move", "store", "done"},
             item : Items \cup {Null}, head : Index, ok : BOOLEAN]

QueueInit == /\ m_buffer = [s \in 0 .. Capacity - 1 |-> Null]
             /\ m_head = 0
             /\ m_tail = 0
             /\ push = [p \in Producers |-> [pc |-> "idle", item |-> Null,
                                             tail |-> 0, ok |-> FALSE]]
             /\ pop = [pc |-> "idle", item |-> Null, head |-> 0, ok |-> FALSE]

-----------------------------------------------------------------------------
\* push

PushLoadTail(p, item) ==
    /\ push[p].pc = "idle"
    /\ push' = [push EXCEPT ![p] = [@ EXCEPT !.pc = "head", !.item = item, !.tail = m_tail]]
    /\ UNCHANGED <<m_buffer, m_head, m_tail, pop>>

\* Loads the head and returns false when the queue is full; the caller keeps
\* its item then.
PushLoadHead(p) ==
    /\ push[p].pc = "head"
    /\ push' = IF Full(push[p].tail, m_head)
               THEN [push EXCEPT ![p] = [@ EXCEPT !.pc = "done", !.ok = FALSE]]
               ELSE [push EXCEPT ![p] = [@ EXCEPT !.pc = "write"]]
    /\ UNCHANGED <<m_buffer, m_head, m_tail, pop>>

PushWrite(p) ==
    /\ push[p].pc = "write"
    /\ m_buffer' = [m_buffer EXCEPT ![Slot(push[p].tail)] = push[p].item]
    /\ push' = [push EXCEPT ![p] = [@ EXCEPT !.pc = "store", !.item = Null]]
    /\ UNCHANGED <<m_head, m_tail, pop>>

PushStoreTail(p) ==
    /\ push[p].pc = "store"
    /\ m_tail' = Succ(push[p].tail)
    /\ push' = [push EXCEPT ![p] = [@ EXCEPT !.pc = "done", !.ok = TRUE]]
    /\ UNCHANGED <<m_buffer, m_head, pop>>

PushReturn(p) ==
    /\ push[p].pc = "done"
    /\ push' = [push EXCEPT ![p] = [pc |-> "idle", item |-> Null, tail |-> 0, ok |-> FALSE]]
    /\ UNCHANGED <<m_buffer, m_head, m_tail, pop>>

-----------------------------------------------------------------------------
\* pop

PopLoadHead ==
    /\ pop.pc = "idle"
    /\ pop' = [pop EXCEPT !.pc = "tail", !.head = m_head]
    /\ UNCHANGED <<m_buffer, m_head, m_tail, push>>

PopLoadTail ==
    /\ pop.pc = "tail"
    /\ pop' = IF Empty(pop.head, m_tail)
              THEN [pop EXCEPT !.pc = "done", !.ok = FALSE]
              ELSE [pop EXCEPT !.pc = "move"]
    /\ UNCHANGED <<m_buffer, m_head, m_tail, push>>

PopMove ==
    /\ pop.pc = "move"
    /\ pop' = [pop EXCEPT !.pc = "store", !.item = m_buffer[Slot(pop.head)]]
    /\ m_buffer' = [m_buffer EXCEPT ![Slot(pop.head)] = Null]
    /\ UNCHANGED <<m_head, m_tail, push>>

PopStoreHead ==
    /\ pop.pc = "store"
    /\ m_head' = Succ(pop.head)
    /\ pop' = [pop EXCEPT !.pc = "done", !.ok = TRUE]
    /\ UNCHANGED <<m_buffer, m_tail, push>>

PopReturn ==
    /\ pop.pc = "done"
    /\ pop' = [pc |-> "idle", item |-> Null, head |-> 0, ok |-> FALSE]
    /\ UNCHANGED <<m_buffer, m_head, m_tail, push>>

-----------------------------------------------------------------------------
PushStep(p) == \/ \E item \in Items : PushLoadTail(p, item)
               \/ PushLoadHead(p) \/ PushWrite(p) \/ PushStoreTail(p) \/ PushReturn(p)

PopStep == PopLoadHead \/ PopLoadTail \/ PopMove \/ PopStoreHead \/ PopReturn

QueueNext == (\E p \in Producers : PushStep(p)) \/ PopStep

QueueSpec == QueueInit /\ [][QueueNext]_queueVars

-----------------------------------------------------------------------------
\* Types of the queue's state.
QueueTypeOK == /\ m_buffer \in [0 .. Capacity - 1 -> Items \cup {Null}]
               /\ m_head \in Index
               /\ m_tail \in Index
               /\ push \in [Producers -> PushState]
               /\ pop \in PopState

Size == Dist(m_tail, m_head)

\* push never lets the indices run more than Capacity apart, so a slot is
\* never written while the item in it has not been taken (lock_free_queue.hpp
\* 29-34: the full test, the write and the publication are three steps).
NeverOverfull == Size <= Capacity

\* A thread that is about to touch a slot is the only one: the producer that
\* writes and the consumer that moves out are never at the same slot.
NoSlotRace ==
    \A p \in Producers :
        (push[p].pc = "write" /\ pop.pc = "move") =>
            Slot(push[p].tail) # Slot(pop.head)

\* The item at distance i from the head, seen from outside: while pop has
\* moved it out and not yet stored the head, it is in the consumer's hand.
Entry(i) == IF i = 0 /\ pop.pc = "store" THEN pop.item
            ELSE m_buffer[Slot((m_head + i) % IndexMod)]

Fifo == INSTANCE BoundedFifo WITH
            queue <- [i \in 1 .. Size |-> Entry(i - 1)],
            sent  <- [p \in Producers |-> IF push[p].pc # "done" THEN "idle"
                                          ELSE IF push[p].ok THEN "accepted" ELSE "refused"],
            got   <- [done  |-> pop.pc = "done",
                      taken |-> IF pop.pc = "done" /\ pop.ok THEN <<pop.item>> ELSE <<>>]

\* push and pop behave as operations of a bounded FIFO that take effect at one
\* instant: nothing accepted is lost, duplicated or reordered, "full" and
\* "empty" are returned only when true.
ImplementsFifo == Fifo!FifoSpec
=============================================================================
