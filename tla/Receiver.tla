------------------------------ MODULE Receiver ------------------------------
(***************************************************************************)
(* Client::Receiver (client/receiver.cpp): reassembly of video frames from *)
(* fragments.  A frame under reassembly sits in slot frameId % RingSize of *)
(* m_frameRing; frames are handed out strictly in the order of their ids;  *)
(* the buffers come from a pool and return to it through FrameDeleter.     *)
(* Every method takes m_mutex for its whole body, so each is one action.   *)
(*                                                                         *)
(* Buffers of the pool are interchangeable and Reset() clears one before   *)
(* it is used, so the pool is a count of free buffers.  Payload bytes are  *)
(* left out: what matters of a fragment is that it has been stored.        *)
(* m_lastCompletedFrameId is written and never read, so it is left out.    *)
(* A parity (FEC) packet covers up to FecGroup fragments of a frame and    *)
(* restores one of them when the others are there.                         *)
(*                                                                         *)
(* The two checks of a fragment's size (at most MAX_UDP_PAYLOAD, and       *)
(* inside the buffer of 1 MiB) are left out: the host cuts frames of at    *)
(* most 1 MiB, packetPool's packets, into pieces of that size, which pass  *)
(* both.  So is the like check of TryRecover, which only the last fragment *)
(* of a frame of over 806 full ones can fail.                              *)
(***************************************************************************)
EXTENDS Integers, FiniteSets, FiniteSetsExt

CONSTANTS RingSize,       \* slots of m_frameRing: 64
          PoolSize,       \* buffers allocated by the constructor: 30
          MaxFragments,   \* fragments a frame may have: 1024
          NackSpan,       \* frames GetPendingNACKs looks at: 32
          MaxNacks,       \* fragments it asks for at a time: 10
          FecGroup,       \* fragments one parity packet covers: 5
          FecRing,        \* slots of m_fecRing: 1024
          FecPool,        \* packets of m_fecPool: 512
          FecStride,      \* slots set aside for a frame: 13
          NoGroup,        \* a slot of m_fecRing that has received nothing
          NoFrame         \* a null FrameData pointer

ASSUME ReceiverAssumption ==
    /\ RingSize \in Nat \ {0}
    /\ PoolSize \in Nat
    /\ MaxFragments \in Nat \ {0}
    /\ NackSpan \in Nat
    /\ MaxNacks \in Nat
    /\ FecGroup \in Nat \ {0}
    /\ FecRing \in Nat \ {0}
    /\ FecPool \in Nat
    /\ FecStride \in Nat

VARIABLES m_frameRing,          \* slot -> frame or NoFrame
          m_nextFrameIdToRead,
          m_firstFrameReceived,
          m_framePool,          \* number of free buffers
          m_frameStorage,       \* number of buffers ever allocated
          m_fecRing,            \* slot -> [frameId, fragmentStart, fragmentCount] or NoGroup
          m_fecPool,            \* number of free parity packets
          nullDeref             \* ProcessFEC has used a packet it did not get

frameVars == <<m_frameRing, m_nextFrameIdToRead, m_firstFrameReceived,
               m_framePool, m_frameStorage>>
fecVars == <<m_fecRing, m_fecPool, nullDeref>>
receiverVars == <<frameVars, fecVars>>

Slots == 0 .. RingSize - 1
RingSlot(id) == id % RingSize

\* The frame id is looked up the way the code does: the slot's frame, if it is
\* the right one.
InRing(id) == /\ m_frameRing[RingSlot(id)] # NoFrame
              /\ m_frameRing[RingSlot(id)].frameId = id

ReceiverInit == /\ m_frameRing = [s \in Slots |-> NoFrame]
                /\ m_nextFrameIdToRead = 0
                /\ m_firstFrameReceived = FALSE
                /\ m_framePool = PoolSize
                /\ m_frameStorage = PoolSize
                /\ m_fecRing = [s \in 0 .. FecRing - 1 |-> NoGroup]
                /\ m_fecPool = FecPool
                /\ nullDeref = FALSE

-----------------------------------------------------------------------------
\* FrameData after Reset() and the assignments from the header.
NewFrame(h) == [frameId |-> h.frameId, totalFragments |-> h.totalFragments,
                isKeyframe |-> h.isKeyframe, fragmentMap |-> {},
                fragmentsReceived |-> 0, isComplete |-> FALSE]

\* TryRecover on a frame of the ring: the parity packet of the group restores
\* the fragment that is missing, when exactly one is.
GroupStartSelf(i) == i                   \* mutant: the fragment itself
GroupStart(i) == (i \div FecGroup) * FecGroup
FecSlot(id, start) == (id * FecStride + start \div FecGroup) % FecRing

\* Mutant: the parity of whatever group has the slot.
HasAnyGroup(fecRing, id, start) == fecRing[FecSlot(id, start)] # NoGroup

HasGroup(fecRing, id, start) ==
    /\ fecRing[FecSlot(id, start)] # NoGroup
    /\ fecRing[FecSlot(id, start)].frameId = id
    /\ fecRing[FecSlot(id, start)].fragmentStart = start

MissingOf(f, group) ==
    {i \in group.fragmentStart .. group.fragmentStart + group.fragmentCount - 1 :
        i < f.totalFragments /\ i \notin f.fragmentMap}

TryRecover(f, start, fecRing) ==
    LET group   == fecRing[FecSlot(f.frameId, start)]
        missing == MissingOf(f, group)
    IN  IF /\ ~ f.isComplete
           /\ HasGroup(fecRing, f.frameId, start)
           /\ Cardinality(missing) = 1
        THEN [f EXCEPT !.fragmentMap = @ \cup missing,
                       !.fragmentsReceived = @ + 1,
                       !.isComplete = f.fragmentsReceived + 1 = f.totalFragments]
        ELSE f

Misses(f, i) == i < f.totalFragments /\ i \notin f.fragmentMap

AllReceived(f) == f.fragmentsReceived = f.totalFragments

\* Stores a fragment that is not there yet, tries to restore another one of its
\* group, and completes the frame with the last one.
WithFragment(f, i) ==
    LET stored == [f EXCEPT !.fragmentMap = @ \cup {i}, !.fragmentsReceived = @ + 1]
        g == IF Misses(f, i) THEN TryRecover(stored, GroupStart(i), m_fecRing) ELSE f
    IN  [g EXCEPT !.isComplete = @ \/ AllReceived(g)]

\* Free buffers once the frame that has the slot of id is back in the pool.
FreeLeaky(id) == m_framePool             \* mutant: it is not returned
Free(id) == m_framePool + (IF m_frameRing[RingSlot(id)] # NoFrame THEN 1 ELSE 0)

\* Takes the slot of h.frameId: a frame with another id is returned to the
\* pool, and a buffer is taken from the pool or, when it is empty, allocated.
AcquireSlot(h) ==
    LET free == Free(h.frameId)
    IN  /\ m_framePool' = IF free > 0 THEN free - 1 ELSE 0
        /\ m_frameStorage' = IF free > 0 THEN m_frameStorage ELSE m_frameStorage + 1
        /\ m_frameRing' = [m_frameRing EXCEPT ![RingSlot(h.frameId)] =
                              WithFragment(NewFrame(h), h.fragmentIndex)]

\* Reassembly starts with a keyframe, so that the decoder does.
Begins(h) == m_firstFrameReceived \/ h.isKeyframe

ProcessPacket(h) ==
    LET next   == IF m_firstFrameReceived THEN m_nextFrameIdToRead ELSE h.frameId
        useful == /\ h.frameId >= next
                  /\ h.totalFragments <= MaxFragments
    IN  /\ UNCHANGED fecVars
        /\ \/ /\ ~ Begins(h)
              /\ UNCHANGED frameVars
           \/ /\ Begins(h)
              /\ m_firstFrameReceived' = TRUE
              /\ m_nextFrameIdToRead' = next
              /\ \/ /\ ~ useful
                    /\ UNCHANGED <<m_frameRing, m_framePool, m_frameStorage>>
                 \/ /\ useful
                    /\ ~ InRing(h.frameId)
                    /\ AcquireSlot(h)
                 \/ /\ useful
                    /\ InRing(h.frameId)
                    /\ m_frameRing' = [m_frameRing EXCEPT ![RingSlot(h.frameId)] =
                                          WithFragment(@, h.fragmentIndex)]
                    /\ UNCHANGED <<m_framePool, m_frameStorage>>

\* Free parity packets once the slot's packet is back in the pool.
FreeParityLeaky(slot) == m_fecPool       \* mutant: it is not released
FreeParity(slot) == m_fecPool + (IF m_fecRing[slot] # NoGroup THEN 1 ELSE 0)

\* A parity packet of the group [frameId, fragmentStart, fragmentCount].  The
\* packet of the slot's last user is released before one is acquired; acquire
\* returns nothing when the pool is empty, and that is not tested.
ProcessFEC(group) ==
    LET slot == FecSlot(group.frameId, group.fragmentStart)
        known == HasGroup(m_fecRing, group.frameId, group.fragmentStart)
        free == FreeParity(slot)
        ring == [m_fecRing EXCEPT ![slot] = group]
    IN  \/ /\ group.frameId < m_nextFrameIdToRead \/ known
           /\ UNCHANGED receiverVars
        \/ /\ group.frameId >= m_nextFrameIdToRead
           /\ ~ known
           /\ \/ /\ free = 0
                 /\ nullDeref' = TRUE
                 /\ UNCHANGED <<frameVars, m_fecRing, m_fecPool>>
              \/ /\ free > 0
                 /\ m_fecPool' = free - 1
                 /\ m_fecRing' = ring
                 /\ m_frameRing' = IF InRing(group.frameId)
                                   THEN [m_frameRing EXCEPT ![RingSlot(group.frameId)] =
                                            TryRecover(@, group.fragmentStart, ring)]
                                   ELSE m_frameRing
                 /\ UNCHANGED <<m_nextFrameIdToRead, m_firstFrameReceived, m_framePool,
                                m_frameStorage, nullDeref>>

\* GetNextFrame returns NextFrame and gives up its slot.
NextFrame == m_frameRing[RingSlot(m_nextFrameIdToRead)]
NextIsReady == /\ InRing(m_nextFrameIdToRead)
               /\ NextFrame.isComplete

GetNextFrame ==
    /\ NextIsReady
    /\ m_frameRing' = [m_frameRing EXCEPT ![RingSlot(m_nextFrameIdToRead)] = NoFrame]
    /\ m_nextFrameIdToRead' = m_nextFrameIdToRead + 1
    /\ UNCHANGED <<m_firstFrameReceived, m_framePool, m_frameStorage, fecVars>>

\* Mutant of the next definition: any complete frame will do.
CompleteFrames ==
    {id \in m_nextFrameIdToRead .. m_nextFrameIdToRead + RingSize - 1 :
        InRing(id) /\ m_frameRing[RingSlot(id)].isComplete}

\* Complete keyframes among the RingSize ids from the read pointer on.
CompleteKeyframes ==
    {id \in m_nextFrameIdToRead .. m_nextFrameIdToRead + RingSize - 1 :
        /\ InRing(id)
        /\ m_frameRing[RingSlot(id)].isComplete
        /\ m_frameRing[RingSlot(id)].isKeyframe}

\* Mutant: the scan ends at the first frame that is not there.
KeyframeBeforeHole ==
    LET reached == {id \in CompleteKeyframes : \A k \in m_nextFrameIdToRead .. id : InRing(k)}
    IN  IF reached = {} THEN 0 ELSE Max(reached)

\* What FindLatestAvailableKeyframe returns; 0 also stands for "none".
LatestAvailableKeyframe ==
    IF CompleteKeyframes = {} THEN 0 ELSE Max(CompleteKeyframes)

Skipped(id) == {f \in m_nextFrameIdToRead .. id - 1 : InRing(f)}

ForceAdvanceTo(id) ==
    LET skipped == Skipped(id)
    IN  \/ /\ id <= m_nextFrameIdToRead
           /\ UNCHANGED receiverVars
        \/ /\ id > m_nextFrameIdToRead
           /\ m_frameRing' = [s \in Slots |-> IF \E f \in skipped : RingSlot(f) = s
                                              THEN NoFrame ELSE m_frameRing[s]]
           /\ m_framePool' = m_framePool + Cardinality(skipped)
           /\ m_nextFrameIdToRead' = id
           /\ UNCHANGED <<m_firstFrameReceived, m_frameStorage, fecVars>>

\* FrameDeleter: a buffer comes back from whoever held the frame.
ReturnToPoolRaw ==
    /\ m_framePool' = m_framePool + 1
    /\ UNCHANGED <<m_frameRing, m_nextFrameIdToRead, m_firstFrameReceived, m_frameStorage,
                   fecVars>>

\* Frames whose fragments are asked for.
NackIdsAhead == m_nextFrameIdToRead + 1 .. m_nextFrameIdToRead + NackSpan     \* mutant
NackIds == m_nextFrameIdToRead .. m_nextFrameIdToRead + NackSpan - 1

\* What GetPendingNACKs returns: the first MaxNacks missing fragments, by frame
\* and fragment, of the incomplete frames near the read pointer.  A frame of
\* which nothing has arrived is not in the ring and is not asked for.
MissingFragments ==
    {n \in NackIds \X (0 .. MaxFragments - 1) :
        /\ InRing(n[1])
        /\ ~ m_frameRing[RingSlot(n[1])].isComplete
        /\ n[2] < m_frameRing[RingSlot(n[1])].totalFragments
        /\ n[2] \notin m_frameRing[RingSlot(n[1])].fragmentMap}

Before(m, n) == m[1] < n[1] \/ (m[1] = n[1] /\ m[2] < n[2])

PendingNACKs ==
    {n \in MissingFragments :
        Cardinality({m \in MissingFragments : Before(m, n)}) < MaxNacks}

-----------------------------------------------------------------------------
FrameType == [frameId : Nat, totalFragments : 0 .. MaxFragments, isKeyframe : BOOLEAN,
              fragmentMap : SUBSET (0 .. MaxFragments - 1),
              fragmentsReceived : 0 .. MaxFragments, isComplete : BOOLEAN]
GroupType == [frameId : Nat, fragmentStart : Nat, fragmentCount : Nat]

\* The null pointers are no frame and no packet.
ASSUME NullAssumption == NoFrame \notin FrameType /\ NoGroup \notin GroupType

\* Types of the receiver's state.
ReceiverTypeOK ==
    /\ m_frameRing \in [Slots -> FrameType \cup {NoFrame}]
    /\ m_nextFrameIdToRead \in Nat
    /\ m_firstFrameReceived \in BOOLEAN
    /\ m_framePool \in Nat
    /\ m_frameStorage \in Nat
    /\ m_fecRing \in [0 .. FecRing - 1 -> GroupType \cup {NoGroup}]
    /\ m_fecPool \in Nat
    /\ nullDeref \in BOOLEAN

\* Buffers sitting in the ring.
Reassembling == {s \in Slots : m_frameRing[s] # NoFrame}
=============================================================================
