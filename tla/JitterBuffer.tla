---------------------------- MODULE JitterBuffer ----------------------------
(***************************************************************************)
(* Client::JitterBuffer (client/jitter_buffer.cpp): the complete frames    *)
(* that wait for their presentation time, in a ring indexed by frame id.   *)
(* PushFrame and Reset may drop frames; a dropped frame goes back to the   *)
(* receiver's pool when its FramePtr is destroyed, so the actions say how  *)
(* many buffers they let go (released).                                    *)
(*                                                                         *)
(* Time is abstracted: PopFrame returns nothing when it is too early for   *)
(* the frame, which is a choice of the environment.                        *)
(***************************************************************************)
EXTENDS Integers, FiniteSets, FiniteSetsExt

CONSTANTS JitterSize,     \* slots of m_ring and m_info: 32
          JitterMargin,   \* slots kept free of frames: 4
          NoEntry         \* an empty FramePtr

ASSUME JitterAssumption == /\ JitterSize \in Nat \ {0}
                           /\ JitterMargin \in Nat \ {0}
                           /\ JitterMargin < JitterSize

VARIABLES m_ring,            \* slot -> frame or NoEntry
          m_info,            \* slot -> [frameId, occupied]
          m_nextPopFrameId,
          m_initialized,
          m_count

jitterVars == <<m_ring, m_info, m_nextPopFrameId, m_initialized, m_count>>

JitterSlots == 0 .. JitterSize - 1
JitterSlot(id) == id % JitterSize

JitterInit == /\ m_ring = [s \in JitterSlots |-> NoEntry]
              /\ m_info = [s \in JitterSlots |-> [frameId |-> 0, occupied |-> FALSE]]
              /\ m_nextPopFrameId = 0
              /\ m_initialized = FALSE
              /\ m_count = 0

\* The occupied slot with the smallest id among the ids from next on (all slots
\* of the ring are visited once).
Occupied(info) == {info[s].frameId : s \in {t \in JitterSlots : info[t].occupied}}
OldestId(info) == Min(Occupied(info))

\* The read pointer as PushFrame(frame) sees it: the first frame sets it.
Expected(frame) == IF m_initialized THEN m_nextPopFrameId ELSE frame.frameId

\* PushFrame(frame) when the frame is too old or already there: it is dropped.
PushRefused(frame) ==
    LET slot == JitterSlot(frame.frameId)
    IN  \/ frame.frameId < Expected(frame)
        \/ m_ring[slot] # NoEntry /\ m_ring[slot].frameId = frame.frameId

\* The read pointer after the frame old was dropped.
NextUnmoved(old, next) == next                        \* mutant of NextAfterDrop
NextAfterDrop(old, next) == IF old = next THEN next + 1 ELSE next

\* PushFrame(frame).  The loop that drops the oldest frame runs at most once,
\* because a push adds one frame.
PushFrame(frame, released) ==
    LET next  == Expected(frame)
        slot  == JitterSlot(frame.frameId)
        ring  == [m_ring EXCEPT ![slot] = frame]
        info  == [m_info EXCEPT ![slot] = [frameId |-> frame.frameId, occupied |-> TRUE]]
        old   == OldestId(info)
        evicted == IF m_ring[slot] # NoEntry THEN 1 ELSE 0
    IN  /\ m_initialized' = TRUE
        /\ \/ /\ PushRefused(frame)
              /\ released = 1
              /\ m_nextPopFrameId' = next
              /\ UNCHANGED <<m_ring, m_info, m_count>>
           \/ /\ ~ PushRefused(frame)
              /\ m_count + 1 <= JitterSize - JitterMargin
              /\ released = evicted
              /\ m_ring' = ring
              /\ m_info' = info
              /\ m_count' = m_count + 1
              /\ m_nextPopFrameId' = next
           \/ /\ ~ PushRefused(frame)
              /\ m_count + 1 > JitterSize - JitterMargin
              /\ released = evicted + (IF ring[JitterSlot(old)] # NoEntry THEN 1 ELSE 0)
              /\ m_ring' = [ring EXCEPT ![JitterSlot(old)] = NoEntry]
              /\ m_info' = [info EXCEPT ![JitterSlot(old)].occupied = FALSE]
              /\ m_count' = m_count
              /\ m_nextPopFrameId' = NextAfterDrop(old, next)

\* The frame PopFrame would return.
PopReady == /\ m_info[JitterSlot(m_nextPopFrameId)].occupied
            /\ m_info[JitterSlot(m_nextPopFrameId)].frameId = m_nextPopFrameId
PopCandidate == m_ring[JitterSlot(m_nextPopFrameId)]

PopFrame ==
    /\ PopReady
    /\ m_ring' = [m_ring EXCEPT ![JitterSlot(m_nextPopFrameId)] = NoEntry]
    /\ m_info' = [m_info EXCEPT ![JitterSlot(m_nextPopFrameId)].occupied = FALSE]
    /\ m_count' = m_count - 1
    /\ m_nextPopFrameId' = m_nextPopFrameId + 1
    /\ UNCHANGED m_initialized

\* Frames in the buffer.
Buffered == {s \in JitterSlots : m_ring[s] # NoEntry}

\* Mutant: Reset empties the buffer and leaves the read pointer.
ResetNotPointer(nextExpectedId, released) ==
    /\ released = Cardinality(Buffered)
    /\ m_ring' = [s \in JitterSlots |-> NoEntry]
    /\ m_info' = [s \in JitterSlots |-> [m_info[s] EXCEPT !.occupied = FALSE]]
    /\ m_count' = 0
    /\ m_initialized' = TRUE
    /\ UNCHANGED m_nextPopFrameId

Reset(nextExpectedId, released) ==
    /\ released = Cardinality(Buffered)
    /\ m_ring' = [s \in JitterSlots |-> NoEntry]
    /\ m_info' = [s \in JitterSlots |-> [m_info[s] EXCEPT !.occupied = FALSE]]
    /\ m_nextPopFrameId' = nextExpectedId
    /\ m_count' = 0
    /\ m_initialized' = TRUE

-----------------------------------------------------------------------------
\* What the buffer's two rings and its counter must agree on: a slot is
\* occupied exactly when it holds a frame, under that frame's id, and m_count
\* counts the occupied slots.  PushFrame, the overflow drop, PopFrame and Reset
\* each update the three by hand.
JitterCoherent ==
    /\ \A s \in JitterSlots :
          /\ m_info[s].occupied <=> m_ring[s] # NoEntry
          /\ m_info[s].occupied => /\ m_ring[s].frameId = m_info[s].frameId
                                   /\ JitterSlot(m_info[s].frameId) = s
    /\ m_count = Cardinality(Buffered)
=============================================================================
