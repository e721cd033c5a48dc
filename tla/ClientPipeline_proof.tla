------------------------- MODULE ClientPipeline_proof -------------------------
(***************************************************************************)
(* Proofs about the client's video path, for every number of frames,       *)
(* fragments and losses and every size of the rings: buffers are           *)
(* conserved, the two rings stay in step, and the decoder is given whole   *)
(* frames whose references it has.                                         *)
(***************************************************************************)
EXTENDS ClientPipeline, Receiver_proof, WellFoundedInduction

\* The host has sent a frame with this id, a keyframe.
Sent(id, sent) == id \in 0 .. Len(sent) - 1
KeyIn(id, sent) == Sent(id, sent) /\ sent[id + 1]

\* The fragments the host has sent.
SentPackets == {p \in Nat \X Nat : Sent(p[1], sentFrames) /\ p[2] < Fragments[p[1]]}

EnvSound ==
    /\ sentFrames \in Seq(BOOLEAN) /\ Len(sentFrames) <= MaxFrames
    /\ inFlight \subseteq SentPackets /\ arrived \subseteq SentPackets
    /\ arrived \cap inFlight = {}
    /\ lost \in Nat /\ lastFrameId \in Nat /\ netSeen \in Int
    /\ pc \in Labels /\ nextExpected \in Nat /\ latestKeyframe \in Nat /\ toReturn \in Nat
    /\ lastDecoded \in Int /\ overflowed \in BOOLEAN

\* A frame of the host's, with no fragment that has not arrived.
Genuine(f, sent, there) ==
    /\ Counted(f) /\ Whole(f)
    /\ Sent(f.frameId, sent)
    /\ f.totalFragments = Fragments[f.frameId]
    /\ f.isKeyframe = sent[f.frameId + 1]
    /\ \A i \in f.fragmentMap : <<f.frameId, i>> \in there

Delivered(f, sent, there) == Genuine(f, sent, there) /\ f.isComplete

\* The receiver's ring holds genuine frames; nobody calls ProcessFEC, and before the
\* first packet nothing has happened.
StreamSound ==
    /\ RingInv
    /\ \A s \in Reassembling : Genuine(m_frameRing[s], sentFrames, arrived)
    /\ m_fecRing = [s \in 0 .. FecRing - 1 |-> NoGroup]
    /\ ~ m_firstFrameReceived => m_nextFrameIdToRead = 0 /\ latestKeyframe = 0 /\ ~ m_initialized
    /\ latestKeyframe > 0 => KeyIn(latestKeyframe, sentFrames)
    /\ frame # NoFrame <=> pc \in {"push", "decode"}
    /\ frame # NoFrame => Delivered(frame, sentFrames, arrived)

\* A jitter buffer that holds the ids next .. next + count - 1, each in its slot of
\* the two rings, and nothing else.
Holding(ring, info, next, count) ==
    /\ ring \in [JitterSlots -> FrameType \cup {NoEntry}]
    /\ info \in [JitterSlots -> [frameId : Nat, occupied : BOOLEAN]]
    /\ next \in Nat /\ count \in Nat
    /\ \A s \in JitterSlots :
          /\ info[s].occupied <=> ring[s] # NoEntry
          /\ info[s].occupied => /\ ring[s].frameId = info[s].frameId
                                 /\ JitterSlot(info[s].frameId) = s
                                 /\ info[s].frameId \in next .. next + count - 1
    /\ \A id \in next .. next + count - 1 :
          /\ info[JitterSlot(id)].occupied
          /\ info[JitterSlot(id)].frameId = id
    /\ Cardinality({s \in JitterSlots : ring[s] # NoEntry}) = count

JitterSound ==
    /\ Holding(m_ring, m_info, m_nextPopFrameId, m_count)
    /\ m_count <= JitterSize - JitterMargin
    /\ m_initialized \in BOOLEAN
    /\ ~ m_initialized => m_count = 0
    /\ \A s \in Buffered : Delivered(m_ring[s], sentFrames, arrived)

\* The read pointers of the receiver and of the jitter buffer.
InStep ==
    /\ PointersAgree
    /\ pc = "push" => /\ frame.frameId + 1 = m_nextFrameIdToRead
                      /\ m_initialized => m_nextPopFrameId + m_count = frame.frameId
    /\ pc = "reset" => m_nextFrameIdToRead = latestKeyframe /\ latestKeyframe > 0
    /\ pc = "decode" => m_initialized /\ m_nextPopFrameId = frame.frameId + 1

\* The decoder has what the frame with this id refers to.
Linked(id) == KeyIn(id, sentFrames) \/ id = lastDecoded + 1 \/ overflowed

Chained ==
    /\ lastDecoded < m_nextFrameIdToRead
    /\ m_initialized => lastDecoded < m_nextPopFrameId
    /\ m_initialized /\ pc # "decode" => Linked(m_nextPopFrameId)
    /\ ~ m_initialized => lastDecoded = -1
    /\ ~ m_initialized /\ m_firstFrameReceived =>
          IF pc = "push" THEN KeyIn(frame.frameId, sentFrames)
                         ELSE KeyIn(m_nextFrameIdToRead, sentFrames)
    /\ pc = "decode" => lastDecoded < frame.frameId /\ Linked(frame.frameId)

BuffersAway == Outside = m_count + InHand + toReturn

\* The inductive invariant.
PipeInv == EnvSound /\ StreamSound /\ JitterSound /\ InStep /\ Chained /\ BuffersAway

-----------------------------------------------------------------------------
\* The jitter buffer's operations on its rings.

LEMMA JitterSlotIsSlot == \A id \in Nat : JitterSlot(id) \in JitterSlots
  BY JitterAssumption, DivMod DEF JitterSlot, JitterSlots

LEMMA JitterSlotsFinite == IsFiniteSet(JitterSlots)
  BY JitterAssumption, FirstNumbers DEF JitterSlots

\* The next id in order finds its slot free while there is one.
LEMMA NextSlotFree ==
    ASSUME NEW ring, NEW info, NEW next, NEW count, Holding(ring, info, next, count), count < JitterSize
    PROVE  /\ JitterSlot(next + count) \in JitterSlots
           /\ ring[JitterSlot(next + count)] = NoEntry
<1> DEFINE slot == JitterSlot(next + count)
<1>1. next + count \in Nat /\ slot \in JitterSlots
  BY JitterSlotIsSlot DEF Holding
<1>2. ASSUME ring[slot] # NoEntry PROVE FALSE
  <2>1. PICK id \in next .. next + count - 1 : JitterSlot(id) = slot
    BY <1>1, <1>2 DEF Holding
  <2>2. /\ id \in Nat /\ id < next + count /\ (next + count) - id < JitterSize
        /\ JitterSize \in Nat \ {0}
    <3>1. next \in Nat /\ count \in Nat /\ JitterSize \in Nat \ {0}
      BY JitterAssumption DEF Holding
    <3> QED BY <3>1
  <2>3. (next + count) % JitterSize # id % JitterSize
    BY <1>1, <2>2, RemaindersApart
  <2> QED BY <2>1, <2>3 DEF JitterSlot
<1> QED BY <1>1, <1>2

\* PushFrame puts the next frame into its slot.
LEMMA Added ==
    ASSUME NEW ring, NEW info, NEW next, NEW count, Holding(ring, info, next, count), count < JitterSize,
           NEW f \in FrameType, f.frameId = next + count
    PROVE  Holding([ring EXCEPT ![JitterSlot(f.frameId)] = f],
                   [info EXCEPT ![JitterSlot(f.frameId)] = [frameId |-> f.frameId, occupied |-> TRUE]],
                   next, count + 1)
<1> DEFINE slot == JitterSlot(f.frameId)
           r == [ring EXCEPT ![slot] = f]
           n == [info EXCEPT ![slot] = [frameId |-> f.frameId, occupied |-> TRUE]]
           held == {s \in JitterSlots : ring[s] # NoEntry}
<1>1. /\ ring \in [JitterSlots -> FrameType \cup {NoEntry}]
      /\ info \in [JitterSlots -> [frameId : Nat, occupied : BOOLEAN]]
      /\ next \in Nat /\ count \in Nat /\ f.frameId \in Nat /\ NoEntry \notin FrameType
  BY PipelineAssumption DEF Holding, FrameType
<1>2. slot \in JitterSlots /\ ring[slot] = NoEntry
  BY NextSlotFree
<1>3. /\ r \in [JitterSlots -> FrameType \cup {NoEntry}] /\ r[slot] = f
      /\ n \in [JitterSlots -> [frameId : Nat, occupied : BOOLEAN]]
      /\ n[slot].frameId = f.frameId /\ n[slot].occupied = TRUE
      /\ \A s \in JitterSlots \ {slot} : r[s] = ring[s] /\ n[s] = info[s]
  BY <1>1, <1>2
<1>4. ~ info[slot].occupied
  BY <1>2 DEF Holding
<1> HIDE DEF r, n, slot
<1>5. \A s \in JitterSlots :
          /\ n[s].occupied <=> r[s] # NoEntry
          /\ n[s].occupied => /\ r[s].frameId = n[s].frameId
                              /\ JitterSlot(n[s].frameId) = s
                              /\ n[s].frameId \in next .. next + (count + 1) - 1
  <2> SUFFICES ASSUME NEW s \in JitterSlots
               PROVE  /\ n[s].occupied <=> r[s] # NoEntry
                      /\ n[s].occupied => /\ r[s].frameId = n[s].frameId
                                          /\ JitterSlot(n[s].frameId) = s
                                          /\ n[s].frameId \in next .. next + (count + 1) - 1
    OBVIOUS
  <2>1. CASE s = slot
    BY <1>1, <1>3, <2>1 DEF slot
  <2>2. CASE s # slot
    <3>1. /\ info[s].occupied <=> ring[s] # NoEntry
          /\ info[s].occupied => /\ ring[s].frameId = info[s].frameId
                                 /\ JitterSlot(info[s].frameId) = s
                                 /\ info[s].frameId \in next .. next + count - 1
      BY DEF Holding
    <3> QED BY <1>1, <1>3, <2>2, <3>1
  <2> QED BY <2>1, <2>2
<1>6. \A id \in next .. next + (count + 1) - 1 :
          n[JitterSlot(id)].occupied /\ n[JitterSlot(id)].frameId = id
  <2> SUFFICES ASSUME NEW id \in next .. next + (count + 1) - 1
               PROVE  n[JitterSlot(id)].occupied /\ n[JitterSlot(id)].frameId = id
    OBVIOUS
  <2>1. CASE id = f.frameId
    BY <1>3, <2>1 DEF slot
  <2>2. CASE id # f.frameId
    <3>1. id \in next .. next + count - 1 /\ id \in Nat
      BY <1>1, <2>2
    <3>2. /\ info[JitterSlot(id)].occupied /\ info[JitterSlot(id)].frameId = id
          /\ JitterSlot(id) \in JitterSlots
      BY <3>1, JitterSlotIsSlot DEF Holding
    <3> QED BY <1>3, <1>4, <3>2
  <2> QED BY <2>1, <2>2
<1>7. Cardinality({s \in JitterSlots : r[s] # NoEntry}) = count + 1
  <2>1. {s \in JitterSlots : r[s] # NoEntry} = held \cup {slot} /\ slot \notin held
    BY <1>1, <1>2, <1>3
  <2>2. held \in SUBSET JitterSlots /\ Cardinality(held) = count
    BY DEF Holding
  <2>3. IsFiniteSet(held)
    BY <2>2, JitterSlotsFinite, FS_Subset
  <2> HIDE DEF held
  <2>4. Cardinality(held \cup {slot}) = Cardinality(held) + 1
    BY <2>1, <2>3, FS_AddElement
  <2> QED BY <2>1, <2>2, <2>4
<1>8. Holding(r, n, next, count + 1)
  BY <1>1, <1>3, <1>5, <1>6, <1>7 DEF Holding
<1> QED BY <1>8 DEF r, n, slot

\* PopFrame, and a push that overflows, take the oldest frame out of its slot.
LEMMA Dropped ==
    ASSUME NEW ring, NEW info, NEW next, NEW count, Holding(ring, info, next, count), count > 0
    PROVE  /\ Holding([ring EXCEPT ![JitterSlot(next)] = NoEntry],
                      [info EXCEPT ![JitterSlot(next)].occupied = FALSE], next + 1, count - 1)
           /\ JitterSlot(next) \in JitterSlots
           /\ ring[JitterSlot(next)] # NoEntry /\ ring[JitterSlot(next)].frameId = next
<1> DEFINE slot == JitterSlot(next)
           r == [ring EXCEPT ![slot] = NoEntry]
           n == [info EXCEPT ![slot].occupied = FALSE]
           held == {s \in JitterSlots : ring[s] # NoEntry}
<1>1. /\ ring \in [JitterSlots -> FrameType \cup {NoEntry}]
      /\ info \in [JitterSlots -> [frameId : Nat, occupied : BOOLEAN]]
      /\ next \in Nat /\ count \in Nat /\ next \in next .. next + count - 1
  BY DEF Holding
<1>2. slot \in JitterSlots /\ info[slot].occupied /\ info[slot].frameId = next
  BY <1>1, JitterSlotIsSlot DEF Holding
<1>3. ring[slot] # NoEntry /\ ring[slot].frameId = next
  BY <1>2 DEF Holding
<1>4. /\ r \in [JitterSlots -> FrameType \cup {NoEntry}] /\ r[slot] = NoEntry
      /\ n \in [JitterSlots -> [frameId : Nat, occupied : BOOLEAN]]
      /\ n[slot].occupied = FALSE
      /\ \A s \in JitterSlots \ {slot} : r[s] = ring[s] /\ n[s] = info[s]
  BY <1>1, <1>2
<1> HIDE DEF r, n
<1>5. \A s \in JitterSlots :
          /\ n[s].occupied <=> r[s] # NoEntry
          /\ n[s].occupied => /\ r[s].frameId = n[s].frameId
                              /\ JitterSlot(n[s].frameId) = s
                              /\ n[s].frameId \in next + 1 .. (next + 1) + (count - 1) - 1
  <2> SUFFICES ASSUME NEW s \in JitterSlots
               PROVE  /\ n[s].occupied <=> r[s] # NoEntry
                      /\ n[s].occupied => /\ r[s].frameId = n[s].frameId
                                          /\ JitterSlot(n[s].frameId) = s
                                          /\ n[s].frameId \in next + 1 .. (next + 1) + (count - 1) - 1
    OBVIOUS
  <2>1. CASE s = slot
    BY <1>1, <1>4, <2>1
  <2>2. CASE s # slot
    <3>1. /\ info[s].occupied <=> ring[s] # NoEntry
          /\ info[s].occupied => /\ ring[s].frameId = info[s].frameId
                                 /\ JitterSlot(info[s].frameId) = s
                                 /\ info[s].frameId \in next .. next + count - 1
      BY DEF Holding
    <3>2. info[s].occupied => info[s].frameId # next
      BY <2>2, <3>1
    <3>3. info[s].occupied => info[s].frameId \in next + 1 .. (next + 1) + (count - 1) - 1
      BY <1>1, <3>1, <3>2
    <3>4. n[s] = info[s] /\ r[s] = ring[s]
      BY <1>4, <2>2
    <3> QED BY <3>1, <3>3, <3>4
  <2> QED BY <2>1, <2>2
<1>6. \A id \in next + 1 .. (next + 1) + (count - 1) - 1 :
          n[JitterSlot(id)].occupied /\ n[JitterSlot(id)].frameId = id
  <2> SUFFICES ASSUME NEW id \in next + 1 .. (next + 1) + (count - 1) - 1
               PROVE  n[JitterSlot(id)].occupied /\ n[JitterSlot(id)].frameId = id
    OBVIOUS
  <2>1. id \in next .. next + count - 1 /\ id \in Nat /\ id # next
    BY <1>1
  <2>2. /\ info[JitterSlot(id)].occupied /\ info[JitterSlot(id)].frameId = id
        /\ JitterSlot(id) \in JitterSlots
    BY <2>1, JitterSlotIsSlot DEF Holding
  <2>3. JitterSlot(id) # slot
    BY <1>2, <2>1, <2>2
  <2> QED BY <1>4, <2>2, <2>3
<1>7. Cardinality({s \in JitterSlots : r[s] # NoEntry}) = count - 1
  <2>1. {s \in JitterSlots : r[s] # NoEntry} = held \ {slot} /\ slot \in held
    BY <1>2, <1>3, <1>4
  <2>2. held \in SUBSET JitterSlots /\ Cardinality(held) = count
    BY DEF Holding
  <2>3. IsFiniteSet(held)
    BY <2>2, JitterSlotsFinite, FS_Subset
  <2> HIDE DEF held
  <2>4. Cardinality(held \ {slot}) = Cardinality(held) - 1
    BY <2>1, <2>3, FS_RemoveElement
  <2> QED BY <2>1, <2>2, <2>4
<1>8. Holding(r, n, next + 1, count - 1)
  BY <1>1, <1>4, <1>5, <1>6, <1>7 DEF Holding
<1> QED BY <1>2, <1>3, <1>8 DEF r, n

\* The search for the oldest frame finds the one at the read pointer.
LEMMA OldestIsNext ==
    ASSUME NEW ring, NEW info, NEW next, NEW count, Holding(ring, info, next, count), count > 0
    PROVE  OldestId(info) = next
<1>1. next \in Nat /\ count \in Nat /\ next \in next .. next + count - 1
  BY DEF Holding
<1>2. next \in Occupied(info)
  <2>1. JitterSlot(next) \in JitterSlots /\ info[JitterSlot(next)].occupied /\ info[JitterSlot(next)].frameId = next
    BY <1>1, JitterSlotIsSlot DEF Holding
  <2> QED BY <2>1 DEF Occupied
<1>3. \A id \in Occupied(info) : id \in Int /\ next <= id
  BY <1>1 DEF Occupied, Holding
<1> DEFINE least(x) == x \in Occupied(info) /\ \A y \in Occupied(info) : x <= y
<1>4. least(next)
  BY <1>2, <1>3
<1>5. ASSUME NEW x, least(x) PROVE x = next
  <2>1. x \in Int /\ next <= x /\ x <= next
    BY <1>2, <1>3, <1>5
  <2> QED BY <1>1, <2>1
<1> HIDE DEF least
<1>6. (CHOOSE x : least(x)) = next
  BY <1>4, <1>5
<1>7. OldestId(info) = CHOOSE x : least(x)
  BY DEF OldestId, Min, least
<1> QED BY <1>6, <1>7

-----------------------------------------------------------------------------
\* What the host sends later leaves what it sent.
Extends(sent, more) ==
    \A id : Sent(id, sent) => Sent(id, more) /\ more[id + 1] = sent[id + 1]

LEMMA AppendExtends ==
    ASSUME NEW sent \in Seq(BOOLEAN), NEW b \in BOOLEAN
    PROVE  Extends(sent, Append(sent, b)) /\ Sent(Len(sent), Append(sent, b))
<1>1. Len(sent) \in Nat /\ Len(Append(sent, b)) = Len(sent) + 1
  OBVIOUS
<1>2. ASSUME NEW id, Sent(id, sent) PROVE Sent(id, Append(sent, b)) /\ Append(sent, b)[id + 1] = sent[id + 1]
  <2>1. id \in Int /\ id + 1 \in 1 .. Len(sent) /\ id \in 0 .. (Len(sent) + 1) - 1
    BY <1>1, <1>2 DEF Sent
  <2>2. Append(sent, b)[id + 1] = sent[id + 1]
    BY <2>1
  <2> QED BY <1>1, <2>1, <2>2 DEF Sent
<1>3. Sent(Len(sent), Append(sent, b))
  BY <1>1 DEF Sent
<1> QED BY <1>2, <1>3 DEF Extends

LEMMA GenuineStays ==
    ASSUME NEW f, NEW sent, NEW there, NEW more, NEW thereNow,
           Genuine(f, sent, there), Extends(sent, more), there \subseteq thereNow
    PROVE  Genuine(f, more, thereNow)
  BY DEF Genuine, Extends

LEMMA KeyStays ==
    ASSUME NEW sent, NEW more, Extends(sent, more), NEW id, KeyIn(id, sent)
    PROVE  KeyIn(id, more)
  BY DEF KeyIn, Extends

LEMMA FragmentsAreNumbers ==
    \A id \in 0 .. MaxFrames - 1 : Fragments[id] \in 1 .. MaxFragments /\ Fragments[id] \in Nat \ {0}
  BY PipelineAssumption, ReceiverAssumption

\* The steps that touch neither ring nor a frame.
LEMMA Quiet ==
    ASSUME PipeInv, EnvSound', UNCHANGED <<receiverVars, jitterVars, frame, toReturn, histVars>>,
           Extends(sentFrames, sentFrames'), arrived \subseteq arrived',
           \/ UNCHANGED <<pc, latestKeyframe>>
           \/ /\ {pc, pc'} \subseteq Labels \ {"push", "reset", "decode"}
              /\ latestKeyframe' > 0 => m_firstFrameReceived /\ KeyIn(latestKeyframe', sentFrames)
    PROVE  PipeInv'
<1>1. /\ UNCHANGED <<m_frameRing, m_nextFrameIdToRead, m_firstFrameReceived, m_framePool,
                     m_frameStorage, m_fecRing, m_fecPool, nullDeref>>
      /\ UNCHANGED <<m_ring, m_info, m_nextPopFrameId, m_initialized, m_count>>
      /\ UNCHANGED <<frame, toReturn, lastDecoded, overflowed>>
  BY DEF receiverVars, frameVars, fecVars, jitterVars, histVars
<1>2. Reassembling' = Reassembling /\ Buffered' = Buffered /\ Outside' = Outside /\ InHand' = InHand
  BY <1>1 DEF Reassembling, Buffered, Outside, InHand
<1>3. RingInv'
  BY <1>1, <1>2 DEF PipeInv, StreamSound, RingInv, ReceiverTypeOK
<1>4. \A s \in Reassembling' : Genuine(m_frameRing'[s], sentFrames', arrived')
  BY <1>1, <1>2, GenuineStays DEF PipeInv, StreamSound
<1>5. frame' # NoFrame => Delivered(frame', sentFrames', arrived')
  BY <1>1, GenuineStays DEF PipeInv, StreamSound, Delivered
<1>6. \A s \in Buffered' : Delivered(m_ring'[s], sentFrames', arrived')
  BY <1>1, <1>2, GenuineStays DEF PipeInv, JitterSound, Delivered
<1>7. JitterSound'
  BY <1>1, <1>6 DEF PipeInv, JitterSound
<1>8. BuffersAway'
  BY <1>1, <1>2 DEF PipeInv, BuffersAway
<1>9. \A id : Linked(id) => Linked(id)'
  BY <1>1, KeyStays DEF Linked
<1>10. \A id : KeyIn(id, sentFrames) => KeyIn(id, sentFrames')
  BY KeyStays
<1>11. CASE UNCHANGED <<pc, latestKeyframe>>
  <2>1. StreamSound'
    BY <1>1, <1>3, <1>4, <1>5, <1>10, <1>11 DEF PipeInv, StreamSound
  <2>2. InStep'
    BY <1>1, <1>11 DEF PipeInv, InStep, PointersAgree
  <2>3. Chained'
    BY <1>1, <1>9, <1>10, <1>11 DEF PipeInv, Chained
  <2> QED BY <1>7, <1>8, <2>1, <2>2, <2>3 DEF PipeInv
<1>12. CASE /\ {pc, pc'} \subseteq Labels \ {"push", "reset", "decode"}
            /\ latestKeyframe' > 0 => m_firstFrameReceived /\ KeyIn(latestKeyframe', sentFrames)
  <2>1. StreamSound'
    <3>1. latestKeyframe' \in Nat
      BY DEF EnvSound
    <3>2. ~ m_firstFrameReceived' => m_nextFrameIdToRead' = 0 /\ latestKeyframe' = 0 /\ ~ m_initialized'
      BY <1>1, <1>12, <3>1 DEF PipeInv, StreamSound
    <3>3. latestKeyframe' > 0 => KeyIn(latestKeyframe', sentFrames')
      BY <1>10, <1>12
    <3>4. frame' # NoFrame <=> pc' \in {"push", "decode"}
      BY <1>1, <1>12 DEF PipeInv, StreamSound
    <3>5. m_fecRing' = [s \in 0 .. FecRing - 1 |-> NoGroup]
      BY <1>1 DEF PipeInv, StreamSound
    <3> QED BY <1>3, <1>4, <1>5, <3>2, <3>3, <3>4, <3>5 DEF StreamSound
  <2>2. InStep'
    BY <1>1, <1>12 DEF PipeInv, InStep, PointersAgree
  <2>3. Chained'
    BY <1>1, <1>9, <1>10, <1>12 DEF PipeInv, Chained
  <2> QED BY <1>7, <1>8, <2>1, <2>2, <2>3 DEF PipeInv
<1> QED BY <1>11, <1>12

LEMMA InitPipe == PipelineInit => PipeInv
<1> SUFFICES ASSUME PipelineInit PROVE PipeInv
  OBVIOUS
<1>1. RingInv /\ Outside = 0 /\ Reassembling = {}
  BY InitRing DEF PipelineInit
<1>2. EnvSound
  BY PipelineAssumption DEF PipelineInit, EnvSound, Labels
<1>3. StreamSound
  BY <1>1 DEF PipelineInit, StreamSound, ReceiverInit, JitterInit
<1>4. Buffered = {} /\ m_count = 0
  BY DEF PipelineInit, JitterInit, Buffered
<1>5. Holding(m_ring, m_info, m_nextPopFrameId, m_count)
  <2>1. {s \in JitterSlots : m_ring[s] # NoEntry} = {}
    BY <1>4 DEF Buffered
  <2> QED BY <2>1, FS_EmptySet DEF PipelineInit, JitterInit, Holding
<1>6. JitterSound
  <2>1. m_initialized = FALSE
    BY DEF PipelineInit, JitterInit
  <2>2. m_count <= JitterSize - JitterMargin
    BY <1>4, JitterAssumption
  <2> QED BY <1>4, <1>5, <2>1, <2>2 DEF JitterSound
<1>7. InStep
  BY DEF InStep, PointersAgree, PipelineInit, JitterInit
<1>8. Chained
  BY DEF Chained, PipelineInit, JitterInit, ReceiverInit
<1>9. BuffersAway
  BY <1>1, <1>4 DEF BuffersAway, InHand, PipelineInit
<1> QED BY <1>2, <1>3, <1>6, <1>7, <1>8, <1>9 DEF PipeInv

-----------------------------------------------------------------------------
\* The environment's steps, and those of the two threads that only look.
LEMMA SendPipe == \A b \in BOOLEAN : PipeInv /\ HostSend(b) => PipeInv'
<1> SUFFICES ASSUME NEW b \in BOOLEAN, PipeInv, HostSend(b) PROVE PipeInv'
  OBVIOUS
<1> DEFINE id == Len(sentFrames)
<1>1. /\ id \in 0 .. MaxFrames - 1 /\ sentFrames' = Append(sentFrames, b)
      /\ inFlight' = inFlight \cup Packets(id) /\ sentFrames \in Seq(BOOLEAN)
      /\ UNCHANGED <<receiverVars, jitterVars, arrived, lost, lastFrameId, netSeen, pc, loopVars, histVars>>
  BY PipelineAssumption DEF HostSend, PipeInv, EnvSound
<1>2. Extends(sentFrames, sentFrames') /\ Sent(id, sentFrames') /\ ~ Sent(id, sentFrames)
  BY <1>1, AppendExtends DEF Sent
<1>3. SentPackets \subseteq SentPackets'
  BY <1>2 DEF SentPackets, Extends
<1>4. Packets(id) \subseteq SentPackets' /\ Packets(id) \cap SentPackets = {}
  BY <1>1, <1>2, FragmentsAreNumbers DEF Packets, SentPackets
<1>5. EnvSound'
  <2>1. sentFrames' \in Seq(BOOLEAN) /\ Len(sentFrames') <= MaxFrames
    BY <1>1, PipelineAssumption
  <2>2. inFlight' \subseteq SentPackets' /\ arrived' \subseteq SentPackets' /\ arrived' \cap inFlight' = {}
    BY <1>1, <1>3, <1>4 DEF PipeInv, EnvSound
  <2> QED BY <1>1, <2>1, <2>2 DEF PipeInv, EnvSound, loopVars, histVars
<1>6. UNCHANGED <<receiverVars, jitterVars, frame, toReturn, histVars, pc, latestKeyframe, arrived>>
  BY <1>1 DEF loopVars
<1> QED BY <1>2, <1>5, <1>6, Quiet

LEMMA SameSent == PipeInv /\ UNCHANGED sentFrames => Extends(sentFrames, sentFrames')
  BY DEF Extends

LEMMA EnvironmentPipe == PipeInv /\ (LosePacket \/ RequestArrives \/ RequestLost) => PipeInv'
<1> SUFFICES ASSUME PipeInv, LosePacket \/ RequestArrives \/ RequestLost PROVE PipeInv'
  OBVIOUS
<1>1. /\ UNCHANGED <<receiverVars, jitterVars, sentFrames, arrived, lastFrameId, netSeen, pc, loopVars, histVars>>
      /\ inFlight' \subseteq inFlight /\ lost' \in Nat
  BY DEF PipeInv, EnvSound, LosePacket, RequestArrives, RequestLost
<1>2. EnvSound' /\ Extends(sentFrames, sentFrames')
  BY <1>1, SameSent DEF PipeInv, EnvSound, SentPackets, loopVars, histVars
<1>3. UNCHANGED <<receiverVars, jitterVars, frame, toReturn, histVars, pc, latestKeyframe, arrived>>
  BY <1>1 DEF loopVars
<1> QED BY <1>2, <1>3, Quiet

LEMMA NotePipe == PipeInv /\ NetNote => PipeInv'
<1> SUFFICES ASSUME PipeInv, NetNote PROVE PipeInv'
  OBVIOUS
<1>1. /\ UNCHANGED <<receiverVars, jitterVars, envVars, pc, loopVars, histVars>>
      /\ lastFrameId' \in Nat /\ netSeen' \in Int
  BY DEF PipeInv, EnvSound, NetNote
<1>2. EnvSound' /\ Extends(sentFrames, sentFrames')
  BY <1>1, SameSent DEF PipeInv, EnvSound, SentPackets, envVars, loopVars, histVars
<1>3. UNCHANGED <<receiverVars, jitterVars, frame, toReturn, histVars, pc, latestKeyframe, arrived>>
  BY <1>1 DEF loopVars, envVars
<1> QED BY <1>2, <1>3, Quiet

\* A missing fragment of a frame in the ring is one the host has sent.
LEMMA NacksAreSent == PipeInv => PendingNACKs \subseteq SentPackets
<1> SUFFICES ASSUME PipeInv, NEW n \in PendingNACKs PROVE n \in SentPackets
  OBVIOUS
<1>1. /\ n \in NackIds \X (0 .. MaxFragments - 1) /\ InRing(n[1])
      /\ n[2] < m_frameRing[RingSlot(n[1])].totalFragments
  BY DEF PendingNACKs, MissingFragments
<1>2. n[1] \in Nat /\ n[2] \in Nat /\ n \in Nat \X Nat
  BY <1>1, ReceiverAssumption DEF NackIds, PipeInv, StreamSound, RingInv, ReceiverTypeOK
<1>3. RingSlot(n[1]) \in Reassembling /\ m_frameRing[RingSlot(n[1])].frameId = n[1]
  BY <1>1, <1>2, InRingIsThere
<1>4. Genuine(m_frameRing[RingSlot(n[1])], sentFrames, arrived)
  BY <1>3 DEF PipeInv, StreamSound
<1> QED BY <1>1, <1>2, <1>3, <1>4 DEF Genuine, SentPackets

\* A set of numbers has a least element, and a greatest when it is bounded.
LEMMA LeastNumber ==
    ASSUME NEW T \in SUBSET Nat, T # {}
    PROVE  \E x \in T : \A y \in T : x <= y
<1> DEFINE R == OpToRel(<, Nat)
<1>1. \A x, y \in Nat : x < y => <<x, y>> \in R
  BY DEF OpToRel
<1>2. IsWellFoundedOn(R, Nat)
  BY NatLessThanWellFounded
<1> HIDE DEF R
<1>3. PICK x \in T : \A y \in T : ~ (<<y, x>> \in R)
  BY <1>2, WFMin
<1>4. ASSUME NEW y \in T PROVE x <= y
  <2>1. x \in Nat /\ y \in Nat
    OBVIOUS
  <2>2. ~ (y < x)
    BY <1>1, <1>3, <2>1
  <2> QED BY <2>1, <2>2
<1> QED BY <1>4

LEMMA GreatestNumber ==
    ASSUME NEW k \in Nat, NEW S \in SUBSET (0 .. k), S # {}
    PROVE  \E x \in S : \A y \in S : x >= y
<1> DEFINE T == {k - x : x \in S}
<1>1. T \in SUBSET Nat /\ T # {}
  <2>1. \A x \in S : x \in 0 .. k
    OBVIOUS
  <2>2. \A x \in 0 .. k : k - x \in Nat
    OBVIOUS
  <2> QED BY <2>1, <2>2
<1>2. PICK t \in T : \A u \in T : t <= u
  <2> HIDE DEF T
  <2> QED BY <1>1, LeastNumber
<1>3. PICK x \in S : t = k - x
  OBVIOUS
<1>4. ASSUME NEW y \in S PROVE x >= y
  <2>1. k - x <= k - y
    BY <1>2, <1>3
  <2>2. x \in 0 .. k /\ y \in 0 .. k
    OBVIOUS
  <2> QED BY <2>1, <2>2
<1> QED BY <1>4

\* The newest complete keyframe is a keyframe the host has sent.
LEMMA KeyframeFound ==
    PipeInv => /\ LatestAvailableKeyframe \in Nat
               /\ LatestAvailableKeyframe > 0 =>
                     m_firstFrameReceived /\ KeyIn(LatestAvailableKeyframe, sentFrames)
<1> SUFFICES ASSUME PipeInv
             PROVE  /\ LatestAvailableKeyframe \in Nat
                    /\ LatestAvailableKeyframe > 0 =>
                          m_firstFrameReceived /\ KeyIn(LatestAvailableKeyframe, sentFrames)
  OBVIOUS
<1>1. CASE CompleteKeyframes = {}
  BY <1>1 DEF LatestAvailableKeyframe
<1>2. CASE CompleteKeyframes # {}
  <2> DEFINE n == m_nextFrameIdToRead
             greatest(x) == x \in CompleteKeyframes /\ \A y \in CompleteKeyframes : x >= y
  <2>1. n \in Nat /\ RingSize \in Nat /\ n + RingSize \in Nat
    BY ReceiverAssumption DEF PipeInv, StreamSound, RingInv, ReceiverTypeOK
  <2>2. CompleteKeyframes \in SUBSET (n .. n + RingSize - 1)
    BY DEF CompleteKeyframes
  <2>3. \E x : greatest(x)
    <3>1. n .. n + RingSize - 1 \subseteq 0 .. n + RingSize
      BY <2>1
    <3>2. CompleteKeyframes \in SUBSET (0 .. n + RingSize)
      BY <2>2, <3>1
    <3> QED BY <1>2, <2>1, <3>2, GreatestNumber
  <2>4. LatestAvailableKeyframe = CHOOSE x : greatest(x)
    BY <1>2 DEF LatestAvailableKeyframe, Max
  <2>5. LatestAvailableKeyframe \in CompleteKeyframes
    BY <2>3, <2>4
  <2>6. PICK id \in CompleteKeyframes : id = LatestAvailableKeyframe
    BY <2>5
  <2>7. id \in Nat /\ InRing(id) /\ m_frameRing[RingSlot(id)].isKeyframe
    BY <2>1, <2>6 DEF CompleteKeyframes
  <2>8. RingSlot(id) \in Reassembling /\ m_frameRing[RingSlot(id)].frameId = id
    BY <2>7, InRingIsThere
  <2>9. m_firstFrameReceived /\ KeyIn(id, sentFrames)
    BY <2>7, <2>8 DEF PipeInv, StreamSound, RingInv, Genuine, KeyIn
  <2> QED BY <2>6, <2>7, <2>9
<1> QED BY <1>1, <1>2

LEMMA LookPipe ==
    PipeInv /\ (LoopReadNext \/ LoopReport \/ LoopNacks \/ LoopNoNacks \/ LoopScan) => PipeInv'
<1> SUFFICES ASSUME PipeInv, LoopReadNext \/ LoopReport \/ LoopNacks \/ LoopNoNacks \/ LoopScan
             PROVE  PipeInv'
  OBVIOUS
<1>1. /\ UNCHANGED <<receiverVars, jitterVars, sentFrames, arrived, lastFrameId, netSeen, frame, toReturn, histVars>>
      /\ {pc, pc'} \subseteq {"gap", "report", "nacks", "scan", "skip"}
      /\ nextExpected' \in Nat /\ lost' \in Nat
  <2>1. m_nextFrameIdToRead \in Nat
    BY DEF PipeInv, StreamSound, RingInv, ReceiverTypeOK
  <2>2. CASE LoopReadNext
    BY <2>1, <2>2 DEF LoopReadNext, At, Goto, PipeInv, EnvSound, envVars
  <2>3. CASE LoopReport
    BY <2>3 DEF LoopReport, At, Goto, PipeInv, EnvSound
  <2>4. CASE LoopNacks
    BY <2>4 DEF LoopNacks, At, Goto, PipeInv, EnvSound, loopVars
  <2>5. CASE LoopNoNacks
    BY <2>5 DEF LoopNoNacks, At, Goto, PipeInv, EnvSound, envVars, loopVars
  <2>6. CASE LoopScan
    BY <2>6 DEF LoopScan, At, Goto, PipeInv, EnvSound, envVars
  <2> QED BY <2>2, <2>3, <2>4, <2>5, <2>6
<1>2. inFlight' \subseteq SentPackets /\ inFlight' \cap arrived = {}
  <2>1. CASE LoopNacks
    BY <2>1, NacksAreSent DEF LoopNacks, Answers, PipeInv, EnvSound
  <2>2. CASE ~ LoopNacks
    BY <2>2 DEF LoopReadNext, LoopReport, LoopNoNacks, LoopScan, PipeInv, EnvSound, envVars
  <2> QED BY <2>1, <2>2
<1>3. /\ latestKeyframe' \in Nat
      /\ latestKeyframe' > 0 => m_firstFrameReceived /\ KeyIn(latestKeyframe', sentFrames)
  <2>1. CASE LoopScan
    BY <2>1, KeyframeFound DEF LoopScan
  <2>2. CASE ~ LoopScan
    <3>1. latestKeyframe' = latestKeyframe
      BY <2>2 DEF LoopReadNext, LoopReport, LoopNacks, LoopNoNacks, loopVars
    <3> QED BY <3>1 DEF PipeInv, EnvSound, StreamSound
  <2> QED BY <2>1, <2>2
<1>4. EnvSound' /\ Extends(sentFrames, sentFrames')
  BY <1>1, <1>2, <1>3, SameSent DEF PipeInv, EnvSound, SentPackets, Labels, histVars
<1>5. {pc, pc'} \subseteq Labels \ {"push", "reset", "decode"}
  BY <1>1 DEF Labels
<1> QED BY <1>1, <1>3, <1>4, <1>5, Quiet

-----------------------------------------------------------------------------
\* netThread puts a packet into the ring.

\* The header of a packet on its way is one the host wrote.
LEMMA HeaderIsSent ==
    ASSUME PipeInv, NEW p \in inFlight
    PROVE  /\ Header(p) \in HeaderType /\ Header(p).totalFragments <= MaxFragments
           /\ Sent(p[1], sentFrames) /\ p[1] \in Nat /\ p[2] \in Nat /\ p = <<p[1], p[2]>>
           /\ Header(p).frameId = p[1] /\ Header(p).fragmentIndex = p[2]
           /\ Header(p).totalFragments = Fragments[p[1]]
           /\ Header(p).isKeyframe = sentFrames[p[1] + 1]
<1>1. p \in SentPackets /\ sentFrames \in Seq(BOOLEAN) /\ Len(sentFrames) <= MaxFrames
  BY DEF PipeInv, EnvSound
<1>2. p \in Nat \X Nat /\ p[1] \in 0 .. Len(sentFrames) - 1 /\ p[1] \in Nat /\ p[2] \in Nat
  BY <1>1 DEF SentPackets, Sent
<1>3. p[1] \in 0 .. MaxFrames - 1 /\ p[1] + 1 \in 1 .. Len(sentFrames)
  <2>1. Len(sentFrames) \in Nat /\ MaxFrames \in Nat
    BY <1>1, PipelineAssumption
  <2> QED BY <1>1, <1>2, <2>1
<1>4. Fragments[p[1]] \in 1 .. MaxFragments /\ Fragments[p[1]] \in Nat \ {0} /\ sentFrames[p[1] + 1] \in BOOLEAN
  BY <1>1, <1>3, FragmentsAreNumbers
<1>5. /\ Header(p).frameId = p[1] /\ Header(p).fragmentIndex = p[2]
      /\ Header(p).totalFragments = Fragments[p[1]]
      /\ Header(p).isKeyframe = sentFrames[p[1] + 1] /\ Header(p) \in HeaderType
  BY <1>2, <1>4 DEF Header, HeaderType
<1>6. Fragments[p[1]] <= MaxFragments
  BY <1>4, ReceiverAssumption
<1> QED BY <1>2, <1>5, <1>6 DEF Sent

LEMMA NothingRestored ==
    ASSUME m_fecRing = [s \in 0 .. FecRing - 1 |-> NoGroup], NEW f, NEW g, Counted(f), NEW i \in Nat
    PROVE  ~ RestoredBy(f, g, GroupStart(i), m_fecRing)
<1>1. f.frameId \in Nat /\ GroupStart(i) \in Nat
  BY GroupStartIsNat DEF Counted, FrameType
<1>2. FecSlot(f.frameId, GroupStart(i)) \in 0 .. FecRing - 1
  BY <1>1, FecSlotInRing
<1> QED BY <1>2 DEF RestoredBy, HasGroup

LEMMA ProcessPipe == PipeInv /\ NetProcess => PipeInv'
<1> SUFFICES ASSUME PipeInv, NetProcess PROVE PipeInv'
  OBVIOUS
<1>1. PICK p \in inFlight : /\ ProcessPacket(Header(p))
                            /\ inFlight' = inFlight \ {p} /\ arrived' = arrived \cup {p}
                            /\ netSeen' = p[1]
  BY DEF NetProcess
<1>2. /\ UNCHANGED <<m_ring, m_info, m_nextPopFrameId, m_initialized, m_count>>
      /\ UNCHANGED <<sentFrames, lost, lastFrameId, pc, nextExpected, latestKeyframe, frame,
                     toReturn, lastDecoded, overflowed>>
  BY DEF NetProcess, jitterVars, loopVars, histVars
<1> DEFINE h == Header(p)
           id == p[1]
<1>3. /\ h \in HeaderType /\ Sent(id, sentFrames) /\ id \in Nat /\ p[2] \in Nat /\ p = <<id, p[2]>>
      /\ h.frameId = id /\ h.fragmentIndex = p[2] /\ h.totalFragments = Fragments[id]
      /\ h.isKeyframe = sentFrames[id + 1]
  BY HeaderIsSent
<1> HIDE DEF h, id
<1>4. ProcessPacket(h) /\ netSeen' = id
  BY <1>1 DEF h, id
<1>5. RingInv /\ m_fecRing = [s \in 0 .. FecRing - 1 |-> NoGroup]
  BY DEF PipeInv, StreamSound
<1>6. /\ RingInv' /\ Outside' = Outside /\ UNCHANGED fecVars
      /\ m_firstFrameReceived' = Begins(h)
      /\ m_nextFrameIdToRead' = IF ~ m_firstFrameReceived /\ h.isKeyframe
                                THEN h.frameId ELSE m_nextFrameIdToRead
      /\ \A s \in Reassembling' :
            \/ s \in Reassembling /\ m_frameRing'[s] = m_frameRing[s]
            \/ s = RingSlot(h.frameId) /\ Grown(h)
  BY <1>3, <1>4, <1>5, PacketKeeps
<1>7. Extends(sentFrames, sentFrames') /\ arrived \subseteq arrived'
  BY <1>1, <1>2, SameSent
<1>8. ASSUME NEW s \in Reassembling' PROVE Genuine(m_frameRing'[s], sentFrames', arrived')
  <2>1. CASE s \in Reassembling /\ m_frameRing'[s] = m_frameRing[s]
    <3>1. Genuine(m_frameRing[s], sentFrames, arrived)
      BY <2>1 DEF PipeInv, StreamSound
    <3> QED BY <1>7, <2>1, <3>1, GenuineStays
  <2>2. CASE s = RingSlot(h.frameId) /\ Grown(h)
    <3> DEFINE g == m_frameRing'[s]
    <3>1. PICK f : /\ f = NewFrame(h) \/ (s \in Reassembling /\ f = m_frameRing[s] /\ f.frameId = h.frameId)
                   /\ SameFrame(f, g) /\ Gained(f, g, p[2])
      BY <1>3, <2>2 DEF Grown
    <3>2. Counted(g) /\ Whole(g)
      BY <1>6 DEF RingInv
    <3> HIDE DEF g
    <3>3. /\ f.frameId = id /\ f.totalFragments = Fragments[id] /\ f.isKeyframe = sentFrames[id + 1]
          /\ \A i \in f.fragmentMap : <<id, i>> \in arrived
          /\ Counted(f) /\ Whole(f)
      <4>1. CASE f = NewFrame(h)
        <5>1. /\ f.frameId = id /\ f.totalFragments = Fragments[id] /\ f.isKeyframe = sentFrames[id + 1]
              /\ f.fragmentMap = {} /\ f.fragmentsReceived = 0 /\ f.isComplete = FALSE
          BY <1>3, <4>1 DEF NewFrame
        <5>2. h.totalFragments \in 0 .. MaxFragments /\ f.totalFragments \in Nat \ {0}
          BY <1>3, <5>1, HeaderIsSent, ReceiverAssumption DEF HeaderType, h
        <5>3. f \in FrameType
          BY <1>3, <4>1, <5>2, ReceiverAssumption DEF NewFrame, FrameType, HeaderType
        <5> QED BY <5>1, <5>2, <5>3, FS_EmptySet DEF Counted, Whole
      <4>2. CASE s \in Reassembling /\ f = m_frameRing[s] /\ f.frameId = h.frameId
        BY <1>3, <4>2 DEF PipeInv, StreamSound, Genuine
      <4> QED BY <3>1, <4>1, <4>2
    <3>4. \A i \in g.fragmentMap : <<id, i>> \in arrived'
      <4>1. g.fragmentMap \subseteq f.fragmentMap \cup {p[2]}
        <5>1. CASE Misses(f, p[2])
          <6>1. Counted(Stored(f, p[2]))
            BY <1>3, <3>3, <5>1, StoredIs
          <6>2. ~ RestoredBy(Stored(f, p[2]), g, GroupStart(p[2]), m_fecRing)
            BY <1>3, <1>5, <6>1, NothingRestored
          <6> QED BY <3>1, <5>1, <6>2 DEF Gained
        <5>2. CASE ~ Misses(f, p[2])
          BY <3>1, <5>2 DEF Gained
        <5> QED BY <5>1, <5>2
      <4>2. p \in arrived' /\ arrived \subseteq arrived'
        BY <1>1
      <4> QED BY <1>3, <3>3, <4>1, <4>2
    <3>5. Genuine(g, sentFrames', arrived')
      BY <1>2, <1>3, <3>1, <3>2, <3>3, <3>4 DEF Genuine, SameFrame
    <3> QED BY <3>5 DEF g
  <2> QED BY <1>6, <2>1, <2>2
<1>9. /\ m_firstFrameReceived \in BOOLEAN /\ m_nextFrameIdToRead \in Nat /\ m_nextFrameIdToRead' \in Nat
      /\ m_firstFrameReceived => m_firstFrameReceived'
      /\ m_nextFrameIdToRead' # m_nextFrameIdToRead =>
            /\ ~ m_firstFrameReceived /\ KeyIn(m_nextFrameIdToRead', sentFrames)
      /\ ~ m_firstFrameReceived /\ m_firstFrameReceived' => KeyIn(m_nextFrameIdToRead', sentFrames)
      /\ ~ m_firstFrameReceived' => m_nextFrameIdToRead' = m_nextFrameIdToRead
  BY <1>3, <1>5, <1>6 DEF RingInv, ReceiverTypeOK, Begins, KeyIn, HeaderType
<1>10. ~ m_firstFrameReceived => /\ m_nextFrameIdToRead = 0 /\ latestKeyframe = 0 /\ ~ m_initialized
                                 /\ pc \notin {"push", "reset", "decode"} /\ lastDecoded = -1
  <2>1. SUFFICES ASSUME ~ m_firstFrameReceived
                 PROVE  /\ m_nextFrameIdToRead = 0 /\ latestKeyframe = 0 /\ ~ m_initialized
                        /\ pc \notin {"push", "reset", "decode"} /\ lastDecoded = -1
    OBVIOUS
  <2>2. m_nextFrameIdToRead = 0 /\ latestKeyframe = 0 /\ ~ m_initialized
    BY <2>1 DEF PipeInv, StreamSound
  <2>3. pc # "push"
    <3>1. ASSUME pc = "push" PROVE FALSE
      <4>1. frame.frameId \in Nat /\ frame.frameId + 1 = m_nextFrameIdToRead
        BY <3>1 DEF PipeInv, StreamSound, InStep, Delivered, Genuine, Counted, FrameType
      <4> QED BY <2>2, <4>1
    <3> QED BY <3>1
  <2> QED BY <2>2, <2>3 DEF PipeInv, InStep, Chained
<1>11. EnvSound'
  BY <1>1, <1>2, <1>3, <1>4 DEF PipeInv, EnvSound, SentPackets
<1>12. StreamSound'
  <2>1. m_fecRing' = [s \in 0 .. FecRing - 1 |-> NoGroup]
    BY <1>5, <1>6 DEF fecVars
  <2>2. ~ m_firstFrameReceived' => m_nextFrameIdToRead' = 0 /\ latestKeyframe' = 0 /\ ~ m_initialized'
    BY <1>2, <1>9, <1>10
  <2>3. frame' # NoFrame => Delivered(frame', sentFrames', arrived')
    BY <1>2, <1>7, GenuineStays DEF PipeInv, StreamSound, Delivered
  <2>4. /\ latestKeyframe' > 0 => KeyIn(latestKeyframe', sentFrames')
        /\ frame' # NoFrame <=> pc' \in {"push", "decode"}
    BY <1>2 DEF PipeInv, StreamSound
  <2> QED BY <1>6, <1>8, <2>1, <2>2, <2>3, <2>4 DEF StreamSound
<1>13. JitterSound'
  <2>1. Buffered' = Buffered
    BY <1>2 DEF Buffered
  <2>2. \A s \in Buffered' : Delivered(m_ring'[s], sentFrames', arrived')
    BY <1>2, <1>7, <2>1, GenuineStays DEF PipeInv, JitterSound, Delivered
  <2> QED BY <1>2, <2>2 DEF PipeInv, JitterSound
<1>14. InStep'
  BY <1>2, <1>9, <1>10 DEF PipeInv, InStep, PointersAgree
<1>15. Chained'
  <2>1. lastDecoded' < m_nextFrameIdToRead'
    BY <1>2, <1>9, <1>10 DEF PipeInv, Chained
  <2>2. \A x : Linked(x) => Linked(x)'
    BY <1>2 DEF Linked
  <2>3. ~ m_initialized' /\ m_firstFrameReceived' =>
          IF pc' = "push" THEN KeyIn(frame'.frameId, sentFrames')
                          ELSE KeyIn(m_nextFrameIdToRead', sentFrames')
    BY <1>2, <1>9, <1>10 DEF PipeInv, Chained
  <2> QED BY <1>2, <2>1, <2>2, <2>3 DEF PipeInv, Chained
<1>16. BuffersAway'
  BY <1>2, <1>6 DEF PipeInv, BuffersAway, InHand
<1> QED BY <1>11, <1>12, <1>13, <1>14, <1>15, <1>16 DEF PipeInv

-----------------------------------------------------------------------------
\* The main loop: the steps that move the receiver.
LEMMA ReturnPipe == PipeInv /\ LoopReturn => PipeInv'
<1> SUFFICES ASSUME PipeInv, LoopReturn PROVE PipeInv'
  OBVIOUS
<1>1. /\ ReturnToPoolRaw /\ toReturn > 0 /\ toReturn' = toReturn - 1
      /\ UNCHANGED <<m_ring, m_info, m_nextPopFrameId, m_initialized, m_count>>
      /\ UNCHANGED <<sentFrames, inFlight, arrived, lost, lastFrameId, netSeen, pc, nextExpected,
                     latestKeyframe, frame, lastDecoded, overflowed>>
  BY DEF LoopReturn, jitterVars, envVars, histVars
<1>2. /\ RingInv' /\ Outside' = Outside - 1 /\ Reassembling' = Reassembling
      /\ UNCHANGED <<m_frameRing, m_nextFrameIdToRead, m_firstFrameReceived, m_fecRing>>
  BY <1>1, ReturnKeeps DEF PipeInv, StreamSound, fecVars
<1>3. EnvSound'
  BY <1>1 DEF PipeInv, EnvSound, SentPackets
<1>4. StreamSound'
  BY <1>1, <1>2 DEF PipeInv, StreamSound
<1>5. JitterSound'
  BY <1>1 DEF PipeInv, JitterSound, Buffered
<1>6. InStep' /\ Chained'
  BY <1>1, <1>2 DEF PipeInv, InStep, PointersAgree, Chained, Linked
<1>7. BuffersAway'
  <2>1. m_count \in Nat /\ InHand \in Nat /\ toReturn \in Nat
    BY DEF PipeInv, JitterSound, Holding, EnvSound, InHand
  <2>2. InHand' = InHand
    BY <1>1 DEF InHand
  <2>3. Outside = m_count + InHand + toReturn /\ Outside' = Outside - 1
    BY <1>2 DEF PipeInv, BuffersAway
  <2>4. Outside' = m_count + InHand + (toReturn - 1)
    BY <2>1, <2>3
  <2>5. m_count' = m_count /\ toReturn' = toReturn - 1
    BY <1>1
  <2> QED BY <2>2, <2>4, <2>5 DEF BuffersAway
<1> QED BY <1>3, <1>4, <1>5, <1>6, <1>7 DEF PipeInv

\* The loop stays where it is in the receiver: nothing to skip, nothing to read,
\* nothing to decode.
LEMMA IdlePipe ==
    /\ PipeInv
    /\ UNCHANGED <<receiverVars, jitterVars, envVars, lastFrameId, netSeen, loopVars, histVars>>
    /\ {pc, pc'} \subseteq Labels \ {"push", "reset", "decode"}
    => PipeInv'
<1> SUFFICES ASSUME PipeInv,
                    UNCHANGED <<receiverVars, jitterVars, envVars, lastFrameId, netSeen, loopVars, histVars>>,
                    {pc, pc'} \subseteq Labels \ {"push", "reset", "decode"}
             PROVE  PipeInv'
  OBVIOUS
<1>1. /\ UNCHANGED <<sentFrames, inFlight, arrived, lost, lastFrameId, netSeen, nextExpected,
                     latestKeyframe, frame, toReturn, lastDecoded, overflowed>>
      /\ UNCHANGED <<receiverVars, jitterVars, histVars>>
  BY DEF envVars, loopVars, histVars
<1>2. EnvSound' /\ Extends(sentFrames, sentFrames')
  BY <1>1, SameSent DEF PipeInv, EnvSound, SentPackets
<1>3. latestKeyframe' > 0 => m_firstFrameReceived /\ KeyIn(latestKeyframe', sentFrames)
  BY <1>1 DEF PipeInv, EnvSound, StreamSound
<1> QED BY <1>1, <1>2, <1>3, Quiet

LEMMA SkipPipe == PipeInv /\ LoopSkip => PipeInv'
<1> SUFFICES ASSUME PipeInv, LoopSkip PROVE PipeInv'
  OBVIOUS
<1>1. /\ pc = "skip" /\ toReturn = 0
      /\ UNCHANGED <<jitterVars, envVars, lastFrameId, netSeen, loopVars, histVars>>
  BY DEF LoopSkip, At
<1>2. CASE UNCHANGED receiverVars /\ pc' = "get"
  BY <1>1, <1>2, IdlePipe DEF Labels
<1>3. CASE /\ latestKeyframe > 0 /\ latestKeyframe > m_nextFrameIdToRead
           /\ ForceAdvanceTo(latestKeyframe) /\ pc' = "reset"
  <2>1. /\ UNCHANGED <<m_ring, m_info, m_nextPopFrameId, m_initialized, m_count>>
        /\ UNCHANGED <<sentFrames, inFlight, arrived, lost, lastFrameId, netSeen, nextExpected,
                       latestKeyframe, frame, toReturn, lastDecoded, overflowed>>
    BY <1>1 DEF jitterVars, envVars, loopVars, histVars
  <2>2. latestKeyframe \in Nat /\ RingInv /\ m_nextFrameIdToRead \in Nat
    BY DEF PipeInv, EnvSound, StreamSound, RingInv, ReceiverTypeOK
  <2>3. /\ RingInv' /\ Outside' = Outside
        /\ m_nextFrameIdToRead' = latestKeyframe
        /\ UNCHANGED <<m_firstFrameReceived, m_fecRing>>
        /\ \A s \in Reassembling' : s \in Reassembling /\ m_frameRing'[s] = m_frameRing[s]
    BY <1>3, <2>2, SkipKeeps DEF fecVars
  <2>4. m_firstFrameReceived /\ KeyIn(latestKeyframe, sentFrames)
    BY <1>3, <2>2 DEF PipeInv, StreamSound
  <2>5. EnvSound'
    BY <1>3, <2>1 DEF PipeInv, EnvSound, SentPackets, Labels
  <2>6. StreamSound'
    BY <1>1, <1>3, <2>1, <2>3, <2>4 DEF PipeInv, StreamSound
  <2>7. JitterSound'
    BY <2>1 DEF PipeInv, JitterSound, Buffered
  <2>8. InStep'
    BY <1>3, <2>1, <2>3 DEF InStep, PointersAgree
  <2>9. Chained'
    <3>1. lastDecoded < latestKeyframe
      BY <1>3, <2>2 DEF PipeInv, Chained, EnvSound
    <3> QED BY <1>1, <1>3, <2>1, <2>3, <2>4, <3>1 DEF PipeInv, Chained, Linked
  <2>10. BuffersAway'
    BY <2>1, <2>3 DEF PipeInv, BuffersAway, InHand
  <2> QED BY <2>5, <2>6, <2>7, <2>8, <2>9, <2>10 DEF PipeInv
<1> QED BY <1>2, <1>3 DEF LoopSkip, Goto

LEMMA GetPipe == PipeInv /\ LoopGet => PipeInv'
<1> SUFFICES ASSUME PipeInv, LoopGet PROVE PipeInv'
  OBVIOUS
<1>1. /\ pc = "get" /\ toReturn = 0
      /\ UNCHANGED <<jitterVars, envVars, lastFrameId, netSeen, nextExpected, latestKeyframe,
                     requestKeyframe, lastReportedMissingFrameId, toReturn, histVars>>
  BY DEF LoopGet, At
<1>2. CASE UNCHANGED <<receiverVars, frame>> /\ pc' = "pop"
  BY <1>1, <1>2, IdlePipe DEF Labels, loopVars
<1>3. CASE GetNextFrame /\ frame' = NextFrame /\ pc' = "push"
  <2>1. /\ UNCHANGED <<m_ring, m_info, m_nextPopFrameId, m_initialized, m_count>>
        /\ UNCHANGED <<sentFrames, inFlight, arrived, lost, lastFrameId, netSeen, nextExpected,
                       latestKeyframe, toReturn, lastDecoded, overflowed>>
    BY <1>1 DEF jitterVars, envVars, histVars
  <2>2. RingInv /\ m_nextFrameIdToRead \in Nat
    BY DEF PipeInv, StreamSound, RingInv, ReceiverTypeOK
  <2> DEFINE slot == RingSlot(m_nextFrameIdToRead)
  <2>3. /\ RingInv' /\ Outside' = Outside + 1
        /\ m_nextFrameIdToRead' = m_nextFrameIdToRead + 1
        /\ UNCHANGED <<m_firstFrameReceived, m_fecRing>> /\ m_firstFrameReceived
        /\ slot \in Reassembling /\ frame' = m_frameRing[slot]
        /\ frame'.frameId = m_nextFrameIdToRead /\ frame'.isComplete
        /\ \A s \in Reassembling' : s \in Reassembling /\ m_frameRing'[s] = m_frameRing[s]
    BY <1>3, <2>2, ReadKeeps DEF fecVars
  <2>4. frame = NoFrame /\ frame' # NoFrame
    BY <1>1, <2>3 DEF PipeInv, StreamSound, Reassembling
  <2>5. Delivered(frame', sentFrames, arrived)
    BY <2>3 DEF PipeInv, StreamSound, Delivered
  <2>6. EnvSound'
    BY <1>3, <2>1 DEF PipeInv, EnvSound, SentPackets, Labels
  <2>7. StreamSound'
    <3>1. \A s \in Reassembling' : Genuine(m_frameRing'[s], sentFrames', arrived')
      BY <2>1, <2>3 DEF PipeInv, StreamSound
    <3>2. frame' # NoFrame <=> pc' \in {"push", "decode"}
      BY <1>3, <2>4
    <3> QED BY <2>1, <2>3, <2>5, <3>1, <3>2 DEF PipeInv, StreamSound
  <2>8. JitterSound'
    BY <2>1 DEF PipeInv, JitterSound, Buffered
  <2>9. InStep'
    BY <1>1, <1>3, <2>1, <2>2, <2>3 DEF PipeInv, InStep, PointersAgree
  <2>10. Chained'
    <3>1. lastDecoded < m_nextFrameIdToRead + 1
      BY <2>2 DEF PipeInv, Chained, EnvSound
    <3> QED BY <1>1, <1>3, <2>1, <2>3, <3>1 DEF PipeInv, Chained, Linked
  <2>11. BuffersAway'
    <3>1. InHand = 0 /\ InHand' = 1 /\ m_count \in Nat /\ toReturn \in Nat
      BY <2>4 DEF InHand, PipeInv, JitterSound, Holding, EnvSound
    <3>2. m_count + 0 + toReturn + 1 = m_count + 1 + toReturn
      BY <3>1
    <3> QED BY <2>1, <2>3, <3>1, <3>2 DEF PipeInv, BuffersAway
  <2> QED BY <2>6, <2>7, <2>8, <2>9, <2>10, <2>11 DEF PipeInv
<1> QED BY <1>2, <1>3 DEF LoopGet, Goto

-----------------------------------------------------------------------------
\* The main loop: the steps that use the jitter buffer, after which the receiver is as
\* it was.
ReceiverStays ==
    /\ UNCHANGED <<receiverVars, envVars, lastFrameId, netSeen, latestKeyframe, nextExpected>>

LEMMA ReceiverQuiet ==
    ASSUME PipeInv, ReceiverStays, pc' \in Labels, toReturn' \in Nat,
           lastDecoded' \in Int, overflowed' \in BOOLEAN,
           frame' # NoFrame <=> pc' \in {"push", "decode"},
           frame' # NoFrame => Delivered(frame', sentFrames, arrived),
           m_initialized' => m_firstFrameReceived
    PROVE  /\ EnvSound' /\ StreamSound'
           /\ Outside' = Outside /\ m_nextFrameIdToRead' = m_nextFrameIdToRead
           /\ UNCHANGED <<sentFrames, arrived, m_firstFrameReceived, latestKeyframe>>
<1>1. /\ UNCHANGED <<m_frameRing, m_nextFrameIdToRead, m_firstFrameReceived, m_framePool,
                     m_frameStorage, m_fecRing, m_fecPool, nullDeref>>
      /\ UNCHANGED <<sentFrames, inFlight, arrived, lost, lastFrameId, netSeen, latestKeyframe, nextExpected>>
  BY DEF ReceiverStays, receiverVars, frameVars, fecVars, envVars
<1>2. Reassembling' = Reassembling /\ Outside' = Outside
  BY <1>1 DEF Reassembling, Outside
<1>3. EnvSound'
  BY <1>1 DEF PipeInv, EnvSound, SentPackets
<1>4. RingInv'
  BY <1>1, <1>2 DEF PipeInv, StreamSound, RingInv, ReceiverTypeOK
<1>5. StreamSound'
  BY <1>1, <1>2, <1>4 DEF PipeInv, StreamSound
<1> QED BY <1>1, <1>2, <1>3, <1>5

LEMMA ResetPipe == PipeInv /\ LoopReset => PipeInv'
<1> SUFFICES ASSUME PipeInv, LoopReset PROVE PipeInv'
  OBVIOUS
<1>1. /\ pc = "reset" /\ toReturn = 0 /\ pc' = "get" /\ ReceiverStays
      /\ toReturn' = Cardinality(Buffered)
      /\ m_ring' = [s \in JitterSlots |-> NoEntry]
      /\ m_info' = [s \in JitterSlots |-> [m_info[s] EXCEPT !.occupied = FALSE]]
      /\ m_nextPopFrameId' = latestKeyframe /\ m_count' = 0 /\ m_initialized' = TRUE
      /\ UNCHANGED <<frame, lastDecoded, overflowed>>
  BY DEF LoopReset, Reset, At, Goto, ReceiverStays, histVars
<1>2. toReturn' = m_count /\ m_count \in Nat
  BY <1>1 DEF PipeInv, JitterSound, Holding, Buffered
<1>3. /\ latestKeyframe > 0 /\ latestKeyframe \in Nat /\ m_nextFrameIdToRead = latestKeyframe
      /\ m_firstFrameReceived /\ KeyIn(latestKeyframe, sentFrames)
  BY <1>1 DEF PipeInv, InStep, StreamSound, EnvSound
<1>4. frame = NoFrame
  BY <1>1 DEF PipeInv, StreamSound
<1>5. /\ EnvSound' /\ StreamSound'
      /\ Outside' = Outside /\ m_nextFrameIdToRead' = m_nextFrameIdToRead
      /\ UNCHANGED <<sentFrames, arrived, m_firstFrameReceived, latestKeyframe>>
  <2>1. pc' \in Labels /\ toReturn' \in Nat /\ lastDecoded' \in Int /\ overflowed' \in BOOLEAN
    BY <1>1, <1>2 DEF PipeInv, EnvSound, Labels
  <2>2. frame' = NoFrame /\ pc' \notin {"push", "decode"}
    BY <1>1, <1>4
  <2> QED BY <1>1, <1>3, <2>1, <2>2, ReceiverQuiet
<1>6. JitterSound'
  <2>1. m_info \in [JitterSlots -> [frameId : Nat, occupied : BOOLEAN]]
    BY DEF PipeInv, JitterSound, Holding
  <2>2. /\ m_info' \in [JitterSlots -> [frameId : Nat, occupied : BOOLEAN]]
        /\ \A s \in JitterSlots : ~ m_info'[s].occupied
    BY <1>1, <2>1
  <2>3. Buffered' = {} /\ {s \in JitterSlots : m_ring'[s] # NoEntry} = {}
    BY <1>1 DEF Buffered
  <2>4. Holding(m_ring', m_info', m_nextPopFrameId', m_count')
    <3>1. m_ring' \in [JitterSlots -> FrameType \cup {NoEntry}] /\ \A s \in JitterSlots : m_ring'[s] = NoEntry
      BY <1>1
    <3>2. latestKeyframe .. latestKeyframe + 0 - 1 = {}
      BY <1>3
    <3> QED BY <1>1, <1>3, <2>2, <2>3, <3>1, <3>2, FS_EmptySet DEF Holding
  <2>5. 0 <= JitterSize - JitterMargin
    BY JitterAssumption
  <2> QED BY <1>1, <2>3, <2>4, <2>5 DEF JitterSound
<1>7. InStep'
  BY <1>1, <1>3, <1>5 DEF InStep, PointersAgree
<1>8. Chained'
  BY <1>1, <1>3, <1>5 DEF PipeInv, Chained, Linked
<1>9. BuffersAway'
  BY <1>1, <1>2, <1>4, <1>5 DEF PipeInv, BuffersAway, InHand
<1> QED BY <1>5, <1>6, <1>7, <1>8, <1>9 DEF PipeInv

\* PushFrame takes every frame the receiver hands out: the one that is expected, into a
\* free slot.
LEMMA PushPipe == PipeInv /\ LoopPush => PipeInv'
<1> SUFFICES ASSUME PipeInv, LoopPush PROVE PipeInv'
  OBVIOUS
<1> DEFINE id == frame.frameId
           next == Expected(frame)
           slot == JitterSlot(id)
           ring == [m_ring EXCEPT ![slot] = frame]
           info == [m_info EXCEPT ![slot] = [frameId |-> id, occupied |-> TRUE]]
           old == OldestId(info)
           limit == JitterSize - JitterMargin
<1>1. /\ pc = "push" /\ toReturn = 0 /\ pc' = "get" /\ ReceiverStays
      /\ PushFrame(frame, toReturn') /\ frame' = NoFrame /\ lastDecoded' = lastDecoded
      /\ overflowed' = (overflowed \/ (~ PushRefused(frame) /\ m_count' = m_count))
  BY DEF LoopPush, At, Goto, ReceiverStays
<1>2. /\ Delivered(frame, sentFrames, arrived) /\ frame \in FrameType /\ id \in Nat
      /\ id + 1 = m_nextFrameIdToRead /\ m_firstFrameReceived
  <2>1. Delivered(frame, sentFrames, arrived) /\ frame # NoFrame /\ id + 1 = m_nextFrameIdToRead
    BY <1>1 DEF PipeInv, StreamSound, InStep
  <2>2. frame \in FrameType /\ id \in Nat
    BY <2>1 DEF Delivered, Genuine, Counted, FrameType
  <2>3. m_firstFrameReceived
    <3>1. ASSUME ~ m_firstFrameReceived PROVE FALSE
      <4>1. m_nextFrameIdToRead = 0
        BY <3>1 DEF PipeInv, StreamSound
      <4> QED BY <2>1, <2>2, <4>1
    <3> QED BY <3>1
  <2> QED BY <2>1, <2>2, <2>3
<1>3. Holding(m_ring, m_info, next, m_count) /\ next + m_count = id /\ next \in Nat
  <2>1. CASE m_initialized
    BY <1>1, <2>1 DEF PipeInv, JitterSound, InStep, Expected, Holding
  <2>2. CASE ~ m_initialized
    <3>1. m_count = 0 /\ next = id
      BY <2>2 DEF PipeInv, JitterSound, Expected
    <3>2. Holding(m_ring, m_info, m_nextPopFrameId, 0)
      BY <3>1 DEF PipeInv, JitterSound
    <3>3. \A x \in Nat : x .. x + 0 - 1 = {}
      OBVIOUS
    <3>4. Holding(m_ring, m_info, id, 0)
      BY <1>2, <3>2, <3>3 DEF Holding
    <3> QED BY <1>2, <3>1, <3>4
  <2> QED BY <2>1, <2>2
<1>4. /\ m_count \in Nat /\ limit \in Nat \ {0} /\ m_count <= limit /\ m_count < JitterSize
      /\ overflowed \in BOOLEAN /\ m_initialized \in BOOLEAN
      /\ m_ring \in [JitterSlots -> FrameType \cup {NoEntry}]
      /\ m_info \in [JitterSlots -> [frameId : Nat, occupied : BOOLEAN]]
  BY <1>3, JitterAssumption DEF PipeInv, JitterSound, EnvSound, Holding
<1> HIDE DEF next, limit
<1>5. slot \in JitterSlots /\ m_ring[slot] = NoEntry
  BY <1>3, <1>4, NextSlotFree
<1>6. ~ PushRefused(frame)
  BY <1>2, <1>3, <1>4, <1>5 DEF PushRefused, next
<1>7. Holding(ring, info, next, m_count + 1)
  BY <1>2, <1>3, <1>4, Added
<1>8. \A s \in JitterSlots : ring[s] # NoEntry => Delivered(ring[s], sentFrames, arrived)
  BY <1>2, <1>4, <1>5 DEF PipeInv, JitterSound, Buffered
<1>9. old = next
  BY <1>4, <1>7, OldestIsNext
<1>10. ring[JitterSlot(next)] # NoEntry /\ JitterSlot(next) \in JitterSlots
  <2>1. m_count + 1 > 0
    BY <1>4
  <2> HIDE DEF ring, info
  <2> QED BY <1>7, <2>1, Dropped
<1> HIDE DEF ring, info, old
<1>11. /\ m_initialized' = TRUE
       /\ \/ /\ m_count + 1 <= limit /\ toReturn' = 0 /\ m_ring' = ring /\ m_info' = info
             /\ m_count' = m_count + 1 /\ m_nextPopFrameId' = next
             /\ overflowed' = overflowed
          \/ /\ m_count + 1 > limit /\ toReturn' = 1
             /\ m_ring' = [ring EXCEPT ![JitterSlot(next)] = NoEntry]
             /\ m_info' = [info EXCEPT ![JitterSlot(next)].occupied = FALSE]
             /\ m_count' = m_count /\ m_nextPopFrameId' = next + 1
             /\ overflowed' = TRUE
  <2>1. m_count + 1 # m_count
    BY <1>4
  <2>2. CASE /\ m_count + 1 <= limit
             /\ toReturn' = IF m_ring[slot] # NoEntry THEN 1 ELSE 0
             /\ m_ring' = ring /\ m_info' = info /\ m_count' = m_count + 1 /\ m_nextPopFrameId' = next
    BY <1>1, <1>4, <1>5, <2>1, <2>2 DEF PushFrame
  <2>3. CASE /\ m_count + 1 > limit
             /\ toReturn' = (IF m_ring[slot] # NoEntry THEN 1 ELSE 0) + (IF ring[JitterSlot(old)] # NoEntry THEN 1 ELSE 0)
             /\ m_ring' = [ring EXCEPT ![JitterSlot(old)] = NoEntry]
             /\ m_info' = [info EXCEPT ![JitterSlot(old)].occupied = FALSE]
             /\ m_count' = m_count /\ m_nextPopFrameId' = NextAfterDrop(old, next)
    <3>1. m_ring[slot] = NoEntry /\ ring[JitterSlot(old)] # NoEntry
      BY <1>5, <1>9, <1>10
    <3>2. toReturn' = 1
      BY <2>3, <3>1
    <3>3. m_nextPopFrameId' = next + 1
      BY <1>9, <2>3 DEF NextAfterDrop
    <3>4. overflowed' = TRUE
      BY <1>1, <1>6, <2>3
    <3>5. m_initialized' = TRUE
      BY <1>1 DEF PushFrame
    <3> QED BY <1>9, <2>3, <3>2, <3>3, <3>4, <3>5
  <2>4. m_initialized' = TRUE
    BY <1>1 DEF PushFrame
  <2> QED BY <1>1, <1>6, <2>2, <2>3, <2>4 DEF PushFrame, next, slot, ring, info, old, limit
<1>12. /\ EnvSound' /\ StreamSound'
       /\ Outside' = Outside /\ m_nextFrameIdToRead' = m_nextFrameIdToRead
       /\ UNCHANGED <<sentFrames, arrived, m_firstFrameReceived, latestKeyframe>>
  <2>1. pc' \in Labels /\ toReturn' \in Nat /\ lastDecoded' \in Int /\ overflowed' \in BOOLEAN
    BY <1>1, <1>4, <1>11 DEF PipeInv, EnvSound, Labels
  <2>2. frame' = NoFrame /\ pc' \notin {"push", "decode"}
    BY <1>1
  <2> QED BY <1>1, <1>2, <2>1, <2>2, ReceiverQuiet
<1>13. lastDecoded < next /\ Linked(next) /\ lastDecoded \in Int
  <2>1. CASE m_initialized
    BY <1>1, <2>1 DEF PipeInv, Chained, EnvSound, next, Expected
  <2>2. CASE ~ m_initialized
    <3>1. next = id /\ lastDecoded = -1
      BY <2>2 DEF PipeInv, Chained, next, Expected
    <3>2. KeyIn(id, sentFrames)
      BY <1>1, <1>2, <2>2 DEF PipeInv, Chained
    <3> QED BY <1>2, <3>1, <3>2 DEF Linked
  <2> QED BY <2>1, <2>2
<1>14. InHand = 1 /\ InHand' = 0
  BY <1>1 DEF InHand, PipeInv, StreamSound
<1>15. Outside = m_count + 1
  BY <1>1, <1>4, <1>14 DEF PipeInv, BuffersAway
<1>16. CASE /\ m_count + 1 <= limit /\ toReturn' = 0 /\ m_ring' = ring /\ m_info' = info
            /\ m_count' = m_count + 1 /\ m_nextPopFrameId' = next /\ overflowed' = overflowed
  <2>1. JitterSound'
    <3>1. \A s \in Buffered' : Delivered(m_ring'[s], sentFrames', arrived')
      BY <1>8, <1>12, <1>16 DEF Buffered
    <3> QED BY <1>7, <1>11, <1>16, <3>1 DEF JitterSound, limit
  <2>2. InStep'
    <3>1. next + (m_count + 1) = m_nextFrameIdToRead
      BY <1>2, <1>3, <1>4
    <3> QED BY <1>1, <1>12, <1>16, <3>1 DEF InStep, PointersAgree
  <2>3. Chained'
    BY <1>1, <1>11, <1>12, <1>13, <1>16 DEF PipeInv, Chained, Linked
  <2>4. BuffersAway'
    BY <1>4, <1>12, <1>14, <1>15, <1>16 DEF BuffersAway
  <2> QED BY <1>12, <2>1, <2>2, <2>3, <2>4 DEF PipeInv
<1>17. CASE /\ m_count + 1 > limit /\ toReturn' = 1
            /\ m_ring' = [ring EXCEPT ![JitterSlot(next)] = NoEntry]
            /\ m_info' = [info EXCEPT ![JitterSlot(next)].occupied = FALSE]
            /\ m_count' = m_count /\ m_nextPopFrameId' = next + 1 /\ overflowed' = TRUE
  <2>1. JitterSound'
    <3>1. Holding(m_ring', m_info', next + 1, (m_count + 1) - 1)
      <4>1. m_count + 1 > 0
        BY <1>4
      <4> QED BY <1>7, <1>17, <4>1, Dropped
    <3>2. (m_count + 1) - 1 = m_count
      BY <1>4
    <3>3. ring \in [JitterSlots -> FrameType \cup {NoEntry}]
      BY <1>7 DEF Holding
    <3>4. \A s \in JitterSlots : m_ring'[s] # NoEntry => m_ring'[s] = ring[s]
      BY <1>17, <3>3
    <3>5. \A s \in Buffered' : Delivered(m_ring'[s], sentFrames', arrived')
      BY <1>8, <1>12, <3>4 DEF Buffered
    <3> QED BY <1>4, <1>11, <1>17, <3>1, <3>2, <3>5 DEF JitterSound, limit
  <2>2. InStep'
    <3>1. next + 1 + m_count = m_nextFrameIdToRead
      BY <1>2, <1>3, <1>4
    <3> QED BY <1>1, <1>12, <1>17, <3>1 DEF InStep, PointersAgree
  <2>3. Chained'
    <3>1. lastDecoded < next + 1
      BY <1>3, <1>13
    <3> QED BY <1>1, <1>11, <1>12, <1>17, <3>1 DEF PipeInv, Chained, Linked
  <2>4. BuffersAway'
    BY <1>4, <1>12, <1>14, <1>15, <1>17 DEF BuffersAway
  <2> QED BY <1>12, <2>1, <2>2, <2>3, <2>4 DEF PipeInv
<1> QED BY <1>11, <1>16, <1>17

LEMMA PopPipe == PipeInv /\ LoopPop => PipeInv'
<1> SUFFICES ASSUME PipeInv, LoopPop PROVE PipeInv'
  OBVIOUS
<1> DEFINE next == m_nextPopFrameId
           slot == JitterSlot(next)
<1>1. /\ pc = "pop" /\ toReturn = 0
      /\ UNCHANGED <<receiverVars, envVars, lastFrameId, netSeen, nextExpected, latestKeyframe,
                     requestKeyframe, lastReportedMissingFrameId, toReturn, histVars>>
  BY DEF LoopPop, At
<1>2. CASE UNCHANGED <<jitterVars, frame>> /\ pc' = "gap"
  BY <1>1, <1>2, IdlePipe DEF Labels, loopVars
<1>3. CASE PopFrame /\ frame' = PopCandidate /\ pc' = "decode"
  <2>1. /\ ReceiverStays /\ UNCHANGED <<toReturn, lastDecoded, overflowed, m_initialized>>
        /\ m_info[slot].occupied /\ m_info[slot].frameId = next
        /\ m_ring' = [m_ring EXCEPT ![slot] = NoEntry]
        /\ m_info' = [m_info EXCEPT ![slot].occupied = FALSE]
        /\ m_count' = m_count - 1 /\ m_nextPopFrameId' = next + 1
        /\ frame' = m_ring[slot]
    BY <1>1, <1>3 DEF PopFrame, PopReady, PopCandidate, ReceiverStays, histVars
  <2>2. /\ Holding(m_ring, m_info, next, m_count) /\ m_count \in Nat /\ next \in Nat
        /\ m_ring \in [JitterSlots -> FrameType \cup {NoEntry}]
    BY DEF PipeInv, JitterSound, Holding
  <2>3. m_count > 0 /\ m_initialized
    <3>1. slot \in JitterSlots
      BY <2>2, JitterSlotIsSlot
    <3>2. next \in next .. next + m_count - 1
      BY <2>1, <3>1 DEF PipeInv, JitterSound, Holding
    <3>3. m_count > 0
      BY <2>2, <3>2
    <3> QED BY <2>2, <3>3 DEF PipeInv, JitterSound
  <2> HIDE DEF slot
  <2>4. /\ Holding(m_ring', m_info', next + 1, m_count - 1)
        /\ slot \in JitterSlots /\ m_ring[slot] # NoEntry /\ m_ring[slot].frameId = next
    BY <2>1, <2>2, <2>3, Dropped DEF slot
  <2>5. Delivered(frame', sentFrames, arrived) /\ frame'.frameId = next /\ frame' # NoFrame
    <3>1. Delivered(m_ring[slot], sentFrames, arrived)
      BY <2>4 DEF PipeInv, JitterSound, Buffered
    <3>2. m_ring[slot] \in FrameType
      BY <2>2, <2>4
    <3> QED BY <2>1, <2>4, <3>1, <3>2, NullAssumption
  <2>6. m_firstFrameReceived
    BY <2>3 DEF PipeInv, StreamSound
  <2>7. /\ EnvSound' /\ StreamSound'
        /\ Outside' = Outside /\ m_nextFrameIdToRead' = m_nextFrameIdToRead
        /\ UNCHANGED <<sentFrames, arrived, m_firstFrameReceived, latestKeyframe>>
    <3>1. pc' \in Labels /\ toReturn' \in Nat /\ lastDecoded' \in Int /\ overflowed' \in BOOLEAN
      BY <1>3, <2>1 DEF PipeInv, EnvSound, Labels
    <3> QED BY <1>3, <2>1, <2>5, <2>6, <3>1, ReceiverQuiet
  <2>8. JitterSound'
    <3>1. \A s \in JitterSlots : m_ring'[s] # NoEntry => m_ring'[s] = m_ring[s]
      BY <2>1, <2>2
    <3>2. \A s \in Buffered' : Delivered(m_ring'[s], sentFrames', arrived')
      BY <2>7, <3>1 DEF PipeInv, JitterSound, Buffered
    <3>3. m_count - 1 <= JitterSize - JitterMargin
      BY <2>2, JitterAssumption DEF PipeInv, JitterSound
    <3>4. m_initialized' = m_initialized /\ m_initialized \in BOOLEAN
      BY <2>1 DEF PipeInv, JitterSound
    <3> QED BY <2>1, <2>3, <2>4, <3>2, <3>3, <3>4 DEF JitterSound
  <2>9. InStep'
    <3>1. next + m_count = m_nextFrameIdToRead
      BY <1>1, <2>3 DEF PipeInv, InStep, PointersAgree
    <3>2. (next + 1) + (m_count - 1) = m_nextFrameIdToRead
      BY <2>2, <3>1
    <3> QED BY <1>3, <2>1, <2>3, <2>5, <2>7, <3>2 DEF InStep, PointersAgree
  <2>10. Chained'
    <3>1. lastDecoded < next /\ Linked(next) /\ lastDecoded < m_nextFrameIdToRead /\ lastDecoded \in Int
      BY <1>1, <2>3 DEF PipeInv, Chained, EnvSound
    <3>2. lastDecoded < next + 1
      BY <2>2, <3>1
    <3> QED BY <1>3, <2>1, <2>3, <2>5, <2>7, <3>1, <3>2 DEF Chained, Linked
  <2>11. BuffersAway'
    <3>1. InHand = 0 /\ InHand' = 1
      BY <1>1, <2>5 DEF InHand, PipeInv, StreamSound
    <3>2. Outside = m_count + 0 + 0 /\ toReturn' = 0
      BY <1>1, <3>1 DEF PipeInv, BuffersAway
    <3>3. m_count + 0 + 0 = (m_count - 1) + 1 + 0
      BY <2>2
    <3> QED BY <2>1, <2>7, <3>1, <3>2, <3>3 DEF BuffersAway
  <2> QED BY <2>7, <2>8, <2>9, <2>10, <2>11 DEF PipeInv
<1> QED BY <1>2, <1>3 DEF LoopPop, Goto

LEMMA DecodePipe == PipeInv /\ LoopDecode => PipeInv'
<1> SUFFICES ASSUME PipeInv, LoopDecode PROVE PipeInv'
  OBVIOUS
<1>1. /\ pc = "decode" /\ toReturn = 0 /\ pc' = "gap" /\ ReceiverStays
      /\ lastDecoded' = frame.frameId /\ overflowed' = FALSE /\ frame' = NoFrame /\ toReturn' = 1
      /\ UNCHANGED <<m_ring, m_info, m_nextPopFrameId, m_initialized, m_count>>
  BY DEF LoopDecode, At, Goto, ReceiverStays, jitterVars
<1>2. frame # NoFrame /\ frame.frameId \in Nat
  BY <1>1 DEF PipeInv, StreamSound, Delivered, Genuine, Counted, FrameType
<1>3. m_initialized /\ m_nextPopFrameId = frame.frameId + 1 /\ m_firstFrameReceived
  BY <1>1 DEF PipeInv, InStep, StreamSound
<1>4. /\ EnvSound' /\ StreamSound'
      /\ Outside' = Outside /\ m_nextFrameIdToRead' = m_nextFrameIdToRead
      /\ UNCHANGED <<sentFrames, arrived, m_firstFrameReceived, latestKeyframe>>
  <2>1. pc' \in Labels /\ toReturn' \in Nat /\ lastDecoded' \in Int /\ overflowed' \in BOOLEAN
    <3>1. pc' \in Labels
      BY <1>1 DEF Labels
    <3>2. overflowed' \in BOOLEAN
      BY <1>1
    <3> QED BY <1>1, <1>2, <3>1, <3>2
  <2>2. frame' = NoFrame /\ pc' \notin {"push", "decode"}
    BY <1>1
  <2> QED BY <1>1, <1>3, <2>1, <2>2, ReceiverQuiet
<1>5. JitterSound'
  BY <1>1, <1>4 DEF PipeInv, JitterSound, Buffered
<1>6. InStep'
  BY <1>1, <1>4 DEF PipeInv, InStep, PointersAgree
<1>7. Chained'
  <2>1. m_nextPopFrameId + m_count = m_nextFrameIdToRead /\ m_count \in Nat
    BY <1>1, <1>3 DEF PipeInv, InStep, PointersAgree, JitterSound, Holding
  <2>2. frame.frameId < m_nextFrameIdToRead /\ frame.frameId < m_nextPopFrameId
    BY <1>2, <1>3, <2>1
  <2> QED BY <1>1, <1>3, <1>4, <2>2 DEF Chained, Linked
<1>8. BuffersAway'
  <2>1. InHand = 1 /\ InHand' = 0 /\ m_count \in Nat
    BY <1>1, <1>2 DEF InHand, PipeInv, JitterSound, Holding
  <2> QED BY <1>1, <1>4, <2>1 DEF PipeInv, BuffersAway
<1> QED BY <1>4, <1>5, <1>6, <1>7, <1>8 DEF PipeInv

LEMMA StepPipe == PipeInv /\ [PipelineNext]_vars => PipeInv'
<1> SUFFICES ASSUME PipeInv, [PipelineNext]_vars PROVE PipeInv'
  OBVIOUS
<1>1. CASE Environment
  BY <1>1, SendPipe, EnvironmentPipe DEF Environment
<1>2. CASE NetThread
  BY <1>2, ProcessPipe, NotePipe DEF NetThread
<1>3. CASE MainLoop
  BY <1>3, ReturnPipe, LookPipe, SkipPipe, ResetPipe, GetPipe, PushPipe, PopPipe, DecodePipe DEF MainLoop
<1>4. CASE UNCHANGED vars
  <2>1. /\ UNCHANGED <<receiverVars, jitterVars, frame, toReturn, histVars>>
        /\ UNCHANGED <<sentFrames, inFlight, arrived, lost, lastFrameId, netSeen, pc, nextExpected,
                       latestKeyframe, lastDecoded, overflowed>>
    BY <1>4 DEF vars, envVars, loopVars, histVars
  <2>2. EnvSound' /\ Extends(sentFrames, sentFrames')
    BY <2>1, SameSent DEF PipeInv, EnvSound, SentPackets
  <2> QED BY <2>1, <2>2, Quiet
<1> QED BY <1>1, <1>2, <1>3, <1>4 DEF PipelineNext

-----------------------------------------------------------------------------
\* The invariant that everything about the client's video path rests on.
THEOREM PipelineInvariant == PipelineSpec => []PipeInv
<1>1. PipelineInit => PipeInv
  BY InitPipe
<1>2. PipeInv /\ [PipelineNext]_vars => PipeInv'
  BY StepPipe
<1> QED BY <1>1, <1>2, PTL DEF PipelineSpec

\* The receiver's ring and the jitter buffer are sound, and the buffer holds exactly
\* the ids up to the receiver's read pointer, whatever netThread does in between.
THEOREM PipelineStaysSound == PipelineSpec => []PipelineSound
<1>1. ASSUME PipeInv PROVE PipelineSound
  <2>1. JitterCoherent
    BY <1>1 DEF PipeInv, JitterSound, Holding, JitterCoherent, Buffered
  <2>2. PipelineTypeOK
    BY <1>1, <2>1 DEF PipeInv, EnvSound, StreamSound, RingInv, PipelineTypeOK
  <2>3. RingSound
    BY <1>1 DEF PipeInv, StreamSound, RingInv, RingSound, Counted, Whole, Genuine
  <2>4. PointersAgree
    BY <1>1 DEF PipeInv, InStep
  <2> QED BY <2>2, <2>3, <2>4 DEF PipelineSound
<1> QED BY <1>1, PipelineInvariant, PTL

\* No buffer is lost or returned twice.
THEOREM PipelineConservesBuffers == PipelineSpec => []BuffersConserved
<1>1. ASSUME PipeInv PROVE BuffersConserved
  <2>1. PICK a \in Nat, p \in Nat, c \in Nat :
          a = m_frameStorage /\ p = m_framePool /\ c = Cardinality(Reassembling)
    BY <1>1, ReassemblingFinite DEF PipeInv, StreamSound, RingInv, ReceiverTypeOK
  <2>2. Cardinality(Buffered) = m_count /\ m_count \in Nat /\ InHand \in Nat /\ toReturn \in Nat
    BY <1>1 DEF PipeInv, EnvSound, JitterSound, Holding, Buffered, InHand
  <2>3. a - p - c = m_count + InHand + toReturn
    BY <1>1, <2>1 DEF PipeInv, BuffersAway, Outside
  <2>4. a = p + c + m_count + InHand + toReturn
    BY <2>2, <2>3
  <2> QED BY <2>1, <2>2, <2>4 DEF BuffersConserved
<1> QED BY <1>1, PipelineInvariant, PTL

\* The decoder is given whole frames, in order, with what they refer to.
THEOREM PipelineKeepsReferences == PipelineSpec => []ReferencesKept
<1>1. ASSUME PipeInv, pc = "decode"
      PROVE  /\ frame.frameId > lastDecoded
             /\ Packets(frame.frameId) \subseteq arrived
             /\ frame.isKeyframe \/ frame.frameId = lastDecoded + 1 \/ overflowed
  <2>1. Delivered(frame, sentFrames, arrived) /\ lastDecoded < frame.frameId /\ Linked(frame.frameId)
    BY <1>1 DEF PipeInv, StreamSound, Chained
  <2>2. frame.fragmentMap = 0 .. frame.totalFragments - 1
    BY <2>1, AllThere DEF Delivered, Genuine, Whole
  <2>3. Packets(frame.frameId) \subseteq arrived
    BY <2>1, <2>2 DEF Packets, Delivered, Genuine
  <2>4. frame.isKeyframe \/ frame.frameId = lastDecoded + 1 \/ overflowed
    BY <2>1 DEF Linked, KeyIn, Delivered, Genuine
  <2>5. frame.frameId \in Nat /\ lastDecoded \in Int
    BY <1>1, <2>1 DEF PipeInv, EnvSound, Delivered, Genuine, Counted, FrameType
  <2> QED BY <2>1, <2>3, <2>4, <2>5
<1>2. PipeInv => ReferencesKept
  BY <1>1 DEF ReferencesKept
<1> QED BY <1>2, PipelineInvariant, PTL

\* The read pointer goes on by one, or jumps ahead to a keyframe.
Advances ==
    m_nextFrameIdToRead' # m_nextFrameIdToRead =>
        \/ m_nextFrameIdToRead' = m_nextFrameIdToRead + 1
        \/ /\ m_nextFrameIdToRead' > m_nextFrameIdToRead
           /\ sentFrames[m_nextFrameIdToRead' + 1]

LEMMA StepAdvances == PipeInv /\ [PipelineNext]_vars => Advances
<1> SUFFICES ASSUME PipeInv, [PipelineNext]_vars PROVE Advances
  OBVIOUS
<1>1. RingInv /\ m_nextFrameIdToRead \in Nat
  BY DEF PipeInv, StreamSound, RingInv, ReceiverTypeOK
<1>2. CASE NetProcess
  <2>1. PICK p \in inFlight : ProcessPacket(Header(p))
    BY <1>2 DEF NetProcess
  <2> DEFINE h == Header(p)
  <2>2. h \in HeaderType /\ Sent(p[1], sentFrames) /\ p[1] \in Nat /\ h.frameId = p[1] /\ h.isKeyframe = sentFrames[p[1] + 1]
    BY HeaderIsSent
  <2> HIDE DEF h
  <2>3. m_nextFrameIdToRead' = IF ~ m_firstFrameReceived /\ h.isKeyframe
                               THEN h.frameId ELSE m_nextFrameIdToRead
    <3>1. ProcessPacket(h)
      BY <2>1 DEF h
    <3> QED BY <1>1, <2>2, <3>1, PacketKeeps
  <2>4. ~ m_firstFrameReceived => m_nextFrameIdToRead = 0
    BY DEF PipeInv, StreamSound
  <2> QED BY <1>1, <2>2, <2>3, <2>4 DEF Advances
<1>3. CASE LoopSkip
  <2>1. CASE /\ latestKeyframe > 0 /\ latestKeyframe > m_nextFrameIdToRead
             /\ ForceAdvanceTo(latestKeyframe)
    <3>1. latestKeyframe \in Nat /\ KeyIn(latestKeyframe, sentFrames)
      BY <2>1 DEF PipeInv, EnvSound, StreamSound
    <3>2. m_nextFrameIdToRead' = latestKeyframe
      BY <1>1, <2>1, <3>1, SkipKeeps
    <3> QED BY <2>1, <3>1, <3>2 DEF Advances, KeyIn
  <2>2. CASE UNCHANGED receiverVars
    BY <2>2 DEF Advances, receiverVars, frameVars
  <2> QED BY <1>3, <2>1, <2>2 DEF LoopSkip
<1>4. CASE LoopGet
  <2>1. CASE GetNextFrame
    BY <2>1 DEF GetNextFrame, Advances
  <2>2. CASE UNCHANGED receiverVars
    BY <2>2 DEF Advances, receiverVars, frameVars
  <2> QED BY <1>4, <2>1, <2>2 DEF LoopGet
<1>5. CASE ~ (NetProcess \/ LoopSkip \/ LoopGet)
  <2>1. m_nextFrameIdToRead' = m_nextFrameIdToRead
    <3>1. CASE Environment
      BY <3>1 DEF Environment, HostSend, LosePacket, RequestArrives, RequestLost, receiverVars, frameVars
    <3>2. CASE NetThread
      BY <1>5, <3>2 DEF NetThread, NetNote, receiverVars, frameVars
    <3>3. CASE MainLoop
      BY <1>5, <3>3 DEF MainLoop, LoopReturn, ReturnToPoolRaw, LoopReadNext, LoopReport, LoopNacks,
                        LoopNoNacks, LoopScan, LoopReset, LoopPush, LoopPop, LoopDecode,
                        receiverVars, frameVars
    <3>4. CASE UNCHANGED vars
      BY <3>4 DEF vars, receiverVars, frameVars
    <3> QED BY <3>1, <3>2, <3>3, <3>4 DEF PipelineNext
  <2> QED BY <2>1 DEF Advances
<1> QED BY <1>2, <1>3, <1>4, <1>5

\* The client never goes back, and jumps ahead only to a frame it can start from.
THEOREM PipelineJumpsToKeyframes == PipelineSpec => JumpsToKeyframes
<1>1. PipeInv /\ [PipelineNext]_vars => [Advances]_vars
  BY StepAdvances
<1>2. PipelineSpec => [][Advances]_vars
  BY <1>1, PipelineInvariant, PTL DEF PipelineSpec
<1> QED BY <1>2 DEF JumpsToKeyframes, Advances
=============================================================================
