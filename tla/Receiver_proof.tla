---------------------------- MODULE Receiver_proof ----------------------------
(***************************************************************************)
(* What each method of Client::Receiver keeps, whoever calls it: lemmas    *)
(* for the proofs about its two uses.  They hold for every size of the     *)
(* rings and pools.                                                        *)
(***************************************************************************)
EXTENDS Receiver, FiniteSetTheorems, FunctionTheorems, TLAPS

\* A frame counts its fragments right, and is complete exactly when it has them all.
Counted(f) == /\ f \in FrameType
              /\ f.fragmentMap \subseteq 0 .. f.totalFragments - 1
              /\ f.fragmentsReceived = Cardinality(f.fragmentMap)
Whole(f) == f.isComplete <=> f.fragmentsReceived = f.totalFragments

\* Every frame of the ring sits in the slot of its id and is still wanted; before the
\* first packet of a keyframe there is none.
RingInv ==
    /\ ReceiverTypeOK
    /\ ~ m_firstFrameReceived => Reassembling = {}
    /\ \A s \in Reassembling :
          /\ RingSlot(m_frameRing[s].frameId) = s
          /\ m_frameRing[s].frameId >= m_nextFrameIdToRead
          /\ Counted(m_frameRing[s]) /\ Whole(m_frameRing[s])

\* The buffers that are neither in the pool nor in the ring.
Outside == m_frameStorage - m_framePool - Cardinality(Reassembling)

HeaderType == [frameId : Nat, fragmentIndex : Nat, totalFragments : Nat \ {0},
               isKeyframe : BOOLEAN]

-----------------------------------------------------------------------------
\* Division with remainder by a positive number.
LEMMA DivMod ==
    ASSUME NEW a \in Nat, NEW d \in Nat \ {0}
    PROVE  /\ a \div d \in Nat
           /\ a % d \in 0 .. d - 1
           /\ a = d * (a \div d) + (a % d)
BY SMT

\* Two numbers less than d apart leave different remainders.
LEMMA RemaindersApart ==
    ASSUME NEW a \in Nat, NEW b \in Nat, NEW d \in Nat \ {0}, b < a, a - b < d
    PROVE  a % d # b % d
<1> DEFINE qa == a \div d
           qb == b \div d
<1>1. SUFFICES ASSUME a % d = b % d PROVE FALSE
  OBVIOUS
<1>2. /\ qa \in Nat /\ qb \in Nat /\ a % d \in 0 .. d - 1
      /\ a = d * qa + (a % d) /\ b = d * qb + (b % d)
  BY DivMod
<1> HIDE DEF qa, qb
<1>3. a - b = d * (qa - qb)
  BY <1>1, <1>2
<1>4. \A e \in Int : ~ (0 < d * e /\ d * e < d)
  BY SMT
<1> QED BY <1>2, <1>3, <1>4

\* The first n numbers.
LEMMA FirstNumbers ==
    ASSUME NEW n \in Nat
    PROVE  IsFiniteSet(0 .. n - 1) /\ Cardinality(0 .. n - 1) = n
<1>1. 0 \in Int /\ n - 1 \in Int
  OBVIOUS
<1>2. /\ IsFiniteSet(0 .. n - 1)
      /\ Cardinality(0 .. n - 1) = IF 0 > n - 1 THEN 0 ELSE (n - 1) - 0 + 1
  BY <1>1, FS_Interval
<1> QED BY <1>2

\* A slot of the ring.
LEMMA SlotInRing == \A id \in Nat : RingSlot(id) \in Slots
  BY ReceiverAssumption, DivMod DEF RingSlot, Slots

\* A slot of the ring of parity packets.
LEMMA FecSlotInRing ==
    ASSUME NEW id \in Nat, NEW start \in Nat
    PROVE  FecSlot(id, start) \in 0 .. FecRing - 1
<1>1. id * FecStride \in Nat /\ start \div FecGroup \in Nat
  BY ReceiverAssumption, DivMod, SMT
<1>2. id * FecStride + start \div FecGroup \in Nat
  BY <1>1
<1> QED BY <1>2, ReceiverAssumption, DivMod DEF FecSlot

\* Ids in the ring are told apart by their slots.
LEMMA InRingIsThere ==
    ASSUME NEW id \in Nat, InRing(id)
    PROVE  RingSlot(id) \in Reassembling /\ m_frameRing[RingSlot(id)].frameId = id
  BY SlotInRing DEF InRing, Reassembling

LEMMA ReassemblingFinite ==
    /\ IsFiniteSet(Slots) /\ IsFiniteSet(Reassembling) /\ Cardinality(Reassembling) \in Nat
<1>1. IsFiniteSet(Slots)
  BY ReceiverAssumption, FirstNumbers DEF Slots
<1>2. Reassembling \in SUBSET Slots
  BY DEF Reassembling
<1> QED BY <1>1, <1>2, FS_Subset, FS_CardinalityType

-----------------------------------------------------------------------------
\* A fragment more in the map is one more in the count.
LEMMA OneMore ==
    ASSUME NEW f, Counted(f), NEW i \in 0 .. f.totalFragments - 1, i \notin f.fragmentMap
    PROVE  /\ f.fragmentMap \cup {i} \subseteq 0 .. f.totalFragments - 1
           /\ Cardinality(f.fragmentMap \cup {i}) = f.fragmentsReceived + 1
           /\ f.fragmentsReceived + 1 \in 0 .. MaxFragments
           /\ f.fragmentMap \cup {i} \in SUBSET (0 .. MaxFragments - 1)
<1>1. f.totalFragments \in 0 .. MaxFragments /\ MaxFragments \in Nat
  BY ReceiverAssumption DEF Counted, FrameType
<1>2. IsFiniteSet(0 .. f.totalFragments - 1) /\ Cardinality(0 .. f.totalFragments - 1) = f.totalFragments
  BY <1>1, FirstNumbers
<1>3. f.fragmentMap \cup {i} \in SUBSET (0 .. f.totalFragments - 1)
  BY DEF Counted
<1>4. IsFiniteSet(f.fragmentMap)
  BY <1>2, FS_Subset DEF Counted
<1>5. Cardinality(f.fragmentMap \cup {i}) = f.fragmentsReceived + 1
  BY <1>4, FS_AddElement DEF Counted
<1>6. Cardinality(f.fragmentMap \cup {i}) <= f.totalFragments
  BY <1>2, <1>3, FS_Subset
<1>7. f.fragmentsReceived \in Nat
  BY <1>1 DEF Counted, FrameType
<1> QED BY <1>1, <1>3, <1>5, <1>6, <1>7

\* A frame has as many fragments as its map when it has all of them.
LEMMA AllThere ==
    ASSUME NEW f, Counted(f)
    PROVE  f.fragmentsReceived = f.totalFragments <=> f.fragmentMap = 0 .. f.totalFragments - 1
<1>1. f.totalFragments \in Nat
  BY ReceiverAssumption DEF Counted, FrameType
<1>2. IsFiniteSet(0 .. f.totalFragments - 1) /\ Cardinality(0 .. f.totalFragments - 1) = f.totalFragments
  BY <1>1, FirstNumbers
<1> QED BY <1>2, FS_Subset DEF Counted

\* What a recovery does, if it does anything: the fragment that is missing of the
\* group is there.
RestoredBy(f, g, start, fecRing) ==
    /\ ~ f.isComplete
    /\ HasGroup(fecRing, f.frameId, start)
    /\ \E i \in 0 .. f.totalFragments - 1 :
          /\ MissingOf(f, fecRing[FecSlot(f.frameId, start)]) = {i}
          /\ g.fragmentMap = f.fragmentMap \cup {i}

Restorable(f, start, fecRing) ==
    /\ ~ f.isComplete
    /\ HasGroup(fecRing, f.frameId, start)
    /\ Cardinality(MissingOf(f, fecRing[FecSlot(f.frameId, start)])) = 1

SameFrame(f, g) == /\ g.frameId = f.frameId
                   /\ g.totalFragments = f.totalFragments
                   /\ g.isKeyframe = f.isKeyframe

FecRings == [0 .. FecRing - 1 -> GroupType \cup {NoGroup}]

LEMMA MissingInFrame ==
    ASSUME NEW f, Counted(f), NEW group \in GroupType
    PROVE  /\ MissingOf(f, group) \subseteq 0 .. f.totalFragments - 1
           /\ MissingOf(f, group) \cap f.fragmentMap = {}
           /\ IsFiniteSet(MissingOf(f, group))
<1>1. f.totalFragments \in Nat /\ group.fragmentStart \in Nat /\ group.fragmentCount \in Nat
  BY ReceiverAssumption DEF Counted, FrameType, GroupType
<1>2. MissingOf(f, group) \in SUBSET (0 .. f.totalFragments - 1)
  BY <1>1 DEF MissingOf
<1>3. MissingOf(f, group) \cap f.fragmentMap = {}
  BY DEF MissingOf
<1>4. IsFiniteSet(0 .. f.totalFragments - 1)
  BY <1>1, FirstNumbers
<1> QED BY <1>2, <1>3, <1>4, FS_Subset

LEMMA RecoverIs ==
    ASSUME NEW f, Counted(f), NEW start \in Nat, NEW fecRing \in FecRings
    PROVE  LET g == TryRecover(f, start, fecRing)
           IN  /\ Counted(g) /\ SameFrame(f, g)
               /\ \/ g = f /\ ~ Restorable(f, start, fecRing)
                  \/ RestoredBy(f, g, start, fecRing) /\ Whole(g)
<1> DEFINE g == TryRecover(f, start, fecRing)
           missing == MissingOf(f, fecRing[FecSlot(f.frameId, start)])
<1>1. CASE ~ Restorable(f, start, fecRing)
  <2>1. g = f
    BY <1>1 DEF TryRecover, Restorable
  <2> QED BY <1>1, <2>1 DEF SameFrame
<1>2. CASE Restorable(f, start, fecRing)
  <2>1. fecRing[FecSlot(f.frameId, start)] \in GroupType
    <3>1. f.frameId \in Nat
      BY DEF Counted, FrameType
    <3>2. FecSlot(f.frameId, start) \in 0 .. FecRing - 1
      BY <3>1, FecSlotInRing
    <3> QED BY <1>2, <3>2 DEF Restorable, HasGroup, FecRings
  <2>2. PICK i : missing = {i}
    BY <1>2, <2>1, MissingInFrame, FS_Singleton DEF Restorable
  <2>3. i \in 0 .. f.totalFragments - 1 /\ i \notin f.fragmentMap
    BY <2>1, <2>2, MissingInFrame
  <2>4. g = [f EXCEPT !.fragmentMap = @ \cup {i}, !.fragmentsReceived = @ + 1,
                      !.isComplete = f.fragmentsReceived + 1 = f.totalFragments]
    BY <1>2, <2>2 DEF TryRecover, Restorable
  <2>5. /\ g \in FrameType /\ g.fragmentMap = f.fragmentMap \cup {i}
        /\ g.fragmentsReceived = f.fragmentsReceived + 1
        /\ g.isComplete = (f.fragmentsReceived + 1 = f.totalFragments)
        /\ SameFrame(f, g)
    <3>1. f \in FrameType
      BY DEF Counted
    <3>2. f.fragmentMap \cup {i} \in SUBSET (0 .. MaxFragments - 1) /\ f.fragmentsReceived + 1 \in 0 .. MaxFragments
      BY <2>3, OneMore
    <3>3. g \in FrameType
      BY <2>4, <3>1, <3>2 DEF FrameType
    <3>4. /\ g.fragmentMap = f.fragmentMap \cup {i} /\ g.fragmentsReceived = f.fragmentsReceived + 1
          /\ g.isComplete = (f.fragmentsReceived + 1 = f.totalFragments)
          /\ g.frameId = f.frameId /\ g.totalFragments = f.totalFragments /\ g.isKeyframe = f.isKeyframe
      BY <2>4, <3>1 DEF FrameType
    <3> QED BY <3>3, <3>4 DEF SameFrame
  <2> HIDE DEF g
  <2>6. Counted(g) /\ Whole(g)
    BY <2>3, <2>5, OneMore DEF Counted, Whole, SameFrame
  <2>7. RestoredBy(f, g, start, fecRing)
    BY <1>2, <2>2, <2>3, <2>5 DEF RestoredBy, Restorable
  <2> QED BY <2>5, <2>6, <2>7 DEF g
<1> QED BY <1>1, <1>2

\* A frame after a fragment of it was stored, before anything is restored.
Stored(f, i) == [f EXCEPT !.fragmentMap = @ \cup {i}, !.fragmentsReceived = @ + 1]

\* What became of a frame f that fragment i was put into.
Gained(f, g, i) ==
    \/ ~ Misses(f, i) /\ g.fragmentMap = f.fragmentMap
    \/ /\ Misses(f, i)
       /\ \/ /\ g.fragmentMap = f.fragmentMap \cup {i}
             /\ ~ Restorable(Stored(f, i), GroupStart(i), m_fecRing)
          \/ RestoredBy(Stored(f, i), g, GroupStart(i), m_fecRing)

LEMMA StoredIs ==
    ASSUME NEW f, Counted(f), Whole(f), NEW i \in Nat, Misses(f, i)
    PROVE  /\ Counted(Stored(f, i)) /\ SameFrame(f, Stored(f, i))
           /\ Stored(f, i).fragmentMap = f.fragmentMap \cup {i}
           /\ Stored(f, i).isComplete = FALSE
<1>1. f \in FrameType /\ f.totalFragments \in Nat
  BY ReceiverAssumption DEF Counted, FrameType
<1>2. i \in 0 .. f.totalFragments - 1 /\ i \notin f.fragmentMap
  BY <1>1 DEF Misses
<1>3. /\ f.fragmentMap \cup {i} \in SUBSET (0 .. MaxFragments - 1)
      /\ f.fragmentsReceived + 1 \in 0 .. MaxFragments
      /\ f.fragmentMap \cup {i} \subseteq 0 .. f.totalFragments - 1
      /\ Cardinality(f.fragmentMap \cup {i}) = f.fragmentsReceived + 1
  BY <1>2, OneMore
<1>4. f.isComplete = FALSE
  BY <1>1, <1>2, AllThere DEF Whole, FrameType
<1>5. /\ Stored(f, i) \in FrameType
      /\ Stored(f, i).fragmentMap = f.fragmentMap \cup {i}
      /\ Stored(f, i).fragmentsReceived = f.fragmentsReceived + 1
      /\ Stored(f, i).isComplete = FALSE
      /\ Stored(f, i).frameId = f.frameId /\ Stored(f, i).totalFragments = f.totalFragments
      /\ Stored(f, i).isKeyframe = f.isKeyframe
  BY <1>1, <1>3, <1>4 DEF Stored, FrameType
<1> QED BY <1>3, <1>5 DEF Counted, SameFrame

LEMMA GroupStartIsNat == \A i \in Nat : GroupStart(i) \in Nat
<1> SUFFICES ASSUME NEW i \in Nat PROVE GroupStart(i) \in Nat
  OBVIOUS
<1>1. i \div FecGroup \in Nat /\ FecGroup \in Nat
  BY ReceiverAssumption, DivMod
<1> QED BY <1>1, SMT DEF GroupStart

LEMMA FragmentStored ==
    ASSUME m_fecRing \in FecRings, NEW f, Counted(f), Whole(f), NEW i \in Nat
    PROVE  LET g == WithFragment(f, i)
           IN  Counted(g) /\ Whole(g) /\ SameFrame(f, g) /\ Gained(f, g, i)
<1> DEFINE start == GroupStart(i)
           r == IF Misses(f, i) THEN TryRecover(Stored(f, i), start, m_fecRing) ELSE f
           g == WithFragment(f, i)
<1>1. g = [r EXCEPT !.isComplete = @ \/ AllReceived(r)]
  BY DEF WithFragment, Stored
<1>2. start \in Nat
  BY GroupStartIsNat
<1>3. /\ Counted(r) /\ SameFrame(f, r)
      /\ r.isComplete => r.fragmentsReceived = r.totalFragments
      /\ Gained(f, r, i)
  <2>1. CASE ~ Misses(f, i)
    BY <2>1 DEF Whole, SameFrame, Gained
  <2>2. CASE Misses(f, i)
    <3> DEFINE t == TryRecover(Stored(f, i), start, m_fecRing)
    <3>1. r = t
      BY <2>2
    <3>2. /\ Counted(t) /\ SameFrame(Stored(f, i), t)
          /\ \/ t = Stored(f, i) /\ ~ Restorable(Stored(f, i), start, m_fecRing)
             \/ RestoredBy(Stored(f, i), t, start, m_fecRing) /\ Whole(t)
      BY <1>2, <2>2, StoredIs, RecoverIs
    <3> HIDE DEF t
    <3>3. t.isComplete => t.fragmentsReceived = t.totalFragments
      <4>1. Stored(f, i).isComplete = FALSE
        BY <2>2, StoredIs
      <4> QED BY <3>2, <4>1 DEF Whole
    <3>4. Gained(f, t, i)
      BY <2>2, <3>2, StoredIs DEF Gained
    <3>5. SameFrame(f, t)
      BY <2>2, <3>2, StoredIs DEF SameFrame
    <3> QED BY <3>1, <3>2, <3>3, <3>4, <3>5
  <2> QED BY <2>1, <2>2
<1> HIDE DEF r
<1>4. r \in FrameType /\ AllReceived(r) \in BOOLEAN
  BY <1>3 DEF Counted, AllReceived
<1>5. /\ g \in FrameType
      /\ g.isComplete = (r.isComplete \/ AllReceived(r))
      /\ g.frameId = r.frameId /\ g.totalFragments = r.totalFragments /\ g.isKeyframe = r.isKeyframe
      /\ g.fragmentMap = r.fragmentMap /\ g.fragmentsReceived = r.fragmentsReceived
  BY <1>1, <1>4 DEF FrameType
<1> HIDE DEF g
<1>6. Counted(g) /\ SameFrame(f, g)
  BY <1>3, <1>5 DEF Counted, SameFrame
<1>7. Whole(g)
  BY <1>3, <1>5 DEF Whole, AllReceived
<1>8. Gained(f, g, i)
  BY <1>3, <1>5 DEF Gained, RestoredBy
<1> QED BY <1>6, <1>7, <1>8 DEF g

-----------------------------------------------------------------------------
\* A slot of the ring is taken, or given up.
LEMMA SlotTaken ==
    ASSUME RingInv, NEW s \in Slots, NEW f \in FrameType,
           m_frameRing' = [m_frameRing EXCEPT ![s] = f]
    PROVE  /\ m_frameRing' \in [Slots -> FrameType \cup {NoFrame}] /\ m_frameRing'[s] = f
           /\ \A t \in Slots \ {s} : m_frameRing'[t] = m_frameRing[t]
           /\ Reassembling' = Reassembling \cup {s}
           /\ Cardinality(Reassembling') =
                 IF s \in Reassembling THEN Cardinality(Reassembling) ELSE Cardinality(Reassembling) + 1
<1>1. m_frameRing \in [Slots -> FrameType \cup {NoFrame}]
  BY DEF RingInv, ReceiverTypeOK
<1>2. /\ m_frameRing' \in [Slots -> FrameType \cup {NoFrame}] /\ m_frameRing'[s] = f
      /\ \A t \in Slots \ {s} : m_frameRing'[t] = m_frameRing[t]
  BY <1>1
<1>3. f # NoFrame
  BY NullAssumption
<1>4. Reassembling' = Reassembling \cup {s}
  BY <1>2, <1>3 DEF Reassembling
<1> QED BY <1>2, <1>4, ReassemblingFinite, FS_AddElement

LEMMA SlotGiven ==
    ASSUME RingInv, NEW s \in Reassembling, m_frameRing' = [m_frameRing EXCEPT ![s] = NoFrame]
    PROVE  /\ m_frameRing' \in [Slots -> FrameType \cup {NoFrame}]
           /\ \A t \in Slots \ {s} : m_frameRing'[t] = m_frameRing[t]
           /\ Reassembling' = Reassembling \ {s}
           /\ Cardinality(Reassembling') = Cardinality(Reassembling) - 1
<1>1. m_frameRing \in [Slots -> FrameType \cup {NoFrame}] /\ s \in Slots
  BY DEF RingInv, ReceiverTypeOK, Reassembling
<1>2. /\ m_frameRing' \in [Slots -> FrameType \cup {NoFrame}] /\ m_frameRing'[s] = NoFrame
      /\ \A t \in Slots \ {s} : m_frameRing'[t] = m_frameRing[t]
  BY <1>1
<1>3. Reassembling' = Reassembling \ {s}
  BY <1>2 DEF Reassembling
<1> QED BY <1>2, <1>3, ReassemblingFinite, FS_RemoveElement

LEMMA InitRing == ReceiverInit => RingInv /\ Outside = 0 /\ Reassembling = {}
<1> SUFFICES ASSUME ReceiverInit PROVE RingInv /\ Outside = 0 /\ Reassembling = {}
  OBVIOUS
<1>1. Reassembling = {}
  BY DEF ReceiverInit, Reassembling
<1>2. ReceiverTypeOK
  BY ReceiverAssumption DEF ReceiverInit, ReceiverTypeOK
<1>3. Outside = 0
  BY <1>1, ReceiverAssumption, FS_EmptySet DEF Outside, ReceiverInit
<1> QED BY <1>1, <1>2, <1>3 DEF RingInv

\* What ProcessPacket(h) does to the slot of its frame: the fragment goes into a new
\* frame, or into the one of that id.
Grown(h) ==
    LET s == RingSlot(h.frameId)
    IN  \E f : /\ \/ f = NewFrame(h)
                  \/ s \in Reassembling /\ f = m_frameRing[s] /\ f.frameId = h.frameId
               /\ SameFrame(f, m_frameRing'[s])
               /\ Gained(f, m_frameRing'[s], h.fragmentIndex)

\* The read pointer is moved by the first packet only.
LEMMA PacketKeeps ==
    ASSUME RingInv, NEW h \in HeaderType, ProcessPacket(h)
    PROVE  /\ RingInv' /\ Outside' = Outside /\ UNCHANGED fecVars
           /\ m_firstFrameReceived' = Begins(h)
           /\ m_nextFrameIdToRead' = IF ~ m_firstFrameReceived /\ h.isKeyframe
                                     THEN h.frameId ELSE m_nextFrameIdToRead
           /\ \A s \in Reassembling' :
                 \/ s \in Reassembling /\ m_frameRing'[s] = m_frameRing[s]
                 \/ s = RingSlot(h.frameId) /\ Grown(h)
<1> DEFINE s == RingSlot(h.frameId)
           next == IF m_firstFrameReceived THEN m_nextFrameIdToRead ELSE h.frameId
           i == h.fragmentIndex
<1>1. UNCHANGED fecVars /\ h.frameId \in Nat /\ i \in Nat /\ s \in Slots /\ m_fecRing \in FecRings
  BY SlotInRing DEF ProcessPacket, HeaderType, RingInv, ReceiverTypeOK, FecRings
<1>2. CASE ~ Begins(h)
  <2>1. UNCHANGED <<frameVars, fecVars>>
    BY <1>1, <1>2 DEF ProcessPacket
  <2>2. RingInv' /\ Outside' = Outside /\ Reassembling' = Reassembling
    BY <2>1 DEF RingInv, ReceiverTypeOK, Outside, Reassembling, frameVars, fecVars
  <2>3. m_firstFrameReceived = FALSE /\ h.isKeyframe = FALSE /\ Begins(h) = FALSE
    BY <1>2 DEF Begins, HeaderType, RingInv, ReceiverTypeOK
  <2> QED BY <1>1, <2>1, <2>2, <2>3 DEF frameVars
<1>3. CASE Begins(h)
  <2>1. /\ m_firstFrameReceived' = TRUE /\ m_nextFrameIdToRead' = next /\ Begins(h) = TRUE
        /\ next = IF ~ m_firstFrameReceived /\ h.isKeyframe THEN h.frameId ELSE m_nextFrameIdToRead
        /\ next \in Nat
    BY <1>1, <1>3 DEF ProcessPacket, Begins, RingInv, ReceiverTypeOK
  <2>2. \A t \in Reassembling : m_frameRing[t].frameId >= next
    BY <2>1 DEF RingInv
  <2> HIDE DEF next
  <2>3. CASE UNCHANGED <<m_frameRing, m_framePool, m_frameStorage>>
    <3>1. Outside' = Outside /\ Reassembling' = Reassembling
      BY <2>3 DEF Outside, Reassembling
    <3>2. RingInv'
      BY <1>1, <2>1, <2>2, <2>3, <3>1 DEF RingInv, ReceiverTypeOK, fecVars
    <3> QED BY <1>1, <2>1, <2>3, <3>1, <3>2
  <2>4. ASSUME NEW f, Counted(f), Whole(f), f.frameId = h.frameId, h.frameId >= next,
               f = NewFrame(h) \/ (s \in Reassembling /\ f = m_frameRing[s]),
               m_frameRing' = [m_frameRing EXCEPT ![s] = WithFragment(f, i)],
               m_framePool' \in Nat, m_frameStorage' \in Nat,
               s \in Reassembling => m_frameStorage' - m_framePool' = m_frameStorage - m_framePool,
               s \notin Reassembling => m_frameStorage' - m_framePool' = (m_frameStorage - m_framePool) + 1
        PROVE  /\ RingInv' /\ Outside' = Outside
               /\ \A t \in Reassembling' :
                     \/ t \in Reassembling /\ m_frameRing'[t] = m_frameRing[t]
                     \/ t = s /\ Grown(h)
    <3> DEFINE g == WithFragment(f, i)
    <3>1. Counted(g) /\ Whole(g) /\ SameFrame(f, g) /\ Gained(f, g, i)
      BY <1>1, <2>4, FragmentStored
    <3> HIDE DEF g
    <3>2. g \in FrameType /\ m_frameRing' = [m_frameRing EXCEPT ![s] = g]
      BY <2>4, <3>1 DEF Counted, g
    <3>3. /\ m_frameRing' \in [Slots -> FrameType \cup {NoFrame}] /\ m_frameRing'[s] = g
          /\ \A t \in Slots \ {s} : m_frameRing'[t] = m_frameRing[t]
          /\ Reassembling' = Reassembling \cup {s}
          /\ Cardinality(Reassembling') =
                IF s \in Reassembling THEN Cardinality(Reassembling) ELSE Cardinality(Reassembling) + 1
      BY <1>1, <3>2, SlotTaken
    <3>4. Outside' = Outside
      <4>1. /\ m_frameStorage \in Nat /\ m_framePool \in Nat /\ Cardinality(Reassembling) \in Nat
        BY ReassemblingFinite DEF RingInv, ReceiverTypeOK
      <4>2. CASE s \in Reassembling
        <5>1. /\ m_frameStorage' \in Nat /\ m_framePool' \in Nat
              /\ m_frameStorage' - m_framePool' = m_frameStorage - m_framePool
          BY <2>4, <4>1, <4>2
        <5>2. Cardinality(Reassembling') = Cardinality(Reassembling)
          BY <3>3, <4>2
        <5> QED BY <4>1, <5>1, <5>2 DEF Outside
      <4>3. CASE s \notin Reassembling
        <5>1. /\ m_frameStorage' \in Nat /\ m_framePool' \in Nat
              /\ m_frameStorage' - m_framePool' = (m_frameStorage - m_framePool) + 1
          BY <2>4, <4>1, <4>3
        <5>2. Cardinality(Reassembling') = Cardinality(Reassembling) + 1
          BY <3>3, <4>3
        <5>3. PICK c \in Nat, d \in Nat :
                 c = Cardinality(Reassembling) /\ d = Cardinality(Reassembling') /\ d = c + 1
          BY <4>1, <5>2
        <5>4. m_frameStorage - m_framePool \in Int
          BY <4>1
        <5>5. (m_frameStorage' - m_framePool') - d = (m_frameStorage - m_framePool) - c
          BY <5>1, <5>3, <5>4
        <5> QED BY <5>3, <5>5 DEF Outside
      <4> QED BY <4>2, <4>3
    <3>5. Grown(h)
      BY <2>4, <3>1, <3>3 DEF Grown
    <3>6. \A t \in Reassembling' :
             \/ t \in Reassembling /\ m_frameRing'[t] = m_frameRing[t]
             \/ t = s /\ Grown(h)
      BY <3>3, <3>5 DEF Reassembling
    <3>7. g.frameId = h.frameId
      BY <2>4, <3>1 DEF SameFrame
    <3>8. RingInv'
      <4>1. ReceiverTypeOK'
        BY <1>1, <2>1, <2>4, <3>3 DEF RingInv, ReceiverTypeOK, fecVars
      <4>2. ASSUME NEW t \in Reassembling'
            PROVE  /\ RingSlot(m_frameRing'[t].frameId) = t
                   /\ m_frameRing'[t].frameId >= next
                   /\ Counted(m_frameRing'[t]) /\ Whole(m_frameRing'[t])
        <5>1. CASE t = s
          BY <2>4, <3>1, <3>3, <3>7, <5>1
        <5>2. CASE t # s
          BY <2>2, <3>3, <5>2 DEF RingInv, Reassembling
        <5> QED BY <5>1, <5>2
      <4> QED BY <2>1, <4>1, <4>2 DEF RingInv
    <3> QED BY <3>4, <3>6, <3>8
  <2>5. CASE h.frameId >= next /\ h.totalFragments <= MaxFragments /\ ~ InRing(h.frameId) /\ AcquireSlot(h)
    <3> DEFINE f == NewFrame(h)
    <3>1. Counted(f) /\ Whole(f) /\ f.frameId = h.frameId
      <4>1. /\ f \in FrameType /\ f.fragmentMap = {} /\ f.fragmentsReceived = 0
            /\ f.totalFragments = h.totalFragments /\ f.frameId = h.frameId /\ f.isComplete = FALSE
        BY <2>5, ReceiverAssumption DEF NewFrame, FrameType, HeaderType
      <4> QED BY <4>1, FS_EmptySet DEF Counted, Whole, HeaderType
    <3> HIDE DEF f
    <3>2. s \in Reassembling <=> m_frameRing[s] # NoFrame
      BY <1>1 DEF Reassembling
    <3>3. Free(h.frameId) = m_framePool + (IF s \in Reassembling THEN 1 ELSE 0)
      BY <3>2 DEF Free
    <3>4. m_framePool \in Nat /\ m_frameStorage \in Nat
      BY DEF RingInv, ReceiverTypeOK
    <3>5. /\ m_framePool' \in Nat /\ m_frameStorage' \in Nat
          /\ s \in Reassembling => m_frameStorage' - m_framePool' = m_frameStorage - m_framePool
          /\ s \notin Reassembling => m_frameStorage' - m_framePool' = (m_frameStorage - m_framePool) + 1
      BY <2>5, <3>3, <3>4 DEF AcquireSlot
    <3>6. m_frameRing' = [m_frameRing EXCEPT ![s] = WithFragment(f, i)]
      BY <2>5 DEF AcquireSlot, f
    <3> QED BY <1>1, <2>1, <2>4, <2>5, <3>1, <3>5, <3>6 DEF f
  <2>6. CASE /\ h.frameId >= next /\ h.totalFragments <= MaxFragments /\ InRing(h.frameId)
             /\ m_frameRing' = [m_frameRing EXCEPT ![s] = WithFragment(@, i)]
             /\ UNCHANGED <<m_framePool, m_frameStorage>>
    <3> DEFINE f == m_frameRing[s]
    <3>1. s \in Reassembling /\ f.frameId = h.frameId
      BY <1>1, <2>6, InRingIsThere
    <3>2. Counted(f) /\ Whole(f)
      BY <3>1 DEF RingInv
    <3>3. m_frameRing' = [m_frameRing EXCEPT ![s] = WithFragment(f, i)]
      BY <2>6
    <3> HIDE DEF f
    <3>4. /\ m_framePool' \in Nat /\ m_frameStorage' \in Nat
          /\ s \in Reassembling => m_frameStorage' - m_framePool' = m_frameStorage - m_framePool
          /\ s \notin Reassembling => m_frameStorage' - m_framePool' = (m_frameStorage - m_framePool) + 1
      BY <2>6, <3>1 DEF RingInv, ReceiverTypeOK
    <3>5. f = m_frameRing[s]
      BY DEF f
    <3>6. /\ RingInv' /\ Outside' = Outside
          /\ \A t \in Reassembling' :
                \/ t \in Reassembling /\ m_frameRing'[t] = m_frameRing[t]
                \/ t = s /\ Grown(h)
      BY <2>4, <2>6, <3>1, <3>2, <3>3, <3>4, <3>5
    <3> QED BY <1>1, <2>1, <3>6
  <2> QED BY <1>1, <1>3, <2>1, <2>3, <2>5, <2>6 DEF ProcessPacket, next
<1> QED BY <1>2, <1>3

\* GetNextFrame takes the frame at the read pointer, whole, out of the ring.
LEMMA ReadKeeps ==
    ASSUME RingInv, GetNextFrame
    PROVE  /\ RingInv' /\ Outside' = Outside + 1
           /\ m_nextFrameIdToRead' = m_nextFrameIdToRead + 1
           /\ UNCHANGED <<m_firstFrameReceived, fecVars>> /\ m_firstFrameReceived
           /\ RingSlot(m_nextFrameIdToRead) \in Reassembling
           /\ NextFrame = m_frameRing[RingSlot(m_nextFrameIdToRead)]
           /\ NextFrame.frameId = m_nextFrameIdToRead /\ NextFrame.isComplete
           /\ \A s \in Reassembling' : s \in Reassembling /\ m_frameRing'[s] = m_frameRing[s]
<1> DEFINE slot == RingSlot(m_nextFrameIdToRead)
<1>1. /\ InRing(m_nextFrameIdToRead) /\ NextFrame.isComplete
      /\ m_frameRing' = [m_frameRing EXCEPT ![slot] = NoFrame]
      /\ m_nextFrameIdToRead' = m_nextFrameIdToRead + 1 /\ m_nextFrameIdToRead \in Nat
      /\ UNCHANGED <<m_firstFrameReceived, m_framePool, m_frameStorage, fecVars>>
  BY DEF GetNextFrame, NextIsReady, RingInv, ReceiverTypeOK
<1>2. slot \in Reassembling /\ m_frameRing[slot].frameId = m_nextFrameIdToRead
  BY <1>1, InRingIsThere
<1>3. /\ m_frameRing' \in [Slots -> FrameType \cup {NoFrame}]
      /\ \A t \in Slots \ {slot} : m_frameRing'[t] = m_frameRing[t]
      /\ Reassembling' = Reassembling \ {slot}
      /\ Cardinality(Reassembling') = Cardinality(Reassembling) - 1
  BY <1>1, <1>2, SlotGiven
<1>4. Outside' = Outside + 1
  <2>1. PICK a \in Nat, p \in Nat, c \in Nat :
          a = m_frameStorage /\ p = m_framePool /\ c = Cardinality(Reassembling)
    BY ReassemblingFinite DEF RingInv, ReceiverTypeOK
  <2>2. Outside = a - p - c /\ Outside' = a - p - (c - 1)
    BY <1>1, <1>3, <2>1 DEF Outside
  <2>3. a - p - (c - 1) = a - p - c + 1
    OBVIOUS
  <2> QED BY <2>2, <2>3
<1>5. \A t \in Reassembling' : t \in Reassembling /\ t \in Slots \ {slot} /\ m_frameRing'[t] = m_frameRing[t]
  BY <1>3 DEF Reassembling
<1>6. RingInv'
  <2>1. ReceiverTypeOK'
    BY <1>1, <1>3 DEF RingInv, ReceiverTypeOK, fecVars
  <2>2. ASSUME NEW t \in Reassembling'
        PROVE  /\ RingSlot(m_frameRing'[t].frameId) = t
               /\ m_frameRing'[t].frameId >= m_nextFrameIdToRead + 1
               /\ Counted(m_frameRing'[t]) /\ Whole(m_frameRing'[t])
    <3>1. /\ RingSlot(m_frameRing[t].frameId) = t /\ m_frameRing[t].frameId >= m_nextFrameIdToRead
          /\ Counted(m_frameRing[t]) /\ Whole(m_frameRing[t]) /\ m_frameRing[t].frameId \in Nat
      BY <1>5 DEF RingInv, Counted, FrameType
    <3>2. m_frameRing[t].frameId # m_nextFrameIdToRead
      BY <1>5, <3>1
    <3> QED BY <1>1, <1>5, <3>1, <3>2
  <2>3. ~ m_firstFrameReceived' => Reassembling' = {}
    BY <1>1, <1>3 DEF RingInv
  <2> QED BY <1>1, <2>1, <2>2, <2>3 DEF RingInv
<1>7. m_firstFrameReceived
  BY <1>2 DEF RingInv
<1> QED BY <1>1, <1>2, <1>4, <1>5, <1>6, <1>7 DEF NextFrame

\* ForceAdvanceTo(id) gives the frames below id back to the pool, each once.
LEMMA SkipKeeps ==
    ASSUME RingInv, NEW id \in Nat, ForceAdvanceTo(id)
    PROVE  /\ RingInv' /\ Outside' = Outside
           /\ m_nextFrameIdToRead' = IF id > m_nextFrameIdToRead THEN id ELSE m_nextFrameIdToRead
           /\ UNCHANGED <<m_firstFrameReceived, fecVars>>
           /\ \A s \in Reassembling' : s \in Reassembling /\ m_frameRing'[s] = m_frameRing[s]
<1>1. m_nextFrameIdToRead \in Nat /\ m_frameRing \in [Slots -> FrameType \cup {NoFrame}]
  BY DEF RingInv, ReceiverTypeOK
<1>2. CASE id <= m_nextFrameIdToRead
  <2>1. UNCHANGED <<frameVars, fecVars>>
    BY <1>1, <1>2 DEF ForceAdvanceTo, receiverVars
  <2>2. RingInv' /\ Outside' = Outside /\ Reassembling' = Reassembling
    BY <2>1 DEF RingInv, ReceiverTypeOK, Outside, Reassembling, frameVars, fecVars
  <2> QED BY <1>1, <1>2, <2>1, <2>2 DEF frameVars, Reassembling
<1>3. CASE id > m_nextFrameIdToRead
  <2> DEFINE skipped == Skipped(id)
             cleared == {RingSlot(f) : f \in skipped}
  <2>1. /\ m_frameRing' = [s \in Slots |-> IF \E f \in skipped : RingSlot(f) = s
                                          THEN NoFrame ELSE m_frameRing[s]]
        /\ m_framePool' = m_framePool + Cardinality(skipped)
        /\ m_nextFrameIdToRead' = id
        /\ UNCHANGED <<m_firstFrameReceived, m_frameStorage, fecVars>>
    BY <1>1, <1>3 DEF ForceAdvanceTo
  <2>2. \A f \in skipped : f \in Nat /\ InRing(f) /\ f < id /\ f >= m_nextFrameIdToRead
    BY <1>1 DEF Skipped
  <2>3. IsFiniteSet(skipped) /\ Cardinality(skipped) \in Nat
    <3>1. skipped \in SUBSET (m_nextFrameIdToRead .. id - 1)
      BY DEF Skipped
    <3>2. IsFiniteSet(m_nextFrameIdToRead .. id - 1)
      BY <1>1, FS_Interval
    <3> QED BY <3>1, <3>2, FS_Subset, FS_CardinalityType
  <2>4. \A f \in skipped : RingSlot(f) \in Reassembling /\ m_frameRing[RingSlot(f)].frameId = f
    BY <2>2, InRingIsThere
  <2>5. IsFiniteSet(cleared) /\ Cardinality(cleared) = Cardinality(skipped)
    <3> DEFINE slotOf == [f \in skipped |-> RingSlot(f)]
    <3>1. slotOf \in Bijection(skipped, cleared)
      <4>1. slotOf \in [skipped -> cleared]
        OBVIOUS
      <4>2. \A f, g \in skipped : slotOf[f] = slotOf[g] => f = g
        BY <2>4
      <4>3. \A s \in cleared : \E f \in skipped : slotOf[f] = s
        OBVIOUS
      <4> QED BY <4>1, <4>2, <4>3, Fun_IsBij
    <3> QED BY <2>3, <3>1, FS_Bijection DEF ExistsBijection
  <2>6. Reassembling' = Reassembling \ cleared /\ cleared \subseteq Reassembling
    BY <2>1, <2>4 DEF Reassembling
  <2>7. \A s \in Reassembling' : s \in Reassembling /\ s \notin cleared /\ m_frameRing'[s] = m_frameRing[s]
    BY <2>1, <2>6 DEF Reassembling
  <2>8. /\ m_frameRing' \in [Slots -> FrameType \cup {NoFrame}]
    BY <1>1, <2>1
  <2> HIDE DEF skipped, cleared
  <2>9. Outside' = Outside /\ m_framePool' \in Nat
    <3>1. Cardinality(Reassembling') = Cardinality(Reassembling) - Cardinality(skipped)
      <4>1. Reassembling \cap cleared = cleared
        BY <2>6
      <4>2. Cardinality(Reassembling \ cleared) = Cardinality(Reassembling) - Cardinality(Reassembling \cap cleared)
        <5>1. IsFiniteSet(Reassembling)
          BY ReassemblingFinite
        <5> QED BY <5>1, FS_Difference
      <4> QED BY <2>5, <2>6, <4>1, <4>2
    <3>2. PICK a \in Nat, p \in Nat, c \in Nat, k \in Nat :
            /\ a = m_frameStorage /\ p = m_framePool /\ c = Cardinality(Reassembling)
            /\ k = Cardinality(skipped)
      BY <2>3, ReassemblingFinite DEF RingInv, ReceiverTypeOK
    <3>3. Outside = a - p - c /\ Outside' = a - (p + k) - (c - k) /\ m_framePool' = p + k
      BY <2>1, <3>1, <3>2 DEF Outside
    <3>4. a - (p + k) - (c - k) = a - p - c
      OBVIOUS
    <3> QED BY <3>3, <3>4
  <2>10. RingInv'
    <3>1. ReceiverTypeOK'
      BY <2>1, <2>8, <2>9 DEF RingInv, ReceiverTypeOK, fecVars
    <3>2. ASSUME NEW t \in Reassembling'
          PROVE  /\ RingSlot(m_frameRing'[t].frameId) = t
                 /\ m_frameRing'[t].frameId >= id
                 /\ Counted(m_frameRing'[t]) /\ Whole(m_frameRing'[t])
      <4> DEFINE f == m_frameRing[t].frameId
      <4>1. /\ RingSlot(f) = t /\ f >= m_nextFrameIdToRead /\ m_frameRing[t] # NoFrame
            /\ Counted(m_frameRing[t]) /\ Whole(m_frameRing[t]) /\ f \in Nat
        BY <2>7 DEF RingInv, Counted, FrameType, Reassembling
      <4>2. ASSUME f < id PROVE FALSE
        <5>1. InRing(f)
          BY <4>1 DEF InRing
        <5>2. f \in skipped
          BY <1>1, <4>1, <4>2, <5>1 DEF Skipped, skipped
        <5> QED BY <2>7, <4>1, <5>2 DEF cleared
      <4> QED BY <2>7, <4>1, <4>2
    <3>3. ~ m_firstFrameReceived' => Reassembling' = {}
      BY <2>1, <2>6 DEF RingInv
    <3> QED BY <2>1, <3>1, <3>2, <3>3 DEF RingInv
  <2> QED BY <1>3, <2>1, <2>7, <2>9, <2>10
<1> QED BY <1>1, <1>2, <1>3

\* ReturnToPoolRaw brings one buffer back from outside.
LEMMA ReturnKeeps ==
    ASSUME RingInv, ReturnToPoolRaw
    PROVE  /\ RingInv' /\ Outside' = Outside - 1 /\ Reassembling' = Reassembling
           /\ UNCHANGED <<m_frameRing, m_nextFrameIdToRead, m_firstFrameReceived, fecVars>>
<1>1. /\ m_framePool' = m_framePool + 1
      /\ UNCHANGED <<m_frameRing, m_nextFrameIdToRead, m_firstFrameReceived, m_frameStorage, fecVars>>
  BY DEF ReturnToPoolRaw
<1>2. Reassembling' = Reassembling
  BY <1>1 DEF Reassembling
<1>3. Outside' = Outside - 1
  <2>1. PICK a \in Nat, p \in Nat, c \in Nat :
          a = m_frameStorage /\ p = m_framePool /\ c = Cardinality(Reassembling)
    BY ReassemblingFinite DEF RingInv, ReceiverTypeOK
  <2>2. Outside = a - p - c /\ Outside' = a - (p + 1) - c
    BY <1>1, <1>2, <2>1 DEF Outside
  <2>3. a - (p + 1) - c = a - p - c - 1
    OBVIOUS
  <2> QED BY <2>2, <2>3
<1>4. RingInv'
  BY <1>1, <1>2 DEF RingInv, ReceiverTypeOK, fecVars
<1> QED BY <1>1, <1>2, <1>3, <1>4

\* ProcessFEC(group) puts the group into its slot, and tries to restore a fragment of its
\* frame if that is in the ring; no buffer moves.
LEMMA FecKeeps ==
    ASSUME RingInv, NEW group \in GroupType, ProcessFEC(group)
    PROVE  /\ RingInv' /\ Outside' = Outside /\ Reassembling' = Reassembling
           /\ UNCHANGED <<m_nextFrameIdToRead, m_firstFrameReceived>>
           /\ \/ UNCHANGED <<m_frameRing, m_fecRing, m_fecPool>>
              \/ /\ FreeParity(FecSlot(group.frameId, group.fragmentStart)) > 0
                 /\ m_fecPool' = FreeParity(FecSlot(group.frameId, group.fragmentStart)) - 1
                 /\ m_fecRing' = [m_fecRing EXCEPT ![FecSlot(group.frameId, group.fragmentStart)] = group]
                 /\ \A s \in Reassembling :
                       m_frameRing'[s] = IF m_frameRing[s].frameId = group.frameId
                                         THEN TryRecover(m_frameRing[s], group.fragmentStart, m_fecRing')
                                         ELSE m_frameRing[s]
<1> DEFINE id == group.frameId
           start == group.fragmentStart
           slot == FecSlot(id, start)
           free == FreeParity(slot)
<1>1. /\ id \in Nat /\ start \in Nat /\ slot \in 0 .. FecRing - 1 /\ RingSlot(id) \in Slots
      /\ m_frameRing \in [Slots -> FrameType \cup {NoFrame}] /\ m_fecRing \in FecRings
      /\ m_fecPool \in Nat /\ free \in Nat
  <2>1. /\ id \in Nat /\ start \in Nat /\ m_fecPool \in Nat /\ m_fecRing \in FecRings
        /\ m_frameRing \in [Slots -> FrameType \cup {NoFrame}]
    BY DEF GroupType, RingInv, ReceiverTypeOK, FecRings
  <2>2. slot \in 0 .. FecRing - 1 /\ RingSlot(id) \in Slots
    BY <2>1, FecSlotInRing, SlotInRing
  <2>3. free \in Nat
    BY <2>1 DEF FreeParity
  <2> QED BY <2>1, <2>2, <2>3
<1>2. CASE UNCHANGED <<m_frameRing, m_nextFrameIdToRead, m_firstFrameReceived, m_framePool,
                       m_frameStorage, m_fecRing, m_fecPool>> /\ nullDeref' \in BOOLEAN
  <2>1. RingInv' /\ Outside' = Outside /\ Reassembling' = Reassembling
    BY <1>2 DEF RingInv, ReceiverTypeOK, Outside, Reassembling
  <2> QED BY <1>2, <2>1
<1>3. CASE /\ free > 0 /\ m_fecPool' = free - 1
           /\ m_fecRing' = [m_fecRing EXCEPT ![slot] = group]
           /\ m_frameRing' = IF InRing(id)
                             THEN [m_frameRing EXCEPT ![RingSlot(id)] =
                                      TryRecover(@, start, [m_fecRing EXCEPT ![slot] = group])]
                             ELSE m_frameRing
           /\ UNCHANGED <<m_nextFrameIdToRead, m_firstFrameReceived, m_framePool, m_frameStorage,
                          nullDeref>>
  <2> DEFINE recovered(s) == TryRecover(m_frameRing[s], start, m_fecRing')
  <2>1. m_fecRing' \in FecRings
    BY <1>1, <1>3 DEF FecRings
  <2>2. ASSUME NEW s \in Reassembling
        PROVE  /\ m_frameRing'[s] = IF m_frameRing[s].frameId = id THEN recovered(s) ELSE m_frameRing[s]
               /\ RingSlot(m_frameRing[s].frameId) = s /\ s \in Slots
    <3>1. /\ RingSlot(m_frameRing[s].frameId) = s /\ s \in Slots /\ m_frameRing[s] # NoFrame
      BY DEF RingInv, Reassembling
    <3>2. CASE m_frameRing[s].frameId = id
      <4>1. RingSlot(id) = s /\ InRing(id)
        BY <3>1, <3>2 DEF InRing
      <4> QED BY <1>1, <1>3, <3>1, <3>2, <4>1
    <3>3. CASE m_frameRing[s].frameId # id
      <4>1. InRing(id) => RingSlot(id) # s
        BY <3>3 DEF InRing
      <4> QED BY <1>1, <1>3, <3>1, <3>3, <4>1
    <3> QED BY <3>1, <3>2, <3>3
  <2> HIDE DEF recovered
  <2>3. \A s \in Reassembling :
           /\ Counted(m_frameRing'[s]) /\ Whole(m_frameRing'[s]) /\ SameFrame(m_frameRing[s], m_frameRing'[s])
    <3> SUFFICES ASSUME NEW s \in Reassembling
                 PROVE  /\ Counted(m_frameRing'[s]) /\ Whole(m_frameRing'[s])
                        /\ SameFrame(m_frameRing[s], m_frameRing'[s])
      OBVIOUS
    <3>1. Counted(m_frameRing[s]) /\ Whole(m_frameRing[s])
      BY DEF RingInv
    <3>2. /\ Counted(recovered(s)) /\ SameFrame(m_frameRing[s], recovered(s))
          /\ recovered(s) = m_frameRing[s] \/ Whole(recovered(s))
      BY <1>1, <2>1, <3>1, RecoverIs DEF recovered
    <3> QED BY <2>2, <3>1, <3>2 DEF SameFrame
  <2>4. \A s \in Slots : s \notin Reassembling => m_frameRing'[s] = m_frameRing[s]
    BY <1>1, <1>3, InRingIsThere
  <2>5. \A s \in Reassembling : m_frameRing'[s] \in FrameType /\ m_frameRing'[s] # NoFrame
    BY <2>3, NullAssumption DEF Counted
  <2>6. Reassembling' = Reassembling
    BY <2>4, <2>5 DEF Reassembling
  <2>7. m_frameRing' \in [Slots -> FrameType \cup {NoFrame}]
    <3>1. m_frameRing' = [s \in Slots |-> m_frameRing'[s]]
      BY <1>1, <1>3
    <3>2. \A s \in Slots : m_frameRing'[s] \in FrameType \cup {NoFrame}
      BY <1>1, <2>4, <2>5
    <3> QED BY <3>1, <3>2
  <2>8. Outside' = Outside
    BY <1>3, <2>6 DEF Outside
  <2>9. RingInv'
    <3>1. ReceiverTypeOK'
      BY <1>1, <1>3, <2>1, <2>7 DEF RingInv, ReceiverTypeOK, FecRings
    <3>2. ASSUME NEW s \in Reassembling'
          PROVE  /\ RingSlot(m_frameRing'[s].frameId) = s
                 /\ m_frameRing'[s].frameId >= m_nextFrameIdToRead'
                 /\ Counted(m_frameRing'[s]) /\ Whole(m_frameRing'[s])
      <4>1. s \in Reassembling /\ m_frameRing[s].frameId >= m_nextFrameIdToRead
        BY <2>6 DEF RingInv
      <4> QED BY <1>3, <2>2, <2>3, <4>1 DEF SameFrame
    <3> QED BY <1>3, <2>6, <3>1, <3>2 DEF RingInv
  <2> QED BY <1>3, <2>2, <2>6, <2>8, <2>9 DEF recovered
<1> QED
  <2>1. nullDeref \in BOOLEAN
    BY DEF RingInv, ReceiverTypeOK
  <2> QED BY <1>2, <1>3, <2>1 DEF ProcessFEC, receiverVars, frameVars, fecVars
=============================================================================
