--------------------------- MODULE ReceiverUse_proof ---------------------------
(***************************************************************************)
(* Proofs about Client::Receiver behind its public interface, for every    *)
(* number of frames and fragments and every size of the rings and pools:   *)
(* nothing leaks, no fragment is invented, and no parity packet at hand is *)
(* left unused.  Then about Client::Receiver::ValidateSequence, for every  *)
(* window shape and every set of sequence numbers.                         *)
(***************************************************************************)
EXTENDS ReceiverUse, ReplayWindow, Receiver_proof

\* Every parity packet of the ring is one that was passed to ProcessFEC.
FecSound(fecRing, groups) ==
    \A s \in 0 .. FecRing - 1 : fecRing[s] # NoGroup =>
        \E id \in FrameIds : \E start \in 0 .. Fragments[id] - 1 :
            /\ start % FecGroup = 0
            /\ <<id, start>> \in groups
            /\ fecRing[s] = Group(id, start)

\* Justified, as a predicate of what was given.
JustifiedBy(id, i, packets, groups) ==
    \/ <<id, i>> \in packets
    \/ /\ <<id, GroupStart(i)>> \in groups
       /\ \A j \in 0 .. Fragments[id] - 1 :
             (GroupStart(j) = GroupStart(i) /\ j # i) => <<id, j>> \in packets

\* A frame of the sender's.
Proper(f) == /\ Counted(f)
             /\ f.frameId \in FrameIds
             /\ f.totalFragments = Fragments[f.frameId]

Honest(f, packets, groups) ==
    \A i \in f.fragmentMap : JustifiedBy(f.frameId, i, packets, groups)

\* A parity packet would restore a fragment.
Useful(f, start, fecRing) ==
    /\ HasGroup(fecRing, f.frameId, start)
    /\ Cardinality(MissingOf(f, fecRing[FecSlot(f.frameId, start)])) = 1

\* None of two fragments and more would.
Exhausted(f, fecRing) ==
    \A start \in Nat : Useful(f, start, fecRing) =>
                          fecRing[FecSlot(f.frameId, start)].fragmentCount < 2

\* The inductive invariant.
UseInv ==
    /\ RingInv
    /\ ParityConserved
    /\ Outside = Cardinality(held)
    /\ IsFiniteSet(held) /\ held \subseteq Nat
    /\ \A id \in held : id < m_nextFrameIdToRead
    /\ ~ m_firstFrameReceived => held = {}
    /\ FecSound(m_fecRing, parity)
    /\ \A s \in Reassembling : /\ Proper(m_frameRing[s])
                               /\ Honest(m_frameRing[s], given, parity)
                               /\ Exhausted(m_frameRing[s], m_fecRing)

-----------------------------------------------------------------------------
\* Groups of fragments.
LEMMA MinOfTwo ==
    ASSUME NEW a \in Int, NEW b \in Int
    PROVE  Min({a, b}) = IF a <= b THEN a ELSE b
<1> DEFINE m == IF a <= b THEN a ELSE b
           least(x) == x \in {a, b} /\ \A y \in {a, b} : x <= y
<1>1. least(m)
  OBVIOUS
<1>2. ASSUME NEW x, least(x) PROVE x = m
  BY <1>2
<1> HIDE DEF least, m
<1>3. (CHOOSE x : least(x)) = m
  BY <1>1, <1>2
<1>4. Min({a, b}) = CHOOSE x : least(x)
  BY DEF Min, least
<1> QED BY <1>3, <1>4 DEF m

LEMMA FragmentsOf == \A id \in FrameIds : Fragments[id] \in Nat \ {0} /\ Fragments[id] \in 1 .. MaxFragments /\ id \in Nat
  BY UseAssumption, ReceiverAssumption DEF FrameIds

LEMMA GroupIs ==
    ASSUME NEW id \in FrameIds, NEW start \in 0 .. Fragments[id] - 1
    PROVE  /\ Group(id, start) \in GroupType
           /\ Group(id, start).frameId = id /\ Group(id, start).fragmentStart = start
           /\ Group(id, start).fragmentCount =
                 IF FecGroup <= Fragments[id] - start THEN FecGroup ELSE Fragments[id] - start
<1>1. /\ id \in Nat /\ start \in Nat /\ FecGroup \in Nat \ {0} /\ Fragments[id] - start \in Nat
      /\ Fragments[id] - start \in Int /\ FecGroup \in Int
  BY ReceiverAssumption, FragmentsOf
<1>2. Min({FecGroup, Fragments[id] - start}) = IF FecGroup <= Fragments[id] - start THEN FecGroup ELSE Fragments[id] - start
  BY <1>1, MinOfTwo
<1>3. Min({FecGroup, Fragments[id] - start}) \in Nat
  BY <1>1, <1>2
<1> QED BY <1>1, <1>2, <1>3 DEF Group, GroupType

\* The fragments of the group that starts at a multiple of the group size.
LEMMA SameGroup ==
    ASSUME NEW start \in Nat, start % FecGroup = 0, NEW j \in Nat
    PROVE  GroupStart(j) = start <=> j \in start .. start + FecGroup - 1
<1> DEFINE d == FecGroup
           q == start \div d
           k == j \div d
<1>1. /\ d \in Nat \ {0} /\ q \in Nat /\ k \in Nat /\ j % d \in 0 .. d - 1
      /\ start = d * q /\ j = d * k + (j % d)
  <2>1. d \in Nat \ {0}
    BY ReceiverAssumption
  <2>2. q \in Nat /\ start = d * q + (start % d)
    BY <2>1, DivMod
  <2>3. k \in Nat /\ j % d \in 0 .. d - 1 /\ j = d * k + (j % d)
    BY <2>1, DivMod
  <2>4. d * q \in Nat
    BY <2>1, <2>2, SMT
  <2> QED BY <2>1, <2>2, <2>3, <2>4
<1>2. GroupStart(j) = k * d
  BY DEF GroupStart
<1> HIDE DEF q, k
<1>3. k * d = d * k /\ d * k \in Nat
  BY <1>1, SMT
<1>4. ASSUME GroupStart(j) = start PROVE j \in start .. start + FecGroup - 1
  <2>1. start = d * k
    BY <1>2, <1>3, <1>4
  <2> HIDE DEF d
  <2>2. j = start + (j % d)
    BY <1>1, <2>1
  <2>3. j \in start .. start + d - 1
    BY <1>1, <2>2
  <2> QED BY <2>3 DEF d
<1>5. ASSUME j \in start .. start + FecGroup - 1 PROVE GroupStart(j) = start
  <2>1. d * (k - q) = (j - start) - (j % d)
    <3>1. d * (k - q) = d * k - d * q
      BY <1>1, SMT
    <3>2. d * k = j - (j % d) /\ d * q = start
      BY <1>1, <1>3
    <3> QED BY <1>1, <3>1, <3>2
  <2>2. j - start < d /\ 0 <= j - start /\ j % d < d /\ 0 <= j % d
    BY <1>1, <1>5
  <2>3. - d < d * (k - q) /\ d * (k - q) < d
    BY <1>1, <2>1, <2>2
  <2>4. \A e \in Int : - d < d * e /\ d * e < d => e = 0
    BY <1>1, SMT
  <2>5. k - q \in Int
    BY <1>1
  <2>6. k - q = 0
    BY <2>3, <2>4, <2>5
  <2>7. k = q
    BY <1>1, <2>6
  <2> QED BY <1>1, <1>2, <1>3, <2>7
<1> QED BY <1>4, <1>5

\* What a frame misses of a group.
LEMMA MissingIs ==
    ASSUME NEW f, Proper(f), NEW start \in 0 .. Fragments[f.frameId] - 1, start % FecGroup = 0
    PROVE  MissingOf(f, Group(f.frameId, start)) =
              {j \in 0 .. Fragments[f.frameId] - 1 : GroupStart(j) = start /\ j \notin f.fragmentMap}
<1> DEFINE n == Fragments[f.frameId]
           group == Group(f.frameId, start)
           end == start + group.fragmentCount - 1
<1>1. /\ f.frameId \in FrameIds /\ f.totalFragments = n /\ n \in Nat \ {0} /\ FecGroup \in Nat \ {0}
      /\ start \in Nat
  BY ReceiverAssumption, FragmentsOf DEF Proper
<1>2. /\ group.fragmentStart = start
      /\ group.fragmentCount = IF FecGroup <= n - start THEN FecGroup ELSE n - start
  BY <1>1, GroupIs
<1> HIDE DEF group
<1>3. \A j \in start .. end : j \in 0 .. n - 1 /\ j \in start .. start + FecGroup - 1
  BY <1>1, <1>2
<1>4. \A j \in 0 .. n - 1 : j \in start .. start + FecGroup - 1 => j \in start .. end
  BY <1>1, <1>2
<1>5. \A j \in 0 .. n - 1 : GroupStart(j) = start <=> j \in start .. start + FecGroup - 1
  BY <1>1, SameGroup
<1>6. \A j \in 0 .. n - 1 : j < n
  BY <1>1
<1>7. MissingOf(f, group) = {j \in start .. end : j < n /\ j \notin f.fragmentMap}
  BY <1>1, <1>2 DEF MissingOf
<1> QED BY <1>3, <1>4, <1>5, <1>6, <1>7 DEF group

LEMMA HasGroupIs ==
    ASSUME NEW fecRing, NEW groups, FecSound(fecRing, groups),
           NEW id \in Nat, NEW start \in Nat, HasGroup(fecRing, id, start)
    PROVE  /\ id \in FrameIds /\ start \in 0 .. Fragments[id] - 1 /\ start % FecGroup = 0
           /\ <<id, start>> \in groups
           /\ fecRing[FecSlot(id, start)] = Group(id, start)
<1>1. FecSlot(id, start) \in 0 .. FecRing - 1
  BY FecSlotInRing
<1>2. PICK i \in FrameIds : \E st \in 0 .. Fragments[i] - 1 :
          st % FecGroup = 0 /\ <<i, st>> \in groups /\ fecRing[FecSlot(id, start)] = Group(i, st)
  BY <1>1 DEF FecSound, HasGroup
<1>3. PICK st \in 0 .. Fragments[i] - 1 :
          st % FecGroup = 0 /\ <<i, st>> \in groups /\ fecRing[FecSlot(id, start)] = Group(i, st)
  BY <1>2
<1>4. i = id /\ st = start
  BY <1>3, GroupIs DEF HasGroup
<1> QED BY <1>3, <1>4

\* A fragment put into one group changes nothing for another.
LEMMA OtherGroup ==
    ASSUME NEW f, NEW g, Proper(f), Proper(g), SameFrame(f, g),
           NEW start \in 0 .. Fragments[f.frameId] - 1, start % FecGroup = 0,
           \A j \in 0 .. Fragments[f.frameId] - 1 :
               GroupStart(j) = start => (j \in g.fragmentMap <=> j \in f.fragmentMap)
    PROVE  MissingOf(g, Group(f.frameId, start)) = MissingOf(f, Group(f.frameId, start))
<1>1. g.frameId = f.frameId
  BY DEF SameFrame
<1>2. /\ MissingOf(f, Group(f.frameId, start)) =
            {j \in 0 .. Fragments[f.frameId] - 1 : GroupStart(j) = start /\ j \notin f.fragmentMap}
      /\ MissingOf(g, Group(f.frameId, start)) =
            {j \in 0 .. Fragments[f.frameId] - 1 : GroupStart(j) = start /\ j \notin g.fragmentMap}
  BY <1>1, MissingIs
<1> QED BY <1>2

LEMMA ProperStays ==
    ASSUME NEW f, NEW g, Proper(f), SameFrame(f, g), Counted(g) PROVE Proper(g)
  BY DEF Proper, SameFrame

\* A recovery restores the one fragment its group was missing.
RestoresOne(f, g, start, groups, k) ==
    /\ g.fragmentMap = f.fragmentMap \cup {k} /\ k \notin f.fragmentMap
    /\ GroupStart(k) = start
    /\ \A j \in 0 .. Fragments[f.frameId] - 1 :
          GroupStart(j) = start /\ j # k => j \in f.fragmentMap
    /\ start \in 0 .. Fragments[f.frameId] - 1 /\ start % FecGroup = 0
    /\ <<f.frameId, start>> \in groups

LEMMA RestoredIs ==
    ASSUME NEW f, NEW g, Proper(f), NEW start \in Nat, NEW fecRing, NEW groups,
           FecSound(fecRing, groups), RestoredBy(f, g, start, fecRing)
    PROVE  \E k \in 0 .. Fragments[f.frameId] - 1 : RestoresOne(f, g, start, groups, k)
<1>1. f.frameId \in Nat /\ f.totalFragments = Fragments[f.frameId] /\ f.frameId \in FrameIds
  BY FragmentsOf DEF Proper
<1>2. HasGroup(fecRing, f.frameId, start)
  BY DEF RestoredBy
<1>3. /\ start \in 0 .. Fragments[f.frameId] - 1 /\ start % FecGroup = 0
      /\ <<f.frameId, start>> \in groups
      /\ fecRing[FecSlot(f.frameId, start)] = Group(f.frameId, start)
  BY <1>1, <1>2, HasGroupIs
<1>4. PICK k \in 0 .. Fragments[f.frameId] - 1 :
          MissingOf(f, Group(f.frameId, start)) = {k} /\ g.fragmentMap = f.fragmentMap \cup {k}
  BY <1>1, <1>3 DEF RestoredBy
<1>5. {k} = {j \in 0 .. Fragments[f.frameId] - 1 : GroupStart(j) = start /\ j \notin f.fragmentMap}
  BY <1>3, <1>4, MissingIs
<1> QED BY <1>3, <1>4, <1>5 DEF RestoresOne

\* What a recovery restores is justified by what is there.
LEMMA RestoredIsJustified ==
    ASSUME NEW f, NEW g, Proper(f), NEW start \in Nat, NEW fecRing, NEW groups, NEW packets,
           FecSound(fecRing, groups), RestoredBy(f, g, start, fecRing), SameFrame(f, g),
           Honest(f, packets, groups)
    PROVE  Honest(g, packets, groups)
<1> DEFINE id == f.frameId
<1>0. PICK k \in 0 .. Fragments[id] - 1 : RestoresOne(f, g, start, groups, k)
  BY RestoredIs
<1>1. /\ g.fragmentMap = f.fragmentMap \cup {k}
      /\ GroupStart(k) = start /\ <<id, start>> \in groups
      /\ \A j \in 0 .. Fragments[id] - 1 : GroupStart(j) = start /\ j # k => j \in f.fragmentMap
  BY <1>0 DEF RestoresOne
<1>2. JustifiedBy(id, k, packets, groups)
  <2>1. ASSUME <<id, k>> \notin packets, NEW j \in 0 .. Fragments[id] - 1,
               GroupStart(j) = GroupStart(k), j # k
        PROVE  <<id, j>> \in packets
    <3>1. JustifiedBy(id, j, packets, groups)
      BY <1>1, <2>1 DEF Honest
    <3> QED BY <1>1, <2>1, <3>1 DEF JustifiedBy
  <2> QED BY <1>1, <2>1 DEF JustifiedBy
<1>3. g.frameId = id
  BY DEF SameFrame
<1> QED BY <1>1, <1>2, <1>3 DEF Honest

\* After a recovery its group misses nothing, and the others what they did.
LEMMA RestoredIsExhausted ==
    ASSUME NEW f, NEW g, Proper(f), Proper(g), NEW start \in Nat, NEW fecRing, NEW groups,
           FecSound(fecRing, groups), RestoredBy(f, g, start, fecRing), SameFrame(f, g),
           NEW other \in Nat, Useful(g, other, fecRing)
    PROVE  other # start /\ Useful(f, other, fecRing)
<1> DEFINE id == f.frameId
<1>0. PICK k \in 0 .. Fragments[id] - 1 : RestoresOne(f, g, start, groups, k)
  BY RestoredIs
<1>1. /\ g.fragmentMap = f.fragmentMap \cup {k} /\ GroupStart(k) = start
      /\ \A j \in 0 .. Fragments[id] - 1 : GroupStart(j) = start /\ j # k => j \in f.fragmentMap
  BY <1>0 DEF RestoresOne
<1>2. g.frameId = id /\ id \in Nat /\ id \in FrameIds
  BY FragmentsOf DEF SameFrame, Proper
<1>3. HasGroup(fecRing, id, other) /\ Cardinality(MissingOf(g, fecRing[FecSlot(id, other)])) = 1
  BY <1>2 DEF Useful
<1>4. /\ other \in 0 .. Fragments[id] - 1 /\ other % FecGroup = 0
      /\ fecRing[FecSlot(id, other)] = Group(id, other)
  BY <1>2, <1>3, HasGroupIs
<1>5. MissingOf(g, Group(id, other)) =
          {j \in 0 .. Fragments[id] - 1 : GroupStart(j) = other /\ j \notin g.fragmentMap}
  BY <1>2, <1>4, MissingIs
<1>6. other # start
  <2>1. ASSUME other = start PROVE FALSE
    <3>1. MissingOf(g, Group(id, other)) = {}
      BY <1>1, <1>5, <2>1
    <3> QED BY <1>3, <1>4, <3>1, FS_EmptySet
  <2> QED BY <2>1
<1>7. \A j \in 0 .. Fragments[id] - 1 :
          GroupStart(j) = other => (j \in g.fragmentMap <=> j \in f.fragmentMap)
  BY <1>1, <1>6
<1>8. MissingOf(g, Group(id, other)) = MissingOf(f, Group(id, other))
  BY <1>4, <1>7, OtherGroup
<1> QED BY <1>3, <1>4, <1>6, <1>8 DEF Useful

\* A frame nothing of which has come misses the whole of each group.
LEMMA WholeGroupMissing ==
    ASSUME NEW f, Proper(f), f.fragmentMap = {}, NEW groups, NEW fecRing, FecSound(fecRing, groups),
           NEW start \in Nat, HasGroup(fecRing, f.frameId, start)
    PROVE  Cardinality(MissingOf(f, fecRing[FecSlot(f.frameId, start)])) =
              fecRing[FecSlot(f.frameId, start)].fragmentCount
<1> DEFINE n == Fragments[f.frameId]
           group == Group(f.frameId, start)
<1>1. /\ f.frameId \in FrameIds /\ f.frameId \in Nat /\ f.totalFragments = n /\ n \in Nat \ {0}
      /\ FecGroup \in Nat \ {0}
  BY ReceiverAssumption, FragmentsOf DEF Proper
<1>2. start \in 0 .. n - 1 /\ fecRing[FecSlot(f.frameId, start)] = group
  <2>1. f.frameId \in Nat
    BY <1>1
  <2> QED BY <2>1, HasGroupIs
<1>3. /\ group.fragmentStart = start
      /\ group.fragmentCount = IF FecGroup <= n - start THEN FecGroup ELSE n - start
  BY <1>1, <1>2, GroupIs
<1> HIDE DEF group
<1>4. group.fragmentCount \in Nat /\ start + group.fragmentCount <= n
  BY <1>1, <1>2, <1>3
<1>5. MissingOf(f, group) = start .. start + group.fragmentCount - 1
  <2>1. \A j \in start .. start + group.fragmentCount - 1 : j < n
    BY <1>1, <1>2, <1>4
  <2> QED BY <1>1, <1>3, <2>1 DEF MissingOf
<1>6. Cardinality(start .. start + group.fragmentCount - 1) = group.fragmentCount
  <2> DEFINE c == group.fragmentCount
             last == start + c - 1
  <2>1. c \in Nat /\ start \in Int /\ last \in Int
    BY <1>2, <1>4
  <2> HIDE DEF c
  <2>2. Cardinality(start .. last) = IF start > last THEN 0 ELSE last - start + 1
    BY <2>1, FS_Interval
  <2>3. (IF start > last THEN 0 ELSE last - start + 1) = c
    BY <1>2, <2>1
  <2> QED BY <2>2, <2>3 DEF c
<1> QED BY <1>2, <1>5, <1>6

\* Storing a fragment, with the recovery it sets off, leaves no useful parity packet.
LEMMA ArrivalExhausts ==
    ASSUME NEW f, NEW g, NEW i \in Nat, Proper(f), Whole(f), SameFrame(f, g), Counted(g),
           i < Fragments[f.frameId], Gained(f, g, i),
           FecSound(m_fecRing, parity),
           f.fragmentMap = {} \/ Exhausted(f, m_fecRing)
    PROVE  Exhausted(g, m_fecRing)
<1> DEFINE id == f.frameId
<1>1. /\ id \in FrameIds /\ id \in Nat /\ f.totalFragments = Fragments[id] /\ Proper(g) /\ g.frameId = id
      /\ Counted(f) /\ GroupStart(i) \in Nat /\ i \in 0 .. Fragments[id] - 1
  BY FragmentsOf, ProperStays, GroupStartIsNat DEF Proper, SameFrame
<1>2. SUFFICES ASSUME NEW start \in Nat, Useful(g, start, m_fecRing)
               PROVE  m_fecRing[FecSlot(id, start)].fragmentCount < 2
  BY <1>1 DEF Exhausted
<1>3. /\ HasGroup(m_fecRing, id, start)
      /\ Cardinality(MissingOf(g, m_fecRing[FecSlot(id, start)])) = 1
  BY <1>1, <1>2 DEF Useful
<1>4. /\ start \in 0 .. Fragments[id] - 1 /\ start % FecGroup = 0
      /\ m_fecRing[FecSlot(id, start)] = Group(id, start)
  BY <1>1, <1>3, HasGroupIs
<1>5. ASSUME Useful(f, start, m_fecRing) PROVE m_fecRing[FecSlot(id, start)].fragmentCount < 2
  <2>1. CASE f.fragmentMap = {}
    <3>1. m_fecRing[FecSlot(id, start)].fragmentCount = 1
      BY <1>3, <1>5, <2>1, WholeGroupMissing DEF Useful
    <3> QED BY <3>1
  <2>2. CASE Exhausted(f, m_fecRing)
    BY <1>5, <2>2 DEF Exhausted
  <2> QED BY <2>1, <2>2
<1>6. CASE ~ Misses(f, i)
  <2>1. g.fragmentMap = f.fragmentMap
    BY <1>6 DEF Gained
  <2>2. MissingOf(g, Group(id, start)) = MissingOf(f, Group(id, start))
    BY <1>1, <1>4, <2>1, OtherGroup
  <2> QED BY <1>3, <1>4, <1>5, <2>2 DEF Useful
<1>7. CASE Misses(f, i)
  <2> DEFINE t == Stored(f, i)
  <2>1. Counted(t) /\ SameFrame(f, t) /\ t.fragmentMap = f.fragmentMap \cup {i} /\ t.isComplete = FALSE
    BY <1>1, <1>7, StoredIs
  <2>2. Proper(t) /\ t.frameId = id
    BY <2>1, ProperStays DEF SameFrame
  <2> HIDE DEF t
  <2>3. ASSUME start # GroupStart(i), Useful(t, start, m_fecRing)
        PROVE  m_fecRing[FecSlot(id, start)].fragmentCount < 2
    <3>1. \A j \in 0 .. Fragments[id] - 1 :
              GroupStart(j) = start => (j \in t.fragmentMap <=> j \in f.fragmentMap)
      BY <2>1, <2>3
    <3>2. MissingOf(t, Group(id, start)) = MissingOf(f, Group(id, start))
      BY <1>1, <1>4, <2>1, <2>2, <3>1, OtherGroup
    <3> QED BY <1>3, <1>4, <1>5, <2>2, <2>3, <3>2 DEF Useful
  <2>4. CASE /\ g.fragmentMap = f.fragmentMap \cup {i}
             /\ ~ Restorable(t, GroupStart(i), m_fecRing)
    <3>1. SameFrame(t, g)
      BY <2>1 DEF SameFrame
    <3>2. MissingOf(g, Group(id, start)) = MissingOf(t, Group(id, start))
      BY <1>1, <1>4, <2>1, <2>2, <2>4, <3>1, OtherGroup
    <3>3. Useful(t, start, m_fecRing)
      BY <1>3, <1>4, <2>2, <3>2 DEF Useful
    <3>4. start # GroupStart(i)
      BY <2>1, <2>4, <3>3 DEF Restorable, Useful
    <3> QED BY <2>3, <3>3, <3>4
  <2>5. CASE RestoredBy(t, g, GroupStart(i), m_fecRing)
    <3>1. SameFrame(t, g)
      BY <2>1 DEF SameFrame
    <3>2. start # GroupStart(i) /\ Useful(t, start, m_fecRing)
      BY <1>1, <1>2, <2>2, <2>5, <3>1, RestoredIsExhausted
    <3> QED BY <2>3, <3>2
  <2> QED BY <1>7, <2>4, <2>5 DEF Gained, t
<1> QED BY <1>6, <1>7

\* A parity packet is used up when it arrives, and takes nothing away from another frame.
LEMMA ParityExhausts ==
    ASSUME NEW f, NEW g, Proper(f), Whole(f), NEW fecRing \in FecRings, NEW more \in FecRings,
           NEW groups, FecSound(more, groups),
           NEW id \in FrameIds, NEW start \in 0 .. Fragments[id] - 1, start % FecGroup = 0,
           more = [fecRing EXCEPT ![FecSlot(id, start)] = Group(id, start)],
           g = IF f.frameId = id THEN TryRecover(f, start, more) ELSE f,
           Exhausted(f, fecRing)
    PROVE  Exhausted(g, more)
<1> DEFINE slot == FecSlot(id, start)
<1>1. /\ id \in Nat /\ start \in Nat /\ slot \in 0 .. FecRing - 1
      /\ Group(id, start).frameId = id /\ Group(id, start).fragmentStart = start
      /\ f.frameId \in Nat /\ f.frameId \in FrameIds
  <2>1. f.frameId \in Nat /\ f.frameId \in FrameIds /\ id \in Nat /\ start \in Nat
    BY FragmentsOf DEF Proper
  <2> QED BY <2>1, GroupIs, FecSlotInRing
<1>2. more[slot] = Group(id, start) /\ \A s \in 0 .. FecRing - 1 : s # slot => more[s] = fecRing[s]
  BY <1>1 DEF FecRings
\* Any other packet is where it was.
<1>3. ASSUME NEW other \in Nat, Useful(f, other, more), f.frameId # id \/ other # start
      PROVE  more[FecSlot(f.frameId, other)].fragmentCount < 2
  <2>1. FecSlot(f.frameId, other) \in 0 .. FecRing - 1
    BY <1>1, FecSlotInRing
  <2>2. FecSlot(f.frameId, other) # slot
    BY <1>1, <1>2, <1>3 DEF Useful, HasGroup
  <2>3. more[FecSlot(f.frameId, other)] = fecRing[FecSlot(f.frameId, other)]
    BY <1>2, <2>1, <2>2
  <2>4. Useful(f, other, fecRing)
    BY <1>3, <2>3 DEF Useful, HasGroup
  <2> QED BY <2>3, <2>4 DEF Exhausted
<1>4. CASE f.frameId # id
  BY <1>3, <1>4 DEF Exhausted
<1>5. CASE f.frameId = id
  <2>1. /\ Counted(g) /\ SameFrame(f, g)
        /\ \/ g = f /\ ~ Restorable(f, start, more)
           \/ RestoredBy(f, g, start, more)
    BY <1>1, <1>5, RecoverIs DEF Proper
  <2>2. Proper(g) /\ g.frameId = id
    BY <1>5, <2>1, ProperStays DEF SameFrame
  <2>3. SUFFICES ASSUME NEW other \in Nat, Useful(g, other, more)
                 PROVE  more[FecSlot(id, other)].fragmentCount < 2
    BY <2>2 DEF Exhausted
  <2>4. CASE g = f /\ ~ Restorable(f, start, more)
    <3>1. Useful(f, other, more)
      BY <2>3, <2>4
    <3>2. other # start
      <4>1. ASSUME other = start PROVE FALSE
        <5>1. HasGroup(more, id, start) /\ Cardinality(MissingOf(f, more[FecSlot(id, start)])) = 1
          BY <1>5, <3>1, <4>1 DEF Useful
        <5>2. f.isComplete
          BY <1>5, <2>4, <5>1 DEF Restorable
        <5>3. f.fragmentMap = 0 .. f.totalFragments - 1
          BY <5>2, AllThere DEF Whole, Proper
        <5>4. MissingOf(f, Group(id, start)) = {}
          <6>1. MissingOf(f, Group(id, start)) =
                    {j \in 0 .. Fragments[id] - 1 : GroupStart(j) = start /\ j \notin f.fragmentMap}
            BY <1>5, MissingIs
          <6>2. f.fragmentMap = 0 .. Fragments[id] - 1
            BY <1>5, <5>3 DEF Proper
          <6> QED BY <6>1, <6>2
        <5>5. Cardinality(MissingOf(f, Group(id, start))) = 0
          BY <5>4, FS_EmptySet
        <5> QED BY <1>2, <5>1, <5>5
      <4> QED BY <4>1
    <3> QED BY <1>3, <1>5, <3>1, <3>2
  <2>5. CASE RestoredBy(f, g, start, more)
    <3>1. other # start /\ Useful(f, other, more)
      BY <1>1, <2>1, <2>2, <2>3, <2>5, RestoredIsExhausted
    <3> QED BY <1>3, <1>5, <3>1
  <2> QED BY <2>1, <2>4, <2>5
<1> QED BY <1>4, <1>5

-----------------------------------------------------------------------------
\* More packets given justify what fewer did.
LEMMA HonestStays ==
    ASSUME NEW f, NEW packets, NEW groups, NEW more, NEW moreGroups, Honest(f, packets, groups),
           packets \subseteq more, groups \subseteq moreGroups
    PROVE  Honest(f, more, moreGroups)
  BY DEF Honest, JustifiedBy

LEMMA InitUse == UseInit => UseInv
<1> SUFFICES ASSUME UseInit PROVE UseInv
  OBVIOUS
<1>1. RingInv /\ Outside = 0 /\ Reassembling = {}
  BY InitRing DEF UseInit
<1>2. ParityConserved
  <2>1. {s \in 0 .. FecRing - 1 : m_fecRing[s] # NoGroup} = {} /\ m_fecPool = FecPool /\ FecPool \in Nat
    BY ReceiverAssumption DEF UseInit, ReceiverInit
  <2> QED BY <2>1, FS_EmptySet DEF ParityConserved
<1>3. FecSound(m_fecRing, parity)
  BY DEF UseInit, ReceiverInit, FecSound
<1> QED BY <1>1, <1>2, <1>3, FS_EmptySet DEF UseInit, UseInv

LEMMA ArrivalUse == UseInv /\ PacketArrives => UseInv'
<1> SUFFICES ASSUME UseInv, PacketArrives PROVE UseInv'
  OBVIOUS
<1>1. PICK id \in FrameIds : \E i \in 0 .. Fragments[id] - 1 :
          /\ ProcessPacket(Header(id, i)) /\ given' = given \cup {<<id, i>>}
          /\ UNCHANGED <<held, parity>>
  BY DEF PacketArrives
<1>2. PICK i \in 0 .. Fragments[id] - 1 :
          /\ ProcessPacket(Header(id, i)) /\ given' = given \cup {<<id, i>>}
          /\ UNCHANGED <<held, parity>>
  BY <1>1
<1> DEFINE h == Header(id, i)
<1>3. /\ id \in Nat /\ i \in Nat /\ Fragments[id] \in Nat \ {0} /\ i < Fragments[id]
      /\ h \in HeaderType /\ h.frameId = id /\ h.fragmentIndex = i
      /\ h.totalFragments = Fragments[id] /\ h.totalFragments \in 1 .. MaxFragments
  <2>1. id \in Nat /\ Fragments[id] \in Nat \ {0} /\ Fragments[id] \in 1 .. MaxFragments
    BY FragmentsOf
  <2>2. i \in Nat /\ i < Fragments[id]
    BY <2>1
  <2> QED BY <2>1, <2>2 DEF Header, HeaderType
<1> HIDE DEF h
<1>4. RingInv /\ ProcessPacket(h) /\ FecSound(m_fecRing, parity)
  BY <1>2 DEF UseInv, h
<1>5. /\ RingInv' /\ Outside' = Outside /\ UNCHANGED fecVars
      /\ m_firstFrameReceived' = Begins(h)
      /\ m_nextFrameIdToRead' = IF ~ m_firstFrameReceived /\ h.isKeyframe
                                THEN h.frameId ELSE m_nextFrameIdToRead
      /\ \A s \in Reassembling' :
            \/ s \in Reassembling /\ m_frameRing'[s] = m_frameRing[s]
            \/ s = RingSlot(h.frameId) /\ Grown(h)
  BY <1>3, <1>4, PacketKeeps
<1>6. given \subseteq given' /\ parity' = parity /\ held' = held /\ <<id, i>> \in given'
  BY <1>2
<1>7. ParityConserved' /\ FecSound(m_fecRing', parity')
  BY <1>4, <1>5, <1>6 DEF UseInv, ParityConserved, fecVars
<1>8. ASSUME NEW s \in Reassembling'
      PROVE  /\ Proper(m_frameRing'[s])
             /\ Honest(m_frameRing'[s], given', parity')
             /\ Exhausted(m_frameRing'[s], m_fecRing')
  <2>1. CASE s \in Reassembling /\ m_frameRing'[s] = m_frameRing[s]
    <3>1. /\ Proper(m_frameRing[s]) /\ Honest(m_frameRing[s], given, parity)
          /\ Exhausted(m_frameRing[s], m_fecRing)
      BY <2>1 DEF UseInv
    <3> QED BY <1>5, <1>6, <2>1, <3>1, HonestStays DEF fecVars
  <2>2. CASE s = RingSlot(h.frameId) /\ Grown(h)
    <3> DEFINE g == m_frameRing'[s]
    <3>1. PICK f : /\ f = NewFrame(h) \/ (s \in Reassembling /\ f = m_frameRing[s] /\ f.frameId = h.frameId)
                   /\ SameFrame(f, g) /\ Gained(f, g, i)
      BY <1>3, <2>2 DEF Grown
    <3>2. Counted(g)
      BY <1>5 DEF RingInv
    <3> HIDE DEF g
    <3>3. /\ f.frameId = id /\ Proper(f) /\ Whole(f) /\ Honest(f, given', parity')
          /\ f.fragmentMap = {} \/ Exhausted(f, m_fecRing)
      <4>1. CASE f = NewFrame(h)
        <5>1. /\ f.frameId = id /\ f.totalFragments = Fragments[id]
              /\ f.fragmentMap = {} /\ f.fragmentsReceived = 0 /\ f.isComplete = FALSE
          BY <1>3, <4>1 DEF NewFrame
        <5>2. f \in FrameType
          BY <1>3, <4>1, ReceiverAssumption DEF NewFrame, FrameType, HeaderType
        <5>3. Counted(f) /\ Whole(f)
          BY <1>3, <5>1, <5>2, FS_EmptySet DEF Counted, Whole
        <5> QED BY <5>1, <5>3 DEF Proper, Honest
      <4>2. CASE s \in Reassembling /\ f = m_frameRing[s] /\ f.frameId = h.frameId
        <5>1. /\ Proper(f) /\ Honest(f, given, parity) /\ Exhausted(f, m_fecRing) /\ Whole(f)
          BY <4>2 DEF UseInv, RingInv
        <5> QED BY <1>3, <1>6, <4>2, <5>1, HonestStays
      <4> QED BY <3>1, <4>1, <4>2
    <3>4. Proper(g)
      BY <3>1, <3>2, <3>3, ProperStays
    <3>5. Exhausted(g, m_fecRing)
      BY <1>3, <1>4, <3>1, <3>2, <3>3, ArrivalExhausts
    <3>6. Honest(g, given', parity')
      <4>1. ASSUME NEW t, t.fragmentMap = f.fragmentMap \cup {i}, t.frameId = id
            PROVE  Honest(t, given', parity')
        <5>1. JustifiedBy(id, i, given', parity')
          BY <1>6 DEF JustifiedBy
        <5> QED BY <3>3, <4>1, <5>1 DEF Honest
      <4>2. g.frameId = id
        BY <3>1, <3>3 DEF SameFrame
      <4>3. CASE ~ Misses(f, i)
        <5>1. g.fragmentMap = f.fragmentMap
          BY <3>1, <4>3 DEF Gained
        <5> QED BY <3>3, <4>2, <5>1 DEF Honest
      <4>4. CASE Misses(f, i) /\ g.fragmentMap = f.fragmentMap \cup {i}
        BY <4>1, <4>2, <4>4
      <4>5. CASE Misses(f, i) /\ RestoredBy(Stored(f, i), g, GroupStart(i), m_fecRing)
        <5> DEFINE t == Stored(f, i)
        <5>1. Counted(t) /\ SameFrame(f, t) /\ t.fragmentMap = f.fragmentMap \cup {i}
          BY <1>3, <3>3, <4>5, StoredIs DEF Proper
        <5>2. Proper(t) /\ t.frameId = id /\ SameFrame(t, g)
          BY <3>1, <3>3, <5>1, ProperStays DEF SameFrame
        <5>3. RestoredBy(t, g, GroupStart(i), m_fecRing)
          BY <4>5
        <5> HIDE DEF t
        <5>4. Honest(t, given', parity')
          BY <4>1, <5>1, <5>2
        <5>5. GroupStart(i) \in Nat /\ FecSound(m_fecRing, parity')
          BY <1>3, <1>4, <1>6, GroupStartIsNat
        <5> QED BY <5>2, <5>3, <5>4, <5>5, RestoredIsJustified
      <4> QED BY <3>1, <4>3, <4>4, <4>5 DEF Gained
    <3> QED BY <1>5, <3>4, <3>5, <3>6 DEF fecVars, g
  <2> QED BY <1>5, <2>1, <2>2
<1>9. /\ \A k \in held' : k < m_nextFrameIdToRead'
      /\ ~ m_firstFrameReceived' => held' = {}
  <2>1. m_firstFrameReceived => m_firstFrameReceived'
    BY <1>5 DEF Begins, RingInv, ReceiverTypeOK
  <2> QED BY <1>5, <1>6, <2>1 DEF UseInv
<1> QED BY <1>5, <1>6, <1>7, <1>8, <1>9 DEF UseInv

LEMMA ParityUse == UseInv /\ ParityArrives => UseInv'
<1> SUFFICES ASSUME UseInv, ParityArrives PROVE UseInv'
  OBVIOUS
<1>1. PICK id \in FrameIds : \E i \in 0 .. Fragments[id] - 1 :
          /\ i % FecGroup = 0 /\ ProcessFEC(Group(id, i)) /\ parity' = parity \cup {<<id, i>>}
          /\ UNCHANGED <<held, given>>
  BY DEF ParityArrives
<1>2. PICK i \in 0 .. Fragments[id] - 1 :
          /\ i % FecGroup = 0 /\ ProcessFEC(Group(id, i)) /\ parity' = parity \cup {<<id, i>>}
          /\ UNCHANGED <<held, given>>
  BY <1>1
<1> DEFINE group == Group(id, i)
           slot == FecSlot(id, i)
           used == {s \in 0 .. FecRing - 1 : m_fecRing[s] # NoGroup}
<1>3. /\ group \in GroupType /\ group.frameId = id /\ group.fragmentStart = i
      /\ id \in Nat /\ i \in Nat /\ slot \in 0 .. FecRing - 1
  <2>1. id \in Nat /\ i \in Nat
    BY FragmentsOf
  <2> QED BY <2>1, GroupIs, FecSlotInRing
<1> HIDE DEF group
<1>4. RingInv /\ ProcessFEC(group) /\ FecSound(m_fecRing, parity) /\ m_fecRing \in FecRings /\ m_fecPool \in Nat
  BY <1>2 DEF UseInv, RingInv, ReceiverTypeOK, FecRings, group
<1>5. /\ RingInv' /\ Outside' = Outside /\ Reassembling' = Reassembling
      /\ UNCHANGED <<m_nextFrameIdToRead, m_firstFrameReceived>>
      /\ \/ UNCHANGED <<m_frameRing, m_fecRing, m_fecPool>>
         \/ /\ FreeParity(slot) > 0
            /\ m_fecPool' = FreeParity(slot) - 1
            /\ m_fecRing' = [m_fecRing EXCEPT ![slot] = group]
            /\ \A s \in Reassembling :
                  m_frameRing'[s] = IF m_frameRing[s].frameId = id
                                    THEN TryRecover(m_frameRing[s], i, m_fecRing')
                                    ELSE m_frameRing[s]
  BY <1>3, <1>4, FecKeeps
<1>6. given' = given /\ held' = held /\ parity \subseteq parity' /\ <<id, i>> \in parity'
  BY <1>2
<1>7. FecSound(m_fecRing, parity')
  BY <1>4, <1>6 DEF FecSound
<1>8. CASE UNCHANGED <<m_frameRing, m_fecRing, m_fecPool>>
  <2>1. ParityConserved' /\ FecSound(m_fecRing', parity')
    BY <1>7, <1>8 DEF UseInv, ParityConserved
  <2>2. \A s \in Reassembling' : /\ Proper(m_frameRing'[s])
                                 /\ Honest(m_frameRing'[s], given', parity')
                                 /\ Exhausted(m_frameRing'[s], m_fecRing')
    BY <1>5, <1>6, <1>8, HonestStays DEF UseInv
  <2> QED BY <1>5, <1>6, <2>1, <2>2 DEF UseInv
<1>9. CASE /\ FreeParity(slot) > 0
           /\ m_fecPool' = FreeParity(slot) - 1
           /\ m_fecRing' = [m_fecRing EXCEPT ![slot] = group]
           /\ \A s \in Reassembling :
                 m_frameRing'[s] = IF m_frameRing[s].frameId = id
                                   THEN TryRecover(m_frameRing[s], i, m_fecRing')
                                   ELSE m_frameRing[s]
  <2>1. /\ m_fecRing' \in FecRings /\ m_fecRing'[slot] = group
        /\ \A s \in 0 .. FecRing - 1 : s # slot => m_fecRing'[s] = m_fecRing[s]
    BY <1>3, <1>4, <1>9 DEF FecRings
  <2>2. FecSound(m_fecRing', parity')
    BY <1>2, <1>6, <1>7, <2>1 DEF FecSound, group
  <2>3. ParityConserved'
    <3>1. {s \in 0 .. FecRing - 1 : m_fecRing'[s] # NoGroup} = used \cup {slot}
      BY <1>3, <2>1, NullAssumption
    <3>2. IsFiniteSet(used) /\ Cardinality(used) \in Nat
      <4>1. IsFiniteSet(0 .. FecRing - 1)
        BY ReceiverAssumption, FirstNumbers
      <4>2. used \in SUBSET (0 .. FecRing - 1)
        OBVIOUS
      <4> QED BY <4>1, <4>2, FS_Subset, FS_CardinalityType
    <3>3. m_fecRing[slot] # NoGroup <=> slot \in used
      BY <1>3
    <3>4. m_fecPool + Cardinality(used) = FecPool
      BY DEF UseInv, ParityConserved
    <3> HIDE DEF used
    <3>5. Cardinality(used \cup {slot}) = IF slot \in used THEN Cardinality(used) ELSE Cardinality(used) + 1
      BY <3>2, FS_AddElement
    <3>6. PICK c \in Nat, d \in Nat : c = Cardinality(used) /\ d = Cardinality(used \cup {slot})
      BY <3>2, <3>5
    <3>7. CASE slot \in used
      <4>1. FreeParity(slot) = m_fecPool + 1 /\ d = c
        BY <3>3, <3>5, <3>6, <3>7 DEF FreeParity
      <4>2. m_fecPool' + d = FecPool
        BY <1>4, <1>9, <3>4, <3>6, <4>1
      <4> QED BY <3>1, <3>6, <4>2 DEF ParityConserved
    <3>8. CASE slot \notin used
      <4>1. FreeParity(slot) = m_fecPool /\ d = c + 1
        BY <1>4, <3>3, <3>5, <3>6, <3>8 DEF FreeParity
      <4>2. m_fecPool' + d = FecPool
        BY <1>4, <1>9, <3>4, <3>6, <4>1
      <4> QED BY <3>1, <3>6, <4>2 DEF ParityConserved
    <3> QED BY <3>7, <3>8
  <2>4. ASSUME NEW s \in Reassembling'
        PROVE  /\ Proper(m_frameRing'[s])
               /\ Honest(m_frameRing'[s], given', parity')
               /\ Exhausted(m_frameRing'[s], m_fecRing')
    <3> DEFINE f == m_frameRing[s]
               g == m_frameRing'[s]
    <3>1. /\ Proper(f) /\ Whole(f) /\ Honest(f, given, parity) /\ Exhausted(f, m_fecRing)
          /\ g = IF f.frameId = id THEN TryRecover(f, i, m_fecRing') ELSE f
      BY <1>5, <1>9 DEF UseInv, RingInv
    <3> HIDE DEF f, g
    <3>2. Honest(f, given', parity')
      BY <1>6, <3>1, HonestStays
    <3>3. Exhausted(g, m_fecRing')
      BY <1>2, <1>3, <1>4, <1>9, <2>1, <2>2, <3>1, ParityExhausts DEF group
    <3>4. CASE f.frameId # id
      BY <3>1, <3>2, <3>3, <3>4 DEF g
    <3>5. CASE f.frameId = id
      <4>1. /\ Counted(g) /\ SameFrame(f, g)
            /\ g = f \/ RestoredBy(f, g, i, m_fecRing')
        BY <1>3, <2>1, <3>1, <3>5, RecoverIs DEF Proper
      <4>2. Proper(g)
        BY <3>1, <4>1, ProperStays
      <4>3. Honest(g, given', parity')
        BY <1>3, <2>2, <3>1, <3>2, <4>1, RestoredIsJustified
      <4> QED BY <3>3, <4>2, <4>3 DEF g
    <3> QED BY <3>4, <3>5
  <2> QED BY <1>5, <1>6, <2>2, <2>3, <2>4 DEF UseInv
<1> QED BY <1>5, <1>8, <1>9

\* The frames of the ring after a call that stores nothing.
LEMMA RestStays ==
    ASSUME UseInv, UNCHANGED <<given, parity, m_fecRing, m_fecPool>>,
           \A s \in Reassembling' : s \in Reassembling /\ m_frameRing'[s] = m_frameRing[s]
    PROVE  /\ ParityConserved' /\ FecSound(m_fecRing', parity')
           /\ \A s \in Reassembling' : /\ Proper(m_frameRing'[s])
                                       /\ Honest(m_frameRing'[s], given', parity')
                                       /\ Exhausted(m_frameRing'[s], m_fecRing')
<1>1. ParityConserved' /\ FecSound(m_fecRing', parity')
  BY DEF UseInv, ParityConserved
<1>2. ASSUME NEW s \in Reassembling'
      PROVE  /\ Proper(m_frameRing'[s])
             /\ Honest(m_frameRing'[s], given', parity')
             /\ Exhausted(m_frameRing'[s], m_fecRing')
  BY DEF UseInv
<1> QED BY <1>1, <1>2

LEMMA ReadUse == UseInv /\ Read => UseInv'
<1> SUFFICES ASSUME UseInv, Read PROVE UseInv'
  OBVIOUS
<1>1. /\ GetNextFrame /\ held' = held \cup {m_nextFrameIdToRead} /\ UNCHANGED <<given, parity>>
      /\ RingInv /\ m_nextFrameIdToRead \in Nat
  BY DEF Read, UseInv, RingInv, ReceiverTypeOK
<1>2. /\ RingInv' /\ Outside' = Outside + 1
      /\ m_nextFrameIdToRead' = m_nextFrameIdToRead + 1
      /\ UNCHANGED <<m_firstFrameReceived, m_fecRing, m_fecPool>> /\ m_firstFrameReceived
      /\ \A s \in Reassembling' : s \in Reassembling /\ m_frameRing'[s] = m_frameRing[s]
  BY <1>1, ReadKeeps DEF fecVars
<1>3. m_nextFrameIdToRead \notin held
  BY <1>1 DEF UseInv
<1>4. IsFiniteSet(held') /\ Cardinality(held') = Cardinality(held) + 1
  <2>1. IsFiniteSet(held)
    BY DEF UseInv
  <2> QED BY <1>1, <1>3, <2>1, FS_AddElement
<1>5. Outside' = Cardinality(held')
  BY <1>2, <1>4 DEF UseInv
<1>6. held' \subseteq Nat /\ \A id \in held' : id < m_nextFrameIdToRead'
  BY <1>1, <1>2 DEF UseInv
<1> QED BY <1>1, <1>2, <1>4, <1>5, <1>6, RestStays DEF UseInv

LEMMA SkipUse == UseInv /\ Skip => UseInv'
<1> SUFFICES ASSUME UseInv, Skip PROVE UseInv'
  OBVIOUS
<1>1. PICK id \in 0 .. MaxFrames : ForceAdvanceTo(id)
  BY DEF Skip
<1>2. /\ UNCHANGED <<held, given, parity>> /\ RingInv /\ id \in Nat /\ m_nextFrameIdToRead \in Nat
  BY DEF Skip, UseInv, RingInv, ReceiverTypeOK
<1>3. /\ RingInv' /\ Outside' = Outside
      /\ m_nextFrameIdToRead' = IF id > m_nextFrameIdToRead THEN id ELSE m_nextFrameIdToRead
      /\ UNCHANGED <<m_firstFrameReceived, m_fecRing, m_fecPool>>
      /\ \A s \in Reassembling' : s \in Reassembling /\ m_frameRing'[s] = m_frameRing[s]
  BY <1>1, <1>2, SkipKeeps DEF fecVars
<1>4. \A k \in held' : k < m_nextFrameIdToRead'
  BY <1>2, <1>3 DEF UseInv
<1> QED BY <1>2, <1>3, <1>4, RestStays DEF UseInv

LEMMA LetGoUse == UseInv /\ LetGo => UseInv'
<1> SUFFICES ASSUME UseInv, LetGo PROVE UseInv'
  OBVIOUS
<1>1. PICK id \in held : held' = held \ {id}
  BY DEF LetGo
<1>2. ReturnToPoolRaw /\ UNCHANGED <<given, parity>> /\ RingInv
  BY DEF LetGo, UseInv
<1>3. /\ RingInv' /\ Outside' = Outside - 1 /\ Reassembling' = Reassembling
      /\ UNCHANGED <<m_frameRing, m_nextFrameIdToRead, m_firstFrameReceived, m_fecRing, m_fecPool>>
  BY <1>2, ReturnKeeps DEF fecVars
<1>4. IsFiniteSet(held') /\ Cardinality(held') = Cardinality(held) - 1
  <2>1. IsFiniteSet(held)
    BY DEF UseInv
  <2> QED BY <1>1, <2>1, FS_RemoveElement
<1>5. Outside' = Cardinality(held')
  BY <1>3, <1>4 DEF UseInv
<1>6. held' \subseteq held
  BY <1>1
<1> QED BY <1>2, <1>3, <1>4, <1>5, <1>6, RestStays DEF UseInv

\* The invariant that the next three theorems rest on.
THEOREM UseInvariant == UseSpec => []UseInv
<1>1. UseInit => UseInv
  BY InitUse
<1>2. UseInv /\ [UseNext]_useVars => UseInv'
  <2> SUFFICES ASSUME UseInv, [UseNext]_useVars PROVE UseInv'
    OBVIOUS
  <2>1. CASE UNCHANGED useVars
    <3>1. /\ UNCHANGED <<m_frameRing, m_nextFrameIdToRead, m_firstFrameReceived, m_framePool,
                         m_frameStorage, m_fecRing, m_fecPool, nullDeref>>
          /\ UNCHANGED <<held, given, parity>>
      BY <2>1 DEF useVars, receiverVars, frameVars, fecVars
    <3>2. Reassembling' = Reassembling /\ RingInv' /\ Outside' = Outside
      BY <3>1 DEF UseInv, RingInv, ReceiverTypeOK, Reassembling, Outside
    <3> QED BY <3>1, <3>2, RestStays DEF UseInv
  <2> QED BY <2>1, ArrivalUse, ParityUse, ReadUse, SkipUse, LetGoUse DEF UseNext
<1> QED BY <1>1, <1>2, PTL DEF UseSpec

\* Neither frame buffers nor parity packets leak, whatever is called in whatever order.
THEOREM UseLeaksNothing == UseSpec => []NothingLeaks
<1>1. ASSUME UseInv PROVE NothingLeaks
  <2>1. ReceiverTypeOK /\ ParityConserved
    BY <1>1 DEF UseInv, RingInv
  <2>2. PICK a \in Nat, p \in Nat, c \in Nat :
          a = m_frameStorage /\ p = m_framePool /\ c = Cardinality(Reassembling)
    BY <2>1, ReassemblingFinite DEF ReceiverTypeOK
  <2>3. PICK d \in Nat : d = Cardinality(held)
    BY <1>1, FS_CardinalityType DEF UseInv
  <2>4. a - p - c = d
    BY <1>1, <2>2, <2>3 DEF UseInv, Outside
  <2>5. a = p + c + d
    BY <2>4
  <2> QED BY <2>1, <2>2, <2>3, <2>5 DEF NothingLeaks, FramesConserved
<1> QED BY <1>1, UseInvariant, PTL

\* A frame holds only fragments that came or that its parity packet restores, and is
\* complete exactly when it holds them all.
THEOREM UseJustifiesFragments == UseSpec => []FragmentsJustified
<1>1. ASSUME UseInv, NEW s \in Reassembling
      PROVE  LET f == m_frameRing[s]
             IN  /\ \A i \in f.fragmentMap : Justified(f.frameId, i)
                 /\ f.isComplete <=> f.fragmentMap = 0 .. f.totalFragments - 1
  <2> DEFINE f == m_frameRing[s]
  <2>1. Counted(f) /\ Whole(f) /\ Honest(f, given, parity)
    BY <1>1 DEF UseInv, RingInv
  <2>2. \A i \in f.fragmentMap : Justified(f.frameId, i)
    BY <2>1 DEF Honest, JustifiedBy, Justified
  <2>3. f.isComplete <=> f.fragmentMap = 0 .. f.totalFragments - 1
    BY <2>1, AllThere DEF Whole
  <2> QED BY <2>2, <2>3
<1>2. UseInv => FragmentsJustified
  BY <1>1 DEF FragmentsJustified
<1> QED BY <1>2, UseInvariant, PTL

\* No frame waits for a fragment that the parity at hand would restore.
THEOREM UseUsesParity == UseSpec => []ParityUsed
<1>1. ASSUME UseInv, NEW s \in Reassembling, NEW start \in Recoverable(m_frameRing[s])
      PROVE  m_fecRing[FecSlot(m_frameRing[s].frameId, start)].fragmentCount < 2
  <2> DEFINE f == m_frameRing[s]
  <2>1. Exhausted(f, m_fecRing) /\ Proper(f) /\ f.totalFragments \in Nat
    BY <1>1, FragmentsOf DEF UseInv, Proper
  <2>2. start \in Nat /\ Useful(f, start, m_fecRing)
    BY <2>1, GroupStartIsNat DEF Recoverable, Useful
  <2> QED BY <2>1, <2>2 DEF Exhausted
<1>2. UseInv => ParityUsed
  BY <1>1 DEF ParityUsed
<1> QED BY <1>2, UseInvariant, PTL

-----------------------------------------------------------------------------
\* ReplayWindow

(***************************************************************************)
(* A positive multiple of a positive number is at least that number.       *)
(***************************************************************************)
LEMMA MultipleAtLeast ==
    ASSUME NEW k \in Int, NEW m \in Nat, k >= 1
    PROVE  k * m >= m
<1>1. k * m = (k - 1) * m + m
  BY SMT
<1>2. (k - 1) * m >= 0
  BY SMT
<1> QED BY <1>1, <1>2, SMT

(***************************************************************************)
(* The position of a sequence number lies inside the window.               *)
(***************************************************************************)
LEMMA PositionInWindow ==
    ASSUME NEW a \in Nat
    PROVE  /\ WordIdx(a) \in 0 .. Words - 1
           /\ Bit(a) \in 0 .. WordBits - 1
<1>1. /\ a \div WordBits \in Nat
      /\ a % WordBits \in 0 .. WordBits - 1
  BY WindowAssumption, DivMod
<1>2. (a \div WordBits) % Words \in 0 .. Words - 1
  BY <1>1, WindowAssumption, DivMod
<1> QED BY <1>1, <1>2 DEF WordIdx, Bit

(***************************************************************************)
(* Two numbers that share a bit of the window and are less than a window   *)
(* apart are the same number: this is why the code may store one bit each. *)
(***************************************************************************)
LEMMA PositionUnique ==
    ASSUME NEW a \in Nat, NEW b \in Nat,
           WordIdx(a) = WordIdx(b), Bit(a) = Bit(b),
           a - b < WindowSize, b - a < WindowSize
    PROVE  a = b
<1> DEFINE qa == a \div WordBits
           qb == b \div WordBits
           ra == a % WordBits
           rb == b % WordBits
           ka == qa \div Words
           kb == qb \div Words
           wa == qa % Words
           wb == qb % Words
<1>1. /\ qa \in Nat /\ ra \in 0 .. WordBits - 1 /\ a = WordBits * qa + ra
      /\ qb \in Nat /\ rb \in 0 .. WordBits - 1 /\ b = WordBits * qb + rb
  BY WindowAssumption, DivMod
<1>2. /\ ka \in Nat /\ wa \in 0 .. Words - 1 /\ qa = Words * ka + wa
      /\ kb \in Nat /\ wb \in 0 .. Words - 1 /\ qb = Words * kb + wb
  <2> HIDE DEF qa, qb
  <2> QED BY <1>1, WindowAssumption, DivMod
<1>same. ra = rb /\ wa = wb
  BY DEF Bit, WordIdx
<1> HIDE DEF qa, qb, ra, rb, ka, kb, wa, wb
<1>3. qa - qb = Words * (ka - kb)
  BY <1>same, <1>2, WindowAssumption, SMT
<1>4. a - b = WordBits * (qa - qb)
  BY <1>same, <1>1, WindowAssumption, SMT
<1>5. a - b = (ka - kb) * WindowSize
  BY <1>1, <1>2, <1>3, <1>4, WindowAssumption, SMT DEF WindowSize
<1>6. WindowSize \in Nat
  BY WindowAssumption, SMT DEF WindowSize
<1>7. ~ (ka - kb >= 1)
  BY <1>2, <1>5, <1>6, MultipleAtLeast, SMT
<1>8. ~ (kb - ka >= 1)
  <2>1. b - a = (kb - ka) * WindowSize
    BY <1>2, <1>5, <1>6, SMT
  <2> QED BY <2>1, <1>2, <1>6, MultipleAtLeast, SMT
<1>9. ka - kb = 0
  BY <1>2, <1>7, <1>8, SMT
<1> QED BY <1>5, <1>6, <1>9, SMT

-----------------------------------------------------------------------------
(***************************************************************************)
(* The maximum after a call of ValidateSequence(seq).                      *)
(***************************************************************************)
NewMax(seq) == IF seq > maxSequenceReceived THEN seq ELSE maxSequenceReceived

(***************************************************************************)
(* Once the window has moved up to seq, its bits are those of the numbers  *)
(* that passed: what "window advancement" in ValidateSequence must do.     *)
(***************************************************************************)
LEMMA AdvanceExact ==
    ASSUME WindowInv, NEW seq \in Nat,
           NEW s \in Nat, s <= NewMax(seq), s > NewMax(seq) - WindowSize
    PROVE  Bit(s) \in WindowAt(seq)[WordIdx(s)] <=> s \in passed
<1>1. /\ maxSequenceReceived \in Nat
      /\ sequenceWindow \in [0 .. Words - 1 -> SUBSET (0 .. WordBits - 1)]
      /\ WindowSize \in Nat
  BY WindowAssumption DEF WindowInv, WindowTypeOK, WindowSize
<1>2. WordIdx(s) \in 0 .. Words - 1 /\ Bit(s) \in 0 .. WordBits - 1
  BY PositionInWindow
<1>3. ASSUME s <= maxSequenceReceived, s > maxSequenceReceived - WindowSize
      PROVE  Bit(s) \in sequenceWindow[WordIdx(s)] <=> s \in passed
  BY <1>1, <1>3 DEF WindowInv, WindowExact, InWindow
<1>4. s > maxSequenceReceived => s \notin passed
  BY <1>1 DEF WindowInv, PassedBelowMax
<1>5. CASE ~ (seq > maxSequenceReceived)
  BY <1>3, <1>5 DEF WindowAt, NewMax
<1>6. CASE seq > maxSequenceReceived
  <2>1. WindowAt(seq) = Advanced(seq) /\ NewMax(seq) = seq
    BY <1>6 DEF WindowAt, NewMax
  <2>2. CASE seq - maxSequenceReceived >= WindowSize
    <3>1. Advanced(seq)[WordIdx(s)] = {}
      BY <1>2, <2>2 DEF Advanced
    <3>2. s > maxSequenceReceived
      BY <1>1, <2>1, <2>2
    <3> QED BY <1>4, <2>1, <3>1, <3>2
  <2>3. CASE ~ (seq - maxSequenceReceived >= WindowSize)
    <3> DEFINE Cleared == \E t \in maxSequenceReceived + 1 .. seq :
                             WordIdx(t) = WordIdx(s) /\ Bit(t) = Bit(s)
    <3>1. Bit(s) \in Advanced(seq)[WordIdx(s)] <=>
             Bit(s) \in sequenceWindow[WordIdx(s)] /\ ~ Cleared
      BY <1>1, <1>2, <2>3 DEF Advanced
    <3>2. CASE s > maxSequenceReceived
      <4>1. Cleared
        <5>1. s \in maxSequenceReceived + 1 .. seq
          BY <1>1, <2>1, <3>2
        <5> QED BY <5>1
      <4> HIDE DEF Cleared
      <4> QED BY <1>4, <2>1, <3>1, <3>2, <4>1
    <3>3. CASE s <= maxSequenceReceived
      <4>1. ~ Cleared
        <5>1. SUFFICES ASSUME NEW t \in maxSequenceReceived + 1 .. seq,
                              WordIdx(t) = WordIdx(s), Bit(t) = Bit(s)
                       PROVE  FALSE
          OBVIOUS
        <5>2. t \in Nat /\ t - s < WindowSize /\ s - t < WindowSize /\ t # s
          BY <1>1, <2>1, <3>3
        <5> QED BY <5>1, <5>2, PositionUnique
      <4>2. s > maxSequenceReceived - WindowSize
        BY <1>1, <1>6, <2>1
      <4> HIDE DEF Cleared
      <4> QED BY <1>3, <2>1, <3>1, <3>3, <4>1, <4>2
    <3> QED BY <1>1, <3>2, <3>3
  <2> QED BY <2>2, <2>3
<1> QED BY <1>5, <1>6

(***************************************************************************)
(* The window is still one set of bits per word after it has moved.        *)
(***************************************************************************)
LEMMA AdvanceType ==
    ASSUME WindowInv, NEW seq \in Nat
    PROVE  WindowAt(seq) \in [0 .. Words - 1 -> SUBSET (0 .. WordBits - 1)]
BY DEF WindowInv, WindowTypeOK, WindowAt, Advanced

(***************************************************************************)
(* What ValidateSequence(seq) decides: in any state that satisfies the     *)
(* invariant, it returns true exactly when seq never passed before and is  *)
(* less than a window behind the maximum.                                  *)
(***************************************************************************)
LEMMA VerdictExact ==
    ASSUME WindowInv, NEW seq \in Nat
    PROVE  /\ ~ TooOld(seq) /\ Bit(seq) \notin WindowAt(seq)[WordIdx(seq)]
                <=> Filter!Passes(seq)
           /\ ~ TooOld(seq) <=> seq > NewMax(seq) - WindowSize
<1>1. maxSequenceReceived \in Nat /\ WindowSize \in Nat \ {0}
  <2>1. WordBits * Words >= Words
    BY WindowAssumption, MultipleAtLeast
  <2> QED BY <2>1, WindowAssumption DEF WindowInv, WindowTypeOK, WindowSize
<1>2. ~ TooOld(seq) <=> seq > NewMax(seq) - WindowSize
  BY <1>1 DEF TooOld, NewMax
<1>3. ~ TooOld(seq) <=> seq > maxSequenceReceived - WindowSize
  BY <1>1 DEF TooOld
<1>4. seq > NewMax(seq) - WindowSize =>
        (Bit(seq) \in WindowAt(seq)[WordIdx(seq)] <=> seq \in passed)
  BY <1>1, AdvanceExact DEF NewMax
<1> QED BY <1>2, <1>3, <1>4 DEF Filter!Passes

(***************************************************************************)
(* One call of ValidateSequence preserves the invariant.                   *)
(***************************************************************************)
LEMMA ValidatePreserves ==
    ASSUME WindowInv, NEW seq \in Seqs, ValidateSequence(seq)
    PROVE  WindowInv'
<1> DEFINE win == WindowAt(seq)
           fresh == ~ TooOld(seq) /\ Bit(seq) \notin win[WordIdx(seq)]
<1>1. seq \in Nat /\ WindowSize \in Nat
  BY WindowAssumption DEF WindowSize
<1>2. /\ result' = [seq |-> seq, ok |-> fresh]
      /\ passed' = IF fresh THEN passed \cup {seq} ELSE passed
      /\ maxSequenceReceived' = NewMax(seq)
      /\ sequenceWindow' = IF fresh
                           THEN [win EXCEPT ![WordIdx(seq)] = @ \cup {Bit(seq)}]
                           ELSE win
  BY DEF ValidateSequence, NewMax
<1>3. win \in [0 .. Words - 1 -> SUBSET (0 .. WordBits - 1)]
  BY <1>1, AdvanceType
<1>4. WordIdx(seq) \in 0 .. Words - 1 /\ Bit(seq) \in 0 .. WordBits - 1
  BY <1>1, PositionInWindow
<1>5. fresh => seq > NewMax(seq) - WindowSize
  BY <1>1, VerdictExact
<1>6. maxSequenceReceived \in Nat /\ passed \subseteq Nat
  BY DEF WindowInv, WindowTypeOK
<1>7. ASSUME NEW s \in Nat, s <= NewMax(seq), s > NewMax(seq) - WindowSize
      PROVE  Bit(s) \in win[WordIdx(s)] <=> s \in passed
  BY <1>1, <1>7, AdvanceExact
<1>8. fresh \in BOOLEAN
  OBVIOUS
<1> HIDE DEF win, fresh
<1>9. WindowTypeOK'
  <2>1. maxSequenceReceived' \in Nat
    BY <1>1, <1>2, <1>6 DEF NewMax
  <2>2. sequenceWindow' \in [0 .. Words - 1 -> SUBSET (0 .. WordBits - 1)]
    BY <1>2, <1>3, <1>4
  <2>3. passed' \subseteq Nat
    BY <1>1, <1>2, <1>6
  <2>4. result' \in [seq : Nat \cup {-1}, ok : BOOLEAN]
    BY <1>1, <1>2, <1>8
  <2> QED BY <2>1, <2>2, <2>3, <2>4 DEF WindowTypeOK
<1>10. PassedBelowMax'
  BY <1>1, <1>2, <1>6 DEF WindowInv, PassedBelowMax, NewMax
<1>11. WindowExact'
  <2> SUFFICES ASSUME NEW s \in 0 .. maxSequenceReceived', InWindow(s)'
               PROVE  Bit(s) \in sequenceWindow'[WordIdx(s)] <=> s \in passed'
    BY DEF WindowExact, Bit, WordIdx
  <2>1. NewMax(seq) \in Nat
    BY <1>1, <1>6 DEF NewMax
  <2>2. s \in Nat /\ s <= NewMax(seq) /\ s > NewMax(seq) - WindowSize
    BY <1>1, <1>2, <2>1 DEF InWindow, WindowSize
  <2>3. WordIdx(s) \in 0 .. Words - 1
    BY <2>2, PositionInWindow
  <2>4. Bit(s) \in win[WordIdx(s)] <=> s \in passed
    BY <1>7, <2>2
  <2>5. CASE ~ fresh
    BY <1>2, <2>4, <2>5
  <2>6. CASE fresh
    <3>1. Bit(s) \in sequenceWindow'[WordIdx(s)] <=>
            \/ Bit(s) \in win[WordIdx(s)]
            \/ WordIdx(s) = WordIdx(seq) /\ Bit(s) = Bit(seq)
      BY <1>2, <1>3, <1>4, <2>3, <2>6
    <3>2. seq <= NewMax(seq)
      BY <1>1, <1>6 DEF NewMax
    <3>3. s - seq < WindowSize /\ seq - s < WindowSize
      BY <1>1, <1>5, <2>1, <2>2, <2>6, <3>2
    <3>4. (WordIdx(s) = WordIdx(seq) /\ Bit(s) = Bit(seq)) <=> s = seq
      BY <1>1, <2>2, <3>3, PositionUnique
    <3> QED BY <1>2, <2>4, <2>6, <3>1, <3>4
  <2> QED BY <2>5, <2>6
<1> QED BY <1>9, <1>10, <1>11 DEF WindowInv

-----------------------------------------------------------------------------
(***************************************************************************)
(* The window's bits are at all times exactly the covered numbers that     *)
(* have passed, for every word width, every number of words and every      *)
(* sequence of calls of ValidateSequence.                                  *)
(***************************************************************************)
THEOREM WindowInvariant == WindowSpec => []WindowInv
<1>1. WindowInit => WindowInv
  <2> SUFFICES ASSUME WindowInit PROVE WindowInv
    OBVIOUS
  <2>1. WindowTypeOK
    BY DEF WindowInit, WindowTypeOK, NoResult
  <2>2. WindowExact
    BY PositionInWindow DEF WindowInit, WindowExact
  <2>3. PassedBelowMax
    BY DEF WindowInit, PassedBelowMax
  <2> QED BY <2>1, <2>2, <2>3 DEF WindowInv
<1>2. WindowInv /\ [WindowNext]_windowVars => WindowInv'
  <2> SUFFICES ASSUME WindowInv, [WindowNext]_windowVars PROVE WindowInv'
    OBVIOUS
  <2>1. CASE WindowNext
    BY <2>1, ValidatePreserves DEF WindowNext
  <2>2. CASE UNCHANGED windowVars
    BY <2>2 DEF windowVars, WindowInv, WindowTypeOK, WindowExact, InWindow,
                PassedBelowMax, WordIdx, Bit
  <2> QED BY <2>1, <2>2
<1> QED BY <1>1, <1>2, PTL DEF WindowSpec

(***************************************************************************)
(* The bit test of ValidateSequence is exact (the conjunct WindowExact).   *)
(***************************************************************************)
THEOREM WindowIsExact == WindowSpec => []WindowExact
<1>1. WindowInv => WindowExact
  BY DEF WindowInv
<1> QED BY <1>1, WindowInvariant, PTL

(***************************************************************************)
(* The types of the window's state hold always.                            *)
(***************************************************************************)
THEOREM WindowTypeCorrect == WindowSpec => []WindowTypeOK
<1>1. WindowInv => WindowTypeOK
  BY DEF WindowInv
<1> QED BY <1>1, WindowInvariant, PTL

(***************************************************************************)
(* ValidateSequence never returns true twice for one number.               *)
(***************************************************************************)
THEOREM ReplayProtection == WindowSpec => NeverTwice
<1>1. WindowInv /\ [WindowNext]_windowVars
        => [result'.ok => result'.seq \notin passed]_<<result, passed>>
  <2> SUFFICES ASSUME WindowInv, WindowNext
               PROVE  result'.ok => result'.seq \notin passed
    BY DEF windowVars
  <2>1. PICK seq \in Seqs : ValidateSequence(seq)
    BY DEF WindowNext
  <2>2. seq \in Nat
    BY WindowAssumption
  <2> QED BY <2>1, <2>2, VerdictExact DEF ValidateSequence, Filter!Passes
<1> QED BY <1>1, WindowInvariant, PTL DEF WindowSpec, NeverTwice

(***************************************************************************)
(* The bitmask window of ValidateSequence implements the filter that       *)
(* remembers every number: same verdict on every call.                     *)
(***************************************************************************)
THEOREM WindowRefinesFilter == WindowSpec => ImplementsFilter
<1>1. WindowInit => Filter!FilterInit
  BY DEF WindowInit, Filter!FilterInit, NoResult, Filter!NoVerdict
<1>2. WindowInv /\ [WindowNext]_windowVars => [Filter!FilterNext]_(Filter!filterVars)
  <2> SUFFICES ASSUME WindowInv, [WindowNext]_windowVars
               PROVE  [Filter!FilterNext]_(Filter!filterVars)
    OBVIOUS
  <2>1. CASE WindowNext
    <3>1. PICK seq \in Seqs : ValidateSequence(seq)
      BY <2>1 DEF WindowNext
    <3>2. seq \in Nat /\ maxSequenceReceived \in Nat
      BY WindowAssumption DEF WindowInv, WindowTypeOK
    <3> DEFINE fresh == ~ TooOld(seq) /\ Bit(seq) \notin WindowAt(seq)[WordIdx(seq)]
    <3>3. fresh <=> Filter!Passes(seq)
      BY <3>2, VerdictExact
    <3>4. /\ result' = [seq |-> seq, ok |-> fresh]
          /\ passed' = IF fresh THEN passed \cup {seq} ELSE passed
          /\ maxSequenceReceived' = NewMax(seq)
      BY <3>1 DEF ValidateSequence, NewMax
    <3>5. WindowSize \in Nat \ {0}
      <4>1. WordBits * Words >= Words
        BY WindowAssumption, MultipleAtLeast
      <4> QED BY <4>1, WindowAssumption DEF WindowSize
    <3>6. ~ fresh => NewMax(seq) = maxSequenceReceived
      <4>1. seq > maxSequenceReceived => Filter!Passes(seq)
        <5>1. seq > maxSequenceReceived => seq \notin passed
          BY <3>2 DEF WindowInv, PassedBelowMax
        <5> QED BY <3>2, <3>5, <5>1 DEF Filter!Passes
      <4> QED BY <3>3, <4>1 DEF NewMax
    <3>7. fresh \in BOOLEAN /\ Filter!Passes(seq) \in BOOLEAN
      BY DEF Filter!Passes
    <3>8. Filter!Offer(seq)
      <4> HIDE DEF fresh
      <4> QED BY <3>3, <3>4, <3>6, <3>7 DEF Filter!Offer, NewMax
    <3> QED BY <3>8 DEF Filter!FilterNext
  <2>2. CASE UNCHANGED windowVars
    BY <2>2 DEF windowVars, Filter!filterVars
  <2> QED BY <2>1, <2>2
<1> QED BY <1>1, <1>2, WindowInvariant, PTL
        DEF WindowSpec, ImplementsFilter, Filter!FilterSpec
================================================================================
