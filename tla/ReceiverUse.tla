---------------------------- MODULE ReceiverUse -----------------------------
(***************************************************************************)
(* Client::Receiver behind its public interface, with parity packets: the  *)
(* network reorders, repeats and withholds video and parity packets, one   *)
(* caller reads frames, skips ahead and lets frames go, each call at any   *)
(* time (the use of tests_runner.cpp, stress_test.cpp and                  *)
(* benchmark_pipeline.cpp; ClientPipeline has the calls of runClient,      *)
(* which takes no parity packets).                                         *)
(***************************************************************************)
EXTENDS Receiver

CONSTANTS MaxFrames,      \* bound: frame ids 0 .. MaxFrames - 1
          Fragments,      \* fragments of each frame
          Keyframes       \* ids of the keyframes

ASSUME UseAssumption ==
    /\ MaxFrames \in Nat \ {0}
    /\ Fragments \in [0 .. MaxFrames - 1 -> 1 .. MaxFragments]
    /\ Keyframes \subseteq 0 .. MaxFrames - 1

VARIABLES held,           \* ids of the frames the caller holds
          given,          \* history: fragments passed to ProcessPacket
          parity          \* history: groups passed to ProcessFEC

useVars == <<receiverVars, held, given, parity>>

FrameIds == 0 .. MaxFrames - 1

Header(id, i) == [frameId |-> id, fragmentIndex |-> i, totalFragments |-> Fragments[id],
                  isKeyframe |-> id \in Keyframes]

\* The last group of a frame covers what is left.
Group(id, start) == [frameId |-> id, fragmentStart |-> start,
                     fragmentCount |-> Min({FecGroup, Fragments[id] - start})]

UseInit == /\ ReceiverInit
           /\ held = {}
           /\ given = {}
           /\ parity = {}

PacketArrives ==
    \E id \in FrameIds : \E i \in 0 .. Fragments[id] - 1 :
        /\ ProcessPacket(Header(id, i))
        /\ given' = given \cup {<<id, i>>}
        /\ UNCHANGED <<held, parity>>

ParityArrives ==
    \E id \in FrameIds : \E i \in 0 .. Fragments[id] - 1 :
        /\ i % FecGroup = 0
        /\ ProcessFEC(Group(id, i))
        /\ parity' = parity \cup {<<id, i>>}
        /\ UNCHANGED <<held, given>>

Read == /\ GetNextFrame
        /\ held' = held \cup {m_nextFrameIdToRead}
        /\ UNCHANGED <<given, parity>>

Skip == /\ \E id \in 0 .. MaxFrames : ForceAdvanceTo(id)
        /\ UNCHANGED <<held, given, parity>>

LetGo == /\ \E id \in held : held' = held \ {id}
         /\ ReturnToPoolRaw
         /\ UNCHANGED <<given, parity>>

UseNext == PacketArrives \/ ParityArrives \/ Read \/ Skip \/ LetGo

UseSpec == UseInit /\ [][UseNext]_useVars

-----------------------------------------------------------------------------
\* A fragment the frame holds was received or can have been restored: its
\* group's parity packet was received, and so were the others of the group.
Justified(id, i) ==
    \/ <<id, i>> \in given
    \/ /\ <<id, GroupStart(i)>> \in parity
       /\ \A j \in 0 .. Fragments[id] - 1 :
             (GroupStart(j) = GroupStart(i) /\ j # i) => <<id, j>> \in given

\* A frame under reassembly holds no invented fragment, although a parity packet
\* may come before, between or after the fragments it covers, be repeated, and
\* share its slot of m_fecRing with groups of other frames; and it is complete
\* exactly when it holds every fragment.
FragmentsJustified ==
    \A s \in Reassembling :
        LET f == m_frameRing[s]
        IN  /\ \A i \in f.fragmentMap : Justified(f.frameId, i)
            /\ f.isComplete <=> f.fragmentMap = 0 .. f.totalFragments - 1

\* Parity packets never leak: each is in the pool or in a slot of m_fecRing.
ParityConserved ==
    m_fecPool + Cardinality({s \in 0 .. FecRing - 1 : m_fecRing[s] # NoGroup}) = FecPool

\* Buffers never leak: each is in the pool, in the ring, or with the caller.
FramesConserved == m_frameStorage = m_framePool + Cardinality(Reassembling) + Cardinality(held)

\* Neither kind of buffer leaks on any way out of ProcessPacket, ProcessFEC,
\* GetNextFrame, ForceAdvanceTo and ReturnToPool.
NothingLeaks == ReceiverTypeOK /\ ParityConserved /\ FramesConserved

\* The groups whose parity is there and would restore a fragment of frame f.
Recoverable(f) ==
    {start \in {GroupStart(i) : i \in 0 .. f.totalFragments - 1} :
        /\ HasGroup(m_fecRing, f.frameId, start)
        /\ Cardinality(MissingOf(f, m_fecRing[FecSlot(f.frameId, start)])) = 1}

\* A frame never waits for a fragment that the parity at hand would restore,
\* in whatever order fragments and parity came, for groups of two fragments
\* and more (ProcessPacket and ProcessFEC both end in TryRecover).
ParityUsed ==
    \A s \in Reassembling : \A start \in Recoverable(m_frameRing[s]) :
        m_fecRing[FecSlot(m_frameRing[s].frameId, start)].fragmentCount < 2
=============================================================================
