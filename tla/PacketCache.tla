----------------------------- MODULE PacketCache -----------------------------
(***************************************************************************)
(* The host's cache of packets for retransmission (ClientState's           *)
(* packetCache in common/session_manager.cpp): the packetizer stores every *)
(* packet it has cut from a frame, and the receiver thread answers a       *)
(* request from the slot of the packet's key.  Both hold stateMutex.       *)
(*                                                                         *)
(* The packetizer reads the packet's bytes and its key through pointers it *)
(* has given away (HostPipeline); here they are stored as they were meant, *)
(* so what is lost here is lost even so.                                   *)
(***************************************************************************)
EXTENDS Naturals, FiniteSets, Bitwise, TLC

CONSTANTS CacheSlots,     \* 512
          FragmentCounts, \* bound: how many fragments a frame may have
          CachedFrames    \* bound: frames that are cut

ASSUME CacheAssumption == CacheSlots \in Nat \ {0} /\ FragmentCounts \subseteq Nat \ {0}

VARIABLES frameId,        \* of the frame being cut
          fragment,       \* the next one of it
          totalFrags,
          packetCache,    \* occupied slot -> packet
          sent            \* history: the packets that were cut

cacheVars == <<frameId, fragment, totalFrags, packetCache, sent>>

CacheInit == /\ frameId = 0 /\ fragment = 0 /\ totalFrags \in FragmentCounts
             /\ packetCache = <<>>
             /\ sent = {}


CacheSlot(p) == ((p.frameId * 64) ^^ p.fragmentIndex) % CacheSlots

\* The next fragment goes to the sender, and its packet into the cache.
Cut == LET p == [frameId |-> frameId, fragmentIndex |-> fragment]
       IN  /\ fragment < totalFrags
           /\ packetCache' = (CacheSlot(p) :> p) @@ packetCache
           /\ sent' = sent \cup {p}
           /\ fragment' = fragment + 1
           /\ UNCHANGED <<frameId, totalFrags>>

CutNext == /\ fragment = totalFrags /\ frameId < CachedFrames
           /\ frameId' = frameId + 1 /\ fragment' = 0 /\ totalFrags' \in FragmentCounts
           /\ UNCHANGED <<packetCache, sent>>

\* The bound.
CacheEnd == fragment = totalFrags /\ frameId = CachedFrames /\ UNCHANGED cacheVars

CacheNext == Cut \/ CutNext \/ CacheEnd

CacheSpec == CacheInit /\ [][CacheNext]_cacheVars

\* The request for this packet is answered, if a buffer of udpPool is free.
Answered(p) == CacheSlot(p) \in DOMAIN packetCache /\ packetCache[CacheSlot(p)] = p


\* What the readiness report says of the cache, "collision-resistant" with 512 slots:
\* as long as no more packets were sent than fill half of it, each can be sent again.
CollisionResistant ==
    (\A p \in sent : Answered(p)) \/ 2 * Cardinality(sent) > CacheSlots
=============================================================================
