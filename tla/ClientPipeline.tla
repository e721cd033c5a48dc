--------------------------- MODULE ClientPipeline ---------------------------
(***************************************************************************)
(* The client's video path in SessionManager::runClient: netThread passes  *)
(* fragments to the receiver while the main loop reports gaps, asks for    *)
(* retransmissions and keyframes, skips ahead to a keyframe, moves         *)
(* complete frames to the jitter buffer and decodes them.  The two threads *)
(* share the receiver and lastFrameId; between any two calls of the main   *)
(* loop netThread may run, and a FrameDeleter takes the receiver's mutex   *)
(* again, so buffers come back one by one after the call that dropped the  *)
(* frames (toReturn).                                                      *)
(*                                                                         *)
(* The host and the network are the environment: fragments arrive in any   *)
(* order or never, a request for a keyframe or the keyframe itself may be  *)
(* lost, a retransmission request may stay without an answer each time it  *)
(* is made.  A packet that does come again is the cached one, with the     *)
(* sequence number it had, so ValidateSequence lets each fragment through  *)
(* once.                                                                   *)
(***************************************************************************)
EXTENDS Receiver, JitterBuffer, Sequences

CONSTANTS MaxFrames,      \* bound: frames the host sends, ids 0 .. MaxFrames - 1
          Fragments,      \* fragments of each frame
          GapLimit,       \* frames behind before a keyframe is asked for: 10
          MaxLost         \* bound: packets and requests that are lost

ASSUME PipelineAssumption ==
    /\ MaxFrames \in Nat \ {0}
    /\ Fragments \in [0 .. MaxFrames - 1 -> 1 .. MaxFragments]
    /\ GapLimit \in Nat
    /\ MaxLost \in Nat
    /\ NoEntry \notin FrameType

VARIABLES
    \* environment
    sentFrames,                  \* frames the host has sent: sequence of keyframe flags
    inFlight,                    \* fragments on their way: <<frameId, index>>
    arrived,                     \* fragments that went through ValidateSequence
    lost,                        \* number of packets lost
    keyframeWanted,              \* a keyframe request has reached the host
    requestInFlight,             \* a feedback packet with requestKeyframe is on its way
    \* shared by the two threads
    lastFrameId,
    \* netThread
    netSeen,                     \* id of the packet just processed, or -1
    \* main loop
    pc,
    nextExpected,                \* local copy of the read pointer
    latestKeyframe,
    frame,                       \* the frame in hand, or NoFrame
    requestKeyframe,
    lastReportedMissingFrameId,
    toReturn,                    \* dropped frames whose FrameDeleter has yet to run
    \* history
    lastDecoded,                 \* id of the frame decoded last, or -1
    overflowed                   \* the jitter buffer has dropped a frame since

envVars  == <<sentFrames, inFlight, arrived, lost, keyframeWanted, requestInFlight>>
loopVars == <<nextExpected, latestKeyframe, frame, requestKeyframe,
              lastReportedMissingFrameId, toReturn>>
histVars == <<lastDecoded, overflowed>>
vars == <<receiverVars, jitterVars, envVars, lastFrameId, netSeen, pc, loopVars, histVars>>

PipelineInit ==
    /\ ReceiverInit
    /\ JitterInit
    /\ sentFrames = <<>>
    /\ inFlight = {}
    /\ arrived = {}
    /\ lost = 0
    /\ keyframeWanted = TRUE          \* the host asks for one when a client joins
    /\ requestInFlight = FALSE
    /\ lastFrameId = 0
    /\ netSeen = -1
    /\ pc = "gap"
    /\ nextExpected = 0
    /\ latestKeyframe = 0
    /\ frame = NoFrame
    /\ requestKeyframe = FALSE
    /\ lastReportedMissingFrameId = 0
    /\ toReturn = 0
    /\ lastDecoded = -1
    /\ overflowed = FALSE

-----------------------------------------------------------------------------
\* Environment

Packets(id) == {<<id, i>> : i \in 0 .. Fragments[id] - 1}

\* The encoder emits a keyframe when one is wanted and now and then by itself.
HostSend(isKeyframe) ==
    LET id == Len(sentFrames)
    IN  /\ id < MaxFrames
        /\ keyframeWanted => isKeyframe
        /\ sentFrames' = Append(sentFrames, isKeyframe)
        /\ inFlight' = inFlight \cup Packets(id)
        /\ keyframeWanted' = FALSE
        /\ UNCHANGED <<receiverVars, jitterVars, arrived, lost, requestInFlight, lastFrameId,
                       netSeen, pc, loopVars, histVars>>

\* A packet the network loses, or the host has no buffer or no place in a queue for.
LosePacket ==
    /\ lost < MaxLost
    /\ lost' = lost + 1
    /\ \E p \in inFlight : inFlight' = inFlight \ {p}
    /\ UNCHANGED <<receiverVars, jitterVars, sentFrames, arrived, keyframeWanted,
                   requestInFlight, lastFrameId, netSeen, pc, loopVars, histVars>>

RequestArrives ==
    /\ requestInFlight
    /\ requestInFlight' = FALSE
    /\ keyframeWanted' = TRUE
    /\ UNCHANGED <<receiverVars, jitterVars, sentFrames, inFlight, arrived, lost, lastFrameId,
                   netSeen, pc, loopVars, histVars>>

\* A request for a keyframe is lost, or the keyframe made for it is thrown away by
\* the encoder (no free packet, or too large) or for want of a buffer to send it.
RequestLost ==
    /\ lost < MaxLost
    /\ lost' = lost + 1
    /\ \/ /\ requestInFlight
          /\ requestInFlight' = FALSE
          /\ UNCHANGED keyframeWanted
       \/ /\ keyframeWanted
          /\ keyframeWanted' = FALSE
          /\ UNCHANGED requestInFlight
    /\ UNCHANGED <<receiverVars, jitterVars, sentFrames, inFlight, arrived, lastFrameId,
                   netSeen, pc, loopVars, histVars>>

Environment == \/ \E isKeyframe \in BOOLEAN : HostSend(isKeyframe)
               \/ LosePacket \/ RequestArrives \/ RequestLost

-----------------------------------------------------------------------------
\* netThread: a decrypted, fresh video packet is processed, then noted.

Header(p) == [frameId |-> p[1], fragmentIndex |-> p[2],
              totalFragments |-> Fragments[p[1]], isKeyframe |-> sentFrames[p[1] + 1]]

NetProcess ==
    /\ netSeen = -1
    /\ \E p \in inFlight : /\ ProcessPacket(Header(p))
                           /\ inFlight' = inFlight \ {p}
                           /\ arrived' = arrived \cup {p}
                           /\ netSeen' = p[1]
    /\ UNCHANGED <<jitterVars, sentFrames, lost, keyframeWanted, requestInFlight, lastFrameId,
                   pc, loopVars, histVars>>

NetNote ==
    /\ netSeen # -1
    /\ lastFrameId' = IF netSeen > lastFrameId THEN netSeen ELSE lastFrameId
    /\ netSeen' = -1
    /\ UNCHANGED <<receiverVars, jitterVars, envVars, pc, loopVars, histVars>>

NetThread == NetProcess \/ NetNote

-----------------------------------------------------------------------------
\* Main loop.  Each step waits until the frames the previous one dropped have
\* been returned (LoopReturn).

At(label) == pc = label /\ toReturn = 0
Goto(label) == pc' = label

LoopReturn ==
    /\ toReturn > 0
    /\ ReturnToPoolRaw
    /\ toReturn' = toReturn - 1
    /\ UNCHANGED <<jitterVars, envVars, lastFrameId, netSeen, pc, nextExpected, latestKeyframe,
                   frame, requestKeyframe, lastReportedMissingFrameId, histVars>>

\* GetNextExpectedFrameId() reads the pointer without the mutex.
LoopReadNext ==
    /\ At("gap")
    /\ nextExpected' = m_nextFrameIdToRead
    /\ Goto("report")
    /\ UNCHANGED <<receiverVars, jitterVars, envVars, lastFrameId, netSeen, latestKeyframe,
                   frame, requestKeyframe, lastReportedMissingFrameId, toReturn, histVars>>

\* The gap test and, when a keyframe is wanted, the feedback packet that says
\* so (feedback without a request changes nothing here).
GapSeen == /\ lastFrameId > nextExpected + GapLimit
           /\ nextExpected # lastReportedMissingFrameId

LoopReport ==
    /\ At("report")
    /\ lastReportedMissingFrameId' = IF GapSeen THEN nextExpected ELSE lastReportedMissingFrameId
    /\ requestInFlight' = (requestInFlight \/ requestKeyframe \/ GapSeen)
    /\ requestKeyframe' = FALSE
    /\ Goto("nacks")
    /\ UNCHANGED <<receiverVars, jitterVars, sentFrames, inFlight, arrived, lost, keyframeWanted,
                   lastFrameId, netSeen, nextExpected, latestKeyframe, frame, toReturn, histVars>>

\* What the host sends again of the fragments asked for: any of them, or none.  Its
\* cache is filled through a pointer moved from, a fragment's place in it may be
\* another's by now, and udpPool may be empty.
Answers(requested) == SUBSET requested

\* Retransmission requests, and what they bring back.
LoopNacks ==
    /\ At("nacks")
    /\ \E answered \in Answers(PendingNACKs) : inFlight' = inFlight \cup (answered \ arrived)
    /\ Goto("scan")
    /\ UNCHANGED <<receiverVars, jitterVars, sentFrames, arrived, lost, keyframeWanted,
                   requestInFlight, lastFrameId, netSeen, loopVars, histVars>>

\* Less than 20 ms after the last time synchronisation nothing is asked for.
LoopNoNacks ==
    /\ At("nacks")
    /\ Goto("scan")
    /\ UNCHANGED <<receiverVars, jitterVars, envVars, lastFrameId, netSeen, loopVars, histVars>>

LoopScan ==
    /\ At("scan")
    /\ latestKeyframe' = LatestAvailableKeyframe
    /\ Goto("skip")
    /\ UNCHANGED <<receiverVars, jitterVars, envVars, lastFrameId, netSeen, nextExpected, frame,
                   requestKeyframe, lastReportedMissingFrameId, toReturn, histVars>>

LoopSkip ==
    /\ At("skip")
    /\ \/ /\ latestKeyframe > 0
          /\ latestKeyframe > m_nextFrameIdToRead
          /\ ForceAdvanceTo(latestKeyframe)
          /\ Goto("reset")
       \/ /\ ~ (latestKeyframe > 0 /\ latestKeyframe > m_nextFrameIdToRead)
          /\ Goto("get")
          /\ UNCHANGED receiverVars
    /\ UNCHANGED <<jitterVars, envVars, lastFrameId, netSeen, loopVars, histVars>>

LoopReset ==
    /\ At("reset")
    /\ Reset(latestKeyframe, toReturn')
    /\ Goto("get")
    /\ UNCHANGED <<receiverVars, envVars, lastFrameId, netSeen, nextExpected, latestKeyframe,
                   frame, requestKeyframe, lastReportedMissingFrameId, histVars>>

LoopGet ==
    /\ At("get")
    /\ \/ /\ GetNextFrame
          /\ frame' = NextFrame
          /\ Goto("push")
       \/ /\ ~ NextIsReady
          /\ Goto("pop")
          /\ UNCHANGED <<receiverVars, frame>>
    /\ UNCHANGED <<jitterVars, envVars, lastFrameId, netSeen, nextExpected, latestKeyframe,
                   requestKeyframe, lastReportedMissingFrameId, toReturn, histVars>>

\* A push that drops the oldest frame breaks the chain of references.
LoopPush ==
    /\ At("push")
    /\ PushFrame(frame, toReturn')
    /\ frame' = NoFrame
    /\ overflowed' = (overflowed \/ (~ PushRefused(frame) /\ m_count' = m_count))
    /\ Goto("get")
    /\ UNCHANGED <<receiverVars, envVars, lastFrameId, netSeen, nextExpected, latestKeyframe,
                   requestKeyframe, lastReportedMissingFrameId, lastDecoded>>

LoopPop ==
    /\ At("pop")
    /\ \/ /\ PopFrame
          /\ frame' = PopCandidate
          /\ Goto("decode")
       \/ /\ Goto("gap")                \* nothing there, or too early for it
          /\ UNCHANGED <<jitterVars, frame>>
    /\ UNCHANGED <<receiverVars, envVars, lastFrameId, netSeen, nextExpected, latestKeyframe,
                   requestKeyframe, lastReportedMissingFrameId, toReturn, histVars>>

LoopDecode ==
    /\ At("decode")
    /\ \E decoded \in BOOLEAN : requestKeyframe' = (requestKeyframe \/ ~ decoded)
    /\ lastDecoded' = frame.frameId
    /\ overflowed' = FALSE
    /\ frame' = NoFrame
    /\ toReturn' = 1
    /\ Goto("gap")
    /\ UNCHANGED <<receiverVars, jitterVars, envVars, lastFrameId, netSeen, nextExpected,
                   latestKeyframe, lastReportedMissingFrameId>>

MainLoop == \/ LoopReturn \/ LoopReadNext \/ LoopReport \/ LoopNacks \/ LoopNoNacks \/ LoopScan
            \/ LoopSkip \/ LoopReset \/ LoopGet \/ LoopPush \/ LoopPop \/ LoopDecode

-----------------------------------------------------------------------------
PipelineNext == Environment \/ NetThread \/ MainLoop

PipelineSpec == PipelineInit /\ [][PipelineNext]_vars

-----------------------------------------------------------------------------
\* Properties

Labels == {"gap", "report", "nacks", "scan", "skip", "reset", "get", "push", "pop", "decode"}

\* Types of the pipeline's state.
PipelineTypeOK ==
    /\ ReceiverTypeOK
    /\ JitterCoherent
    /\ arrived \cap inFlight = {}
    /\ pc \in Labels
    /\ frame # NoFrame <=> pc \in {"push", "decode"}
    /\ toReturn \in Nat

\* Every frame in the ring sits in its own slot, is still wanted, counts its
\* fragments right, is complete exactly when it has all of them, and holds only
\* fragments that arrived.  A frame behind the read pointer would never be
\* handed out; ForceAdvanceTo has to return exactly those.
RingSound ==
    \A s \in Reassembling :
        LET f == m_frameRing[s]
        IN  /\ RingSlot(f.frameId) = s
            /\ f.frameId >= m_nextFrameIdToRead
            /\ f.fragmentsReceived = Cardinality(f.fragmentMap)
            /\ f.isComplete <=> f.fragmentsReceived = f.totalFragments
            /\ \A i \in f.fragmentMap : <<f.frameId, i>> \in arrived

InHand == IF frame = NoFrame THEN 0 ELSE 1

\* No frame buffer is lost or returned twice: each one ever allocated is in the
\* pool, in the reassembly ring, in the jitter buffer, in the main loop's hand
\* or on its way back (the reason ReturnToPoolInternalRaw looks for duplicates).
BuffersConserved ==
    m_frameStorage = m_framePool + Cardinality(Reassembling) + Cardinality(Buffered)
                        + InHand + toReturn

\* The jitter buffer holds the ids up to the receiver's read pointer without a
\* gap, whatever netThread does between the loop's calls; while the loop has
\* advanced the receiver and not yet reset the buffer, it holds older ones.
PointersAgree ==
    (m_initialized /\ pc \notin {"reset", "push"}) =>
        m_nextPopFrameId + m_count = m_nextFrameIdToRead

\* The receiver's ring and the jitter buffer stay sound and stay in step under the
\* two threads, netThread on one and the main loop on both.
PipelineSound == PipelineTypeOK /\ RingSound /\ PointersAgree

\* The decoder is given whole frames only, in increasing order, and each right after
\* its predecessor unless it is a keyframe, or the jitter buffer overflowed in between:
\* starting at a keyframe and skipping ahead to a keyframe keep every reference.
ReferencesKept ==
    pc = "decode" => /\ frame.frameId > lastDecoded
                     /\ Packets(frame.frameId) \subseteq arrived
                     /\ \/ frame.isKeyframe
                        \/ frame.frameId = lastDecoded + 1
                        \/ overflowed

\* The read pointer never moves back, and when it jumps, it jumps to a frame
\* whose keyframe flag was set (ForceAdvanceTo and the first packet).
JumpsToKeyframes ==
    [][m_nextFrameIdToRead' # m_nextFrameIdToRead =>
          \/ m_nextFrameIdToRead' = m_nextFrameIdToRead + 1
          \/ /\ m_nextFrameIdToRead' > m_nextFrameIdToRead
             /\ sentFrames[m_nextFrameIdToRead' + 1]]_vars

-----------------------------------------------------------------------------
\* Liveness.  The main loop goes on; PopFrame does not find a frame too early for
\* ever; the 20 ms between retransmission requests pass.  Nothing is asked of the
\* network, the host or netThread, which may never come back from a packet whose
\* encryptedSize is above its buffer.
Fairness ==
    /\ WF_vars(MainLoop)
    /\ SF_vars(LoopNacks)
    /\ SF_vars(LoopPop /\ frame' # frame)

FairPipelineSpec == PipelineSpec /\ Fairness

FrameIds == 0 .. MaxFrames - 1

\* A frame at the read pointer of which something has arrived.
Partial(id) == m_nextFrameIdToRead = id /\ InRing(id) /\ ~ m_frameRing[RingSlot(id)].isComplete

\* A frame that the read pointer waits for and that is there in part is asked for
\* again and again, until it is complete or skipped: no request is the last one,
\* however many of them stay without an answer.
PartialFrameAsked ==
    \A id \in FrameIds :
        \/ []<>(~ Partial(id))
        \/ []<><<LoopNacks /\ \E n \in PendingNACKs : n[1] = id>>_vars

\* A complete keyframe in the scan's reach is read, or skipped for a newer one,
\* however long the frames before it stay away.
KeyframeUnblocks ==
    \A id \in FrameIds : (id \in CompleteKeyframes) ~> (m_nextFrameIdToRead > id)

\* The jitter buffer never waits for a frame that will not come: PopFrame waits
\* for exactly m_nextPopFrameId, so a gap in it would hold back every later frame.
JitterDrains == (m_count > 0) ~> (m_count = 0)
=============================================================================
