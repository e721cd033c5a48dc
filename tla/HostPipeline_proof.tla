-------------------------- MODULE HostPipeline_proof --------------------------
(***************************************************************************)
(* Proofs about the host's pipeline, for every set of clients, every size  *)
(* of the pools and queues and every number of frames and fragments, and   *)
(* about common/lock_free_queue.hpp, of which its queues are made, for     *)
(* every capacity, every range of the indices that is a multiple of it and *)
(* every set of items: with one producer the ring is a bounded FIFO        *)
(* (QueueRefinesFifo).                                                     *)
(***************************************************************************)
EXTENDS HostPipeline, LockFreeQueue, FiniteSetTheorems, SequenceTheorems, TLAPS

-----------------------------------------------------------------------------
\* HostPipeline

Frames  == [src : Nat, fragments : Nat]
Packets == [client : Clients \cup {NoClient}, kind : {"video", "other"}, fid : Nat, frag : Nat,
            src : Nat]
Cuts    == [step : Steps, todo : SUBSET Clients, client : Clients \cup {NoClient},
            frames : Seq(Frames), fid : Nat, frag : Nat]

HostTyped ==
    /\ running \in BOOLEAN /\ clients \subseteq Clients /\ encoding \subseteq Clients
    /\ encoded \in [Clients -> Nat] /\ frameId \in [Clients -> Nat]
    /\ encodeQueue \in [Clients -> Seq(Seq(Frames))]
    /\ packetPool \in Nat /\ udpPool \in Nat
    /\ packetizer \in Cuts
    /\ packetCache \subseteq Clients /\ audio \subseteq Clients
    /\ sendQueue \in Seq(Packets) /\ batch \in Seq(Packets)
    /\ ended \subseteq {"sender", "program"}

\* The packetizer has a client exactly while it is inside a round's body, and a
\* frame while it cuts one.
CutSound ==
    /\ packetizer.step = "head" <=> packetizer.client = NoClient
    /\ packetizer.step = "head" => packetizer.frames = <<>>
    /\ packetizer.step \notin {"head", "frame"} => packetizer.frames # <<>>

\* A client's ids are given out to vectors that its encoder has delivered.
InHand(c) == IF packetizer.client = c THEN 1 ELSE 0
IdsBehind == \A c \in Clients : frameId[c] + Len(encodeQueue[c]) + InHand(c) <= encoded[c]

QueuesBounded ==
    /\ \A c \in Clients : Len(encodeQueue[c]) <= EncodeCap
    /\ Len(batch) <= MaxBatch

\* The buffers of udpPool that the packetizer moves among, and the others.
Loose == udpPool + Len(sendQueue) + Held
Carried == Len(batch) + Cardinality(audio)
UdpBalanced == Loose + Carried = UdpPool

HostInv == HostTyped /\ CutSound /\ IdsBehind /\ QueuesBounded /\ UdpBalanced

(***************************************************************************)
(* A thread that holds or takes a buffer of udpPool finds room in          *)
(* sendQueue: no push is refused.                                          *)
(***************************************************************************)
LEMMA PushFits ==
    ASSUME HostInv, Held = 1 \/ udpPool > 0 \/ audio # {}, NEW pkt \in Packets
    PROVE  /\ Pushed(pkt) \in Seq(Packets)
           /\ Len(Pushed(pkt)) = Len(sendQueue) + 1
           /\ Pushed(pkt) = Append(sendQueue, pkt)
<1>1. IsFiniteSet(audio)
  BY HostAssumption, FS_Subset DEF HostInv, HostTyped
<1>2. Cardinality(audio) \in Nat /\ (audio # {} => Cardinality(audio) # 0)
  BY <1>1, FS_CardinalityType, FS_EmptySet
<1>3. sendQueue \in Seq(Packets) /\ Len(sendQueue) \in Nat /\ Len(batch) \in Nat /\ udpPool \in Nat
  BY DEF HostInv, HostTyped
<1>4. Held \in {0, 1}
  BY DEF Held
<1>5. Len(sendQueue) < UdpPool
  BY <1>2, <1>3, <1>4, HostAssumption DEF HostInv, UdpBalanced, Loose, Carried
<1>6. Len(sendQueue) < SendCap
  BY <1>3, <1>5, HostAssumption
<1>7. Pushed(pkt) = Append(sendQueue, pkt)
  BY <1>6 DEF Pushed
<1> QED BY <1>3, <1>7

(***************************************************************************)
(* The pool and the queues at the start.                                   *)
(***************************************************************************)
LEMMA InitEstablishesInv == HostInit => HostInv
<1> SUFFICES ASSUME HostInit PROVE HostInv
  OBVIOUS
<1>1. encodeQueue \in [Clients -> Seq(Seq(Frames))] /\ \A c \in Clients : Len(encodeQueue[c]) = 0
  BY DEF HostInit
<1>2. /\ packetizer \in Cuts /\ packetizer.step = "head" /\ packetizer.client = NoClient
      /\ packetizer.frames = <<>>
  BY DEF HostInit, Idle, Cuts, Steps
<1>3. sendQueue \in Seq(Packets) /\ batch \in Seq(Packets) /\ Len(sendQueue) = 0 /\ Len(batch) = 0
  BY DEF HostInit
<1>4. HostTyped
  BY <1>1, <1>2, <1>3, HostAssumption DEF HostInit, HostTyped
<1>5. CutSound
  BY <1>2 DEF CutSound
<1>6. IdsBehind /\ QueuesBounded
  BY <1>1, <1>2, <1>3, HostAssumption DEF HostInit, IdsBehind, InHand, QueuesBounded
<1>7. UdpBalanced
  BY <1>2, <1>3, FS_EmptySet, HostAssumption DEF HostInit, UdpBalanced, Loose, Carried, Held
<1> QED BY <1>4, <1>5, <1>6, <1>7 DEF HostInv

(***************************************************************************)
(* The vectors an encoder may deliver.                                     *)
(***************************************************************************)
LEMMA EncodedTyped ==
    ASSUME HostInv, NEW c \in Clients, NEW frames \in Encoded(c)
    PROVE  frames \in Seq(Frames) /\ Len(frames) \in Nat /\ Len(frames) <= packetPool
<1>1. encoded[c] + 1 \in Nat /\ packetPool \in Nat /\ FragmentCounts \subseteq Nat
  BY HostAssumption DEF HostInv, HostTyped
<1>2. CASE frames = <<>>
  BY <1>1, <1>2
<1>3. CASE frames # <<>>
  <2>1. packetPool # 0 /\ \E n \in FragmentCounts : frames = <<[src |-> encoded[c] + 1, fragments |-> n]>>
    BY <1>3 DEF Encoded
  <2> QED BY <1>1, <2>1 DEF Frames
<1> QED BY <1>2, <1>3

(***************************************************************************)
(* The capture thread.                                                     *)
(***************************************************************************)
LEMMA EncodeKeepsInv ==
    ASSUME HostInv, NEW c \in Clients, Encode(c)
    PROVE  HostInv'
<1>1. /\ encoding' \subseteq Clients
      /\ encoded' = [encoded EXCEPT ![c] = @ + 1] /\ encoded' \in [Clients -> Nat]
      /\ UNCHANGED <<running, clients, udpPool, cutVars, audio, outVars, ended>>
  BY DEF Encode, HostInv, HostTyped
<1>2. \/ UNCHANGED <<encodeQueue, packetPool>>
      \/ \E frames \in Encoded(c) :
           /\ ~QueueFull(c)
           /\ encodeQueue' = [encodeQueue EXCEPT ![c] = Append(@, frames)]
           /\ packetPool' = packetPool - Len(frames)
  BY DEF Encode
<1>3. /\ encodeQueue' \in [Clients -> Seq(Seq(Frames))] /\ packetPool' \in Nat
      /\ \A d \in Clients \ {c} : encodeQueue'[d] = encodeQueue[d]
      /\ Len(encodeQueue'[c]) <= Len(encodeQueue[c]) + 1
      /\ Len(encodeQueue'[c]) <= EncodeCap
  <2>1. CASE UNCHANGED <<encodeQueue, packetPool>>
    BY <2>1 DEF HostInv, HostTyped, QueuesBounded
  <2>2. ASSUME NEW frames \in Encoded(c), ~QueueFull(c),
               encodeQueue' = [encodeQueue EXCEPT ![c] = Append(@, frames)],
               packetPool' = packetPool - Len(frames)
        PROVE  <1>3
    <3>1. frames \in Seq(Frames) /\ Len(frames) \in Nat /\ Len(frames) <= packetPool
      BY EncodedTyped
    <3>2. encodeQueue[c] \in Seq(Seq(Frames)) /\ encodeQueue \in [Clients -> Seq(Seq(Frames))]
      BY DEF HostInv, HostTyped
    <3>3. /\ Append(encodeQueue[c], frames) \in Seq(Seq(Frames))
          /\ Len(Append(encodeQueue[c], frames)) = Len(encodeQueue[c]) + 1
      BY <3>1, <3>2
    <3>4. Len(encodeQueue[c]) < EncodeCap
      BY <2>2, <3>2, HostAssumption DEF QueueFull, HostInv, QueuesBounded
    <3>5. packetPool' \in Nat
      BY <2>2, <3>1 DEF HostInv, HostTyped
    <3> QED BY <2>2, <3>2, <3>3, <3>4, <3>5, HostAssumption
  <2> QED BY <1>2, <2>1, <2>2
<1>4. HostTyped'
  BY <1>1, <1>3 DEF HostInv, HostTyped, cutVars, outVars
<1>5. CutSound' /\ UdpBalanced'
  BY <1>1 DEF HostInv, CutSound, UdpBalanced, Loose, Carried, Held, cutVars, outVars
<1>6. QueuesBounded'
  BY <1>1, <1>3 DEF HostInv, QueuesBounded, outVars
<1>7. IdsBehind'
  <2>1. \A d \in Clients : frameId'[d] = frameId[d] /\ InHand(d)' = InHand(d)
    BY <1>1 DEF InHand, cutVars
  <2>2. \A d \in Clients : /\ frameId[d] \in Nat /\ InHand(d) \in {0, 1} /\ encoded[d] \in Nat
                           /\ Len(encodeQueue[d]) \in Nat /\ Len(encodeQueue'[d]) \in Nat
    BY <1>3 DEF HostInv, HostTyped, InHand
  <2>3. encoded'[c] = encoded[c] + 1 /\ \A d \in Clients \ {c} : encoded'[d] = encoded[d]
    BY <1>1 DEF HostInv, HostTyped
  <2>4. frameId'[c] + Len(encodeQueue'[c]) + InHand(c)' <= encoded'[c]
    <3>1. frameId[c] + Len(encodeQueue[c]) + InHand(c) <= encoded[c]
      BY DEF HostInv, IdsBehind
    <3>2. Len(encodeQueue'[c]) <= Len(encodeQueue[c]) + 1
      BY <1>3
    <3>3. PICK n \in Nat, l \in Nat, f \in Nat, h \in Nat, e \in Nat :
            /\ n = Len(encodeQueue'[c]) /\ l = Len(encodeQueue[c])
            /\ f = frameId[c] /\ h = InHand(c) /\ e = encoded[c]
      BY <2>2
    <3>4. f + l + h <= e /\ n <= l + 1
      BY <3>1, <3>2, <3>3
    <3>5. f + n + h <= e + 1
      BY <3>4
    <3> QED BY <2>1, <2>3, <3>3, <3>5
  <2>5. \A d \in Clients \ {c} : frameId'[d] + Len(encodeQueue'[d]) + InHand(d)' <= encoded'[d]
    BY <1>3, <2>1, <2>3 DEF HostInv, IdsBehind
  <2> QED BY <2>4, <2>5 DEF IdsBehind
<1> QED BY <1>4, <1>5, <1>6, <1>7 DEF HostInv

(***************************************************************************)
(* A step of the packetizer that keeps its client and moves no more than   *)
(* one buffer between udpPool, its hands and sendQueue.                    *)
(***************************************************************************)
LEMMA CutKeepsInv ==
    ASSUME HostInv,
           packetizer' \in Cuts, CutSound', packetizer'.client = packetizer.client,
           packetPool' \in Nat, udpPool' \in Nat, packetCache' \subseteq Clients,
           sendQueue' \in Seq(Packets), ended' \subseteq {"sender", "program"},
           Loose' = Loose,
           UNCHANGED <<running, clients, captureVars, encodeQueue, frameId, audio, batch>>
    PROVE  HostInv'
<1>1. HostTyped'
  BY DEF HostInv, HostTyped, captureVars
<1>2. IdsBehind' /\ QueuesBounded'
  BY DEF HostInv, IdsBehind, InHand, QueuesBounded, captureVars
<1>3. UdpBalanced'
  BY DEF HostInv, UdpBalanced, Carried
<1> QED BY <1>1, <1>2, <1>3 DEF HostInv

(***************************************************************************)
(* The packetizer.                                                         *)
(***************************************************************************)
LEMMA PacketizerKeepsInv ==
    ASSUME HostInv, Packetizer
    PROVE  HostInv'
<1> USE DEF cutVars, outVars
<1>1. /\ packetizer \in Cuts /\ packetizer.frames \in Seq(Frames) /\ packetizer.step \in Steps
      /\ packetizer.frag \in Nat /\ packetizer.fid \in Nat
      /\ packetizer.client \in Clients \cup {NoClient} /\ packetizer.todo \subseteq Clients
      /\ udpPool \in Nat /\ packetPool \in Nat
      /\ sendQueue \in Seq(Packets) /\ Len(sendQueue) \in Nat
      /\ frameId \in [Clients -> Nat] /\ encodeQueue \in [Clients -> Seq(Seq(Frames))]
      /\ packetCache \subseteq Clients /\ clients \subseteq Clients
      /\ ended \subseteq {"sender", "program"}
  BY DEF HostInv, HostTyped, Cuts
<1>2. CutSound
  BY DEF HostInv
<1>3. CASE PacketizerRound
  <2>1. /\ packetizer' = [packetizer EXCEPT !.todo = clients] /\ packetizer.step = "head"
        /\ UNCHANGED <<running, clients, captureVars, encodeQueue, packetPool, udpPool, frameId,
                       packetCache, audio, outVars, ended>>
    BY <1>3 DEF PacketizerRound
  <2>2. /\ packetizer' \in Cuts /\ packetizer'.client = packetizer.client
        /\ packetizer'.step = packetizer.step /\ packetizer'.frames = packetizer.frames
    BY <1>1, <2>1 DEF Cuts
  <2>3. CutSound' /\ Loose' = Loose
    BY <1>2, <2>1, <2>2 DEF CutSound, Loose, Held
  <2> QED BY <1>1, <2>1, <2>2, <2>3, CutKeepsInv
<1>4. CASE PacketizerAcquire
  <2>1. /\ packetizer.step = "frame" /\ packetizer.frames # <<>>
        /\ \/ packetizer' = [packetizer EXCEPT !.step = "done"] /\ UNCHANGED udpPool
           \/ udpPool # 0 /\ packetizer' = [packetizer EXCEPT !.step = "encrypt"] /\ udpPool' = udpPool - 1
        /\ UNCHANGED <<running, clients, captureVars, encodeQueue, packetPool, frameId,
                       packetCache, audio, outVars, ended>>
    BY <1>4 DEF PacketizerAcquire, AfterBreak
  <2>2. /\ packetizer' \in Cuts /\ packetizer'.client = packetizer.client
        /\ packetizer'.frames = packetizer.frames
        /\ \/ packetizer'.step = "done" /\ UNCHANGED udpPool
           \/ udpPool # 0 /\ packetizer'.step = "encrypt" /\ udpPool' = udpPool - 1
    BY <1>1, <2>1 DEF Cuts, Steps
  <2>3. CutSound' /\ udpPool' \in Nat
    BY <1>1, <1>2, <2>1, <2>2 DEF CutSound
  <2>4. Loose' = Loose
    <3>1. CASE udpPool' = udpPool
      BY <1>1, <2>1, <2>2, <3>1 DEF Loose, Held
    <3>2. CASE udpPool' = udpPool - 1
      BY <1>1, <2>1, <2>2, <3>2 DEF Loose, Held
    <3> QED BY <2>2, <3>1, <3>2
  <2> QED BY <1>1, <2>1, <2>2, <2>3, <2>4, CutKeepsInv
<1>5. CASE PacketizerEncrypt
  <2>1. /\ packetizer.step = "encrypt"
        /\ \/ packetizer' = [packetizer EXCEPT !.step = "push"] /\ UNCHANGED udpPool
           \/ packetizer' = [packetizer EXCEPT !.step = "done"] /\ udpPool' = udpPool + 1
        /\ UNCHANGED <<running, clients, captureVars, encodeQueue, packetPool, frameId,
                       packetCache, audio, outVars, ended>>
    BY <1>5 DEF PacketizerEncrypt, AfterBreak
  <2>2. /\ packetizer' \in Cuts /\ packetizer'.client = packetizer.client
        /\ packetizer'.frames = packetizer.frames
        /\ \/ packetizer'.step = "push" /\ UNCHANGED udpPool
           \/ packetizer'.step = "done" /\ udpPool' = udpPool + 1
    BY <1>1, <2>1 DEF Cuts, Steps
  <2>3. CutSound' /\ udpPool' \in Nat
    BY <1>1, <1>2, <2>1, <2>2 DEF CutSound
  <2>4. Loose' = Loose
    <3>1. CASE udpPool' = udpPool
      BY <1>1, <2>1, <2>2, <3>1 DEF Loose, Held
    <3>2. CASE udpPool' = udpPool + 1
      BY <1>1, <2>1, <2>2, <3>2 DEF Loose, Held
    <3> QED BY <2>2, <3>1, <3>2
  <2> QED BY <1>1, <2>1, <2>2, <2>3, <2>4, CutKeepsInv
<1>6. CASE PacketizerPush
  <2>1. /\ packetizer.step = "push"
        /\ \/ ended' = ended \cup {"program"} /\ UNCHANGED <<packetCache, sendQueue, packetizer>>
           \/ /\ packetCache' = packetCache \cup {packetizer.client}
              /\ sendQueue' = Pushed(Video(packetizer.client, packetizer.fid, packetizer.frag, Current.src))
              /\ packetizer' = [packetizer EXCEPT !.step = "frame", !.frag = @ + 1]
              /\ UNCHANGED ended
        /\ UNCHANGED <<running, clients, captureVars, encodeQueue, packetPool, udpPool, frameId, audio, batch>>
    BY <1>6 DEF PacketizerPush
  <2>2. CASE ended' = ended \cup {"program"} /\ UNCHANGED <<packetCache, sendQueue, packetizer>>
    <3>1. CutSound' /\ Loose' = Loose
      BY <1>2, <2>1, <2>2 DEF CutSound, Loose, Held
    <3> QED BY <1>1, <2>1, <2>2, <3>1, CutKeepsInv
  <2>3. CASE ended' = ended /\ packetizer' = [packetizer EXCEPT !.step = "frame", !.frag = @ + 1]
             /\ packetCache' = packetCache \cup {packetizer.client}
             /\ sendQueue' = Pushed(Video(packetizer.client, packetizer.fid, packetizer.frag, Current.src))
    <3>1. packetizer.client \in Clients /\ packetizer.frames # <<>>
      BY <1>1, <1>2, <2>1 DEF CutSound
    <3>2. Current \in Frames
      BY <1>1, <3>1 DEF Current
    <3>3. Video(packetizer.client, packetizer.fid, packetizer.frag, Current.src) \in Packets
      BY <1>1, <3>2 DEF Video, Packets, Frames
    <3>4. Held = 1
      BY <2>1 DEF Held
    <3>5. sendQueue' \in Seq(Packets) /\ Len(sendQueue') = Len(sendQueue) + 1
      BY <2>3, <3>3, <3>4, PushFits
    <3>6. /\ packetizer' \in Cuts /\ packetizer'.client = packetizer.client
          /\ packetizer'.frames = packetizer.frames /\ packetizer'.step = "frame"
      <4>1. "frame" \in Steps /\ packetizer.frag + 1 \in Nat
        BY <1>1 DEF Steps
      <4> QED BY <1>1, <2>3, <4>1 DEF Cuts
    <3>7. CutSound' /\ Held' = 0
      BY <1>2, <2>1, <3>1, <3>6, HostAssumption DEF CutSound, Held
    <3>8. Loose' = Loose
      BY <1>1, <2>1, <3>4, <3>5, <3>7 DEF Loose
    <3> QED BY <1>1, <2>1, <2>3, <3>1, <3>5, <3>6, <3>7, <3>8, CutKeepsInv
  <2> QED BY <2>1, <2>2, <2>3
<1>7. CASE PacketizerRelease
  <2>1. /\ packetizer.step = "done" /\ packetPool' = packetPool + 1
        /\ packetizer' = [packetizer EXCEPT !.step = "frame", !.frames = Tail(@), !.frag = 0]
        /\ UNCHANGED <<running, clients, captureVars, encodeQueue, udpPool, frameId, packetCache,
                       audio, outVars, ended>>
    BY <1>7 DEF PacketizerRelease
  <2>2. Tail(packetizer.frames) \in Seq(Frames)
    BY <1>1, <1>2, <2>1 DEF CutSound
  <2>3. packetizer' \in Cuts /\ packetizer'.client = packetizer.client /\ packetizer'.step = "frame"
    BY <1>1, <2>1, <2>2 DEF Cuts, Steps
  <2>4. CutSound' /\ Loose' = Loose
    BY <1>2, <2>1, <2>3 DEF CutSound, Loose, Held
  <2> QED BY <1>1, <2>1, <2>3, <2>4, CutKeepsInv
<1>8. CASE PacketizerNextId
  <2>1. /\ packetizer.step = "frame" /\ packetizer.frames = <<>>
        /\ frameId' = [frameId EXCEPT ![packetizer.client] = @ + 1]
        /\ packetizer' = [Idle EXCEPT !.todo = packetizer.todo]
        /\ UNCHANGED <<running, clients, captureVars, encodeQueue, packetPool, udpPool, packetCache,
                       audio, outVars, ended>>
    BY <1>8 DEF PacketizerNextId
  <2>2. packetizer.client \in Clients
    BY <1>1, <1>2, <2>1 DEF CutSound
  <2>3. /\ packetizer' \in Cuts /\ packetizer'.client = NoClient
        /\ packetizer'.frames = <<>> /\ packetizer'.step = "head"
    BY <1>1, <2>1 DEF Cuts, Steps, Idle
  <2>4. HostTyped'
    BY <1>1, <2>1, <2>2, <2>3 DEF HostInv, HostTyped, captureVars
  <2>5. CutSound' /\ Loose' = Loose
    BY <2>1, <2>3 DEF CutSound, Loose, Held
  <2>6. QueuesBounded' /\ UdpBalanced'
    BY <2>1, <2>5 DEF HostInv, QueuesBounded, UdpBalanced, Carried, captureVars
  <2>7. ASSUME NEW d \in Clients
        PROVE  frameId'[d] + Len(encodeQueue'[d]) + InHand(d)' <= encoded'[d]
    <3>1. frameId[d] \in Nat /\ Len(encodeQueue[d]) \in Nat /\ encoded[d] \in Nat
      BY DEF HostInv, HostTyped
    <3>2. frameId[d] + Len(encodeQueue[d]) + InHand(d) <= encoded[d]
      BY DEF HostInv, IdsBehind
    <3>3. InHand(d)' = 0 /\ InHand(d) = IF d = packetizer.client THEN 1 ELSE 0
      BY <2>3, HostAssumption DEF InHand
    <3>4. frameId'[d] = IF d = packetizer.client THEN frameId[d] + 1 ELSE frameId[d]
      BY <1>1, <2>1, <2>2
    <3>5. encoded'[d] = encoded[d] /\ encodeQueue'[d] = encodeQueue[d]
      BY <2>1 DEF captureVars
    <3> QED BY <3>1, <3>2, <3>3, <3>4, <3>5
  <2> QED BY <2>4, <2>5, <2>6, <2>7 DEF HostInv, IdsBehind
<1>9. ASSUME NEW c \in Clients, PacketizerPop(c)
      PROVE  HostInv'
  <2>1. /\ packetizer.step = "head"
        /\ UNCHANGED <<running, clients, captureVars, packetPool, udpPool, frameId, packetCache,
                       audio, outVars, ended>>
    BY <1>9 DEF PacketizerPop
  <2>2. packetizer.client = NoClient /\ packetizer.frames = <<>>
    BY <1>2, <2>1 DEF CutSound
  <2>3. CASE encodeQueue[c] = <<>>
    <3>1. packetizer' = [packetizer EXCEPT !.todo = @ \ {c}] /\ UNCHANGED encodeQueue
      BY <1>9, <2>3 DEF PacketizerPop
    <3>2. /\ packetizer' \in Cuts /\ packetizer'.client = packetizer.client
          /\ packetizer'.step = packetizer.step /\ packetizer'.frames = packetizer.frames
      BY <1>1, <3>1 DEF Cuts
    <3>3. CutSound' /\ Loose' = Loose
      BY <1>2, <2>1, <3>2 DEF CutSound, Loose, Held
    <3> QED BY <1>1, <2>1, <3>1, <3>2, <3>3, CutKeepsInv
  <2>4. CASE encodeQueue[c] # <<>>
    <3>1. /\ packetizer' = [step |-> "frame", todo |-> packetizer.todo \ {c}, client |-> c,
                            frames |-> Head(encodeQueue[c]), fid |-> frameId[c], frag |-> 0]
          /\ encodeQueue' = [encodeQueue EXCEPT ![c] = Tail(@)]
      BY <1>9, <2>4 DEF PacketizerPop
    <3>2. encodeQueue[c] \in Seq(Seq(Frames))
      BY <1>1
    <3>3. /\ Head(encodeQueue[c]) \in Seq(Frames) /\ Tail(encodeQueue[c]) \in Seq(Seq(Frames))
          /\ Len(Tail(encodeQueue[c])) = Len(encodeQueue[c]) - 1 /\ Len(encodeQueue[c]) \in Nat
      BY <2>4, <3>2
    <3>4. packetizer' \in Cuts /\ packetizer'.client = c /\ packetizer'.step = "frame"
      BY <1>1, <3>1, <3>3 DEF Cuts, Steps
    <3>5. /\ encodeQueue' \in [Clients -> Seq(Seq(Frames))]
          /\ Len(encodeQueue'[c]) = Len(encodeQueue[c]) - 1
          /\ \A d \in Clients \ {c} : encodeQueue'[d] = encodeQueue[d]
      BY <1>1, <3>1, <3>3
    <3>6. HostTyped'
      BY <1>1, <2>1, <3>4, <3>5 DEF HostInv, HostTyped, captureVars
    <3>7. CutSound' /\ Loose' = Loose
      BY <2>1, <3>4, HostAssumption DEF CutSound, Loose, Held
    <3>8. UdpBalanced'
      BY <2>1, <3>7 DEF HostInv, UdpBalanced, Carried
    <3>9. QueuesBounded'
      <4>1. \A d \in Clients : Len(encodeQueue[d]) <= EncodeCap
        BY DEF HostInv, QueuesBounded
      <4>2. Len(encodeQueue'[c]) <= EncodeCap
        BY <3>3, <3>5, <4>1, HostAssumption
      <4>3. Len(batch') <= MaxBatch
        BY <2>1 DEF HostInv, QueuesBounded
      <4> QED BY <3>5, <4>1, <4>2, <4>3 DEF QueuesBounded
    <3>10. ASSUME NEW d \in Clients
           PROVE  frameId'[d] + Len(encodeQueue'[d]) + InHand(d)' <= encoded'[d]
      <4>1. frameId[d] \in Nat /\ Len(encodeQueue[d]) \in Nat /\ encoded[d] \in Nat
        BY DEF HostInv, HostTyped
      <4>2. frameId[d] + Len(encodeQueue[d]) + InHand(d) <= encoded[d]
        BY DEF HostInv, IdsBehind
      <4>3. InHand(d) = 0 /\ InHand(d)' = IF d = c THEN 1 ELSE 0
        BY <2>2, <3>4, HostAssumption DEF InHand
      <4>4. frameId'[d] = frameId[d] /\ encoded'[d] = encoded[d]
        BY <2>1 DEF captureVars
      <4>5. Len(encodeQueue'[d]) = IF d = c THEN Len(encodeQueue[d]) - 1 ELSE Len(encodeQueue[d])
        BY <3>5
      <4> QED BY <4>1, <4>2, <4>3, <4>4, <4>5
    <3> QED BY <3>6, <3>7, <3>8, <3>9, <3>10 DEF HostInv, IdsBehind
  <2> QED BY <2>3, <2>4
<1> QED BY <1>3, <1>4, <1>5, <1>6, <1>7, <1>8, <1>9 DEF Packetizer

(***************************************************************************)
(* A step that leaves the packetizer and its queues alone and keeps the    *)
(* total of the buffers.                                                   *)
(***************************************************************************)
LEMMA OutKeepsInv ==
    ASSUME HostInv, UdpBalanced',
           running' \in BOOLEAN, clients' \subseteq Clients, encoding' \subseteq Clients,
           udpPool' \in Nat, audio' \subseteq Clients, ended' \subseteq {"sender", "program"},
           sendQueue' \in Seq(Packets), batch' \in Seq(Packets), Len(batch') <= MaxBatch,
           UNCHANGED <<encoded, encodeQueue, packetPool, cutVars>>
    PROVE  HostInv'
<1>1. HostTyped'
  BY DEF HostInv, HostTyped, cutVars
<1>2. CutSound' /\ IdsBehind' /\ QueuesBounded'
  BY DEF HostInv, CutSound, IdsBehind, InHand, QueuesBounded, cutVars
<1> QED BY <1>1, <1>2 DEF HostInv

(***************************************************************************)
(* The audio threads, the receiver's retransmission and the sender.        *)
(***************************************************************************)
LEMMA OutputKeepsInv ==
    ASSUME HostInv, Enqueuers \/ Sender
    PROVE  HostInv'
<1> USE DEF cutVars, captureVars, outVars
<1>1. /\ running \in BOOLEAN /\ clients \subseteq Clients /\ encoding \subseteq Clients
      /\ udpPool \in Nat /\ audio \subseteq Clients /\ ended \subseteq {"sender", "program"}
      /\ sendQueue \in Seq(Packets) /\ Len(sendQueue) \in Nat
      /\ batch \in Seq(Packets) /\ Len(batch) \in Nat /\ Len(batch) <= MaxBatch
  BY DEF HostInv, HostTyped, QueuesBounded
<1>2. IsFiniteSet(audio) /\ Cardinality(audio) \in Nat /\ Held \in Nat
  BY <1>1, HostAssumption, FS_Subset, FS_CardinalityType DEF Held
<1>3. /\ Loose = udpPool + Len(sendQueue) + Held /\ Carried = Len(batch) + Cardinality(audio)
      /\ Loose \in Nat /\ Carried \in Nat /\ Loose + Carried = UdpPool
  BY <1>1, <1>2 DEF HostInv, UdpBalanced, Loose, Carried
<1>4. Other \in Packets
  BY DEF Other, Packets
<1>5. ASSUME NEW c \in Clients, AudioAcquire(c)
      PROVE  HostInv'
  <2>1. /\ c \notin audio /\ audio' = audio \cup {c} /\ udpPool > 0 /\ udpPool' = udpPool - 1
        /\ UNCHANGED <<running, clients, captureVars, encodeQueue, packetPool, cutVars, outVars, ended>>
    BY <1>5 DEF AudioAcquire
  <2>2. Cardinality(audio') = Cardinality(audio) + 1
    BY <1>2, <2>1, FS_AddElement
  <2>3. Loose' = Loose - 1 /\ Carried' = Carried + 1
    BY <1>1, <1>2, <2>1, <2>2 DEF Loose, Carried, Held
  <2>4. UdpBalanced'
    BY <1>3, <2>3 DEF UdpBalanced
  <2> QED BY <1>1, <2>1, <2>4, OutKeepsInv
<1>6. ASSUME NEW c \in Clients, AudioSend(c)
      PROVE  HostInv'
  <2>1. /\ c \in audio /\ audio' = audio \ {c}
        /\ \/ udpPool > 0 /\ sendQueue' = Pushed(Other) /\ UNCHANGED udpPool
           \/ udpPool' = udpPool + 1 /\ UNCHANGED sendQueue
        /\ UNCHANGED <<running, clients, captureVars, encodeQueue, packetPool, cutVars, batch, ended>>
    BY <1>6 DEF AudioSend
  <2>2. Cardinality(audio') = Cardinality(audio) - 1
    BY <1>2, <2>1, FS_RemoveElement
  <2>3. Pushed(Other) \in Seq(Packets) /\ Len(Pushed(Other)) = Len(sendQueue) + 1
    BY <1>4, <2>1, PushFits
  <2>4. Loose' = Loose + 1 /\ sendQueue' \in Seq(Packets) /\ udpPool' \in Nat
    <3>1. CASE sendQueue' = Pushed(Other) /\ udpPool' = udpPool
      BY <1>1, <1>2, <2>1, <2>3, <3>1 DEF Loose, Held
    <3>2. CASE udpPool' = udpPool + 1 /\ sendQueue' = sendQueue
      BY <1>1, <1>2, <2>1, <3>2 DEF Loose, Held
    <3> QED BY <2>1, <3>1, <3>2
  <2>5. Carried' = Carried - 1
    BY <1>1, <1>2, <2>1, <2>2 DEF Carried
  <2>6. UdpBalanced'
    BY <1>3, <2>4, <2>5 DEF UdpBalanced
  <2> QED BY <1>1, <2>1, <2>4, <2>6, OutKeepsInv
<1>7. ASSUME NEW c \in Clients, Retransmit(c)
      PROVE  HostInv'
  <2>1. /\ udpPool > 0 /\ udpPool' = udpPool - 1 /\ sendQueue' = Pushed(Other)
        /\ UNCHANGED <<running, clients, captureVars, encodeQueue, packetPool, cutVars, audio, batch, ended>>
    BY <1>7 DEF Retransmit
  <2>2. sendQueue' \in Seq(Packets) /\ Len(sendQueue') = Len(sendQueue) + 1
    BY <1>4, <2>1, PushFits
  <2>3. Loose' = Loose /\ Carried' = Carried /\ udpPool' \in Nat
    BY <1>1, <1>2, <2>1, <2>2 DEF Loose, Carried, Held
  <2>4. UdpBalanced'
    BY <1>3, <2>3 DEF UdpBalanced
  <2> QED BY <1>1, <2>1, <2>2, <2>3, <2>4, OutKeepsInv
<1>8. CASE SenderPop
  <2>1. /\ sendQueue # <<>> /\ Len(batch) < MaxBatch
        /\ batch' = Append(batch, Head(sendQueue)) /\ sendQueue' = Tail(sendQueue)
        /\ UNCHANGED <<running, clients, captureVars, encodeQueue, packetPool, udpPool, cutVars, audio, ended>>
    BY <1>8 DEF SenderPop
  <2>2. /\ Head(sendQueue) \in Packets
        /\ sendQueue' \in Seq(Packets) /\ Len(sendQueue') = Len(sendQueue) - 1
    BY <1>1, <2>1
  <2>3. batch' \in Seq(Packets) /\ Len(batch') = Len(batch) + 1
    BY <1>1, <2>1, <2>2
  <2>4. Loose' = Loose - 1 /\ Carried' = Carried + 1
    <3>1. Loose' = Loose - 1
      BY <1>1, <1>2, <2>1, <2>2 DEF Loose, Held
    <3>2. Carried' = Carried + 1
      BY <1>1, <1>2, <2>1, <2>3 DEF Carried
    <3> QED BY <3>1, <3>2
  <2>5. UdpBalanced' /\ Len(batch') <= MaxBatch
    <3>1. UdpBalanced'
      BY <1>3, <2>4 DEF UdpBalanced
    <3>2. Len(batch) + 1 <= MaxBatch
      BY <1>1, <2>1, HostAssumption
    <3> QED BY <2>3, <3>1, <3>2
  <2> QED BY <1>1, <2>1, <2>2, <2>3, <2>5, OutKeepsInv
<1>9. CASE SenderSend
  <2>1. /\ udpPool' = udpPool + Len(batch) /\ batch' = <<>>
        /\ UNCHANGED <<running, clients, captureVars, encodeQueue, packetPool, cutVars, audio, sendQueue, ended>>
    BY <1>9 DEF SenderSend
  <2>2. batch' \in Seq(Packets) /\ Len(batch') = 0 /\ udpPool' \in Nat
    BY <1>1, <2>1
  <2>3. Loose' = Loose + Len(batch) /\ Carried' = Carried - Len(batch)
    BY <1>1, <1>2, <2>1, <2>2 DEF Loose, Carried, Held
  <2>4. UdpBalanced' /\ Len(batch') <= MaxBatch
    BY <1>1, <1>3, <2>2, <2>3, HostAssumption DEF UdpBalanced
  <2> QED BY <1>1, <2>1, <2>2, <2>4, OutKeepsInv
<1> QED BY <1>5, <1>6, <1>7, <1>8, <1>9 DEF Enqueuers, Sender

(***************************************************************************)
(* The remaining steps move no buffer.                                     *)
(***************************************************************************)
LEMMA QuietKeepsInv ==
    ASSUME HostInv,
           \/ CaptureFrame \/ (\E c \in Clients : TimeOut(c)) \/ StopSession \/ SenderLeaves
           \/ UNCHANGED hostVars
    PROVE  HostInv'
<1>1. /\ running \in BOOLEAN /\ clients \subseteq Clients /\ encoding \subseteq Clients
      /\ udpPool \in Nat /\ audio \subseteq Clients /\ ended \subseteq {"sender", "program"}
      /\ sendQueue \in Seq(Packets) /\ batch \in Seq(Packets) /\ Len(batch) <= MaxBatch
  BY DEF HostInv, HostTyped, QueuesBounded
<1>2. UNCHANGED <<encoded, encodeQueue, packetPool, cutVars, udpPool, audio, sendQueue, batch>>
  BY DEF CaptureFrame, TimeOut, StopSession, SenderLeaves, hostVars, captureVars, outVars
<1>3. UdpBalanced'
  BY <1>2 DEF HostInv, UdpBalanced, Loose, Carried, Held, cutVars
<1>4. running' \in BOOLEAN /\ ended' \subseteq {"sender", "program"}
  BY <1>1 DEF CaptureFrame, TimeOut, StopSession, SenderLeaves, hostVars
<1>5. clients' \subseteq Clients /\ encoding' \subseteq Clients
  BY <1>1 DEF CaptureFrame, TimeOut, StopSession, SenderLeaves, hostVars, captureVars
<1> QED BY <1>1, <1>2, <1>3, <1>4, <1>5, OutKeepsInv

(***************************************************************************)
(* Every step keeps the invariant.                                         *)
(***************************************************************************)
LEMMA StepKeepsInv == HostInv /\ [HostNext]_hostVars => HostInv'
<1> SUFFICES ASSUME HostInv, [HostNext]_hostVars PROVE HostInv'
  OBVIOUS
<1>1. CASE Capture
  BY <1>1, EncodeKeepsInv, QuietKeepsInv DEF Capture
<1>2. CASE Packetizer
  BY <1>2, PacketizerKeepsInv
<1>3. CASE Enqueuers \/ Sender
  BY <1>3, OutputKeepsInv
<1>4. CASE StopSession \/ SenderLeaves \/ UNCHANGED hostVars
  BY <1>4, QuietKeepsInv
<1> QED BY <1>1, <1>2, <1>3, <1>4 DEF HostNext, Stopped

\* The invariant holds in every state that is reached.
THEOREM HostInvariant == HostSpec => []HostInv
<1>1. HostInit => HostInv
  BY InitEstablishesInv
<1>2. HostInv /\ [HostNext]_hostVars => HostInv'
  BY StepKeepsInv
<1> QED BY <1>1, <1>2, PTL DEF HostSpec

(***************************************************************************)
(* The total of the buffers, as the property writes it.                    *)
(***************************************************************************)
LEMMA BalancedIsAccounted ==
    ASSUME HostInv
    PROVE  UdpAccounted /\ udpPool \in 0 .. UdpPool /\ Len(sendQueue) <= UdpPool
<1>1. udpPool \in Nat /\ Len(sendQueue) \in Nat /\ Len(batch) \in Nat /\ Held \in Nat
  BY DEF HostInv, HostTyped, Held
<1>2. Cardinality(audio) \in Nat
  BY HostAssumption, FS_Subset, FS_CardinalityType DEF HostInv, HostTyped
<1>3. (udpPool + Len(sendQueue) + Held) + (Len(batch) + Cardinality(audio)) = UdpPool
  BY DEF HostInv, UdpBalanced, Loose, Carried
<1>4. UdpAccounted
  BY <1>1, <1>2, <1>3 DEF UdpAccounted
<1> QED BY <1>1, <1>2, <1>3, <1>4, HostAssumption

\* No buffer of udpPool is lost or given back twice by any of the threads, and no
\* push onto sendQueue is refused.
THEOREM NoUdpBufferLost == HostSpec => []UdpAccounted
<1>1. HostInv => UdpAccounted
  BY BalancedIsAccounted
<1> QED BY <1>1, HostInvariant, PTL

\* Queues and pools stay within their sizes, and no client's next id is ahead of
\* the frames that were encoded for it.
THEOREM HostTypeCorrect == HostSpec => []HostTypeOK
<1>1. ASSUME HostInv PROVE HostTypeOK
  <2>1. /\ packetizer \in Cuts /\ packetizer.step \in Steps /\ packetizer.todo \subseteq Clients
        /\ packetizer.client \in Clients \cup {NoClient}
    BY <1>1 DEF HostInv, HostTyped, Cuts
  <2>2. ASSUME NEW c \in Clients
        PROVE  frameId[c] <= encoded[c] /\ Len(encodeQueue[c]) <= EncodeCap
    <3>1. /\ frameId[c] \in Nat /\ encoded[c] \in Nat /\ Len(encodeQueue[c]) \in Nat
          /\ InHand(c) \in {0, 1}
      BY <1>1 DEF HostInv, HostTyped, InHand
    <3>2. frameId[c] + Len(encodeQueue[c]) + InHand(c) <= encoded[c]
      BY <1>1 DEF HostInv, IdsBehind
    <3>3. Len(encodeQueue[c]) <= EncodeCap
      BY <1>1 DEF HostInv, QueuesBounded
    <3> QED BY <3>1, <3>2, <3>3
  <2>3. udpPool \in 0 .. UdpPool /\ Len(sendQueue) <= UdpPool /\ Len(sendQueue) \in Nat
    BY <1>1, BalancedIsAccounted DEF HostInv, HostTyped
  <2>4. Len(sendQueue) <= SendCap
    BY <2>3, HostAssumption
  <2> QED BY <1>1, <2>1, <2>2, <2>3, <2>4 DEF HostInv, HostTyped, CutSound, QueuesBounded, HostTypeOK
<1> QED BY <1>1, HostInvariant, PTL

-----------------------------------------------------------------------------

\* No vector of the encoder has a second frame.
Short == /\ \A c \in Clients : \A v \in 1 .. Len(encodeQueue[c]) : Len(encodeQueue[c][v]) <= 1
         /\ Len(packetizer.frames) <= 1

FramesBalanced == IsFiniteSet(QueuedFrames) /\ FramesAccounted

\* The frames in a client's queue are in the order in which they were encoded,
\* after the one that the packetizer cuts.
SourcesOrdered ==
    \A c \in Clients : \A w \in 1 .. Len(encodeQueue[c]) : encodeQueue[c][w] # <<>> =>
        /\ encodeQueue[c][w][1].src <= encoded[c]
        /\ \A v \in 1 .. w - 1 :
             encodeQueue[c][v] # <<>> => encodeQueue[c][v][1].src < encodeQueue[c][w][1].src
        /\ packetizer.client = c /\ packetizer.frames # <<>> => Current.src < encodeQueue[c][w][1].src
CurrentEncoded ==
    packetizer.client \in Clients =>
        /\ packetizer.fid = frameId[packetizer.client]
        /\ packetizer.frames # <<>> => Current.src <= encoded[packetizer.client]

Stream == batch \o sendQueue
Places(s, c) == {i \in 1 .. Len(s) : s[i].client = c /\ s[i].kind = "video"}
Ordered(s) ==
    \A c \in Clients : \A i, j \in Places(s, c) :
        i < j /\ (\A k \in Places(s, c) : ~(i < k /\ k < j)) => Follows(s[i], s[j])
Latest(s, c, i) == i \in Places(s, c) /\ \A k \in Places(s, c) : k <= i

\* The packet p of client c is the last one that was made of its frames.
Behind(p, c) ==
    /\ packetizer.client # c => p.fid < frameId[c]
    /\ packetizer.client = c /\ packetizer.frames = <<>> => p.fid <= packetizer.fid
    /\ packetizer.client = c /\ packetizer.frames # <<>> /\ packetizer.frag = 0 =>
         p.fid < packetizer.fid /\ p.src < Current.src
    /\ packetizer.client = c /\ packetizer.frames # <<>> /\ packetizer.frag # 0 =>
         p.fid = packetizer.fid /\ p.src = Current.src /\ p.frag + 1 = packetizer.frag
    /\ p.src <= encoded[c]
    /\ \A v \in 1 .. Len(encodeQueue[c]) : encodeQueue[c][v] # <<>> => p.src < encodeQueue[c][v][1].src

StreamBehind == \A c \in Clients, i \in 1 .. Len(Stream) : Latest(Stream, c, i) => Behind(Stream[i], c)

(***************************************************************************)
(* A packet put at the end of a stream: it comes after the client's latest *)
(* one, and the other clients' packets are where they were.                *)
(***************************************************************************)
LEMMA PlacesAppend ==
    ASSUME NEW s \in Seq(Packets), NEW pkt \in Packets, NEW c \in Clients
    PROVE  /\ ~(pkt.client = c /\ pkt.kind = "video") => Places(Append(s, pkt), c) = Places(s, c)
           /\ pkt.client = c /\ pkt.kind = "video" =>
                Places(Append(s, pkt), c) = Places(s, c) \cup {Len(s) + 1}
           /\ \A i \in Places(s, c) : i \in 1 .. Len(s) /\ Append(s, pkt)[i] = s[i]
           /\ Append(s, pkt)[Len(s) + 1] = pkt
<1>1. /\ Len(s) \in Nat /\ Len(Append(s, pkt)) = Len(s) + 1
      /\ Append(s, pkt)[Len(s) + 1] = pkt
      /\ \A i \in 1 .. Len(s) : Append(s, pkt)[i] = s[i]
  OBVIOUS
<1>2. \A i \in Places(s, c) : i \in 1 .. Len(s)
  BY DEF Places
<1>3. ASSUME NEW i \in 1 .. Len(s)
      PROVE  i \in Places(Append(s, pkt), c) <=> i \in Places(s, c)
  BY <1>1 DEF Places
<1>4. Len(s) + 1 \in Places(Append(s, pkt), c) <=> pkt.client = c /\ pkt.kind = "video"
  BY <1>1 DEF Places
<1>5. \A i \in Places(Append(s, pkt), c) : i \in 1 .. Len(s) \/ i = Len(s) + 1
  BY <1>1 DEF Places
<1>6. Len(s) + 1 \notin 1 .. Len(s)
  BY <1>1
<1> QED BY <1>1, <1>2, <1>3, <1>4, <1>5, <1>6

LEMMA AppendOrdered ==
    ASSUME NEW s \in Seq(Packets), NEW pkt \in Packets, Ordered(s),
           \A c \in Clients : pkt.client = c /\ pkt.kind = "video" =>
             \A i \in 1 .. Len(s) : Latest(s, c, i) => Follows(s[i], pkt)
    PROVE  Ordered(Append(s, pkt))
<1> DEFINE t == Append(s, pkt)
<1> SUFFICES ASSUME NEW c \in Clients, NEW i \in Places(t, c), NEW j \in Places(t, c),
                    i < j, \A k \in Places(t, c) : ~(i < k /\ k < j)
             PROVE  Follows(t[i], t[j])
  BY DEF Ordered
<1>1. /\ ~(pkt.client = c /\ pkt.kind = "video") => Places(t, c) = Places(s, c)
      /\ pkt.client = c /\ pkt.kind = "video" => Places(t, c) = Places(s, c) \cup {Len(s) + 1}
      /\ \A k \in Places(s, c) : k \in 1 .. Len(s) /\ t[k] = s[k]
      /\ t[Len(s) + 1] = pkt
  BY PlacesAppend
<1> HIDE DEF t
<1>2. Len(s) \in Nat
  OBVIOUS
<1>3. i \in Places(s, c)
  <2>1. CASE i \notin Places(s, c)
    <3>1. i = Len(s) + 1 /\ (j = Len(s) + 1 \/ j \in 1 .. Len(s))
      BY <1>1, <2>1
    <3> QED BY <1>2, <3>1
  <2> QED BY <2>1
<1>4. CASE j \in Places(s, c)
  <2>1. \A k \in Places(s, c) : ~(i < k /\ k < j)
    BY <1>1
  <2>2. Follows(s[i], s[j])
    BY <1>3, <1>4, <2>1 DEF Ordered
  <2> QED BY <1>1, <1>3, <1>4, <2>2
<1>5. CASE j \notin Places(s, c)
  <2>1. j = Len(s) + 1 /\ pkt.client = c /\ pkt.kind = "video"
    BY <1>1, <1>5
  <2>2. ASSUME NEW k \in Places(s, c) PROVE k <= i
    <3>1. k \in Places(t, c) /\ k \in 1 .. Len(s) /\ i \in 1 .. Len(s)
      BY <1>1, <1>3
    <3>2. ~(i < k /\ k < j)
      BY <3>1
    <3> QED BY <1>2, <2>1, <3>1, <3>2
  <2>3. Latest(s, c, i) /\ i \in 1 .. Len(s)
    BY <1>1, <1>3, <2>2 DEF Latest
  <2>4. Follows(s[i], pkt)
    BY <2>1, <2>3
  <2> QED BY <1>1, <1>3, <2>1, <2>4
<1> QED BY <1>4, <1>5

LEMMA AppendLatest ==
    ASSUME NEW s \in Seq(Packets), NEW pkt \in Packets, NEW c \in Clients, NEW i \in Nat,
           Latest(Append(s, pkt), c, i)
    PROVE  IF pkt.client = c /\ pkt.kind = "video"
           THEN Append(s, pkt)[i] = pkt
           ELSE i \in 1 .. Len(s) /\ Latest(s, c, i) /\ Append(s, pkt)[i] = s[i]
<1>1. /\ ~(pkt.client = c /\ pkt.kind = "video") => Places(Append(s, pkt), c) = Places(s, c)
      /\ pkt.client = c /\ pkt.kind = "video" => Places(Append(s, pkt), c) = Places(s, c) \cup {Len(s) + 1}
      /\ \A k \in Places(s, c) : k \in 1 .. Len(s) /\ Append(s, pkt)[k] = s[k]
      /\ Append(s, pkt)[Len(s) + 1] = pkt
  BY PlacesAppend
<1>2. CASE pkt.client = c /\ pkt.kind = "video"
  <2>1. i \in Places(Append(s, pkt), c) /\ Len(s) + 1 <= i
    BY <1>1, <1>2 DEF Latest
  <2>2. i = Len(s) + 1
    <3>1. i \in 1 .. Len(s) \/ i = Len(s) + 1
      BY <1>1, <1>2, <2>1
    <3>2. Len(s) \in Nat
      OBVIOUS
    <3> QED BY <2>1, <3>1, <3>2
  <2> QED BY <1>1, <1>2, <2>2
<1>3. CASE ~(pkt.client = c /\ pkt.kind = "video")
  <2>1. Places(Append(s, pkt), c) = Places(s, c)
    BY <1>1, <1>3
  <2>2. Latest(s, c, i)
    BY <2>1 DEF Latest
  <2>3. i \in Places(s, c)
    BY <2>2 DEF Latest
  <2> QED BY <1>1, <1>3, <2>2, <2>3
<1> QED BY <1>2, <1>3

(***************************************************************************)
(* What is left of a stream when its first packets are sent.               *)
(***************************************************************************)
LEMMA RestOrdered ==
    ASSUME NEW s \in Seq(Packets), NEW t \in Seq(Packets), NEW n \in Nat,
           Len(s) = Len(t) + n, \A i \in 1 .. Len(t) : t[i] = s[i + n], Ordered(s)
    PROVE  /\ Ordered(t)
           /\ \A c \in Clients, i \in 1 .. Len(t) :
                Latest(t, c, i) => Latest(s, c, i + n) /\ i + n \in 1 .. Len(s)
<1>1. Len(s) \in Nat /\ Len(t) \in Nat
  OBVIOUS
<1>2. \A c : \A i \in Places(t, c) : i \in 1 .. Len(t) /\ i + n \in Places(s, c) /\ i + n \in 1 .. Len(s)
  BY <1>1 DEF Places
<1>3. ASSUME NEW c, NEW k \in Places(s, c), k > n
      PROVE  k - n \in Places(t, c) /\ k - n \in 1 .. Len(t)
  <2>1. k \in 1 .. Len(s) /\ k - n \in 1 .. Len(t) /\ (k - n) + n = k
    BY <1>1, <1>3 DEF Places
  <2>2. t[k - n] = s[k]
    BY <2>1
  <2> QED BY <1>3, <2>1, <2>2 DEF Places
<1>4. ASSUME NEW c, NEW k \in Places(s, c) PROVE k \in 1 .. Len(s)
  BY DEF Places
<1>5. Ordered(t)
  <2> SUFFICES ASSUME NEW c \in Clients, NEW i \in Places(t, c), NEW j \in Places(t, c),
                      i < j, \A k \in Places(t, c) : ~(i < k /\ k < j)
               PROVE  Follows(t[i], t[j])
    BY DEF Ordered
  <2>1. /\ i \in 1 .. Len(t) /\ j \in 1 .. Len(t)
        /\ i + n \in Places(s, c) /\ j + n \in Places(s, c)
    BY <1>2
  <2>2. ASSUME NEW k \in Places(s, c), i + n < k, k < j + n
        PROVE  FALSE
    <3>1. k \in 1 .. Len(s) /\ k > n /\ i < k - n /\ k - n < j
      BY <1>1, <1>4, <2>1, <2>2
    <3>2. k - n \in Places(t, c)
      BY <1>3, <3>1
    <3> QED BY <3>1, <3>2
  <2>3. i + n < j + n
    BY <2>1
  <2>4. Follows(s[i + n], s[j + n])
    BY <2>1, <2>2, <2>3 DEF Ordered
  <2> QED BY <2>1, <2>4
<1>6. ASSUME NEW c \in Clients, NEW i \in 1 .. Len(t), Latest(t, c, i)
      PROVE  Latest(s, c, i + n) /\ i + n \in 1 .. Len(s)
  <2>1. i \in Places(t, c) /\ \A k \in Places(t, c) : k <= i
    BY <1>6 DEF Latest
  <2>2. ASSUME NEW k \in Places(s, c), k > i + n PROVE FALSE
    <3>1. k \in 1 .. Len(s) /\ k > n /\ k - n > i
      BY <1>1, <1>4, <2>2
    <3>2. k - n \in Places(t, c) /\ k - n \in 1 .. Len(t)
      BY <1>3, <3>1
    <3>3. k - n <= i
      BY <2>1, <3>2
    <3> QED BY <3>1, <3>2, <3>3
  <2>3. \A k \in Places(s, c) : k \in 1 .. Len(s)
    BY <1>4
  <2>4. \A k \in Places(s, c) : k <= i + n
    BY <1>1, <2>2, <2>3
  <2> QED BY <1>2, <2>1, <2>4 DEF Latest
<1> QED BY <1>5, <1>6

-----------------------------------------------------------------------------
\* The places of the frames in the queues q, and what keeps the pool's total.
Spots(q) ==
    UNION {UNION {{<<c, v, i>> : i \in 1 .. Len(q[c][v])} : v \in 1 .. Len(q[c])} : c \in Clients}

FrameInv == Short /\ FramesBalanced

LEMMA InSpots ==
    ASSUME NEW q
    PROVE  /\ \A c, v, i : <<c, v, i>> \in Spots(q) <=>
                             c \in Clients /\ v \in 1 .. Len(q[c]) /\ i \in 1 .. Len(q[c][v])
           /\ \A p \in Spots(q) : \E c \in Clients : \E v \in 1 .. Len(q[c]) :
                \E i \in 1 .. Len(q[c][v]) : p = <<c, v, i>>
<1>1. \A p : p \in Spots(q) <=> \E c \in Clients : \E v \in 1 .. Len(q[c]) :
                                  \E i \in 1 .. Len(q[c][v]) : p = <<c, v, i>>
  BY DEF Spots
<1>2. ASSUME NEW c, NEW v, NEW i
      PROVE  <<c, v, i>> \in Spots(q) <=>
               c \in Clients /\ v \in 1 .. Len(q[c]) /\ i \in 1 .. Len(q[c][v])
  <2>1. \A d, w, j : <<c, v, i>> = <<d, w, j>> => c = d /\ v = w /\ i = j
    OBVIOUS
  <2> QED BY <1>1, <2>1
<1> QED BY <1>1, <1>2

LEMMA FrameTypes ==
    ASSUME HostInv
    PROVE  /\ packetPool \in Nat /\ packetizer.frames \in Seq(Frames) /\ Len(packetizer.frames) \in Nat
           /\ packetizer.client \in Clients \cup {NoClient} /\ packetizer.fid \in Nat
           /\ packetizer.frag \in Nat
           /\ \A c \in Clients :
                /\ encodeQueue[c] \in Seq(Seq(Frames)) /\ Len(encodeQueue[c]) \in Nat
                /\ encoded[c] \in Nat /\ frameId[c] \in Nat
                /\ \A v \in 1 .. Len(encodeQueue[c]) :
                     /\ encodeQueue[c][v] \in Seq(Frames) /\ Len(encodeQueue[c][v]) \in Nat
                     /\ encodeQueue[c][v] # <<>> => encodeQueue[c][v][1] \in Frames
           /\ packetizer.frames # <<>> => Current = packetizer.frames[1] /\ Current \in Frames
           /\ sendQueue \in Seq(Packets) /\ batch \in Seq(Packets) /\ Stream \in Seq(Packets)
<1>1. /\ packetPool \in Nat /\ encodeQueue \in [Clients -> Seq(Seq(Frames))]
      /\ packetizer \in Cuts /\ sendQueue \in Seq(Packets) /\ batch \in Seq(Packets)
      /\ encoded \in [Clients -> Nat] /\ frameId \in [Clients -> Nat]
  BY DEF HostInv, HostTyped
<1>2. Stream \in Seq(Packets)
  BY <1>1 DEF Stream
<1>3. /\ packetizer.frames \in Seq(Frames) /\ Len(packetizer.frames) \in Nat
      /\ packetizer.client \in Clients \cup {NoClient} /\ packetizer.fid \in Nat
      /\ packetizer.frag \in Nat
  BY <1>1 DEF Cuts
<1>4. packetizer.frames # <<>> => Current = packetizer.frames[1] /\ Current \in Frames
  BY <1>3 DEF Current
<1>5. ASSUME NEW c \in Clients
      PROVE  encodeQueue[c] \in Seq(Seq(Frames)) /\ Len(encodeQueue[c]) \in Nat
  BY <1>1
<1>6. ASSUME NEW c \in Clients, NEW v \in 1 .. Len(encodeQueue[c])
      PROVE  /\ encodeQueue[c][v] \in Seq(Frames) /\ Len(encodeQueue[c][v]) \in Nat
             /\ encodeQueue[c][v] # <<>> => encodeQueue[c][v][1] \in Frames
  <2>1. encodeQueue[c][v] \in Seq(Frames)
    BY <1>5
  <2> QED BY <2>1
<1> QED BY <1>1, <1>2, <1>3, <1>4, <1>5, <1>6

\* A length that is at most one.
LEMMA AtMostOne ==
    ASSUME NEW l \in Nat, l <= 1
    PROVE  (l = 0 \/ l = 1) /\ (1 \in 1 .. l <=> l = 1)
OBVIOUS

\* A step that leaves the pool and the encoded frames where they are.
LEMMA FramesStay ==
    ASSUME FrameInv, packetPool' = packetPool, encodeQueue' = encodeQueue,
           packetizer'.frames = packetizer.frames
    PROVE  FrameInv'
<1>1. Short'
  BY DEF FrameInv, Short
<1>2. QueuedFrames' = QueuedFrames
  BY DEF QueuedFrames
<1> QED BY <1>1, <1>2 DEF FrameInv, FramesBalanced, FramesAccounted

LEMMA EncodeKeepsFrames ==
    ASSUME HostInv, FrameInv, NEW c \in Clients, Encode(c)
    PROVE  FrameInv'
<1>1. CASE UNCHANGED <<encodeQueue, packetPool>>
  <2>1. packetizer'.frames = packetizer.frames
    BY DEF Encode, cutVars
  <2> QED BY <1>1, <2>1, FramesStay
<1>2. ASSUME NEW frames \in Encoded(c),
             encodeQueue' = [encodeQueue EXCEPT ![c] = Append(@, frames)],
             packetPool' = packetPool - Len(frames)
      PROVE  FrameInv'
  <2> DEFINE n == Len(encodeQueue[c])
  <2>1. /\ frames \in Seq(Frames) /\ Len(frames) <= 1
        /\ (frames = <<>> /\ Len(frames) = 0) \/ Len(frames) = 1
    <3>1. frames = <<>> \/ \E k : frames = <<[src |-> encoded[c] + 1, fragments |-> k]>>
      BY DEF Encoded
    <3>2. ASSUME frames = <<>> PROVE Len(frames) = 0 /\ Len(frames) <= 1
      BY <3>2
    <3>3. ASSUME NEW k, frames = <<[src |-> encoded[c] + 1, fragments |-> k]>>
          PROVE  Len(frames) = 1 /\ Len(frames) <= 1
      BY <3>3
    <3>4. frames \in Seq(Frames)
      BY EncodedTyped
    <3> QED BY <3>1, <3>2, <3>3, <3>4, Zenon
  <2>2. packetizer'.frames = packetizer.frames
    BY DEF Encode, cutVars
  <2>3. /\ packetPool \in Nat /\ encodeQueue \in [Clients -> Seq(Seq(Frames))]
        /\ encodeQueue[c] \in Seq(Seq(Frames)) /\ n \in Nat
    BY DEF HostInv, HostTyped
  <2>4. /\ \A d \in Clients \ {c} : encodeQueue'[d] = encodeQueue[d]
        /\ encodeQueue'[c] = Append(encodeQueue[c], frames)
    BY <1>2, <2>3
  <2>5. /\ Len(encodeQueue'[c]) = n + 1 /\ encodeQueue'[c][n + 1] = frames
        /\ \A v \in 1 .. n : encodeQueue'[c][v] = encodeQueue[c][v]
    BY <2>1, <2>3, <2>4
  <2> HIDE DEF n
  <2>6. Short'
    <3>1. ASSUME NEW d \in Clients, NEW v \in 1 .. Len(encodeQueue'[d])
          PROVE  Len(encodeQueue'[d][v]) <= 1
      <4>1. CASE d # c
        BY <2>4, <4>1 DEF FrameInv, Short
      <4>2. CASE d = c /\ v = n + 1
        <5>1. Len(frames) <= 1
          BY <2>1
        <5> QED BY <2>5, <4>2, <5>1
      <4>3. CASE d = c /\ v # n + 1
        <5>1. v \in 1 .. n /\ v \in 1 .. Len(encodeQueue[c])
          BY <2>3, <2>5, <4>3 DEF n
        <5>2. Len(encodeQueue[c][v]) <= 1
          BY <5>1 DEF FrameInv, Short
        <5> QED BY <2>5, <4>3, <5>1, <5>2
      <4> QED BY <4>1, <4>2, <4>3
    <3> QED BY <2>2, <3>1 DEF FrameInv, Short
  <2>7. QueuedFrames = Spots(encodeQueue) /\ QueuedFrames' = Spots(encodeQueue')
    BY DEF QueuedFrames, Spots
  <2>8. ASSUME NEW d, NEW v, NEW i
        PROVE  <<d, v, i>> \in Spots(encodeQueue') <=>
                 \/ <<d, v, i>> \in Spots(encodeQueue)
                 \/ d = c /\ v = n + 1 /\ i \in 1 .. Len(frames)
    <3>1. <<d, v, i>> \in Spots(encodeQueue) <=>
            d \in Clients /\ v \in 1 .. Len(encodeQueue[d]) /\ i \in 1 .. Len(encodeQueue[d][v])
      BY InSpots
    <3>2. <<d, v, i>> \in Spots(encodeQueue') <=>
            d \in Clients /\ v \in 1 .. Len(encodeQueue'[d]) /\ i \in 1 .. Len(encodeQueue'[d][v])
      BY InSpots
    <3>3. CASE d # c
      BY <2>4, <3>1, <3>2, <3>3
    <3>4. CASE d = c
      <4>1. v \in 1 .. n + 1 <=> v \in 1 .. n \/ v = n + 1
        BY <2>3
      <4>2. n + 1 \notin 1 .. n
        BY <2>3
      <4> QED BY <2>5, <3>1, <3>2, <3>4, <4>1, <4>2 DEF n
    <3> QED BY <3>3, <3>4
  <2>9. PICK l \in Nat : l = Len(packetizer.frames)
    BY FrameTypes
  <2>10. PICK k \in Nat : k = Cardinality(QueuedFrames)
    BY FS_CardinalityType DEF FrameInv, FramesBalanced
  <2>11. packetPool + l + k = PacketPool
    BY <2>9, <2>10 DEF FrameInv, FramesBalanced, FramesAccounted
  <2>12. CASE frames = <<>>
    <3>1. Spots(encodeQueue') = Spots(encodeQueue)
      <4>1. \A p \in Spots(encodeQueue') \cup Spots(encodeQueue) : \E d, v, i : p = <<d, v, i>>
        BY InSpots
      <4>2. \A i : i \notin 1 .. Len(frames)
        BY <2>12
      <4>3. \A d, v, i : <<d, v, i>> \in Spots(encodeQueue') <=> <<d, v, i>> \in Spots(encodeQueue)
        BY <2>8, <4>2
      <4> QED BY <4>1, <4>3
    <3>2. packetPool' = packetPool
      BY <1>2, <2>3, <2>12
    <3> QED BY <2>2, <2>6, <2>7, <3>1, <3>2 DEF FrameInv, FramesBalanced, FramesAccounted
  <2>13. CASE Len(frames) = 1
    <3>1. Spots(encodeQueue') = Spots(encodeQueue) \cup {<<c, n + 1, 1>>}
      <4>1. \A p \in Spots(encodeQueue') \cup Spots(encodeQueue) : \E d, v, i : p = <<d, v, i>>
        BY InSpots
      <4>2. ASSUME NEW d, NEW v, NEW i
            PROVE  <<d, v, i>> \in Spots(encodeQueue') <=>
                     <<d, v, i>> \in Spots(encodeQueue) \/ <<d, v, i>> = <<c, n + 1, 1>>
        <5>1. i \in 1 .. Len(frames) <=> i = 1
          BY <2>13
        <5>2. <<d, v, i>> = <<c, n + 1, 1>> <=> d = c /\ v = n + 1 /\ i = 1
          OBVIOUS
        <5> QED BY <2>8, <5>1, <5>2
      <4> QED BY <4>1, <4>2
    <3>2. <<c, n + 1, 1>> \notin Spots(encodeQueue)
      <4>1. n + 1 \notin 1 .. n
        BY <2>3
      <4> QED BY <4>1, InSpots DEF n
    <3>3. IsFiniteSet(QueuedFrames') /\ Cardinality(QueuedFrames') = Cardinality(QueuedFrames) + 1
      BY <2>7, <3>1, <3>2, FS_AddElement DEF FrameInv, FramesBalanced
    <3>4. PICK m \in Nat : m = Cardinality(QueuedFrames')
      BY <3>3, FS_CardinalityType
    <3>5. m = k + 1
      BY <2>10, <3>3, <3>4
    <3>6. packetPool' = packetPool - 1
      BY <1>2, <2>13
    <3>7. packetPool' + l + m = PacketPool
      BY <2>3, <2>11, <3>5, <3>6
    <3> QED BY <2>2, <2>6, <2>9, <3>3, <3>4, <3>7 DEF FrameInv, FramesBalanced, FramesAccounted
  <2> QED BY <2>1, <2>12, <2>13
<1> QED BY <1>1, <1>2 DEF Encode

\* Taking a queue's first vector moves its frame, if it has one, to the packetizer:
\* the other frames are the same ones, one place further on.
LEMMA PopKeepsFrames ==
    ASSUME HostInv, FrameInv, NEW c \in Clients, PacketizerPop(c)
    PROVE  FrameInv'
<1> DEFINE q == encodeQueue
           n == Len(q[c])
<1>1. packetPool' = packetPool /\ packetizer.step = "head"
  BY DEF PacketizerPop
<1>2. packetizer.frames = <<>> /\ Len(packetizer.frames) = 0
  BY <1>1 DEF HostInv, CutSound
<1>3. CASE q[c] = <<>>
  <2>1. packetizer'.frames = packetizer.frames /\ encodeQueue' = encodeQueue
    BY <1>3 DEF PacketizerPop, HostInv, HostTyped, Cuts
  <2> QED BY <1>1, <2>1, FramesStay
<1>4. CASE q[c] # <<>>
  <2>1. /\ packetizer'.frames = Head(q[c])
        /\ encodeQueue' = [encodeQueue EXCEPT ![c] = Tail(@)]
    BY <1>4 DEF PacketizerPop
  <2>2. q \in [Clients -> Seq(Seq(Frames))] /\ q[c] \in Seq(Seq(Frames)) /\ n \in Nat /\ n > 0
        /\ packetPool \in Nat
    BY <1>4 DEF HostInv, HostTyped
  <2>3. Head(q[c]) = q[c][1] /\ q[c][1] \in Seq(Frames) /\ 1 \in 1 .. n
    BY <2>2
  <2>4. /\ \A d \in Clients \ {c} : encodeQueue'[d] = q[d]
        /\ encodeQueue'[c] = Tail(q[c])
    BY <2>1, <2>2
  <2>5. /\ Len(encodeQueue'[c]) = n - 1
        /\ \A v \in 1 .. n - 1 : encodeQueue'[c][v] = q[c][v + 1]
    BY <2>2, <2>4
  <2>6. Len(q[c][1]) <= 1 /\ Len(q[c][1]) \in Nat
    BY <2>3 DEF FrameInv, Short
  <2>7. Short'
    <3>1. ASSUME NEW d \in Clients, NEW v \in 1 .. Len(encodeQueue'[d])
          PROVE  Len(encodeQueue'[d][v]) <= 1
      <4>1. CASE d # c
        BY <2>4, <4>1 DEF FrameInv, Short
      <4>2. CASE d = c
        <5>1. v \in 1 .. n - 1 /\ v + 1 \in 1 .. n
          BY <2>2, <2>5, <4>2
        <5>2. Len(q[c][v + 1]) <= 1
          BY <5>1 DEF FrameInv, Short
        <5> QED BY <2>5, <4>2, <5>1, <5>2
      <4> QED BY <4>1, <4>2
    <3> QED BY <2>1, <2>3, <2>6, <3>1 DEF Short
  <2> DEFINE R == Spots(q) \ {<<c, 1, 1>>}
             f == [p \in R |-> IF p[1] = c THEN <<c, p[2] - 1, p[3]>> ELSE p]
  <2>8. ASSUME NEW d, NEW v, NEW i
        PROVE  <<d, v, i>> \in R <=>
                 /\ d \in Clients /\ v \in 1 .. Len(q[d]) /\ i \in 1 .. Len(q[d][v])
                 /\ d = c => v # 1
    <3>1. <<d, v, i>> \in Spots(q) <=>
            d \in Clients /\ v \in 1 .. Len(q[d]) /\ i \in 1 .. Len(q[d][v])
      BY InSpots
    <3>2. <<d, v, i>> = <<c, 1, 1>> <=> d = c /\ v = 1 /\ i = 1
      OBVIOUS
    <3>3. i \in 1 .. Len(q[c][1]) => i = 1
      BY <2>6
    <3> QED BY <3>1, <3>2, <3>3
  <2>9. ASSUME NEW d, NEW v, NEW i
        PROVE  <<d, v, i>> \in Spots(encodeQueue') <=>
                 /\ d \in Clients /\ v \in 1 .. Len(encodeQueue'[d])
                 /\ i \in 1 .. Len(encodeQueue'[d][v])
    BY InSpots
  <2>10. \A p \in R \cup Spots(encodeQueue') : \E d, v, i : p = <<d, v, i>>
    BY InSpots
  <2>11. ASSUME NEW d, NEW v, NEW i, <<d, v, i>> \in R
         PROVE  f[<<d, v, i>>] = IF d = c THEN <<c, v - 1, i>> ELSE <<d, v, i>>
    BY <2>11
  <2> HIDE DEF R, f
  <2>12. ASSUME NEW d, NEW v, NEW i, <<d, v, i>> \in R
         PROVE  f[<<d, v, i>>] \in Spots(encodeQueue')
    <3>1. d \in Clients /\ v \in 1 .. Len(q[d]) /\ i \in 1 .. Len(q[d][v]) /\ (d = c => v # 1)
      BY <2>8, <2>12
    <3>2. CASE d = c
      <4>1. v - 1 \in 1 .. n - 1 /\ (v - 1) + 1 = v
        BY <2>2, <3>1, <3>2
      <4>2. encodeQueue'[c][v - 1] = q[c][v]
        BY <2>5, <4>1
      <4>3. <<c, v - 1, i>> \in Spots(encodeQueue')
        BY <2>5, <2>9, <3>1, <3>2, <4>1, <4>2
      <4> QED BY <2>11, <2>12, <3>2, <4>3
    <3>3. CASE d # c
      <4>1. <<d, v, i>> \in Spots(encodeQueue')
        BY <2>4, <2>9, <3>1, <3>3
      <4> QED BY <2>11, <2>12, <3>3, <4>1
    <3> QED BY <3>2, <3>3
  <2>13. ASSUME NEW d, NEW v, NEW i, NEW e, NEW w, NEW j,
                <<d, v, i>> \in R, <<e, w, j>> \in R, f[<<d, v, i>>] = f[<<e, w, j>>]
         PROVE  <<d, v, i>> = <<e, w, j>>
    <3>1. v \in Int /\ w \in Int
      BY <2>8, <2>13
    <3>2. CASE d = c /\ e = c
      <4>1. <<c, v - 1, i>> = <<c, w - 1, j>>
        BY <2>11, <2>13, <3>2
      <4>2. v - 1 = w - 1 /\ i = j
        BY <4>1
      <4> QED BY <3>1, <3>2, <4>2
    <3>3. CASE d = c /\ e # c
      <4>1. <<c, v - 1, i>> = <<e, w, j>>
        BY <2>11, <2>13, <3>3
      <4> QED BY <3>3, <4>1
    <3>4. CASE d # c /\ e = c
      <4>1. <<d, v, i>> = <<c, w - 1, j>>
        BY <2>11, <2>13, <3>4
      <4> QED BY <3>4, <4>1
    <3>5. CASE d # c /\ e # c
      BY <2>11, <2>13, <3>5
    <3> QED BY <3>2, <3>3, <3>4, <3>5
  <2>14. ASSUME NEW d, NEW v, NEW i, <<d, v, i>> \in Spots(encodeQueue')
         PROVE  \E p \in R : f[p] = <<d, v, i>>
    <3>1. /\ d \in Clients /\ v \in 1 .. Len(encodeQueue'[d])
          /\ i \in 1 .. Len(encodeQueue'[d][v])
      BY <2>9, <2>14
    <3>2. CASE d = c
      <4>1. v \in 1 .. n - 1 /\ v + 1 \in 1 .. n /\ v + 1 # 1 /\ (v + 1) - 1 = v
        BY <2>2, <2>5, <3>1, <3>2
      <4>2. encodeQueue'[c][v] = q[c][v + 1]
        BY <2>5, <4>1
      <4>3. <<c, v + 1, i>> \in R
        BY <2>8, <3>1, <3>2, <4>1, <4>2
      <4>4. f[<<c, v + 1, i>>] = <<c, v, i>>
        BY <2>11, <4>1, <4>3
      <4> QED BY <3>2, <4>3, <4>4
    <3>3. CASE d # c
      <4>1. <<d, v, i>> \in R
        BY <2>4, <2>8, <3>1, <3>3
      <4> QED BY <2>11, <3>3, <4>1
    <3> QED BY <3>2, <3>3
  <2>15. f \in Bijection(R, Spots(encodeQueue'))
    <3>1. f = [p \in R |-> f[p]]
      BY DEF f
    <3>2. \A p \in R : f[p] \in Spots(encodeQueue')
      BY <2>10, <2>12
    <3>3. \A p, r \in R : f[p] = f[r] => p = r
      BY <2>10, <2>13
    <3>4. \A t \in Spots(encodeQueue') : \E p \in R : f[p] = t
      BY <2>10, <2>14
    <3>5. f \in [R -> Spots(encodeQueue')]
      BY <3>1, <3>2
    <3> QED BY <3>3, <3>4, <3>5 DEF Bijection, Injection, Surjection, IsInjective
  <2>16. QueuedFrames = Spots(q) /\ QueuedFrames' = Spots(encodeQueue') /\ IsFiniteSet(Spots(q))
    BY DEF QueuedFrames, Spots, FrameInv, FramesBalanced
  <2>17. <<c, 1, 1>> \in Spots(q) <=> Len(q[c][1]) = 1
    <3>1. <<c, 1, 1>> \in Spots(q) <=> 1 \in 1 .. Len(q[c]) /\ 1 \in 1 .. Len(q[c][1])
      BY InSpots
    <3>2. 1 \in 1 .. Len(q[c][1]) <=> Len(q[c][1]) = 1
      BY <2>6, AtMostOne, Zenon
    <3> QED BY <2>3, <3>1, <3>2
  <2>18. /\ IsFiniteSet(R)
         /\ Cardinality(R) = IF Len(q[c][1]) = 1 THEN Cardinality(Spots(q)) - 1 ELSE Cardinality(Spots(q))
    BY <2>16, <2>17, FS_RemoveElement DEF R
  <2>19. IsFiniteSet(Spots(encodeQueue')) /\ Cardinality(Spots(encodeQueue')) = Cardinality(R)
    BY <2>15, <2>18, FS_Bijection DEF ExistsBijection
  <2>20. PICK k \in Nat, m \in Nat, l \in Nat :
           /\ k = Cardinality(QueuedFrames) /\ m = Cardinality(QueuedFrames')
           /\ l = Len(q[c][1]) /\ l <= 1
    BY <2>6, <2>16, <2>19, FS_CardinalityType
  <2>21. m = IF l = 1 THEN k - 1 ELSE k
    BY <2>16, <2>18, <2>19, <2>20
  <2>22. l = 0 \/ l = 1
    BY <2>20, AtMostOne, Zenon
  <2>23. packetPool + 0 + k = PacketPool
    BY <1>2, <2>20 DEF FrameInv, FramesBalanced, FramesAccounted
  <2>24. packetPool + l + m = PacketPool
    <3>1. CASE l = 0
      BY <2>2, <2>21, <2>23, <3>1
    <3>2. CASE l = 1
      BY <2>2, <2>21, <2>23, <3>2
    <3> QED BY <2>22, <3>1, <3>2
  <2>25. Len(packetizer'.frames) = l
    BY <2>1, <2>3, <2>20
  <2> QED BY <1>1, <2>7, <2>16, <2>19, <2>20, <2>24, <2>25 DEF FrameInv, FramesBalanced, FramesAccounted
<1> QED BY <1>3, <1>4

LEMMA ReleaseKeepsFrames ==
    ASSUME HostInv, FrameInv, PacketizerRelease
    PROVE  FrameInv'
<1>1. /\ packetPool' = packetPool + 1 /\ packetizer'.frames = Tail(packetizer.frames)
      /\ encodeQueue' = encodeQueue /\ packetizer.frames # <<>>
  BY DEF PacketizerRelease, HostInv, HostTyped, Cuts, CutSound
<1>2. /\ packetPool \in Nat /\ packetizer.frames \in Seq(Frames)
      /\ Len(packetizer.frames) \in Nat /\ Len(packetizer.frames) <= 1
  BY FrameTypes DEF FrameInv, Short
<1>3. Len(packetizer.frames) = 1 /\ Len(packetizer'.frames) = 0
  <2>1. Len(packetizer.frames) # 0
    BY <1>1, <1>2
  <2>2. Len(packetizer.frames) = 1
    BY <1>2, <2>1, AtMostOne, Zenon
  <2>3. Len(packetizer'.frames) = Len(packetizer.frames) - 1
    BY <1>1, <1>2
  <2> QED BY <2>2, <2>3
<1>4. QueuedFrames' = QueuedFrames
  BY <1>1 DEF QueuedFrames
<1>5. PICK k \in Nat : k = Cardinality(QueuedFrames)
  BY FS_CardinalityType DEF FrameInv, FramesBalanced
<1>6. packetPool + 1 + k = PacketPool
  BY <1>3, <1>5 DEF FrameInv, FramesBalanced, FramesAccounted
<1>7. (packetPool + 1) + 0 + k = PacketPool
  BY <1>2, <1>6
<1>8. Short'
  <2>1. Len(packetizer'.frames) <= 1
    BY <1>3
  <2> QED BY <1>1, <2>1 DEF FrameInv, Short
<1> QED BY <1>1, <1>3, <1>4, <1>5, <1>7, <1>8 DEF FrameInv, FramesBalanced, FramesAccounted

-----------------------------------------------------------------------------
\* The order of the frames and of the packets.
OrderInv == Short /\ SourcesOrdered /\ CurrentEncoded /\ Ordered(Stream) /\ StreamBehind

LEMMA Sources ==
    ASSUME HostInv
    PROVE  /\ \A c \in Clients : \A v \in 1 .. Len(encodeQueue[c]) :
                encodeQueue[c][v] # <<>> => encodeQueue[c][v][1].src \in Nat
           /\ packetizer.frames # <<>> => Current.src \in Nat
           /\ \A i \in 1 .. Len(Stream) :
                Stream[i].src \in Nat /\ Stream[i].fid \in Nat /\ Stream[i].frag \in Nat
<1>1. \A f \in Frames : f.src \in Nat
  BY DEF Frames
<1>2. \A p \in Packets : p.src \in Nat /\ p.fid \in Nat /\ p.frag \in Nat
  BY DEF Packets
<1>3. \A i \in 1 .. Len(Stream) : Stream[i] \in Packets
  <2>1. Stream \in Seq(Packets)
    BY FrameTypes
  <2> QED BY <2>1
<1>4. \A c \in Clients : \A v \in 1 .. Len(encodeQueue[c]) :
        encodeQueue[c][v] # <<>> => encodeQueue[c][v][1] \in Frames
  BY FrameTypes
<1>5. packetizer.frames # <<>> => Current \in Frames
  BY FrameTypes
<1> QED BY <1>1, <1>2, <1>3, <1>4, <1>5

\* A step of the stream alone.
LEMMA StreamStep ==
    ASSUME OrderInv, Short',
           UNCHANGED <<encodeQueue, encoded, frameId>>,
           packetizer'.client = packetizer.client, packetizer'.frames = packetizer.frames,
           packetizer'.fid = packetizer.fid, packetizer'.frag = packetizer.frag,
           Ordered(Stream'),
           \A c \in Clients, i \in 1 .. Len(Stream') : Latest(Stream', c, i) =>
             \E k \in 1 .. Len(Stream) : Latest(Stream, c, k) /\ Stream'[i] = Stream[k]
    PROVE  OrderInv'
<1>1. Current' = Current
  BY DEF Current
<1>2. SourcesOrdered'
  BY <1>1 DEF OrderInv, SourcesOrdered
<1>3. CurrentEncoded'
  BY <1>1 DEF OrderInv, CurrentEncoded
<1>4. Ordered(Stream)'
  BY DEF Ordered, Places
<1>5. StreamBehind'
  <2>1. ASSUME NEW c \in Clients, NEW i \in 1 .. Len(Stream'), Latest(Stream', c, i)
        PROVE  Behind(Stream[i], c)'
    <3>1. PICK k \in 1 .. Len(Stream) : Latest(Stream, c, k) /\ Stream'[i] = Stream[k]
      BY <2>1
    <3>2. Behind(Stream[k], c)
      BY <3>1 DEF OrderInv, StreamBehind
    <3> QED BY <1>1, <3>1, <3>2 DEF Behind
  <2> QED BY <2>1 DEF StreamBehind, Latest, Places
<1> QED BY <1>2, <1>3, <1>4, <1>5 DEF OrderInv

LEMMA EncodeKeepsOrder ==
    ASSUME HostInv, OrderInv, Short', NEW c \in Clients, Encode(c)
    PROVE  OrderInv'
<1>1. /\ packetizer' = packetizer /\ frameId' = frameId /\ Stream' = Stream /\ Current' = Current
      /\ encoded' = [encoded EXCEPT ![c] = @ + 1]
  BY DEF Encode, cutVars, outVars, Stream, Current
<1>2. encoded \in [Clients -> Nat]
  BY DEF HostInv, HostTyped
<1>3. /\ encoded'[c] = encoded[c] + 1 /\ encoded[c] \in Nat
      /\ \A d \in Clients : encoded[d] \in Nat /\ encoded'[d] \in Nat /\ encoded[d] <= encoded'[d]
  BY <1>1, <1>2
<1>4. ASSUME NEW d \in Clients, NEW w \in 1 .. Len(encodeQueue'[d]), encodeQueue'[d][w] # <<>>
      PROVE  \/ w \in 1 .. Len(encodeQueue[d]) /\ encodeQueue'[d][w] = encodeQueue[d][w]
             \/ d = c /\ w = Len(encodeQueue'[d]) /\ encodeQueue'[d][w][1].src = encoded[c] + 1
  <2>1. CASE UNCHANGED <<encodeQueue, packetPool>>
    BY <1>4, <2>1
  <2>2. ASSUME NEW frames \in Encoded(c), encodeQueue' = [encodeQueue EXCEPT ![c] = Append(@, frames)]
        PROVE  \/ w \in 1 .. Len(encodeQueue[d]) /\ encodeQueue'[d][w] = encodeQueue[d][w]
               \/ d = c /\ w = Len(encodeQueue'[d]) /\ encodeQueue'[d][w][1].src = encoded[c] + 1
    <3>1. frames # <<>> => frames[1].src = encoded[c] + 1
      BY DEF Encoded
    <3>2. encodeQueue \in [Clients -> Seq(Seq(Frames))] /\ frames \in Seq(Frames)
          /\ encodeQueue[c] \in Seq(Seq(Frames)) /\ Len(encodeQueue[c]) \in Nat
      BY EncodedTyped DEF HostInv, HostTyped
    <3>3. /\ \A e \in Clients \ {c} : encodeQueue'[e] = encodeQueue[e]
          /\ encodeQueue'[c] = Append(encodeQueue[c], frames)
      BY <2>2, <3>2
    <3>4. /\ Len(encodeQueue'[c]) = Len(encodeQueue[c]) + 1
          /\ encodeQueue'[c][Len(encodeQueue[c]) + 1] = frames
          /\ \A v \in 1 .. Len(encodeQueue[c]) : encodeQueue'[c][v] = encodeQueue[c][v]
      BY <3>2, <3>3
    <3>5. CASE d # c
      BY <1>4, <3>3, <3>5
    <3>6. CASE d = c /\ w \in 1 .. Len(encodeQueue[c])
      BY <3>4, <3>6
    <3>7. CASE d = c /\ w \notin 1 .. Len(encodeQueue[c])
      <4>1. w = Len(encodeQueue[c]) + 1
        BY <3>2, <3>4, <3>7
      <4> QED BY <1>4, <3>1, <3>4, <3>7, <4>1
    <3> QED BY <3>5, <3>6, <3>7
  <2> QED BY <2>1, <2>2 DEF Encode
<1>5. \A d \in Clients : \A v \in 1 .. Len(encodeQueue[d]) :
        encodeQueue[d][v] # <<>> =>
          encodeQueue[d][v][1].src \in Nat /\ encodeQueue[d][v][1].src <= encoded[d]
  BY Sources DEF OrderInv, SourcesOrdered
<1>6. \A d \in Clients : Len(encodeQueue[d]) \in Nat
  BY FrameTypes
<1>7. SourcesOrdered'
  <2> SUFFICES ASSUME NEW d \in Clients, NEW w \in 1 .. Len(encodeQueue'[d]), encodeQueue'[d][w] # <<>>
               PROVE  /\ encodeQueue'[d][w][1].src <= encoded'[d]
                      /\ \A v \in 1 .. w - 1 : encodeQueue'[d][v] # <<>> =>
                           encodeQueue'[d][v][1].src < encodeQueue'[d][w][1].src
                      /\ packetizer'.client = d /\ packetizer'.frames # <<>> =>
                           Current'.src < encodeQueue'[d][w][1].src
    BY DEF SourcesOrdered
  <2>1. CASE w \in 1 .. Len(encodeQueue[d]) /\ encodeQueue'[d][w] = encodeQueue[d][w]
    <3>1. /\ encodeQueue[d][w][1].src <= encoded[d] /\ encodeQueue[d][w][1].src \in Nat
          /\ \A v \in 1 .. w - 1 : encodeQueue[d][v] # <<>> =>
               encodeQueue[d][v][1].src < encodeQueue[d][w][1].src
          /\ packetizer.client = d /\ packetizer.frames # <<>> =>
               Current.src < encodeQueue[d][w][1].src
      BY <1>5, <2>1 DEF OrderInv, SourcesOrdered
    <3>2. ASSUME NEW v \in 1 .. w - 1, encodeQueue'[d][v] # <<>>
          PROVE  encodeQueue'[d][v] = encodeQueue[d][v]
      <4>1. v \in 1 .. Len(encodeQueue'[d]) /\ v # Len(encodeQueue'[d])
        OBVIOUS
      <4> QED BY <1>4, <3>2, <4>1
    <3>3. encodeQueue'[d][w][1].src <= encoded'[d]
      BY <1>3, <2>1, <3>1
    <3> QED BY <1>1, <2>1, <3>1, <3>2, <3>3
  <2>2. CASE d = c /\ w = Len(encodeQueue'[d]) /\ encodeQueue'[d][w][1].src = encoded[c] + 1
    <3>1. ASSUME NEW v \in 1 .. w - 1, encodeQueue'[d][v] # <<>>
          PROVE  encodeQueue'[d][v][1].src < encodeQueue'[d][w][1].src
      <4>1. v \in 1 .. Len(encodeQueue'[d]) /\ v # Len(encodeQueue'[d])
        OBVIOUS
      <4>2. v \in 1 .. Len(encodeQueue[d]) /\ encodeQueue'[d][v] = encodeQueue[d][v]
        BY <1>4, <2>2, <3>1, <4>1
      <4>3. encodeQueue[d][v][1].src \in Nat /\ encodeQueue[d][v][1].src <= encoded[d]
        BY <1>5, <3>1, <4>2
      <4> QED BY <1>3, <2>2, <4>2, <4>3
    <3>2. ASSUME packetizer.client = c, packetizer.frames # <<>>
          PROVE  Current.src < encoded[c] + 1
      <4>1. Current.src \in Nat /\ Current.src <= encoded[c]
        BY <3>2, Sources DEF OrderInv, CurrentEncoded
      <4> QED BY <1>3, <4>1
    <3>3. encodeQueue'[d][w][1].src <= encoded'[d]
      BY <1>3, <2>2
    <3> QED BY <1>1, <2>2, <3>1, <3>2, <3>3
  <2> QED BY <1>4, <2>1, <2>2
<1>8. CurrentEncoded'
  <2>1. packetizer.frames # <<>> => Current.src \in Nat
    BY Sources
  <2>2. packetizer.client \in Clients =>
          /\ packetizer.fid = frameId[packetizer.client]
          /\ packetizer.frames # <<>> => Current.src <= encoded'[packetizer.client]
    BY <1>3, <2>1 DEF OrderInv, CurrentEncoded
  <2> QED BY <1>1, <2>2 DEF CurrentEncoded
<1>9. Ordered(Stream)'
  BY <1>1 DEF OrderInv, Ordered, Places
<1>10. StreamBehind'
  <2>1. ASSUME NEW d \in Clients, NEW i \in 1 .. Len(Stream), Latest(Stream, d, i)
        PROVE  Behind(Stream[i], d)'
    <3>1. Behind(Stream[i], d) /\ Stream[i].src \in Nat
      BY <2>1, Sources DEF OrderInv, StreamBehind
    <3>2. Stream[i].src <= encoded[d] /\ Stream[i].src <= encoded'[d]
      BY <1>3, <3>1 DEF Behind
    <3>3. ASSUME NEW v \in 1 .. Len(encodeQueue'[d]), encodeQueue'[d][v] # <<>>
          PROVE  Stream[i].src < encodeQueue'[d][v][1].src
      <4>1. CASE v \in 1 .. Len(encodeQueue[d]) /\ encodeQueue'[d][v] = encodeQueue[d][v]
        BY <3>1, <3>3, <4>1 DEF Behind
      <4>2. CASE d = c /\ encodeQueue'[d][v][1].src = encoded[c] + 1
        BY <1>3, <3>1, <3>2, <4>2
      <4> QED BY <1>4, <3>3, <4>1, <4>2
    <3> QED BY <1>1, <3>1, <3>2, <3>3 DEF Behind
  <2> QED BY <1>1, <2>1 DEF StreamBehind, Latest, Places
<1> QED BY <1>7, <1>8, <1>9, <1>10 DEF OrderInv

LEMMA PopKeepsOrder ==
    ASSUME HostInv, OrderInv, Short', NEW c \in Clients, PacketizerPop(c)
    PROVE  OrderInv'
<1> DEFINE n == Len(encodeQueue[c])
<1>1. frameId' = frameId /\ encoded' = encoded /\ Stream' = Stream /\ packetizer.step = "head"
  BY DEF PacketizerPop, captureVars, outVars, Stream
<1>2. packetizer.client = NoClient /\ packetizer.frames = <<>>
  BY <1>1 DEF HostInv, CutSound
<1>3. CASE encodeQueue[c] = <<>>
  <2>1. packetizer' = [packetizer EXCEPT !.todo = @ \ {c}] /\ encodeQueue' = encodeQueue
    BY <1>3 DEF PacketizerPop
  <2>2. /\ packetizer'.client = packetizer.client /\ packetizer'.frames = packetizer.frames
        /\ packetizer'.fid = packetizer.fid /\ packetizer'.frag = packetizer.frag
    BY <2>1 DEF HostInv, HostTyped, Cuts
  <2>3. Ordered(Stream') /\ \A d, i : Latest(Stream', d, i) <=> Latest(Stream, d, i)
    BY <1>1 DEF OrderInv
  <2> QED BY <1>1, <2>1, <2>2, <2>3, StreamStep
<1>4. CASE encodeQueue[c] # <<>>
  <2>1. /\ packetizer'.client = c /\ packetizer'.frames = Head(encodeQueue[c])
        /\ packetizer'.fid = frameId[c] /\ packetizer'.frag = 0
        /\ encodeQueue' = [encodeQueue EXCEPT ![c] = Tail(@)]
    BY <1>4 DEF PacketizerPop
  <2>2. /\ encodeQueue \in [Clients -> Seq(Seq(Frames))] /\ encodeQueue[c] \in Seq(Seq(Frames))
        /\ n \in Nat /\ n > 0 /\ 1 \in 1 .. n
    BY <1>4 DEF HostInv, HostTyped
  <2>3. Head(encodeQueue[c]) = encodeQueue[c][1] /\ encodeQueue[c][1] \in Seq(Frames)
    BY <2>2
  <2>4. /\ \A d \in Clients \ {c} : encodeQueue'[d] = encodeQueue[d]
        /\ encodeQueue'[c] = Tail(encodeQueue[c])
    BY <2>1, <2>2
  <2>5. /\ Len(encodeQueue'[c]) = n - 1
        /\ \A v \in 1 .. n - 1 : encodeQueue'[c][v] = encodeQueue[c][v + 1]
    BY <2>2, <2>4
  <2>6. packetizer'.frames # <<>> => Current' = encodeQueue[c][1][1]
    BY <2>1, <2>3 DEF Current
  <2>7. SourcesOrdered'
    <3> SUFFICES ASSUME NEW d \in Clients, NEW w \in 1 .. Len(encodeQueue'[d]), encodeQueue'[d][w] # <<>>
                 PROVE  /\ encodeQueue'[d][w][1].src <= encoded'[d]
                        /\ \A v \in 1 .. w - 1 : encodeQueue'[d][v] # <<>> =>
                             encodeQueue'[d][v][1].src < encodeQueue'[d][w][1].src
                        /\ packetizer'.client = d /\ packetizer'.frames # <<>> =>
                             Current'.src < encodeQueue'[d][w][1].src
      BY DEF SourcesOrdered
    <3>1. CASE d # c
      BY <1>1, <2>1, <2>4, <3>1 DEF OrderInv, SourcesOrdered
    <3>2. CASE d = c
      <4>1. w \in 1 .. n - 1 /\ w + 1 \in 1 .. n /\ encodeQueue'[c][w] = encodeQueue[c][w + 1]
        <5>1. w \in 1 .. n - 1
          BY <2>5, <3>2
        <5>2. w + 1 \in 1 .. n
          BY <2>2, <5>1
        <5> QED BY <2>5, <5>1, <5>2
      <4>2. /\ encodeQueue[c][w + 1][1].src <= encoded[c]
            /\ \A v \in 1 .. (w + 1) - 1 : encodeQueue[c][v] # <<>> =>
                 encodeQueue[c][v][1].src < encodeQueue[c][w + 1][1].src
        BY <3>2, <4>1 DEF OrderInv, SourcesOrdered
      <4>3. ASSUME NEW v \in 1 .. w - 1, encodeQueue'[c][v] # <<>>
            PROVE  encodeQueue'[c][v][1].src < encodeQueue'[c][w][1].src
        <5>1. v \in 1 .. n - 1 /\ v + 1 \in 1 .. (w + 1) - 1
          BY <2>2, <4>1
        <5>2. encodeQueue'[c][v] = encodeQueue[c][v + 1]
          BY <2>5, <5>1
        <5> QED BY <4>1, <4>2, <4>3, <5>1, <5>2
      <4>4. packetizer'.frames # <<>> => Current'.src < encodeQueue'[c][w][1].src
        <5>1. 1 \in 1 .. (w + 1) - 1
          BY <4>1
        <5> QED BY <2>1, <2>3, <2>6, <4>1, <4>2, <5>1
      <4> QED BY <1>1, <3>2, <4>1, <4>2, <4>3, <4>4
    <3> QED BY <3>1, <3>2
  <2>8. CurrentEncoded'
    <3>1. packetizer'.frames # <<>> => encodeQueue[c][1][1].src <= encoded[c]
      BY <2>1, <2>2, <2>3 DEF OrderInv, SourcesOrdered
    <3> QED BY <1>1, <2>1, <2>6, <3>1 DEF CurrentEncoded
  <2>9. Ordered(Stream)'
    BY <1>1 DEF OrderInv, Ordered, Places
  <2>10. ASSUME NEW d \in Clients, NEW i \in 1 .. Len(Stream), Latest(Stream, d, i)
         PROVE  Behind(Stream[i], d)'
    <3>1. Behind(Stream[i], d) /\ Stream[i].fid \in Nat /\ frameId[d] \in Nat
      BY <2>10, Sources, FrameTypes DEF OrderInv, StreamBehind
    <3>2. /\ Stream[i].fid < frameId[d] /\ Stream[i].src <= encoded[d]
          /\ \A v \in 1 .. Len(encodeQueue[d]) : encodeQueue[d][v] # <<>> =>
               Stream[i].src < encodeQueue[d][v][1].src
      BY <1>2, <3>1, HostAssumption DEF Behind
    <3>3. CASE d # c
      BY <1>1, <2>1, <2>4, <3>2, <3>3 DEF Behind
    <3>4. CASE d = c
      <4>1. ASSUME NEW v \in 1 .. Len(encodeQueue'[c]), encodeQueue'[c][v] # <<>>
            PROVE  Stream[i].src < encodeQueue'[c][v][1].src
        <5>1. v \in 1 .. n - 1 /\ v + 1 \in 1 .. n
          BY <2>2, <2>5
        <5>2. encodeQueue'[c][v] = encodeQueue[c][v + 1]
          BY <2>5, <5>1
        <5> QED BY <3>2, <3>4, <4>1, <5>1, <5>2
      <4>2. Stream[i].fid <= frameId[c]
        BY <3>1, <3>2, <3>4
      <4>3. packetizer'.frames # <<>> => Stream[i].src < Current'.src
        BY <2>1, <2>2, <2>3, <2>6, <3>2, <3>4
      <4> QED BY <1>1, <2>1, <3>2, <3>4, <4>1, <4>2, <4>3 DEF Behind
    <3> QED BY <3>3, <3>4
  <2>11. StreamBehind'
    BY <1>1, <2>10 DEF StreamBehind, Latest, Places
  <2> QED BY <2>7, <2>8, <2>9, <2>11 DEF OrderInv
<1> QED BY <1>3, <1>4

LEMMA NextIdKeepsOrder ==
    ASSUME HostInv, OrderInv, Short', PacketizerNextId
    PROVE  OrderInv'
<1> DEFINE c == packetizer.client
<1>1. /\ encodeQueue' = encodeQueue /\ encoded' = encoded /\ Stream' = Stream
      /\ packetizer.frames = <<>> /\ packetizer.step = "frame"
      /\ frameId' = [frameId EXCEPT ![c] = @ + 1]
      /\ packetizer'.client = NoClient /\ packetizer'.frames = <<>>
  BY DEF PacketizerNextId, captureVars, outVars, Stream, Idle
<1>2. c \in Clients /\ frameId \in [Clients -> Nat]
  BY <1>1 DEF HostInv, HostTyped, Cuts, CutSound
<1>3. /\ frameId'[c] = frameId[c] + 1 /\ \A d \in Clients \ {c} : frameId'[d] = frameId[d]
  BY <1>1, <1>2
<1>4. SourcesOrdered'
  BY <1>1 DEF OrderInv, SourcesOrdered
<1>5. CurrentEncoded'
  BY <1>1, HostAssumption DEF CurrentEncoded
<1>6. Ordered(Stream)'
  BY <1>1 DEF OrderInv, Ordered, Places
<1>7. ASSUME NEW d \in Clients, NEW i \in 1 .. Len(Stream), Latest(Stream, d, i)
      PROVE  Behind(Stream[i], d)'
  <2>1. Behind(Stream[i], d) /\ Stream[i].fid \in Nat /\ frameId[d] \in Nat
    BY <1>7, Sources, FrameTypes DEF OrderInv, StreamBehind
  <2>2. Stream[i].fid < frameId'[d]
    <3>1. CASE d = c
      <4>1. Stream[i].fid <= packetizer.fid /\ packetizer.fid = frameId[c]
        BY <1>1, <1>2, <2>1, <3>1 DEF Behind, OrderInv, CurrentEncoded
      <4> QED BY <1>3, <2>1, <3>1, <4>1
    <3>2. CASE d # c
      BY <1>3, <2>1, <3>2 DEF Behind
    <3> QED BY <3>1, <3>2
  <2> QED BY <1>1, <2>1, <2>2, HostAssumption DEF Behind
<1>8. StreamBehind'
  BY <1>1, <1>7 DEF StreamBehind, Latest, Places
<1> QED BY <1>4, <1>5, <1>6, <1>8 DEF OrderInv

LEMMA ReleaseKeepsOrder ==
    ASSUME HostInv, OrderInv, Short', PacketizerRelease
    PROVE  OrderInv'
<1> DEFINE c == packetizer.client
<1>1. /\ encodeQueue' = encodeQueue /\ encoded' = encoded /\ Stream' = Stream /\ frameId' = frameId
      /\ packetizer.step = "done"
      /\ packetizer' = [packetizer EXCEPT !.step = "frame", !.frames = Tail(@), !.frag = 0]
  BY DEF PacketizerRelease, captureVars, outVars, Stream
<1>2. packetizer.frames # <<>> /\ packetizer \in Cuts
  BY <1>1 DEF HostInv, HostTyped, CutSound
<1>3. /\ packetizer'.client = c /\ packetizer'.fid = packetizer.fid
      /\ packetizer'.frames = Tail(packetizer.frames)
  BY <1>1, <1>2 DEF Cuts
<1>4. packetizer'.frames = <<>>
  <2>1. packetizer.frames \in Seq(Frames) /\ Len(packetizer.frames) \in Nat
        /\ Len(packetizer.frames) <= 1
    BY FrameTypes DEF OrderInv, Short
  <2>2. Len(packetizer.frames) # 0
    BY <1>2, <2>1
  <2>3. Len(packetizer.frames) = 1
    BY <2>1, <2>2, AtMostOne, Zenon
  <2>4. Tail(packetizer.frames) \in Seq(Frames) /\ Len(Tail(packetizer.frames)) = 0
    BY <1>2, <2>1, <2>3
  <2>5. \A t \in Seq(Frames) : Len(t) = 0 => t = <<>>
    OBVIOUS
  <2> QED BY <1>3, <2>4, <2>5, Zenon
<1>5. SourcesOrdered'
  BY <1>1, <1>4 DEF OrderInv, SourcesOrdered
<1>6. CurrentEncoded'
  BY <1>1, <1>3, <1>4 DEF OrderInv, CurrentEncoded
<1>7. Ordered(Stream)'
  BY <1>1 DEF OrderInv, Ordered, Places
<1>8. ASSUME NEW d \in Clients, NEW i \in 1 .. Len(Stream), Latest(Stream, d, i)
      PROVE  Behind(Stream[i], d)'
  <2>1. Behind(Stream[i], d) /\ Stream[i].fid \in Nat /\ packetizer.fid \in Nat
    BY <1>8, Sources, FrameTypes DEF OrderInv, StreamBehind
  <2>2. c = d => Stream[i].fid <= packetizer.fid
    BY <1>2, <2>1 DEF Behind
  <2> QED BY <1>1, <1>3, <1>4, <2>1, <2>2 DEF Behind
<1>9. StreamBehind'
  BY <1>1, <1>8 DEF StreamBehind, Latest, Places
<1> QED BY <1>5, <1>6, <1>7, <1>9 DEF OrderInv

LEMMA PushKeepsOrder ==
    ASSUME HostInv, OrderInv, Short', PacketizerPush
    PROVE  OrderInv'
<1> DEFINE c == packetizer.client
           pkt == Video(c, packetizer.fid, packetizer.frag, Current.src)
<1>1. /\ UNCHANGED <<encodeQueue, encoded, frameId, batch>> /\ packetizer.step = "push"
      /\ \/ UNCHANGED <<sendQueue, packetizer>>
         \/ /\ sendQueue' = Pushed(pkt)
            /\ packetizer' = [packetizer EXCEPT !.step = "frame", !.frag = @ + 1]
  BY DEF PacketizerPush, captureVars
<1>2. /\ c \in Clients /\ packetizer.frames # <<>> /\ packetizer \in Cuts
      /\ packetizer.fid \in Nat /\ packetizer.frag \in Nat
  BY <1>1 DEF HostInv, HostTyped, CutSound, Cuts
<1>3. CASE UNCHANGED <<sendQueue, packetizer>>
  <2>1. Stream' = Stream
    BY <1>1, <1>3 DEF Stream
  <2>2. Ordered(Stream') /\ \A d, i : Latest(Stream', d, i) <=> Latest(Stream, d, i)
    BY <2>1 DEF OrderInv
  <2> QED BY <1>1, <1>3, <2>1, <2>2, StreamStep
<1>4. CASE sendQueue' = Pushed(pkt) /\ packetizer' = [packetizer EXCEPT !.step = "frame", !.frag = @ + 1]
  <2>1. /\ packetizer'.client = c /\ packetizer'.fid = packetizer.fid
        /\ packetizer'.frames = packetizer.frames /\ packetizer'.frag = packetizer.frag + 1
    BY <1>2, <1>4 DEF Cuts
  <2>2. Current' = Current /\ Current \in Frames /\ Current.src \in Nat
    BY <1>2, <2>1, FrameTypes, Sources DEF Current
  <2>3. /\ pkt \in Packets /\ pkt.client = c /\ pkt.kind = "video" /\ pkt.fid = packetizer.fid
        /\ pkt.frag = packetizer.frag /\ pkt.src = Current.src
    BY <1>2, <2>2 DEF Video, Packets
  <2> HIDE DEF pkt
  <2>4. Pushed(pkt) = Append(sendQueue, pkt)
    <3>1. Held = 1
      BY <1>1 DEF Held
    <3> QED BY <2>3, <3>1, PushFits
  <2>5. Stream' = Append(Stream, pkt) /\ Stream \in Seq(Packets)
    <3>1. sendQueue \in Seq(Packets) /\ batch \in Seq(Packets) /\ Stream \in Seq(Packets)
      BY FrameTypes
    <3>2. batch \o Append(sendQueue, pkt) = Append(batch \o sendQueue, pkt)
      BY <2>3, <3>1
    <3> QED BY <1>1, <1>4, <2>4, <3>1, <3>2 DEF Stream
  <2>6. ASSUME NEW i \in 1 .. Len(Stream), Latest(Stream, c, i)
        PROVE  Follows(Stream[i], pkt)
    <3>1. Behind(Stream[i], c) /\ Stream[i].fid \in Nat /\ Stream[i].src \in Nat /\ Stream[i].frag \in Nat
      BY <1>2, <2>6, Sources DEF OrderInv, StreamBehind
    <3>2. CASE packetizer.frag = 0
      <4>1. Stream[i].fid < packetizer.fid /\ Stream[i].src < Current.src
        BY <1>2, <3>1, <3>2 DEF Behind
      <4> QED BY <1>2, <2>2, <2>3, <3>1, <3>2, <4>1 DEF Follows
    <3>3. CASE packetizer.frag # 0
      <4>1. /\ Stream[i].fid = packetizer.fid /\ Stream[i].src = Current.src
            /\ Stream[i].frag + 1 = packetizer.frag
        BY <1>2, <3>1, <3>3 DEF Behind
      <4> QED BY <2>3, <4>1 DEF Follows
    <3> QED BY <3>2, <3>3
  <2>7. Ordered(Append(Stream, pkt))
    <3>1. \A d \in Clients : pkt.client = d /\ pkt.kind = "video" =>
            \A i \in 1 .. Len(Stream) : Latest(Stream, d, i) => Follows(Stream[i], pkt)
      BY <2>3, <2>6
    <3> QED BY <2>3, <2>5, <3>1, AppendOrdered DEF OrderInv
  <2>8. Ordered(Stream)'
    <3>1. Ordered(Stream')
      BY <2>5, <2>7
    <3> QED BY <3>1 DEF Ordered, Places
  <2>9. SourcesOrdered'
    BY <1>1, <2>1, <2>2 DEF OrderInv, SourcesOrdered
  <2>10. CurrentEncoded'
    BY <1>1, <2>1, <2>2 DEF OrderInv, CurrentEncoded
  <2>11. ASSUME NEW d \in Clients, NEW i \in 1 .. Len(Stream'), Latest(Stream', d, i)
         PROVE  Behind(Stream[i], d)'
    <3>0. i \in Nat
      OBVIOUS
    <3>1. IF pkt.client = d /\ pkt.kind = "video"
          THEN Append(Stream, pkt)[i] = pkt
          ELSE i \in 1 .. Len(Stream) /\ Latest(Stream, d, i) /\ Append(Stream, pkt)[i] = Stream[i]
      <4>1. Latest(Append(Stream, pkt), d, i)
        BY <2>5, <2>11
      <4> QED BY <2>3, <2>5, <3>0, <4>1, AppendLatest
    <3>2. CASE d = c
      <4>1. Stream'[i] = pkt
        BY <2>3, <2>5, <3>1, <3>2
      <4>2. pkt.src <= encoded[d]
        BY <1>2, <2>3, <3>2 DEF OrderInv, CurrentEncoded
      <4>3. \A v \in 1 .. Len(encodeQueue[d]) : encodeQueue[d][v] # <<>> =>
              pkt.src < encodeQueue[d][v][1].src
        BY <1>2, <2>3, <3>2 DEF OrderInv, SourcesOrdered
      <4>4. packetizer.frag + 1 # 0
        BY <1>2
      <4> QED BY <1>1, <1>2, <2>1, <2>2, <2>3, <3>2, <4>1, <4>2, <4>3, <4>4 DEF Behind
    <3>3. CASE d # c
      <4>1. Stream'[i] = Stream[i] /\ i \in 1 .. Len(Stream) /\ Latest(Stream, d, i)
        BY <2>3, <2>5, <3>1, <3>3
      <4>2. Behind(Stream[i], d)
        BY <4>1 DEF OrderInv, StreamBehind
      <4> QED BY <1>1, <2>1, <3>3, <4>1, <4>2 DEF Behind
    <3> QED BY <3>2, <3>3
  <2>12. StreamBehind'
    BY <2>11 DEF StreamBehind, Latest, Places
  <2> QED BY <2>8, <2>9, <2>10, <2>12 DEF OrderInv
<1> QED BY <1>1, <1>3, <1>4

\* The packetizer between two pushes moves no frame and no packet.
LEMMA WaitKeepsOrder ==
    ASSUME HostInv, OrderInv, Short', PacketizerRound \/ PacketizerAcquire \/ PacketizerEncrypt
    PROVE  OrderInv'
<1>1. UNCHANGED <<encodeQueue, encoded, frameId, sendQueue, batch>>
  BY DEF PacketizerRound, PacketizerAcquire, PacketizerEncrypt, captureVars, outVars
<1>2. packetizer \in Cuts
  BY DEF HostInv, HostTyped
<1>3. /\ packetizer'.client = packetizer.client /\ packetizer'.frames = packetizer.frames
      /\ packetizer'.fid = packetizer.fid /\ packetizer'.frag = packetizer.frag
  <2>1. CASE PacketizerRound
    BY <1>2, <2>1 DEF PacketizerRound, Cuts
  <2>2. CASE PacketizerAcquire
    BY <1>2, <2>2 DEF PacketizerAcquire, Cuts
  <2>3. CASE PacketizerEncrypt
    BY <1>2, <2>3 DEF PacketizerEncrypt, Cuts
  <2> QED BY <2>1, <2>2, <2>3
<1>4. Stream' = Stream
  BY <1>1 DEF Stream
<1>5. Ordered(Stream') /\ \A d, i : Latest(Stream', d, i) <=> Latest(Stream, d, i)
  BY <1>4 DEF OrderInv
<1> QED BY <1>1, <1>3, <1>4, <1>5, StreamStep

(***************************************************************************)
(* The audio threads and the receiver add packets that are no client's     *)
(* video; the sender takes the first ones.                                 *)
(***************************************************************************)
LEMMA OutputKeepsOrder ==
    ASSUME HostInv, OrderInv, Short',
           Enqueuers \/ Sender \/ CaptureFrame \/ (\E c \in Clients : TimeOut(c))
             \/ StopSession \/ SenderLeaves \/ UNCHANGED hostVars
    PROVE  OrderInv'
<1> USE DEF cutVars, captureVars, outVars
<1>1. UNCHANGED <<encodeQueue, encoded, frameId, packetizer>>
  BY DEF Enqueuers, AudioAcquire, AudioSend, Retransmit, Sender, SenderPop, SenderSend, CaptureFrame,
         TimeOut, StopSession, SenderLeaves, hostVars
<1>2. sendQueue \in Seq(Packets) /\ batch \in Seq(Packets) /\ Stream \in Seq(Packets)
  BY FrameTypes
<1>3. Other \in Packets /\ Other.client = NoClient
  BY DEF Other, Packets
<1>4. CASE UNCHANGED <<sendQueue, batch>>
  <2>1. Stream' = Stream
    BY <1>4 DEF Stream
  <2>2. Ordered(Stream') /\ \A d, i : Latest(Stream', d, i) <=> Latest(Stream, d, i)
    BY <2>1 DEF OrderInv
  <2> QED BY <1>1, <2>1, <2>2, StreamStep
<1>5. CASE sendQueue' = Pushed(Other) /\ batch' = batch /\ (udpPool > 0 \/ audio # {})
  <2>1. Pushed(Other) = Append(sendQueue, Other)
    BY <1>3, <1>5, PushFits
  <2>2. Stream' = Append(Stream, Other)
    <3>1. batch \o Append(sendQueue, Other) = Append(batch \o sendQueue, Other)
      BY <1>2, <1>3
    <3> QED BY <1>5, <2>1, <3>1 DEF Stream
  <2>3. Ordered(Stream')
    <3>1. \A c \in Clients : Other.client # c
      BY <1>3, HostAssumption
    <3> QED BY <1>2, <1>3, <2>2, <3>1, AppendOrdered DEF OrderInv
  <2>4. ASSUME NEW c \in Clients, NEW i \in 1 .. Len(Stream'), Latest(Stream', c, i)
        PROVE  i \in 1 .. Len(Stream) /\ Latest(Stream, c, i) /\ Stream'[i] = Stream[i]
    <3>1. i \in Nat /\ Other.client # c /\ Latest(Append(Stream, Other), c, i)
      BY <1>3, <2>2, <2>4, HostAssumption
    <3>2. i \in 1 .. Len(Stream) /\ Latest(Stream, c, i) /\ Append(Stream, Other)[i] = Stream[i]
      BY <1>2, <1>3, <3>1, AppendLatest
    <3> QED BY <2>2, <3>2
  <2> QED BY <1>1, <2>3, <2>4, StreamStep
<1>6. CASE SenderPop
  <2>1. /\ sendQueue # <<>> /\ batch' = Append(batch, Head(sendQueue)) /\ sendQueue' = Tail(sendQueue)
    BY <1>6 DEF SenderPop
  <2>2. Append(batch, Head(sendQueue)) \o Tail(sendQueue) = batch \o sendQueue
    BY <1>2, <2>1
  <2>3. Stream' = Stream
    BY <2>1, <2>2 DEF Stream
  <2>4. Ordered(Stream') /\ \A d, i : Latest(Stream', d, i) <=> Latest(Stream, d, i)
    BY <2>3 DEF OrderInv
  <2> QED BY <1>1, <2>3, <2>4, StreamStep
<1>7. CASE SenderSend
  <2>1. batch' = <<>> /\ sendQueue' = sendQueue
    BY <1>7 DEF SenderSend
  <2>2. <<>> \o sendQueue = sendQueue
    BY <1>2
  <2>3. Stream' = sendQueue
    BY <2>1, <2>2 DEF Stream
  <2>4. /\ Len(batch) \in Nat /\ Len(Stream) = Len(sendQueue) + Len(batch)
        /\ \A i \in 1 .. Len(sendQueue) : sendQueue[i] = Stream[i + Len(batch)]
    BY <1>2 DEF Stream
  <2>5. /\ Ordered(sendQueue)
        /\ \A c \in Clients, i \in 1 .. Len(sendQueue) : Latest(sendQueue, c, i) =>
             Latest(Stream, c, i + Len(batch)) /\ i + Len(batch) \in 1 .. Len(Stream)
    BY <1>2, <2>4, RestOrdered DEF OrderInv
  <2>6. \A c \in Clients, i \in 1 .. Len(sendQueue) : Latest(sendQueue, c, i) =>
          \E k \in 1 .. Len(Stream) : Latest(Stream, c, k) /\ sendQueue[i] = Stream[k]
    BY <2>4, <2>5
  <2> QED BY <1>1, <2>3, <2>5, <2>6, StreamStep
<1>8. CASE Enqueuers
  BY <1>4, <1>5, <1>8 DEF Enqueuers, AudioAcquire, AudioSend, Retransmit
<1>9. CASE CaptureFrame \/ (\E c \in Clients : TimeOut(c)) \/ StopSession \/ SenderLeaves
           \/ UNCHANGED hostVars
  BY <1>4, <1>9 DEF CaptureFrame, TimeOut, StopSession, SenderLeaves, hostVars
<1> QED BY <1>6, <1>7, <1>8, <1>9 DEF Sender

-----------------------------------------------------------------------------
FlowInv == FrameInv /\ OrderInv

LEMMA InitEstablishesFlow == HostInit => FlowInv
<1> SUFFICES ASSUME HostInit PROVE FlowInv
  OBVIOUS
<1>1. /\ encodeQueue = [c \in Clients |-> <<>>] /\ packetizer.frames = <<>>
      /\ packetizer.client = NoClient /\ packetPool = PacketPool
      /\ sendQueue = <<>> /\ batch = <<>>
  BY DEF HostInit, Idle
<1>2. \A c \in Clients : Len(encodeQueue[c]) = 0 /\ \A v : v \notin 1 .. Len(encodeQueue[c])
  BY <1>1
<1>3. Short
  BY <1>1, <1>2 DEF Short
<1>4. QueuedFrames = {}
  BY <1>2 DEF QueuedFrames
<1>5. FramesBalanced
  <2>1. PacketPool + 0 + 0 = PacketPool
    BY HostAssumption
  <2> QED BY <1>1, <1>4, <2>1, FS_EmptySet DEF FramesBalanced, FramesAccounted
<1>6. SourcesOrdered
  BY <1>2 DEF SourcesOrdered
<1>7. CurrentEncoded
  BY <1>1, HostAssumption DEF CurrentEncoded
<1>8. \A i : i \notin 1 .. Len(Stream)
  BY <1>1 DEF Stream
<1>9. Ordered(Stream) /\ StreamBehind
  BY <1>8 DEF Ordered, Places, StreamBehind
<1> QED BY <1>3, <1>5, <1>6, <1>7, <1>9 DEF FlowInv, FrameInv, OrderInv

LEMMA StepKeepsFlow == HostInv /\ FlowInv /\ [HostNext]_hostVars => FlowInv'
<1> SUFFICES ASSUME HostInv, FlowInv, [HostNext]_hostVars PROVE FlowInv'
  OBVIOUS
<1>1. FrameInv /\ OrderInv
  BY DEF FlowInv
<1>2. ASSUME FrameInv' PROVE Short'
  BY <1>2 DEF FrameInv
<1>3. ASSUME NEW c \in Clients, Encode(c) PROVE FlowInv'
  <2>1. FrameInv'
    BY <1>1, <1>3, EncodeKeepsFrames
  <2> QED BY <1>1, <1>2, <1>3, <2>1, EncodeKeepsOrder DEF FlowInv
<1>4. ASSUME NEW c \in Clients, PacketizerPop(c) PROVE FlowInv'
  <2>1. FrameInv'
    BY <1>1, <1>4, PopKeepsFrames
  <2> QED BY <1>1, <1>2, <1>4, <2>1, PopKeepsOrder DEF FlowInv
<1>5. CASE PacketizerRelease
  <2>1. FrameInv'
    BY <1>1, <1>5, ReleaseKeepsFrames
  <2> QED BY <1>1, <1>2, <1>5, <2>1, ReleaseKeepsOrder DEF FlowInv
<1>6. CASE PacketizerNextId
  <2>1. packetPool' = packetPool /\ encodeQueue' = encodeQueue /\ packetizer'.frames = packetizer.frames
    BY <1>6 DEF PacketizerNextId, Idle
  <2>2. FrameInv'
    BY <1>1, <2>1, FramesStay
  <2> QED BY <1>1, <1>2, <1>6, <2>2, NextIdKeepsOrder DEF FlowInv
<1>7. CASE PacketizerPush
  <2>1. packetPool' = packetPool /\ encodeQueue' = encodeQueue /\ packetizer'.frames = packetizer.frames
    BY <1>7 DEF PacketizerPush, HostInv, HostTyped, Cuts
  <2>2. FrameInv'
    BY <1>1, <2>1, FramesStay
  <2> QED BY <1>1, <1>2, <1>7, <2>2, PushKeepsOrder DEF FlowInv
<1>8. CASE PacketizerRound \/ PacketizerAcquire \/ PacketizerEncrypt
  <2>1. packetPool' = packetPool /\ encodeQueue' = encodeQueue /\ packetizer'.frames = packetizer.frames
    <3>1. packetizer \in Cuts
      BY DEF HostInv, HostTyped
    <3> QED BY <1>8, <3>1 DEF PacketizerRound, PacketizerAcquire, PacketizerEncrypt, Cuts
  <2>2. FrameInv'
    BY <1>1, <2>1, FramesStay
  <2> QED BY <1>1, <1>2, <1>8, <2>2, WaitKeepsOrder DEF FlowInv
<1>9. CASE Enqueuers \/ Sender \/ CaptureFrame \/ (\E c \in Clients : TimeOut(c))
             \/ StopSession \/ SenderLeaves \/ UNCHANGED hostVars
  <2>1. packetPool' = packetPool /\ encodeQueue' = encodeQueue /\ packetizer'.frames = packetizer.frames
    BY <1>9 DEF Enqueuers, AudioAcquire, AudioSend, Retransmit, Sender, SenderPop, SenderSend,
                CaptureFrame, TimeOut, StopSession, SenderLeaves, hostVars, cutVars
  <2>2. FrameInv'
    BY <1>1, <2>1, FramesStay
  <2> QED BY <1>1, <1>2, <1>9, <2>2, OutputKeepsOrder DEF FlowInv
<1> QED BY <1>3, <1>4, <1>5, <1>6, <1>7, <1>8, <1>9 DEF HostNext, Capture, Packetizer, Stopped

\* The frames and the packets keep their order in every state that is reached.
THEOREM FlowInvariant == HostSpec => [](HostInv /\ FlowInv)
<1>1. HostInit => FlowInv
  BY InitEstablishesFlow
<1>2. HostInv /\ FlowInv /\ [HostNext]_hostVars => FlowInv'
  BY StepKeepsFlow
<1> QED BY <1>1, <1>2, HostInvariant, PTL DEF HostSpec

\* Each buffer of packetPool is free, waits in a queue or is being cut up,
\* whatever a full queue drops or an empty udpPool cuts off.
THEOREM FramesStayAccounted == HostSpec => []FramesAccounted
<1>1. HostInv /\ FlowInv => FramesAccounted
  BY DEF FlowInv, FrameInv, FramesBalanced
<1> QED BY <1>1, FlowInvariant, PTL

\* The packets of a client leave in the order of its frames and fragments.
THEOREM StreamStaysInOrder == HostSpec => []StreamInOrder
<1>1. HostInv /\ FlowInv => StreamInOrder
  <2>1. Ordered(batch \o sendQueue) => StreamInOrder
    BY DEF Ordered, Places, StreamInOrder
  <2> QED BY <2>1 DEF FlowInv, OrderInv, Stream
<1> QED BY <1>1, FlowInvariant, PTL

-----------------------------------------------------------------------------
(***************************************************************************)
(* LockFreeQueue.  The remainders are dealt with once, in lemmas that say  *)
(* what Succ, Dist and Slot are without them.  That there is one producer  *)
(* is an assumption of the theorems, not of the module: the run send_queue *)
(* shows what two producers do.                                            *)
(***************************************************************************)
\* a % m is the remainder, and m divides the rest.
LEMMA Remainder ==
    ASSUME NEW a \in Int, NEW m \in Nat \ {0}
    PROVE  /\ (a % m) \in 0 .. m - 1
           /\ \E q \in Int : a = m * q + (a % m)
  <1>1. (a % m) \in 0 .. m - 1
    BY SMT
  <1>2. (a \div m) \in Int
    BY SMT
  <1>3. a = m * (a \div m) + (a % m)
    BY SMT
  <1> QED
    BY <1>1, <1>2, <1>3

\* Below m the remainder is the number itself.
LEMMA RemainderUnique ==
    ASSUME NEW a \in Int, NEW m \in Nat \ {0}, NEW q \in Int, NEW r \in 0 .. m - 1,
           a = m * q + r
    PROVE  (a % m) = r
  BY SMT

\* No multiple of m lies strictly between 0 and m.
LEMMA Between ==
    ASSUME NEW m \in Nat \ {0}, NEW e \in Int
    PROVE  ~ (0 < m * e /\ m * e < m)
  BY SMT

\* Two numbers less than m apart leave different remainders modulo m.
LEMMA RemaindersDiffer ==
    ASSUME NEW a \in Int, NEW b \in Int, NEW m \in Nat \ {0}, b < a, a - b < m
    PROVE  (a % m) # (b % m)
  <1> SUFFICES ASSUME (a % m) = (b % m) PROVE FALSE
    OBVIOUS
  <1>1. PICK q \in Int : a = m * q + (a % m)
    BY Remainder
  <1>2. PICK r \in Int : b = m * r + (b % m)
    BY Remainder
  <1>3. /\ (a % m) \in Int
        /\ (b % m) \in Int
    BY Remainder
  <1>4. a - b = m * (q - r)
    BY <1>1, <1>2, <1>3
  <1> QED
    BY <1>4, Between

-----------------------------------------------------------------------------
\* What the proofs use of the constants, but for the multiple.
LEMMA Sizes ==
    /\ Capacity \in Nat \ {0}
    /\ IndexMod \in Nat \ {0}
    /\ Capacity < IndexMod
  BY QueueAssumption

\* The arithmetic of the indices, without remainders.
LEMMA SuccOf ==
    ASSUME NEW i \in Index
    PROVE  /\ Succ(i) \in Index
           /\ i + 1 < IndexMod => Succ(i) = i + 1
           /\ i + 1 = IndexMod => Succ(i) = 0
  <1>1. /\ i \in Nat
        /\ i + 1 \in Nat
        /\ i + 1 <= IndexMod
    BY Sizes DEF Index
  <1>2. CASE i + 1 < IndexMod
    <2>1. ((i + 1) % IndexMod) = i + 1
      BY <1>1, <1>2, Sizes
    <2> QED
      BY <2>1, <1>1, <1>2, Sizes DEF Succ, Index
  <1>3. CASE i + 1 = IndexMod
    <2>1. ((i + 1) % IndexMod) = (i + 1) - IndexMod
      BY <1>1, <1>3, Sizes
    <2>2. Succ(i) = 0
      BY <2>1, <1>1, <1>3, Sizes DEF Succ
    <2> QED
      BY <2>2, <1>1, <1>3, Sizes DEF Index
  <1> QED
    BY <1>1, <1>2, <1>3, Sizes

\* The unsigned difference t - h.
LEMMA DistOf ==
    ASSUME NEW t \in Index, NEW h \in Index
    PROVE  /\ Dist(t, h) \in Index
           /\ h <= t => Dist(t, h) = t - h
           /\ t < h => Dist(t, h) = t - h + IndexMod
  <1>1. /\ t \in Nat /\ t < IndexMod
        /\ h \in Nat /\ h < IndexMod
    BY Sizes DEF Index
  <1>2. CASE h <= t
    <2>1. ((t - h) % IndexMod) = t - h
      BY <1>1, <1>2, Sizes
    <2> QED
      BY <2>1, <1>1, <1>2, Sizes DEF Dist, Index
  <1>3. CASE t < h
    <2>1. ((t - h) % IndexMod) = t - h + IndexMod
      BY <1>1, <1>3, Sizes
    <2> QED
      BY <2>1, <1>1, <1>3, Sizes DEF Dist, Index
  <1> QED
    BY <1>1, <1>2, <1>3

\* A slot lies in the buffer.
LEMMA SlotOf ==
    ASSUME NEW i \in Index
    PROVE  Slot(i) \in 0 .. Capacity - 1
  <1>1. i \in Int
    BY Sizes DEF Index
  <1> QED
    BY <1>1, Sizes, Remainder DEF Slot

\* Indices less than Capacity apart have different slots, across the wrap too:
\* IndexMod is a multiple of Capacity.
LEMMA SlotsDiffer ==
    ASSUME NEW t \in Index, NEW h \in Index, 0 < Dist(t, h), Dist(t, h) < Capacity
    PROVE  Slot(t) # Slot(h)
  <1>1. /\ t \in Int /\ h \in Int /\ IndexMod \in Int
        /\ t < IndexMod /\ h < IndexMod
    BY Sizes DEF Index
  <1>2. CASE h <= t
    <2>1. h < t /\ t - h < Capacity
      BY <1>1, <1>2, DistOf
    <2> QED
      BY <2>1, <1>1, Sizes, RemaindersDiffer DEF Slot
  <1>3. CASE t < h
    <2>1. ((t + IndexMod) % Capacity) # (h % Capacity)
      <3>1. /\ t + IndexMod \in Int
            /\ h < t + IndexMod
            /\ (t + IndexMod) - h < Capacity
        BY <1>1, <1>3, Sizes, DistOf
      <3> QED
        BY <3>1, <1>1, Sizes, RemaindersDiffer
    <2>2. ((t + IndexMod) % Capacity) = (t % Capacity)
      <3>1. PICK k \in Int : IndexMod = Capacity * k
        <4>1. PICK k \in Int : IndexMod = Capacity * k + (IndexMod % Capacity)
          BY <1>1, Sizes, Remainder
        <4> QED
          BY <4>1, <1>1, QueueAssumption
      <3>2. PICK q \in Int : t = Capacity * q + (t % Capacity)
        BY <1>1, Sizes, Remainder
      <3>3. PICK r \in 0 .. Capacity - 1 : r = (t % Capacity)
        BY <1>1, Sizes, Remainder
      <3>4. PICK a \in Int, e \in Int : a = t + IndexMod /\ e = q + k
        BY <1>1
      <3>5. a = Capacity * e + r
        BY <3>1, <3>2, <3>3, <3>4, <1>1, Sizes
      <3>6. (a % Capacity) = r
        BY <3>5, Sizes, RemainderUnique
      <3> QED
        BY <3>3, <3>4, <3>6
    <2> QED
      BY <2>1, <2>2 DEF Slot
  <1> QED
    BY <1>1, <1>2, <1>3

\* The queue is empty when the indices are equal, as pop tests it.
LEMMA SizeZero ==
    ASSUME NEW t \in Index, NEW h \in Index
    PROVE  Dist(t, h) = 0 <=> t = h
  <1>1. /\ t \in Int /\ h \in Int
        /\ t < IndexMod /\ h < IndexMod
        /\ 0 <= t /\ 0 <= h
    BY Sizes DEF Index
  <1> QED
    BY <1>1, DistOf, Sizes

\* A published item makes the queue one longer, a taken one one shorter.
LEMMA DistPut ==
    ASSUME NEW t \in Index, NEW h \in Index, Dist(t, h) < Capacity
    PROVE  Dist(Succ(t), h) = Dist(t, h) + 1
  <1>1. /\ t \in Int /\ h \in Int
        /\ t < IndexMod /\ h < IndexMod
        /\ 0 <= t /\ 0 <= h
    BY Sizes DEF Index
  <1>2. CASE t + 1 < IndexMod
    <2>1. Succ(t) = t + 1 /\ Succ(t) \in Index
      BY <1>2, SuccOf
    <2> QED
      BY <1>1, <2>1, DistOf, Sizes
  <1>3. CASE t + 1 = IndexMod
    <2>1. Succ(t) = 0 /\ Succ(t) \in Index
      BY <1>3, SuccOf
    <2> QED
      BY <1>1, <1>3, <2>1, DistOf, Sizes
  <1> QED
    BY <1>1, <1>2, <1>3, Sizes

\* The head's step takes one away.
LEMMA DistTake ==
    ASSUME NEW t \in Index, NEW h \in Index, t # h
    PROVE  Dist(t, Succ(h)) = Dist(t, h) - 1
  <1>1. /\ t \in Int /\ h \in Int
        /\ t < IndexMod /\ h < IndexMod
        /\ 0 <= t /\ 0 <= h
    BY Sizes DEF Index
  <1>2. CASE h + 1 < IndexMod
    <2>1. Succ(h) = h + 1 /\ Succ(h) \in Index
      BY <1>2, SuccOf
    <2> QED
      BY <1>1, <2>1, DistOf, Sizes
  <1>3. CASE h + 1 = IndexMod
    <2>1. Succ(h) = 0 /\ Succ(h) \in Index
      BY <1>3, SuccOf
    <2> QED
      BY <1>1, <1>3, <2>1, DistOf, Sizes
  <1> QED
    BY <1>1, <1>2, <1>3, Sizes

-----------------------------------------------------------------------------
\* encodeQueue has the one producer that the class is written for.
OneProducer == \A p, q \in Producers : p = q

\* The inductive invariant.  What a thread loaded of its own index stays true,
\* as it alone stores it; what it concluded from the other's index can only
\* become truer: the consumer makes room, the producer adds.
PushLoaded ==
    \A p \in Producers :
        /\ push[p].pc \in {"head", "write", "store"} => push[p].tail = m_tail
        /\ push[p].pc \in {"head", "write"} => push[p].item \in Items
        /\ push[p].pc \in {"write", "store"} => Size < Capacity
        /\ push[p].pc = "store" => m_buffer[Slot(m_tail)] \in Items

PopLoaded ==
    /\ pop.pc \in {"tail", "move", "store"} => pop.head = m_head
    /\ pop.pc \in {"move", "store"} => m_tail # m_head

QueueInv == QueueTypeOK /\ NeverOverfull /\ PushLoaded /\ PopLoaded

\* The ring starts empty, nobody calling it.
LEMMA QueueInvInit == QueueInit => QueueInv
  <1> SUFFICES ASSUME QueueInit PROVE QueueInv
    OBVIOUS
  <1>1. 0 \in Index
    BY Sizes DEF Index
  <1>2. QueueTypeOK
    BY <1>1 DEF QueueInit, QueueTypeOK, PushState, PopState
  <1>3. Size = 0
    BY <1>1, SizeZero DEF QueueInit, Size
  <1>4. NeverOverfull
    BY <1>3, Sizes DEF NeverOverfull
  <1>5. PushLoaded /\ PopLoaded
    BY DEF QueueInit, PushLoaded, PopLoaded
  <1> QED
    BY <1>2, <1>4, <1>5 DEF QueueInv

\* Types are kept by every step, whatever the number of producers.
LEMMA TypeStep == QueueTypeOK /\ [QueueNext]_queueVars => QueueTypeOK'
  <1> SUFFICES ASSUME QueueTypeOK, [QueueNext]_queueVars PROVE QueueTypeOK'
    OBVIOUS
  <1> USE DEF QueueTypeOK
  <1>1. ASSUME NEW p \in Producers, NEW item \in Items, PushLoadTail(p, item)
        PROVE  QueueTypeOK'
    BY <1>1 DEF PushLoadTail, PushState
  <1>2. ASSUME NEW p \in Producers, PushLoadHead(p)
        PROVE  QueueTypeOK'
    BY <1>2 DEF PushLoadHead, PushState
  <1>3. ASSUME NEW p \in Producers, PushWrite(p)
        PROVE  QueueTypeOK'
    <2>1. push[p].tail \in Index /\ push[p].item \in Items \cup {Null}
      BY DEF PushState
    <2>2. Slot(push[p].tail) \in 0 .. Capacity - 1
      BY <2>1, SlotOf
    <2>3. m_buffer' \in [0 .. Capacity - 1 -> Items \cup {Null}]
      BY <1>3, <2>1, <2>2 DEF PushWrite
    <2>4. push' \in [Producers -> PushState]
      BY <1>3 DEF PushWrite, PushState
    <2> QED
      BY <1>3, <2>3, <2>4 DEF PushWrite
  <1>4. ASSUME NEW p \in Producers, PushStoreTail(p)
        PROVE  QueueTypeOK'
    <2>1. push[p].tail \in Index
      BY DEF PushState
    <2>2. m_tail' \in Index
      BY <1>4, <2>1, SuccOf DEF PushStoreTail
    <2>3. push' \in [Producers -> PushState]
      BY <1>4 DEF PushStoreTail, PushState
    <2> QED
      BY <1>4, <2>2, <2>3 DEF PushStoreTail
  <1>5. ASSUME NEW p \in Producers, PushReturn(p)
        PROVE  QueueTypeOK'
    <2>1. 0 \in Index
      BY Sizes DEF Index
    <2> QED
      BY <1>5, <2>1 DEF PushReturn, PushState
  <1>6. CASE PopLoadHead
    BY <1>6 DEF PopLoadHead, PopState
  <1>7. CASE PopLoadTail
    BY <1>7 DEF PopLoadTail, PopState
  <1>8. CASE PopMove
    <2>1. pop.head \in Index
      BY DEF PopState
    <2>2. Slot(pop.head) \in 0 .. Capacity - 1
      BY <2>1, SlotOf
    <2>3. m_buffer' \in [0 .. Capacity - 1 -> Items \cup {Null}]
      BY <1>8, <2>2 DEF PopMove
    <2>4. pop' \in PopState
      BY <1>8, <2>2 DEF PopMove, PopState
    <2> QED
      BY <1>8, <2>3, <2>4 DEF PopMove
  <1>9. CASE PopStoreHead
    <2>1. pop.head \in Index
      BY DEF PopState
    <2>2. m_head' \in Index
      BY <1>9, <2>1, SuccOf DEF PopStoreHead
    <2>3. pop' \in PopState
      BY <1>9 DEF PopStoreHead, PopState
    <2> QED
      BY <1>9, <2>2, <2>3 DEF PopStoreHead
  <1>10. CASE PopReturn
    <2>1. 0 \in Index
      BY Sizes DEF Index
    <2> QED
      BY <1>10, <2>1 DEF PopReturn, PopState
  <1>11. CASE UNCHANGED queueVars
    BY <1>11 DEF queueVars
  <1> QED
    BY <1>1, <1>2, <1>3, <1>4, <1>5, <1>6, <1>7, <1>8, <1>9, <1>10, <1>11
       DEF QueueNext, PushStep, PopStep

\* The steps of a producer, with nobody else pushing.
LEMMA PushKeeps ==
    ASSUME OneProducer, QueueInv, QueueTypeOK', NEW p \in Producers, PushStep(p)
    PROVE  QueueInv'
  <1> USE DEF QueueInv
  <1>0. /\ m_head \in Index /\ m_tail \in Index
        /\ push \in [Producers -> PushState]
        /\ Producers = {p}
    BY DEF QueueTypeOK, OneProducer
  <1>1. Size \in Index
    BY <1>0, DistOf DEF Size
  <1>2. ASSUME NEW item \in Items, PushLoadTail(p, item)
        PROVE  QueueInv'
    <2>1. Size' = Size
      BY <1>2 DEF PushLoadTail, Size
    <2>2. PushLoaded'
      BY <1>0, <1>2 DEF PushLoadTail, PushLoaded
    <2>3. PopLoaded' /\ NeverOverfull'
      BY <1>2, <2>1 DEF PushLoadTail, PopLoaded, NeverOverfull
    <2> QED
      BY <2>2, <2>3
  <1>3. CASE PushLoadHead(p)
    <2>1. Size' = Size
      BY <1>3 DEF PushLoadHead, Size
    <2>2. PushLoaded'
      <3>1. CASE Full(push[p].tail, m_head)
        BY <1>0, <1>3, <3>1 DEF PushLoadHead, PushLoaded
      <3>2. CASE ~ Full(push[p].tail, m_head)
        <4>1. Size < Capacity
          BY <1>0, <1>1, <1>3, <3>2, Sizes DEF PushLoadHead, PushLoaded, Full, Size, Index
        <4>2. push' = [push EXCEPT ![p] = [@ EXCEPT !.pc = "write"]]
          BY <1>3, <3>2 DEF PushLoadHead
        <4> QED
          BY <1>0, <1>3, <2>1, <4>1, <4>2 DEF PushLoadHead, PushLoaded
      <3> QED
        BY <3>1, <3>2
    <2>3. PopLoaded' /\ NeverOverfull'
      BY <1>3, <2>1 DEF PushLoadHead, PopLoaded, NeverOverfull
    <2> QED
      BY <2>2, <2>3
  <1>4. CASE PushWrite(p)
    <2>1. Size' = Size
      BY <1>4 DEF PushWrite, Size
    <2>2. PushLoaded'
      <3>1. push[p].tail = m_tail /\ push[p].item \in Items /\ Size < Capacity
        BY <1>4 DEF PushWrite, PushLoaded
      <3>2. m_buffer'[Slot(m_tail)] \in Items
        BY <1>0, <1>4, <3>1, SlotOf DEF PushWrite, QueueTypeOK
      <3>3. m_tail' = m_tail
        BY <1>4 DEF PushWrite
      <3>4. push' = [push EXCEPT ![p] = [@ EXCEPT !.pc = "store", !.item = Null]]
        BY <1>4 DEF PushWrite
      <3> QED
        BY <1>0, <2>1, <3>1, <3>2, <3>3, <3>4 DEF PushLoaded
    <2>3. PopLoaded' /\ NeverOverfull'
      BY <1>4, <2>1 DEF PushWrite, PopLoaded, NeverOverfull
    <2> QED
      BY <2>2, <2>3
  <1>5. CASE PushStoreTail(p)
    <2>1. push[p].tail = m_tail /\ Size < Capacity
      BY <1>5 DEF PushStoreTail, PushLoaded
    <2>2. m_tail' = Succ(m_tail) /\ m_head' = m_head
      BY <1>5, <2>1 DEF PushStoreTail
    <2>3. Size' = Size + 1
      BY <1>0, <2>1, <2>2, DistPut DEF Size
    <2>4. PushLoaded'
      BY <1>0, <1>5 DEF PushStoreTail, PushLoaded
    <2>5. m_tail' \in Index /\ m_head' \in Index
      BY DEF QueueTypeOK
    <2>6. m_tail' # m_head'
      BY <1>1, <2>3, <2>5, SizeZero DEF Size, Index
    <2>7. PopLoaded'
      BY <1>5, <2>6 DEF PushStoreTail, PopLoaded
    <2>8. NeverOverfull'
      BY <1>1, <2>1, <2>3, Sizes DEF NeverOverfull, Index
    <2> QED
      BY <2>4, <2>7, <2>8
  <1>6. CASE PushReturn(p)
    <2>1. Size' = Size
      BY <1>6 DEF PushReturn, Size
    <2>2. PushLoaded'
      BY <1>0, <1>6 DEF PushReturn, PushLoaded
    <2>3. PopLoaded' /\ NeverOverfull'
      BY <1>6, <2>1 DEF PushReturn, PopLoaded, NeverOverfull
    <2> QED
      BY <2>2, <2>3
  <1> QED
    BY <1>2, <1>3, <1>4, <1>5, <1>6 DEF PushStep

\* The steps of the consumer.
LEMMA PopKeeps ==
    ASSUME QueueInv, QueueTypeOK', PopStep
    PROVE  QueueInv'
  <1> USE DEF QueueInv
  <1>0. /\ m_head \in Index /\ m_tail \in Index
        /\ pop \in PopState
    BY DEF QueueTypeOK
  <1>1. Size \in Index
    BY <1>0, DistOf DEF Size
  <1>2. CASE PopLoadHead
    <2>1. Size' = Size
      BY <1>2 DEF PopLoadHead, Size
    <2>2. PushLoaded' /\ NeverOverfull'
      BY <1>2, <2>1 DEF PopLoadHead, PushLoaded, NeverOverfull
    <2>3. PopLoaded'
      BY <1>0, <1>2 DEF PopLoadHead, PopLoaded, PopState
    <2> QED
      BY <2>2, <2>3
  <1>3. CASE PopLoadTail
    <2>1. Size' = Size
      BY <1>3 DEF PopLoadTail, Size
    <2>2. PushLoaded' /\ NeverOverfull'
      BY <1>3, <2>1 DEF PopLoadTail, PushLoaded, NeverOverfull
    <2>3. PopLoaded'
      BY <1>0, <1>3 DEF PopLoadTail, PopLoaded, PopState, Empty
    <2> QED
      BY <2>2, <2>3
  <1>4. CASE PopMove
    <2>1. Size' = Size
      BY <1>4 DEF PopMove, Size
    <2>2. pop.head = m_head /\ m_tail # m_head
      BY <1>4 DEF PopMove, PopLoaded
    <2>3. Size > 0
      BY <1>0, <1>1, <2>2, SizeZero DEF Size, Index
    <2>4. ASSUME NEW q \in Producers, push[q].pc = "store"
          PROVE  m_buffer'[Slot(m_tail)] \in Items
      <3>1. Size < Capacity /\ m_buffer[Slot(m_tail)] \in Items
        BY <2>4 DEF PushLoaded
      <3>2. Slot(m_tail) # Slot(m_head)
        BY <1>0, <2>3, <3>1, SlotsDiffer DEF Size
      <3>3. m_buffer' = [m_buffer EXCEPT ![Slot(m_head)] = Null]
        BY <1>4, <2>2 DEF PopMove
      <3>4. Slot(m_tail) \in 0 .. Capacity - 1
        BY <1>0, SlotOf
      <3> QED
        BY <3>1, <3>2, <3>3, <3>4 DEF QueueTypeOK
    <2>5. PushLoaded'
      BY <1>4, <2>1, <2>4 DEF PopMove, PushLoaded
    <2>6. PopLoaded' /\ NeverOverfull'
      BY <1>0, <1>4, <2>1, <2>2 DEF PopMove, PopLoaded, PopState, NeverOverfull
    <2> QED
      BY <2>5, <2>6
  <1>5. CASE PopStoreHead
    <2>1. pop.head = m_head /\ m_tail # m_head
      BY <1>5 DEF PopStoreHead, PopLoaded
    <2>2. m_head' = Succ(m_head) /\ m_tail' = m_tail
      BY <1>5, <2>1 DEF PopStoreHead
    <2>3. Size' = Size - 1
      BY <1>0, <2>1, <2>2, DistTake DEF Size
    <2>4. NeverOverfull'
      BY <1>1, <2>3, Sizes DEF NeverOverfull, Index
    <2>5. ASSUME NEW q \in Producers, Size < Capacity
          PROVE  Size' < Capacity
      BY <1>1, <2>3, <2>5, Sizes DEF Index
    <2>6. PushLoaded'
      BY <1>5, <2>2, <2>5 DEF PopStoreHead, PushLoaded
    <2>7. PopLoaded'
      BY <1>0, <1>5 DEF PopStoreHead, PopLoaded, PopState
    <2> QED
      BY <2>4, <2>6, <2>7
  <1>6. CASE PopReturn
    <2>1. Size' = Size
      BY <1>6 DEF PopReturn, Size
    <2>2. PushLoaded' /\ NeverOverfull'
      BY <1>6, <2>1 DEF PopReturn, PushLoaded, NeverOverfull
    <2>3. PopLoaded'
      BY <1>0, <1>6 DEF PopReturn, PopLoaded, PopState
    <2> QED
      BY <2>2, <2>3
  <1> QED
    BY <1>2, <1>3, <1>4, <1>5, <1>6 DEF PopStep

\* Every step keeps the invariant.
LEMMA QueueInvStep ==
    ASSUME OneProducer
    PROVE  QueueInv /\ [QueueNext]_queueVars => QueueInv'
  <1> SUFFICES ASSUME QueueInv, [QueueNext]_queueVars PROVE QueueInv'
    OBVIOUS
  <1>1. QueueTypeOK'
    BY TypeStep DEF QueueInv
  <1>2. CASE UNCHANGED queueVars
    BY <1>2 DEF queueVars, QueueInv, QueueTypeOK, NeverOverfull, PushLoaded, PopLoaded, Size
  <1>3. CASE QueueNext
    BY <1>1, <1>3, PushKeeps, PopKeeps DEF QueueNext
  <1> QED
    BY <1>2, <1>3

\* The inductive invariant holds: both threads' copies of the indices mean what
\* push and pop (lock_free_queue.hpp 26-55) take them to mean.
THEOREM QueueInvariant ==
    ASSUME OneProducer
    PROVE  QueueSpec => []QueueInv
  <1>1. QueueInit => QueueInv
    BY QueueInvInit
  <1>2. QueueInv /\ [QueueNext]_queueVars => QueueInv'
    BY QueueInvStep
  <1> QED
    BY <1>1, <1>2, PTL DEF QueueSpec

\* The state of the ring keeps its types, with any number of producers.
THEOREM QueueTypeCorrect == QueueSpec => []QueueTypeOK
  <1>1. QueueInit => QueueTypeOK
    BY QueueInvInit DEF QueueInv
  <1> QED
    BY <1>1, TypeStep, PTL DEF QueueSpec

\* A slot is never reused before its item was taken: m_tail and m_head are at
\* most Capacity apart (the full test, lock_free_queue.hpp 29).
THEOREM NeverOverfilled ==
    ASSUME OneProducer
    PROVE  QueueSpec => []NeverOverfull
  <1>1. QueueInv => NeverOverfull
    BY DEF QueueInv
  <1> QED
    BY <1>1, QueueInvariant, PTL

\* The producer's write and the consumer's move never meet in a slot, across the
\* wrap of the indices too (lock_free_queue.hpp 33 and 50).
THEOREM SlotsApart ==
    ASSUME OneProducer
    PROVE  QueueSpec => []NoSlotRace
  <1>1. QueueInv => NoSlotRace
    <2> SUFFICES ASSUME QueueInv, NEW p \in Producers,
                        push[p].pc = "write", pop.pc = "move"
                 PROVE  Slot(push[p].tail) # Slot(pop.head)
      BY DEF NoSlotRace
    <2>1. push[p].tail = m_tail /\ Size < Capacity
      BY DEF QueueInv, PushLoaded
    <2>2. pop.head = m_head /\ m_tail # m_head
      BY DEF QueueInv, PopLoaded
    <2>3. m_head \in Index /\ m_tail \in Index
      BY DEF QueueInv, QueueTypeOK
    <2>4. 0 < Dist(m_tail, m_head)
      BY <2>2, <2>3, SizeZero, DistOf DEF Index
    <2> QED
      BY <2>1, <2>2, <2>3, <2>4, SlotsDiffer DEF Size
  <1> QED
    BY <1>1, QueueInvariant, PTL

-----------------------------------------------------------------------------
\* The index i places after h.
At(h, i) == (h + i) % IndexMod

\* The place i after h, without the remainder.
LEMMA AtOf ==
    ASSUME NEW h \in Index, NEW i \in 0 .. Capacity
    PROVE  /\ At(h, i) \in Index
           /\ h + i < IndexMod => At(h, i) = h + i
           /\ IndexMod <= h + i => At(h, i) = h + i - IndexMod
  <1>1. /\ h \in Nat /\ h < IndexMod
        /\ i \in Nat /\ i < IndexMod
    BY Sizes DEF Index
  <1>2. CASE h + i < IndexMod
    <2>1. ((h + i) % IndexMod) = h + i
      BY <1>1, <1>2, Sizes
    <2> QED
      BY <2>1, <1>1, <1>2, Sizes DEF At, Index
  <1>3. CASE IndexMod <= h + i
    <2>1. ((h + i) % IndexMod) = h + i - IndexMod
      BY <1>1, <1>3, Sizes
    <2> QED
      BY <2>1, <1>1, <1>3, Sizes DEF At, Index
  <1> QED
    BY <1>1, <1>2, <1>3, Sizes

\* The places of the items: i from the head, Size - i from the tail.
LEMMA AtDistance ==
    ASSUME NEW t \in Index, NEW h \in Index, Dist(t, h) <= Capacity,
           NEW i \in 0 .. Dist(t, h)
    PROVE  /\ At(h, i) \in Index
           /\ Dist(t, At(h, i)) = Dist(t, h) - i
           /\ Dist(At(h, i), h) = i
           /\ i = Dist(t, h) => At(h, i) = t
  <1>1. /\ h \in Nat /\ h < IndexMod
        /\ t \in Nat /\ t < IndexMod
        /\ Dist(t, h) \in Nat
        /\ i \in 0 .. Capacity
    BY Sizes, DistOf DEF Index
  <1>2. At(h, i) \in Index /\ At(h, i) \in Int
    BY <1>1, AtOf DEF Index
  <1>3. CASE h + i < IndexMod
    <2>1. At(h, i) = h + i
      BY <1>1, <1>3, AtOf
    <2> QED
      BY <1>1, <1>2, <1>3, <2>1, DistOf, Sizes
  <1>4. CASE IndexMod <= h + i
    <2>1. At(h, i) = h + i - IndexMod
      BY <1>1, <1>4, AtOf
    <2>2. At(h, i) < h
      BY <1>1, <2>1, Sizes
    <2>3. t < h
      BY <1>1, <1>4, DistOf, Sizes
    <2>4. Dist(t, h) = t - h + IndexMod
      BY <2>3, DistOf
    <2>5. PICK a \in Index : a = At(h, i)
      BY <1>2
    <2>6. a <= t
      BY <1>1, <2>1, <2>4, <2>5, Sizes
    <2>7. Dist(t, a) = t - a
      BY <2>6, DistOf
    <2>8. Dist(a, h) = a - h + IndexMod
      BY <2>2, <2>5, DistOf
    <2> QED
      BY <1>1, <1>2, <2>1, <2>4, <2>5, <2>7, <2>8, Sizes
  <1> QED
    BY <1>1, <1>3, <1>4, Sizes

\* Once the head moves on, each item is one place nearer to it.
LEMMA AtSucc ==
    ASSUME NEW h \in Index, NEW i \in 0 .. Capacity - 1
    PROVE  At(Succ(h), i) = At(h, i + 1)
  <1>1. /\ h \in Nat /\ h < IndexMod
        /\ i \in 0 .. Capacity /\ i + 1 \in 0 .. Capacity
        /\ i + 1 < IndexMod
    BY Sizes DEF Index
  <1>2. CASE h + 1 < IndexMod
    <2>1. Succ(h) = h + 1 /\ Succ(h) \in Index
      BY <1>2, SuccOf
    <2> QED
      BY <1>1, <2>1, AtOf, Sizes
  <1>3. CASE h + 1 = IndexMod
    <2>1. Succ(h) = 0 /\ Succ(h) \in Index
      BY <1>3, SuccOf
    <2>2. PICK j \in 0 .. Capacity : j = i + 1
      BY <1>1
    <2>3. At(h, j) = h + j - IndexMod
      BY <1>1, <1>3, <2>2, AtOf, Sizes
    <2>4. At(0, i) = i
      BY <1>1, <2>1, AtOf, Sizes
    <2> QED
      BY <1>1, <1>3, <2>1, <2>2, <2>3, <2>4
  <1> QED
    BY <1>1, <1>2, <1>3, Sizes

\* An item's slot is neither the next free one, unless the queue is full, nor,
\* but for the first item, the one the consumer empties.
LEMMA AtSlots ==
    ASSUME NEW t \in Index, NEW h \in Index, Dist(t, h) <= Capacity,
           NEW i \in 0 .. Dist(t, h) - 1
    PROVE  /\ Slot(At(h, i)) \in 0 .. Capacity - 1
           /\ Dist(t, h) < Capacity => Slot(At(h, i)) # Slot(t)
           /\ 0 < i => Slot(At(h, i)) # Slot(h)
  <1>0. Dist(t, h) \in Nat
    BY DistOf, Sizes DEF Index
  <1>1. /\ Dist(t, h) \in Nat
        /\ i \in 0 .. Dist(t, h)
        /\ i < Dist(t, h)
    BY <1>0
  <1>2. /\ At(h, i) \in Index
        /\ Dist(t, At(h, i)) = Dist(t, h) - i
        /\ Dist(At(h, i), h) = i
    BY <1>1, AtDistance
  <1>3. Dist(t, h) < Capacity => Slot(At(h, i)) # Slot(t)
    BY <1>1, <1>2, SlotsDiffer, Sizes
  <1>4. 0 < i => Slot(At(h, i)) # Slot(h)
    BY <1>1, <1>2, SlotsDiffer, Sizes
  <1> QED
    BY <1>2, <1>3, <1>4, SlotOf

-----------------------------------------------------------------------------
\* A function on 1 .. n is a sequence of length n, and is known by its values.
LEMMA FunctionIsSeq ==
    ASSUME NEW S, NEW n \in Nat, NEW f \in [1 .. n -> S]
    PROVE  f \in Seq(S) /\ Len(f) = n
  OBVIOUS

\* A sequence that is longer by one value is the shorter one with it appended.
LEMMA AppendIs ==
    ASSUME NEW S, NEW n \in Nat, NEW f \in [1 .. n -> S], NEW g \in [1 .. n + 1 -> S],
           \A i \in 1 .. n : g[i] = f[i]
    PROVE  g = Append(f, g[n + 1])
  OBVIOUS

\* A sequence shifted by one place is the tail.
LEMMA TailIs ==
    ASSUME NEW S, NEW n \in Nat \ {0}, NEW f \in [1 .. n -> S], NEW g \in [1 .. n - 1 -> S],
           \A i \in 1 .. n - 1 : g[i] = f[i + 1]
    PROVE  /\ f # <<>>
           /\ Head(f) = f[1]
           /\ g = Tail(f)
  OBVIOUS

-----------------------------------------------------------------------------
\* The refinement mapping of ImplementsFifo.
Queued   == [i \in 1 .. Size |-> Entry(i - 1)]
Returned == [p \in Producers |-> IF push[p].pc # "done" THEN "idle"
                                 ELSE IF push[p].ok THEN "accepted" ELSE "refused"]
Taken    == [done  |-> pop.pc = "done",
             taken |-> IF pop.pc = "done" /\ pop.ok THEN <<pop.item>> ELSE <<>>]

MappedVars == <<Queued, Returned, Taken>>

\* The queue that is seen from outside: its length and its entries.
QueuedOK == /\ Size \in 0 .. Capacity
            /\ Queued \in [1 .. Size -> Items \cup {Null}]

\* The mapped queue is a sequence of Size items, at most Capacity.
LEMMA QueuedIs == QueueInv => QueuedOK
  <1> SUFFICES ASSUME QueueInv PROVE QueuedOK
    OBVIOUS
  <1>1. m_head \in Index /\ m_tail \in Index
    BY DEF QueueInv, QueueTypeOK
  <1>2. Size \in 0 .. Capacity
    BY <1>1, DistOf, Sizes DEF QueueInv, NeverOverfull, Size, Index
  <1>3. ASSUME NEW i \in 0 .. Size - 1
        PROVE  Entry(i) \in Items \cup {Null}
    <2>1. Slot(At(m_head, i)) \in 0 .. Capacity - 1
      BY <1>1, <1>2, AtSlots DEF Size
    <2>2. m_buffer[Slot((m_head + i) % IndexMod)] \in Items \cup {Null}
      BY <2>1 DEF At, QueueInv, QueueTypeOK
    <2>3. pop.item \in Items \cup {Null}
      BY DEF QueueInv, QueueTypeOK, PopState
    <2> QED
      BY <2>2, <2>3 DEF Entry
  <1>4. ASSUME NEW i \in 1 .. Size
        PROVE  Entry(i - 1) \in Items \cup {Null}
    <2>1. i - 1 \in 0 .. Size - 1
      BY <1>2
    <2> QED
      BY <1>3, <2>1
  <1> QED
    BY <1>2, <1>4 DEF Queued, QueuedOK

\* The empty ring is the empty FIFO.
LEMMA RefinementInit ==
    ASSUME QueueInit
    PROVE  Fifo!FifoInit
  <1>1. 0 \in Index
    BY Sizes DEF Index
  <1>2. Size = 0
    BY <1>1, SizeZero DEF QueueInit, Size
  <1>3. Queued = <<>>
    BY <1>2 DEF Queued
  <1>4. Returned = [p \in Producers |-> "idle"]
    BY DEF QueueInit, Returned
  <1>5. Taken = [done |-> FALSE, taken |-> <<>>]
    BY DEF QueueInit, Taken
  <1> QED
    BY <1>3, <1>4, <1>5 DEF Fifo!FifoInit, Queued, Returned, Taken

\* When the head, the tail and the entries stay, so does the queue.
LEMMA SameQueue ==
    ASSUME Size' = Size, Size \in Nat, \A i \in 0 .. Size - 1 : Entry(i)' = Entry(i)
    PROVE  Queued' = Queued
  <1>1. \A i \in 1 .. Size : Entry(i - 1)' = Entry(i - 1)
    <2> TAKE i \in 1 .. Size
    <2>1. i - 1 \in 0 .. Size - 1
      OBVIOUS
    <2> QED
      BY <2>1
  <1> QED
    BY <1>1 DEF Queued
\* A producer's step is a stutter until it finds the queue full or publishes
\* its item; then it is PutRefused or Put.
LEMMA PushRefines ==
    ASSUME OneProducer, QueueInv, QueueInv', NEW p \in Producers, PushStep(p)
    PROVE  [Fifo!FifoNext]_MappedVars
  <1>0. /\ m_head \in Index /\ m_tail \in Index
        /\ push \in [Producers -> PushState]
        /\ Producers = {p}
    BY DEF QueueInv, QueueTypeOK, OneProducer
  <1>1. Size \in 0 .. Capacity /\ Queued \in [1 .. Size -> Items \cup {Null}]
    BY QueuedIs DEF QueuedOK
  <1>2. ASSUME NEW item \in Items, PushLoadTail(p, item)
        PROVE  UNCHANGED MappedVars
    <2>1. Queued' = Queued /\ Taken' = Taken
      BY <1>2 DEF PushLoadTail, Queued, Taken, Size, Entry
    <2>2. Returned' = Returned
      BY <1>0, <1>2 DEF PushLoadTail, Returned
    <2> QED
      BY <2>1, <2>2 DEF MappedVars
  <1>3. ASSUME PushLoadHead(p), ~ Full(push[p].tail, m_head)
        PROVE  UNCHANGED MappedVars
    <2>1. Queued' = Queued /\ Taken' = Taken
      BY <1>3 DEF PushLoadHead, Queued, Taken, Size, Entry
    <2>2. Returned' = Returned
      BY <1>0, <1>3 DEF PushLoadHead, Returned
    <2> QED
      BY <2>1, <2>2 DEF MappedVars
  <1>4. ASSUME PushLoadHead(p), Full(push[p].tail, m_head)
        PROVE  Fifo!PutRefused(p)
    <2>1. Queued' = Queued /\ Taken' = Taken
      BY <1>4 DEF PushLoadHead, Queued, Taken, Size, Entry
    <2>2. Size >= Capacity
      BY <1>4 DEF PushLoadHead, QueueInv, PushLoaded, Full, Size
    <2>3. Len(Queued) = Capacity
      BY <1>1, <2>2, Sizes, FunctionIsSeq
    <2>4. Returned[p] = "idle"
      BY <1>4 DEF PushLoadHead, Returned
    <2>5. Returned' = [Returned EXCEPT ![p] = "refused"]
      <3>1. push'[p].pc = "done" /\ ~ push'[p].ok
        BY <1>0, <1>4 DEF PushLoadHead, PushState
      <3> QED
        BY <1>0, <3>1 DEF Returned
    <2> QED
      BY <2>1, <2>3, <2>4, <2>5 DEF Fifo!PutRefused, Queued, Taken, Returned
  <1>5. ASSUME PushWrite(p)
        PROVE  UNCHANGED MappedVars
    <2>1. /\ push[p].tail = m_tail
          /\ Size < Capacity
      BY <1>5 DEF PushWrite, QueueInv, PushLoaded
    <2>2. /\ m_buffer' = [m_buffer EXCEPT ![Slot(m_tail)] = push[p].item]
          /\ m_head' = m_head /\ m_tail' = m_tail /\ pop' = pop
      BY <1>5, <2>1 DEF PushWrite
    <2>3. Size' = Size
      BY <2>2 DEF Size
    <2>4. ASSUME NEW i \in 0 .. Size - 1
          PROVE  Entry(i)' = Entry(i)
      <3>1. /\ Slot(At(m_head, i)) \in 0 .. Capacity - 1
            /\ Slot(At(m_head, i)) # Slot(m_tail)
        BY <1>0, <1>1, <2>1, AtSlots DEF Size
      <3>2. m_buffer'[Slot(At(m_head, i))] = m_buffer[Slot(At(m_head, i))]
        BY <2>2, <3>1 DEF QueueInv, QueueTypeOK
      <3> QED
        BY <2>2, <3>2 DEF Entry, At
    <2>5. Queued' = Queued
      BY <1>1, <2>3, <2>4, SameQueue
    <2>6. Taken' = Taken
      BY <2>2 DEF Taken
    <2>7. Returned' = Returned
      BY <1>0, <1>5 DEF PushWrite, Returned
    <2> QED
      BY <2>5, <2>6, <2>7 DEF MappedVars
  <1>6. ASSUME PushStoreTail(p)
        PROVE  \E item \in Items : Fifo!Put(p, item)
    <2>1. /\ push[p].tail = m_tail
          /\ Size < Capacity
          /\ m_buffer[Slot(m_tail)] \in Items
      BY <1>6 DEF PushStoreTail, QueueInv, PushLoaded
    <2>2. /\ m_tail' = Succ(m_tail)
          /\ m_head' = m_head /\ m_buffer' = m_buffer /\ pop' = pop
      BY <1>6, <2>1 DEF PushStoreTail
    <2>3. Size' = Size + 1
      BY <1>0, <2>1, <2>2, DistPut DEF Size
    <2>4. \A i \in 0 .. Size : Entry(i)' = Entry(i)
      BY <2>2 DEF Entry
    <2>5. Queued' \in [1 .. Size + 1 -> Items \cup {Null}]
      <3>1. QueuedOK'
        BY QueuedIs, PTL
      <3> QED
        BY <2>3, <3>1 DEF QueuedOK
    <2>6. \A i \in 1 .. Size : Queued'[i] = Queued[i]
      <3> TAKE i \in 1 .. Size
      <3>1. i \in 1 .. Size' /\ i - 1 \in 0 .. Size
        BY <1>1, <2>3
      <3> QED
        BY <2>4, <3>1 DEF Queued
    <2>7. Queued'[Size + 1] = m_buffer[Slot(m_tail)]
      <3>1. Size + 1 \in 1 .. Size' /\ (Size + 1) - 1 = Size /\ Size \in 0 .. Size
        BY <1>1, <2>3
      <3>2. Queued'[Size + 1] = Entry(Size)
        BY <2>4, <3>1 DEF Queued
      <3>3. At(m_head, Size) = m_tail
        BY <1>0, <1>1, AtDistance DEF Size
      <3>4. ~ (Size = 0 /\ pop.pc = "store")
        BY <1>0, SizeZero DEF QueueInv, PopLoaded, Size
      <3> QED
        BY <3>2, <3>3, <3>4 DEF Entry, At
    <2>8. Queued' = Append(Queued, m_buffer[Slot(m_tail)])
      <3>1. Size \in Nat /\ Queued \in [1 .. Size -> Items \cup {Null}]
        BY <1>1
      <3> QED
        BY <2>5, <2>6, <2>7, <3>1, AppendIs
    <2>9. Len(Queued) < Capacity
      BY <1>1, <2>1, FunctionIsSeq
    <2>10. /\ Returned[p] = "idle"
           /\ Returned' = [Returned EXCEPT ![p] = "accepted"]
      <3>1. push[p].pc = "store" /\ push'[p].pc = "done" /\ push'[p].ok
        BY <1>0, <1>6 DEF PushStoreTail, PushState
      <3> QED
        BY <1>0, <3>1 DEF Returned
    <2>11. Taken' = Taken
      BY <2>2 DEF Taken
    <2>12. PICK item \in Items : item = m_buffer[Slot(m_tail)]
      BY <2>1
    <2>13. Fifo!Put(p, item)
      BY <2>8, <2>9, <2>10, <2>11, <2>12 DEF Fifo!Put, Queued, Returned, Taken
    <2> QED
      BY <2>13
  <1>7. ASSUME PushReturn(p)
        PROVE  Fifo!PutEnds(p)
    <2>1. Queued' = Queued /\ Taken' = Taken
      BY <1>7 DEF PushReturn, Queued, Taken, Size, Entry
    <2>2. /\ Returned[p] # "idle"
          /\ Returned' = [Returned EXCEPT ![p] = "idle"]
      BY <1>0, <1>7 DEF PushReturn, Returned
    <2> QED
      BY <2>1, <2>2 DEF Fifo!PutEnds, Queued, Returned, Taken
  <1> QED
    BY <1>2, <1>3, <1>4, <1>5, <1>6, <1>7 DEF PushStep, Fifo!FifoNext
\* The consumer's step is a stutter until it finds the queue empty or gives
\* the slot free; moving the item out does not show.
LEMMA PopRefines ==
    ASSUME QueueInv, QueueInv', PopStep
    PROVE  [Fifo!FifoNext]_MappedVars
  <1>0. /\ m_head \in Index /\ m_tail \in Index
        /\ pop \in PopState
    BY DEF QueueInv, QueueTypeOK
  <1>1. Size \in 0 .. Capacity /\ Queued \in [1 .. Size -> Items \cup {Null}]
    BY QueuedIs DEF QueuedOK
  <1>2. ASSUME PopLoadHead
        PROVE  UNCHANGED MappedVars
    <2>1. /\ m_head' = m_head /\ m_tail' = m_tail /\ m_buffer' = m_buffer /\ push' = push
          /\ pop.pc = "idle" /\ pop'.pc = "tail"
      BY <1>0, <1>2 DEF PopLoadHead, PopState
    <2>2. Queued' = Queued
      BY <2>1 DEF Queued, Size, Entry
    <2>3. Taken' = Taken /\ Returned' = Returned
      BY <2>1 DEF Taken, Returned
    <2> QED
      BY <2>2, <2>3 DEF MappedVars
  <1>3. ASSUME PopLoadTail, ~ Empty(pop.head, m_tail)
        PROVE  UNCHANGED MappedVars
    <2>1. /\ m_head' = m_head /\ m_tail' = m_tail /\ m_buffer' = m_buffer /\ push' = push
          /\ pop.pc = "tail" /\ pop'.pc = "move"
      BY <1>0, <1>3 DEF PopLoadTail, PopState
    <2>2. Queued' = Queued
      BY <2>1 DEF Queued, Size, Entry
    <2>3. Taken' = Taken /\ Returned' = Returned
      BY <2>1 DEF Taken, Returned
    <2> QED
      BY <2>2, <2>3 DEF MappedVars
  <1>4. ASSUME PopLoadTail, Empty(pop.head, m_tail)
        PROVE  Fifo!TakeRefused
    <2>1. /\ m_head' = m_head /\ m_tail' = m_tail /\ m_buffer' = m_buffer /\ push' = push
          /\ pop.pc = "tail" /\ pop'.pc = "done" /\ pop'.ok = FALSE
      BY <1>0, <1>4 DEF PopLoadTail, PopState
    <2>2. Queued' = Queued
      BY <2>1 DEF Queued, Size, Entry
    <2>3. m_tail = m_head
      BY <1>4, <2>1 DEF QueueInv, PopLoaded, Empty
    <2>4. Queued = <<>>
      BY <1>0, <1>1, <2>3, SizeZero DEF Size
    <2>5. ~ Taken.done
      BY <2>1 DEF Taken
    <2>6. Taken' = [done |-> TRUE, taken |-> <<>>]
      BY <2>1 DEF Taken
    <2>7. Returned' = Returned
      BY <2>1 DEF Returned
    <2> QED
      BY <2>2, <2>4, <2>5, <2>6, <2>7 DEF Fifo!TakeRefused, Queued, Taken, Returned
  <1>5. ASSUME PopMove
        PROVE  UNCHANGED MappedVars
    <2>1. pop.head = m_head /\ m_tail # m_head
      BY <1>5 DEF PopMove, QueueInv, PopLoaded
    <2>2. /\ m_head' = m_head /\ m_tail' = m_tail /\ push' = push
          /\ m_buffer' = [m_buffer EXCEPT ![Slot(m_head)] = Null]
          /\ pop.pc = "move" /\ pop'.pc = "store" /\ pop'.item = m_buffer[Slot(m_head)]
      BY <1>0, <1>5, <2>1 DEF PopMove, PopState
    <2>3. Size' = Size
      BY <2>2 DEF Size
    <2>4. ASSUME NEW i \in 0 .. Size - 1
          PROVE  Entry(i)' = Entry(i)
      <3>1. CASE i = 0
        <4>1. At(m_head, 0) = m_head
          BY <1>0, Sizes, AtOf DEF Index
        <4> QED
          BY <2>2, <3>1, <4>1 DEF Entry, At
      <3>2. CASE i > 0
        <4>1. /\ Slot(At(m_head, i)) \in 0 .. Capacity - 1
              /\ Slot(At(m_head, i)) # Slot(m_head)
          BY <1>0, <1>1, <3>2, AtSlots DEF Size
        <4>2. m_buffer'[Slot(At(m_head, i))] = m_buffer[Slot(At(m_head, i))]
          BY <2>2, <4>1 DEF QueueInv, QueueTypeOK
        <4>3. i # 0
          BY <1>1, <3>2
        <4> QED
          BY <2>2, <4>2, <4>3 DEF Entry, At
      <3> QED
        BY <1>1, <3>1, <3>2
    <2>5. Queued' = Queued
      BY <1>1, <2>3, <2>4, SameQueue
    <2>6. Taken' = Taken /\ Returned' = Returned
      BY <2>2 DEF Taken, Returned
    <2> QED
      BY <2>5, <2>6 DEF MappedVars
  <1>6. ASSUME PopStoreHead
        PROVE  Fifo!Take
    <2>1. pop.head = m_head /\ m_tail # m_head
      BY <1>6 DEF PopStoreHead, QueueInv, PopLoaded
    <2>2. /\ m_head' = Succ(m_head) /\ m_tail' = m_tail /\ push' = push /\ m_buffer' = m_buffer
          /\ pop.pc = "store" /\ pop'.pc = "done" /\ pop'.ok /\ pop'.item = pop.item
      BY <1>0, <1>6, <2>1 DEF PopStoreHead, PopState
    <2>3. Size' = Size - 1
      BY <1>0, <2>1, <2>2, DistTake DEF Size
    <2>4. Size \in Nat \ {0}
      BY <1>0, <1>1, <2>1, SizeZero DEF Size
    <2>5. Queued' \in [1 .. Size - 1 -> Items \cup {Null}]
      <3>1. QueuedOK'
        BY QueuedIs, PTL
      <3> QED
        BY <2>3, <3>1 DEF QueuedOK
    <2>6. ASSUME NEW i \in 1 .. Size - 1
          PROVE  Queued'[i] = Queued[i + 1]
      <3>1. /\ i \in 1 .. Size' /\ i + 1 \in 1 .. Size
            /\ i - 1 \in 0 .. Capacity - 1 /\ (i - 1) + 1 = i /\ (i + 1) - 1 = i
            /\ i # 0
        <4>1. /\ i \in Nat /\ 0 < i /\ i <= Size - 1
              /\ Size \in Nat /\ Size <= Capacity /\ Capacity \in Nat
          BY <1>1, Sizes
        <4>2. i \in 1 .. Size' /\ i + 1 \in 1 .. Size
          BY <2>3, <4>1
        <4>3. i - 1 \in 0 .. Capacity - 1
          BY <4>1
        <4> QED
          BY <4>1, <4>2, <4>3
      <3>2. Queued'[i] = Entry(i - 1)' /\ Queued[i + 1] = Entry(i)
        BY <3>1 DEF Queued
      <3>3. Entry(i - 1)' = m_buffer[Slot(At(Succ(m_head), i - 1))]
        BY <2>2 DEF Entry, At
      <3>4. At(Succ(m_head), i - 1) = At(m_head, i)
        BY <1>0, <3>1, AtSucc
      <3>5. Entry(i) = m_buffer[Slot(At(m_head, i))]
        BY <3>1 DEF Entry, At
      <3> QED
        BY <3>2, <3>3, <3>4, <3>5
    <2>7. /\ Queued # <<>>
          /\ Head(Queued) = Queued[1]
          /\ Queued' = Tail(Queued)
      BY <1>1, <2>4, <2>5, <2>6, TailIs
    <2>8. Queued[1] = pop.item
      <3>1. 1 \in 1 .. Size /\ 1 - 1 = 0
        BY <2>4
      <3>2. Queued[1] = Entry(0)
        BY <3>1 DEF Queued
      <3> QED
        BY <2>2, <3>2 DEF Entry
    <2>9. ~ Taken.done
      BY <2>2 DEF Taken
    <2>10. Taken' = [done |-> TRUE, taken |-> <<Head(Queued)>>]
      BY <2>2, <2>7, <2>8 DEF Taken
    <2>11. Returned' = Returned
      BY <2>2 DEF Returned
    <2> QED
      BY <2>7, <2>9, <2>10, <2>11 DEF Fifo!Take, Queued, Taken, Returned
  <1>7. ASSUME PopReturn
        PROVE  Fifo!TakeEnds
    <2>1. /\ m_head' = m_head /\ m_tail' = m_tail /\ m_buffer' = m_buffer /\ push' = push
          /\ pop.pc = "done" /\ pop'.pc = "idle"
      BY <1>0, <1>7 DEF PopReturn, PopState
    <2>2. Queued' = Queued
      BY <2>1 DEF Queued, Size, Entry
    <2>3. Taken.done
      BY <2>1 DEF Taken
    <2>4. Taken' = [done |-> FALSE, taken |-> <<>>]
      BY <2>1 DEF Taken
    <2>5. Returned' = Returned
      BY <2>1 DEF Returned
    <2> QED
      BY <2>2, <2>3, <2>4, <2>5 DEF Fifo!TakeEnds, Queued, Taken, Returned
  <1> QED
    BY <1>2, <1>3, <1>4, <1>5, <1>6, <1>7 DEF PopStep, Fifo!FifoNext

\* push and pop implement the operations of BoundedFifo: nothing accepted is
\* lost, duplicated or reordered, and refusals are true when given
\* (lock_free_queue.hpp 26-55).
THEOREM QueueRefinesFifo ==
    ASSUME OneProducer
    PROVE  QueueSpec => ImplementsFifo
  <1>1. QueueInit => Fifo!FifoInit
    BY RefinementInit
  <1>2. QueueInv /\ QueueInv' /\ [QueueNext]_queueVars => [Fifo!FifoNext]_MappedVars
    <2> SUFFICES ASSUME QueueInv, QueueInv', [QueueNext]_queueVars
                 PROVE  [Fifo!FifoNext]_MappedVars
      OBVIOUS
    <2>1. CASE UNCHANGED queueVars
      <3>1. UNCHANGED MappedVars
        BY <2>1 DEF queueVars, MappedVars, Queued, Returned, Taken, Size, Entry
      <3> QED
        BY <3>1
    <2>2. CASE QueueNext
      BY <2>2, PushRefines, PopRefines DEF QueueNext
    <2> QED
      BY <2>1, <2>2
  <1>3. QueueInv /\ QueueInv' /\ [QueueNext]_queueVars => [Fifo!FifoNext]_(Fifo!fifoVars)
    BY <1>2 DEF MappedVars, Fifo!fifoVars, Queued, Returned, Taken
  <1> QED
    BY <1>1, <1>3, QueueInvariant, PTL DEF QueueSpec, ImplementsFifo, Fifo!FifoSpec
===============================================================================
