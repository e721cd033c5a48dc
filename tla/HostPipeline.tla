---------------------------- MODULE HostPipeline ----------------------------
(***************************************************************************)
(* The threads between the encoder and the socket of the host              *)
(* (SessionManager::runHost): the capture thread encodes each frame for    *)
(* every client, the packetizer cuts the encoded frames into encrypted     *)
(* packets, each client's audio thread and the receiver's retransmission   *)
(* add theirs, and the sender empties sendQueue.  They share two pools of  *)
(* buffers that are never enlarged.                                        *)
(*                                                                         *)
(* A client that times out leaves ctx->clients and is not destroyed: its   *)
(* audio callback holds a reference to it.  What its encodeQueue holds     *)
(* stays there, and its audio goes on.                                     *)
(*                                                                         *)
(* Pushing onto sendQueue is one step here; what its several producers do  *)
(* to each other is the subject of LockFreeQueue.  After an encryption the *)
(* packetizer reads securePkt, which it has moved from: the program ends,  *)
(* or the cache holds unknown bytes under a key that may be another        *)
(* packet's, because vh points into a buffer already given back.           *)
(***************************************************************************)
EXTENDS Integers, Sequences, FiniteSets, FiniteSetsExt

CONSTANTS Clients,        \* the clients that have joined
          NoClient,
          AudioClients,   \* those whose audio encoder could be opened
          PacketPool,     \* size of packetPool
          UdpPool,        \* size of udpPool
          EncodeCap,      \* capacity of an encodeQueue
          SendCap,        \* capacity of sendQueue
          MaxBatch,       \* MAX_BATCH
          FragmentCounts, \* bound: how many fragments a frame may have
          MaxFrames       \* bound: client -> frames encoded for it

ASSUME HostAssumption ==
    /\ IsFiniteSet(Clients) /\ NoClient \notin Clients /\ AudioClients \subseteq Clients
    /\ PacketPool \in Nat \ {0} /\ UdpPool \in Nat \ {0} /\ EncodeCap \in Nat \ {0}
    /\ SendCap \in Nat \ {0} /\ MaxBatch \in Nat \ {0}
    /\ FragmentCounts \subseteq Nat \ {0} /\ MaxFrames \in [Clients -> Nat]
    /\ UdpPool <= SendCap

VARIABLES running,        \* m_running
          clients,        \* ctx->clients
          encoding,       \* clients the captured frame is still to be encoded for
          encoded,        \* frames the encoder of a client was given so far
          encodeQueue,    \* client -> vectors of encoded frames
          packetPool, udpPool,    \* free buffers
          frameId,
          packetizer,     \* [step, todo, client, frames, fid, frag]
          packetCache,    \* clients with an occupied entry
          audio,          \* clients whose audio thread holds a buffer
          sendQueue,
          batch,          \* packets the sender has taken
          ended           \* "sender" when it has left its loop, "program" after a crash

captureVars == <<encoding, encoded>>
cutVars     == <<frameId, packetizer, packetCache>>
outVars     == <<sendQueue, batch>>
hostVars    == <<running, clients, captureVars, encodeQueue, packetPool, udpPool, cutVars, audio,
                 outVars, ended>>

Video(c, fid, frag, src) == [client |-> c, kind |-> "video", fid |-> fid, frag |-> frag, src |-> src]
Other                    == [client |-> NoClient, kind |-> "other", fid |-> 0, frag |-> 0, src |-> 0]
Idle == [step |-> "head", todo |-> {}, client |-> NoClient, frames |-> <<>>, fid |-> 0, frag |-> 0]

HostInit ==
    /\ running = TRUE /\ clients = Clients /\ encoding = {}
    /\ encoded = [c \in Clients |-> 0]
    /\ encodeQueue = [c \in Clients |-> <<>>]
    /\ packetPool = PacketPool /\ udpPool = UdpPool
    /\ frameId = [c \in Clients |-> 0]
    /\ packetizer = Idle
    /\ packetCache = {} /\ audio = {} /\ sendQueue = <<>> /\ batch = <<>> /\ ended = {}

-----------------------------------------------------------------------------
\* The capture thread holds clientsMutex while it encodes.
ClientsFree == encoding = {}

TimeOut(c) ==
    /\ running /\ ClientsFree
    /\ c \in clients
    /\ clients' = clients \ {c}
    /\ UNCHANGED <<running, captureVars, encodeQueue, packetPool, udpPool, cutVars, audio, outVars, ended>>

CaptureFrame ==
    /\ running /\ ClientsFree
    /\ encoding' = {c \in clients : encoded[c] < MaxFrames[c]}
    /\ encoding' # {}
    /\ UNCHANGED <<running, clients, encoded, encodeQueue, packetPool, udpPool, cutVars, audio,
                   outVars, ended>>

\* mutant of Encoded: every packet of the encoder becomes a frame of its own
EncodedApart(c) == {<<>>} \cup {[i \in 1 .. k |-> [src |-> encoded[c] + i, fragments |-> n]] :
                                  n \in FragmentCounts, k \in 1 .. Min({packetPool, 2})}

\* What EncodeFrame puts into the vector: the packets of the encoder in one
\* buffer of the pool, or nothing, when it had none, the pool was empty, the
\* frame was too large or another encoder took over.
Encoded(c) ==
    {<<>>} \cup IF packetPool = 0 THEN {}
                ELSE {<<[src |-> encoded[c] + 1, fragments |-> n]>> : n \in FragmentCounts}

QueueFull(c) == Len(encodeQueue[c]) = EncodeCap

\* EncodeFrame for one client and the push of its vector; the frames of a vector
\* that finds the queue full go back to the pool.
Encode(c) ==
    /\ c \in encoding
    /\ encoding' = encoding \ {c}
    /\ encoded' = [encoded EXCEPT ![c] = @ + 1]
    /\ \/ UNCHANGED <<encodeQueue, packetPool>>          \* EncodeFrame failed
       \/ \E frames \in Encoded(c) :
            /\ ~QueueFull(c)
            /\ encodeQueue' = [encodeQueue EXCEPT ![c] = Append(@, frames)]
            /\ packetPool' = packetPool - Len(frames)
       \/ QueueFull(c) /\ UNCHANGED <<encodeQueue, packetPool>>
    /\ UNCHANGED <<running, clients, udpPool, cutVars, audio, outVars, ended>>

-----------------------------------------------------------------------------
\* sendQueue after a push; a packet that does not fit is destroyed.
Pushed(pkt) == IF Len(sendQueue) < SendCap THEN Append(sendQueue, pkt) ELSE sendQueue

\* A round over a copy of ctx->clients.
PacketizerRound ==
    /\ packetizer.step = "head" /\ packetizer.todo = {}
    /\ running /\ ClientsFree
    /\ clients # {}
    /\ packetizer' = [packetizer EXCEPT !.todo = clients]
    /\ UNCHANGED <<running, clients, captureVars, encodeQueue, packetPool, udpPool, frameId,
                   packetCache, audio, outVars, ended>>

PacketizerPop(c) ==
    /\ packetizer.step = "head" /\ c \in packetizer.todo
    /\ IF encodeQueue[c] = <<>>
       THEN packetizer' = [packetizer EXCEPT !.todo = @ \ {c}] /\ UNCHANGED encodeQueue
       ELSE /\ packetizer' = [step |-> "frame", todo |-> packetizer.todo \ {c}, client |-> c,
                              frames |-> Head(encodeQueue[c]), fid |-> frameId[c], frag |-> 0]
            /\ encodeQueue' = [encodeQueue EXCEPT ![c] = Tail(@)]
    /\ UNCHANGED <<running, clients, captureVars, packetPool, udpPool, frameId, packetCache,
                   audio, outVars, ended>>

\* All frames of the vector are done: the next vector gets the next id.
PacketizerNextId ==
    /\ packetizer.step = "frame" /\ packetizer.frames = <<>>
    /\ frameId' = [frameId EXCEPT ![packetizer.client] = @ + 1]
    /\ packetizer' = [Idle EXCEPT !.todo = packetizer.todo]
    /\ UNCHANGED <<running, clients, captureVars, encodeQueue, packetPool, udpPool, packetCache,
                   audio, outVars, ended>>

Current == Head(packetizer.frames)

\* The step after a break out of the loop over the fragments.
AfterBreak == "done"

\* A fragment's own buffer, or the end of the loop.
PacketizerAcquire ==
    /\ packetizer.step = "frame" /\ packetizer.frames # <<>>
    /\ IF packetizer.frag = Current.fragments
       THEN packetizer' = [packetizer EXCEPT !.step = "done"] /\ UNCHANGED udpPool
       ELSE IF udpPool = 0
       THEN packetizer' = [packetizer EXCEPT !.step = AfterBreak] /\ UNCHANGED udpPool
       ELSE packetizer' = [packetizer EXCEPT !.step = "encrypt"] /\ udpPool' = udpPool - 1
    /\ UNCHANGED <<running, clients, captureVars, encodeQueue, packetPool, frameId,
                   packetCache, audio, outVars, ended>>

\* The second buffer and the encryption: one of the two buffers goes back, or both.
PacketizerEncrypt ==
    /\ packetizer.step = "encrypt"
    /\ \/ /\ udpPool > 0
          /\ packetizer' = [packetizer EXCEPT !.step = "push"]
          /\ UNCHANGED udpPool
       \/ /\ packetizer' = [packetizer EXCEPT !.step = AfterBreak]
          /\ udpPool' = udpPool + 1
    /\ UNCHANGED <<running, clients, captureVars, encodeQueue, packetPool, frameId,
                   packetCache, audio, outVars, ended>>

PacketizerPush ==
    /\ packetizer.step = "push"
    /\ \/ ended' = ended \cup {"program"} /\ UNCHANGED <<packetCache, sendQueue, packetizer>>
       \/ /\ packetCache' = packetCache \cup {packetizer.client}
          /\ sendQueue' = Pushed(Video(packetizer.client, packetizer.fid, packetizer.frag, Current.src))
          /\ packetizer' = [packetizer EXCEPT !.step = "frame", !.frag = @ + 1]
          /\ UNCHANGED ended
    /\ UNCHANGED <<running, clients, captureVars, encodeQueue, packetPool, udpPool, frameId, audio, batch>>

\* mutant of PacketizerRelease: only a frame that was cut completely is given back
PacketizerReleaseWhole ==
    /\ packetizer.step = "done"
    /\ packetPool' = IF packetizer.frag = Current.fragments THEN packetPool + 1 ELSE packetPool
    /\ packetizer' = [packetizer EXCEPT !.step = "frame", !.frames = Tail(@), !.frag = 0]
    /\ UNCHANGED <<running, clients, captureVars, encodeQueue, udpPool, frameId, packetCache,
                   audio, outVars, ended>>

PacketizerRelease ==
    /\ packetizer.step = "done"
    /\ packetPool' = packetPool + 1
    /\ packetizer' = [packetizer EXCEPT !.step = "frame", !.frames = Tail(@), !.frag = 0]
    /\ UNCHANGED <<running, clients, captureVars, encodeQueue, udpPool, frameId, packetCache,
                   audio, outVars, ended>>

-----------------------------------------------------------------------------
\* A client's audio callback, whether or not the client is still in ctx->clients.
AudioAcquire(c) ==
    /\ running /\ c \in AudioClients \ audio /\ udpPool > 0
    /\ audio' = audio \cup {c}
    /\ udpPool' = udpPool - 1
    /\ UNCHANGED <<running, clients, captureVars, encodeQueue, packetPool, cutVars, outVars, ended>>

\* mutant of AudioSend: without a second buffer the first one is kept
AudioSendKeeps(c) ==
    /\ c \in audio
    /\ audio' = audio \ {c}
    /\ sendQueue' = IF udpPool > 0 THEN Pushed(Other) ELSE sendQueue
    /\ UNCHANGED <<running, clients, captureVars, encodeQueue, packetPool, udpPool, cutVars, batch, ended>>

\* The second buffer holds the encrypted packet and is sent; the first goes back.
AudioSend(c) ==
    /\ c \in audio
    /\ audio' = audio \ {c}
    /\ \/ udpPool > 0 /\ sendQueue' = Pushed(Other) /\ UNCHANGED udpPool
       \/ udpPool' = udpPool + 1 /\ UNCHANGED sendQueue
    /\ UNCHANGED <<running, clients, captureVars, encodeQueue, packetPool, cutVars, batch, ended>>

\* The receiver thread answers a request for a packet that is cached.
Retransmit(c) ==
    /\ running /\ ClientsFree
    /\ c \in clients \cap packetCache /\ udpPool > 0
    /\ udpPool' = udpPool - 1
    /\ sendQueue' = Pushed(Other)
    /\ UNCHANGED <<running, clients, captureVars, encodeQueue, packetPool, cutVars, audio, batch, ended>>

SenderPop ==
    /\ sendQueue # <<>> /\ Len(batch) < MaxBatch /\ "sender" \notin ended
    /\ batch' = Append(batch, Head(sendQueue))
    /\ sendQueue' = Tail(sendQueue)
    /\ UNCHANGED <<running, clients, captureVars, encodeQueue, packetPool, udpPool, cutVars, audio, ended>>

\* mutant of SenderSend: the last buffer of the batch is not given back
SenderSendButLast ==
    /\ batch # <<>> /\ (Len(batch) = MaxBatch \/ sendQueue = <<>>)
    /\ udpPool' = udpPool + Len(batch) - 1
    /\ batch' = <<>>
    /\ UNCHANGED <<running, clients, captureVars, encodeQueue, packetPool, cutVars, audio, sendQueue, ended>>

\* The batch is sent, whatever SendBatch says, and its buffers go back.
SenderSend ==
    /\ batch # <<>> /\ (Len(batch) = MaxBatch \/ sendQueue = <<>>)
    /\ udpPool' = udpPool + Len(batch)
    /\ batch' = <<>>
    /\ UNCHANGED <<running, clients, captureVars, encodeQueue, packetPool, cutVars, audio, sendQueue, ended>>

-----------------------------------------------------------------------------
StopSession ==
    /\ running
    /\ running' = FALSE
    /\ UNCHANGED <<clients, captureVars, encodeQueue, packetPool, udpPool, cutVars, audio, outVars, ended>>

\* The sender's loop ends when there is nothing left to send; the other loops
\* check m_running before they begin anything.
SenderLeaves ==
    /\ ~running /\ sendQueue = <<>> /\ batch = <<>> /\ "sender" \notin ended
    /\ ended' = ended \cup {"sender"}
    /\ UNCHANGED <<running, clients, captureVars, encodeQueue, packetPool, udpPool, cutVars, audio, outVars>>

Capture    == CaptureFrame \/ \E c \in Clients : TimeOut(c) \/ Encode(c)
Packetizer == \/ PacketizerRound \/ PacketizerNextId \/ PacketizerAcquire \/ PacketizerEncrypt
              \/ PacketizerPush \/ PacketizerRelease
              \/ \E c \in Clients : PacketizerPop(c)
Sender     == SenderPop \/ SenderSend
Enqueuers  == (\E c \in Clients : AudioAcquire(c) \/ AudioSend(c) \/ Retransmit(c))
Stopped    == ended # {} /\ UNCHANGED hostVars

HostNext ==
    \/ /\ "program" \notin ended
       /\ Capture \/ Packetizer \/ Sender \/ Enqueuers \/ StopSession \/ SenderLeaves
    \/ Stopped

HostSpec == HostInit /\ [][HostNext]_hostVars

\* Threads that have work do it: the encoder returns, the packetizer, the sender
\* and an audio callback go on.  A stop, a capture or a request need not come.
HostFairness ==
    /\ \A c \in Clients : /\ WF_hostVars("program" \notin ended /\ Encode(c))
                          /\ WF_hostVars("program" \notin ended /\ AudioSend(c))
    /\ WF_hostVars("program" \notin ended /\ Packetizer)
    /\ WF_hostVars("program" \notin ended /\ Sender)

FairHostSpec == HostSpec /\ HostFairness

-----------------------------------------------------------------------------
Steps == {"head", "frame", "encrypt", "push", "done"}
Held  == IF packetizer.step \in {"encrypt", "push"} THEN 1 ELSE 0

HostTypeOK ==
    /\ running \in BOOLEAN /\ clients \subseteq Clients /\ encoding \subseteq Clients
    /\ encoded \in [Clients -> Nat] /\ frameId \in [Clients -> Nat]
    /\ \A c \in Clients : frameId[c] <= encoded[c] /\ Len(encodeQueue[c]) <= EncodeCap
    /\ packetPool \in Nat /\ udpPool \in 0 .. UdpPool
    /\ packetizer.step \in Steps /\ packetizer.todo \subseteq Clients
    /\ packetizer.client \in Clients \cup {NoClient}
    /\ packetizer.step = "head" => packetizer.frames = <<>>
    /\ packetizer.step \notin {"head", "frame"} => packetizer.frames # <<>>
    /\ packetCache \subseteq Clients /\ audio \subseteq Clients
    /\ Len(sendQueue) <= SendCap /\ Len(batch) <= MaxBatch
    /\ ended \subseteq {"sender", "program"}

\* Each buffer of udpPool is free, queued, with the sender or in the hands of one
\* thread: the break out of a loop, the failed encryption and the end of a batch
\* give back what they hold, and no push is ever refused (its packet would be lost).
UdpAccounted ==
    udpPool + Len(sendQueue) + Len(batch) + Cardinality(audio) + Held = UdpPool

\* The places of the encoded frames that wait in the clients' queues.
QueuedFrames ==
    UNION {UNION {{<<c, v, i>> : i \in 1 .. Len(encodeQueue[c][v])} :
                  v \in 1 .. Len(encodeQueue[c])} : c \in Clients}

\* Each buffer of packetPool is free, in some client's encodeQueue (a client that
\* has timed out keeps what it has) or in the packetizer's hands, although a frame
\* may be dropped by a full queue or cut off in the middle by an empty udpPool.
FramesAccounted ==
    packetPool + Len(packetizer.frames) + Cardinality(QueuedFrames) = PacketPool

Follows(p, q) ==
    \/ q.fid = p.fid /\ q.src = p.src /\ q.frag = p.frag + 1
    \/ q.fid > p.fid /\ q.src > p.src /\ q.frag = 0

\* The packets of a client on their way to the socket are its frames in order,
\* each fragment after the one before it; an id belongs to one encoded frame, and
\* a frame that was cut off is followed by the start of a later one.
StreamInOrder ==
    LET s     == batch \o sendQueue
        Of(c) == {i \in 1 .. Len(s) : s[i].client = c /\ s[i].kind = "video"}
    IN  \A c \in Clients : \A i, j \in Of(c) :
          i < j /\ (\A k \in Of(c) : ~(i < k /\ k < j)) => Follows(s[i], s[j])

\* An exhausted udpPool recovers while the session runs.
PoolRecovers ==
    udpPool = 0 ~> udpPool > 0 \/ ~running \/ "program" \in ended

\* A full encodeQueue is served while its client is there: no client keeps the
\* packetizer from another.
QueueServed ==
    \A c \in Clients :
      Len(encodeQueue[c]) = EncodeCap ~>
        Len(encodeQueue[c]) < EncodeCap \/ c \notin clients \/ ~running \/ "program" \in ended

\* Neither the pool nor a queue stays at its limit: the break of the packetizer out
\* of a frame it cannot finish lets the sender and the other clients go on.
HostMoves == PoolRecovers /\ QueueServed
=============================================================================
