---------------------------- MODULE Sessions_proof ----------------------------
(***************************************************************************)
(* Proofs about the sessions: starting and stopping them, for every list   *)
(* of calls of startSession and any number of lost devices, and the host's *)
(* handshake and registry, for every set of clients, every limit and every *)
(* number of threads.  The two halves share no state and no lemma.         *)
(***************************************************************************)
EXTENDS SessionLifecycle, HostSessions, FiniteSetTheorems, TLAPS

-----------------------------------------------------------------------------
\* SessionLifecycle

Roles == {"none", "host", "client", "both"}

Uis == [step : {"idle", "joinHost", "joinClient", "start", "spawn"}, role : Roles,
        window : BOOLEAN, stopped : BOOLEAN]

LifecycleTyped ==
    /\ ui \in Uis
    /\ plan \in Seq({"host", "client", "both"})
    /\ running \in BOOLEAN /\ callback \in BOOLEAN /\ served \in BOOLEAN
    /\ LifecycleTypeOK

\* The threads that runHost and runClient join run only while those wait for them.
WorkersHeld ==
    /\ capture # "none" \/ receiver # "none" =>
         host \in {"wait", "asleep", "check", "join", "joinEarly"}
    /\ net # "none" => client \in {"handshake", "stream", "unregister", "joinNet", "report"}

\* Whoever keeps the socket is there, it is free only when nobody is left who could,
\* and an audio thread runs only for a client that was served.
PortKept ==
    /\ port = "free" => ~InitRuns /\ ~served
    /\ port = "init" => InitRuns
    /\ port = "audio" => served
    /\ audio => served /\ port \in {"host", "audio"}

\* From the join on, a start that stopped a session finds its thread reaped.
ThreadsFree ==
    ui.stopped =>
      /\ ui.step \in {"joinClient", "start", "spawn"} /\ ui.role # "client" => host = "none"
      /\ ui.step \in {"start", "spawn"} => client = "none"

LifecycleInv ==
    /\ LifecycleTyped
    /\ WaitNotified
    /\ WorkersHeld
    /\ PortKept
    /\ InputAlive
    /\ ThreadsFree
    /\ StartAfterStop

USE DEF HostSteps, CaptureSteps, InitSteps, ClientSteps, LoopSteps, Roles

(***************************************************************************)
(* Nothing of a session runs or is bound before the first call.            *)
(***************************************************************************)
LEMMA InitEstablishesInv == LifecycleInit => LifecycleInv
<1> SUFFICES ASSUME LifecycleInit PROVE LifecycleInv
  OBVIOUS
<1>1. ui \in Uis /\ ui.stopped = FALSE
  BY DEF LifecycleInit, Uis
<1>2. plan \in Seq({"host", "client", "both"})
  BY LifecycleAssumption DEF LifecycleInit
<1> QED
  BY <1>1, <1>2 DEF LifecycleInit, LifecycleInv, LifecycleTyped, LifecycleTypeOK, WaitNotified,
     WorkersHeld, PortKept, InputAlive, ThreadsFree, StartAfterStop, CaptureDXGIInit, InitRuns

(***************************************************************************)
(* The thread of the front end.                                            *)
(***************************************************************************)
LEMMA FrontEndKeepsInv ==
    ASSUME LifecycleInv, fault = "none",
           \/ StartSession \/ StopSession \/ Joining \/ Starting \/ HandleMessage
    PROVE  LifecycleInv'
<1> USE DEF LifecycleInv, LifecycleTyped, LifecycleTypeOK, WaitNotified, WorkersHeld, PortKept,
            InputAlive, ThreadsFree, StartAfterStop, InitRuns, workerVars, ctxVars, dxgiVars
<1> DEFINE StartLeaves == <<callback, host, client, workerVars, ctxVars, input, fault, dxgiVars>>
<1>1. CASE StartSession
  <2>1. Head(plan) \in {"host", "client", "both"} /\ plan' \in Seq({"host", "client", "both"})
    BY <1>1 DEF StartSession
  <2>2. /\ ui' \in Uis
        /\ ui'.step = IF running THEN "joinHost" ELSE "start"
        /\ ui'.stopped = running
    BY <1>1, <2>1 DEF StartSession, Uis
  <2>3. running' \in BOOLEAN /\ UNCHANGED StartLeaves
    BY <1>1 DEF StartSession
  <2> QED BY <2>1, <2>2, <2>3
<1>2. CASE StopSession
  <2>1. ui' \in Uis /\ ui'.step = "joinHost" /\ ui'.stopped = ui.stopped
    BY <1>2 DEF StopSession, Uis
  <2>2. running' \in BOOLEAN /\ plan' = plan /\ UNCHANGED StartLeaves
    BY <1>2 DEF StopSession
  <2> QED BY <2>1, <2>2
<1>3. CASE JoinHost
  <2>1. ui' \in Uis /\ ui'.step = "joinClient" /\ ui'.role = ui.role /\ ui'.stopped = ui.stopped
    BY <1>3 DEF JoinHost, Uis
  <2> QED BY <1>3, <2>1 DEF JoinHost, Over
<1>4. CASE JoinClient
  <2>1. ui' \in Uis /\ ui'.step \in {"idle", "start"} /\ ui'.role = ui.role /\ ui'.stopped = ui.stopped
    BY <1>4 DEF JoinClient, Uis
  <2> QED BY <1>4, <2>1 DEF JoinClient, Over
<1>5. CASE \E ok \in BOOLEAN : CryptoInitialize(ok)
  <2>1. /\ ui.step = "start" /\ ui' \in Uis /\ ui'.stopped = ui.stopped
        /\ \/ ui'.step = "spawn" /\ ui'.role = ui.role
           \/ ui'.step \in {"joinHost", "idle"}
    BY <1>5 DEF CryptoInitialize, Uis
  <2>2. running' \in BOOLEAN /\ plan' = plan /\ UNCHANGED StartLeaves
    BY <1>5 DEF CryptoInitialize
  <2> QED BY <2>1, <2>2
<1>6. CASE SpawnHost
  <2>1. /\ ui.step = "spawn" /\ ui.role \in {"host", "both"}
        /\ ui' \in Uis /\ ui'.stopped = ui.stopped
        /\ \/ ui'.step = "spawn" /\ ui'.role = "client"
           \/ ui'.step = "idle"
    BY <1>6 DEF SpawnHost, Uis
  <2> QED BY <1>6, <2>1 DEF SpawnHost
<1>7. CASE SpawnClient
  <2>1. ui.step = "spawn" /\ ui' \in Uis /\ ui'.stopped = ui.stopped /\ ui'.step = "idle"
    BY <1>7 DEF SpawnClient, Uis
  <2> QED BY <1>7, <2>1 DEF SpawnClient
<1>8. CASE HandleMessage
  BY <1>8 DEF HandleMessage, uiVars
<1> QED BY <1>1, <1>2, <1>3, <1>4, <1>5, <1>6, <1>7, <1>8 DEF Joining, Starting

(***************************************************************************)
(* The thread of runHost.                                                  *)
(***************************************************************************)
LEMMA HostKeepsInv ==
    ASSUME LifecycleInv, fault = "none", HostThread \/ SpuriousWakeup
    PROVE  LifecycleInv'
<1> USE DEF LifecycleInv, LifecycleTyped, LifecycleTypeOK, WaitNotified, WorkersHeld, PortKept,
            InputAlive, ThreadsFree, StartAfterStop, InitRuns, Others, uiVars, workerVars, ctxVars,
            dxgiVars
<1>1. CASE HostBinds
  <2>1. /\ host = "bind" /\ port = "free" /\ port' = "host" /\ host' = "stun"
        /\ served' \in BOOLEAN /\ initThread' = "none"
        /\ UNCHANGED <<running, Others, capture, receiver, initDone, initFailed, dxgiVars, fault>>
    BY <1>1 DEF HostBinds
  <2> QED BY <2>1
<1>2. CASE HostBindFails
  <2>1. \/ fault' = "joinedItself" /\ UNCHANGED <<running, host>>
        \/ running' \in BOOLEAN /\ host' = "over" /\ UNCHANGED fault
    BY <1>2 DEF HostBindFails, HostReports
  <2>2. host = "bind" /\ UNCHANGED <<Others, capture, receiver, initThread, ctxVars, dxgiVars>>
    BY <1>2 DEF HostBindFails, HostReports
  <2> QED BY <2>1, <2>2
<1>3. CASE HostStarts
  BY <1>3 DEF HostStarts
<1>4. CASE HostWaits
  BY <1>4 DEF HostWaits
<1>5. CASE HostChecks
  <2>1. \/ fault' = "joinedItself" /\ UNCHANGED <<running, host>>
        \/ running' \in BOOLEAN /\ host' \in {"join", "joinEarly"} /\ UNCHANGED fault
    BY <1>5 DEF HostChecks, HostReports
  <2>2. host = "check" /\ UNCHANGED <<Others, capture, receiver, initThread, ctxVars, dxgiVars>>
    BY <1>5 DEF HostChecks, HostReports
  <2> QED BY <2>1, <2>2
<1>6. CASE HostLeavesEarly
  BY <1>6 DEF HostLeavesEarly, Over, Forgotten, KeptBy, Cleanup
<1>7. CASE HostJoins
  BY <1>7 DEF HostJoins, Over
<1>8. CASE HostLeaves
  <2>1. /\ host = "joinInit" /\ ~InitRuns /\ host' = "over" /\ initThread' = "none"
        /\ IF served THEN port' = "audio" ELSE port' = "free"
    BY <1>8 DEF HostLeaves, Forgotten, KeptBy, Cleanup
  <2>2. ~dupl' /\ ~held'
    BY <1>8 DEF HostLeaves, Forgotten, KeptBy, Cleanup
  <2>3. UNCHANGED <<running, Others, capture, receiver, served, losses, fault>>
    BY <1>8 DEF HostLeaves, Forgotten, KeptBy, Cleanup
  <2> QED BY <2>1, <2>2, <2>3
<1>9. CASE SpuriousWakeup
  BY <1>9 DEF SpuriousWakeup
<1> QED BY <1>1, <1>2, <1>3, <1>4, <1>5, <1>6, <1>7, <1>8, <1>9 DEF HostThread

(***************************************************************************)
(* The capture thread, and the loss of its device.                         *)
(***************************************************************************)
LEMMA CaptureKeepsInv ==
    ASSUME LifecycleInv, fault = "none", CaptureThread \/ LoseDevice
    PROVE  LifecycleInv'
<1> USE DEF LifecycleInv, LifecycleTyped, LifecycleTypeOK, WaitNotified, WorkersHeld, PortKept,
            InputAlive, ThreadsFree, StartAfterStop, InitRuns, Others, uiVars, workerVars, ctxVars,
            dxgiVars
<1>1. CASE CaptureBegins
  BY <1>1 DEF CaptureBegins
<1>2. CASE CaptureInitializes
  BY <1>2 DEF CaptureInitializes, Initialize, CaptureFails, Notified
<1>3. CASE CaptureTests
  BY <1>3 DEF CaptureTests, AcquireFrame, Cleanup, CaptureFails, Notified
<1>4. CASE CaptureNotifies
  BY <1>4 DEF CaptureNotifies, ReleaseFrame, Notified
<1>5. CASE CaptureLoops
  BY <1>5 DEF CaptureLoops, AcquireFrame, Cleanup
<1>6. CASE CaptureGivesBack
  BY <1>6 DEF CaptureGivesBack, ReleaseFrame
<1>7. CASE CaptureReinitializes
  BY <1>7 DEF CaptureReinitializes, Initialize
<1>8. CASE LoseDevice
  BY <1>8 DEF LoseDevice, DeviceRemoved
<1> QED BY <1>1, <1>2, <1>3, <1>4, <1>5, <1>6, <1>7, <1>8 DEF CaptureThread

(***************************************************************************)
(* The receiver thread and the initialization thread it starts.            *)
(***************************************************************************)
LEMMA InitKeepsInv ==
    ASSUME LifecycleInv, fault = "none", InitWorks \/ Handshake \/ ReceiverLeaves \/ ReceiverSpins
    PROVE  LifecycleInv'
<1> USE DEF LifecycleInv, LifecycleTyped, LifecycleTypeOK, WaitNotified, WorkersHeld, PortKept,
            InputAlive, ThreadsFree, StartAfterStop, InitRuns, Others, uiVars, workerVars, ctxVars,
            dxgiVars
<1>1. CASE InitBegins
  BY <1>1 DEF InitBegins, InitEnds
<1>2. CASE InitDerivesKeys
  BY <1>2 DEF InitDerivesKeys, InitEnds
<1>3. CASE InitOpensEncoder
  <2>1. /\ initThread = "encoder" /\ initThread' \in {"encoder", "report", "done"}
        /\ running' \in BOOLEAN /\ served' \in BOOLEAN /\ (served => served')
    BY <1>3 DEF InitOpensEncoder, InitEnds, AudioInitialize, AudioStart
  <2>2. \/ UNCHANGED port /\ (initThread' = "done" => port # "init")
        \/ /\ port = "init" /\ initThread' = "done"
           /\ IF served' THEN port' = "audio" ELSE port' = "free"
    BY <1>3 DEF InitOpensEncoder, InitEnds, AudioInitialize, AudioStart
  <2>3. audio' = audio \/ (audio' = TRUE /\ served' = TRUE /\ initThread' = "done")
    <3>1. CASE AudioInitialize /\ AudioStart
      BY <3>1 DEF InitEnds, AudioInitialize, AudioStart
    <3>2. CASE UNCHANGED audio
      BY <3>2
    <3> QED BY <1>3, <3>1, <3>2 DEF InitOpensEncoder
  <2>4. /\ fault' # "assigned"
        /\ UNCHANGED <<callback, uiVars, client, net, input, host, capture, receiver, initDone,
                       initFailed, dxgiVars>>
    BY <1>3 DEF InitOpensEncoder, InitEnds, AudioInitialize, AudioStart
  <2>5. PortKept'
    <3>1. served' => served' = TRUE
      BY <2>1
    <3>2. CASE UNCHANGED audio
      BY <2>1, <2>2, <3>1, <3>2
    <3>3. CASE audio' = TRUE /\ served' = TRUE /\ initThread' = "done"
      BY <2>1, <2>2, <3>3
    <3> QED BY <2>3, <3>2, <3>3
  <2>6. LifecycleTypeOK'
    <3>1. audio' \in BOOLEAN
      <4>1. audio \in BOOLEAN
        OBVIOUS
      <4> QED BY <2>3, <4>1
    <3>2. port' \in {"free", "host", "init", "audio"} /\ (port' = "host" <=> port = "host")
      BY <2>1, <2>2
    <3>3. initThread' \in InitSteps
      BY <2>1
    <3> QED BY <2>4, <3>1, <3>2, <3>3
  <2> QED BY <2>1, <2>4, <2>5, <2>6
<1>4. CASE InitJoins
  BY <1>4 DEF InitJoins, InitEnds, Over
<1>5. CASE Handshake
  BY <1>5 DEF Handshake
<1>6. CASE ReceiverLeaves
  BY <1>6 DEF ReceiverLeaves
<1>7. CASE ReceiverSpins
  BY <1>7 DEF ReceiverSpins
<1> QED BY <1>1, <1>2, <1>3, <1>4, <1>5, <1>6, <1>7 DEF InitWorks

(***************************************************************************)
(* The thread of runClient and netThread.                                  *)
(***************************************************************************)
LEMMA ClientKeepsInv ==
    ASSUME LifecycleInv, fault = "none", ClientThread \/ StreamEnds \/ NetLeaves \/ NetSpins
    PROVE  LifecycleInv'
<1> USE DEF LifecycleInv, LifecycleTyped, LifecycleTypeOK, WaitNotified, WorkersHeld, PortKept,
            InputAlive, ThreadsFree, StartAfterStop, InitRuns, Others, uiVars, workerVars, ctxVars,
            dxgiVars, HostSide
<1>1. CASE ClientBinds
  <2>1. client = "bind" /\ running' \in BOOLEAN /\ client' \in {"stun", "report", "over"}
    BY <1>1 DEF ClientBinds, HostSide, ClientReports
  <2>2. input' = input /\ UNCHANGED <<callback, uiVars, HostSide, net, fault>>
    BY <1>1 DEF ClientBinds, HostSide, ClientReports
  <2> QED BY <2>1, <2>2
<1>2. CASE ClientRegisters
  BY <1>2 DEF ClientRegisters, HostSide
<1>3. CASE ClientOpensRenderer
  <2>1. /\ client = "renderer" /\ running' \in BOOLEAN
        /\ \/ client' \in {"decoder", "report"} /\ input' = input
           \/ client' = "over" /\ input' \in {"null", "dangling"}
    BY <1>3 DEF ClientOpensRenderer, HostSide, ClientReports, Left
  <2>2. UNCHANGED <<callback, uiVars, HostSide, net, fault>>
    BY <1>3 DEF ClientOpensRenderer, HostSide, ClientReports, Left
  <2> QED BY <2>1, <2>2
<1>4. CASE ClientOpensDecoder
  <2>1. /\ client = "decoder" /\ running' \in BOOLEAN
        /\ \/ client' = "handshake" /\ net' = "loop" /\ input' = input
           \/ client' = "report" /\ net' = net /\ input' = input
           \/ client' = "over" /\ net' = net /\ input' \in {"null", "dangling"}
    BY <1>4 DEF ClientOpensDecoder, HostSide, ClientReports, Left
  <2>2. UNCHANGED <<callback, uiVars, HostSide, fault>>
    BY <1>4 DEF ClientOpensDecoder, HostSide, ClientReports, Left
  <2> QED BY <2>1, <2>2
<1>5. CASE HandshakeEnds
  <2>1. /\ client = "handshake" /\ running' \in BOOLEAN
        /\ \/ client' \in {"stream", "report"} /\ input' = input
           \/ client' = "joinNet" /\ input' = "null"
    BY <1>5 DEF HandshakeEnds, HostSide, ClientReports
  <2>2. UNCHANGED <<callback, uiVars, HostSide, net, fault>>
    BY <1>5 DEF HandshakeEnds, HostSide, ClientReports
  <2> QED BY <2>1, <2>2
<1>6. CASE StreamEnds
  <2>1. client = "stream" /\ running' \in BOOLEAN /\ client' \in {"unregister", "report"}
    BY <1>6 DEF StreamEnds, HostSide, ClientReports
  <2>2. input' = input /\ UNCHANGED <<callback, uiVars, HostSide, net, fault>>
    BY <1>6 DEF StreamEnds, HostSide, ClientReports
  <2> QED BY <2>1, <2>2
<1>7. CASE ClientUnregisters
  BY <1>7 DEF ClientUnregisters, HostSide
<1>8. CASE ClientJoinsNet
  BY <1>8 DEF ClientJoinsNet, HostSide, Over
<1>9. CASE ClientJoinsItself
  BY <1>9 DEF ClientJoinsItself, HostSide, Over
<1>10. CASE NetLeaves
  BY <1>10 DEF NetLeaves, HostSide
<1>11. CASE NetSpins
  BY <1>11 DEF NetSpins, HostSide
<1> QED BY <1>1, <1>2, <1>3, <1>4, <1>5, <1>6, <1>7, <1>8, <1>9, <1>10, <1>11 DEF ClientThread

(***************************************************************************)
(* Every step keeps the invariant.                                         *)
(***************************************************************************)
LEMMA StepKeepsInv == LifecycleInv /\ [LifecycleNext]_lifeVars => LifecycleInv'
<1> SUFFICES ASSUME LifecycleInv, [LifecycleNext]_lifeVars PROVE LifecycleInv'
  OBVIOUS
<1>1. CASE Quiet
  BY <1>1 DEF Quiet, lifeVars, LifecycleInv, LifecycleTyped, LifecycleTypeOK, WaitNotified, WorkersHeld,
     PortKept, InputAlive, ThreadsFree, StartAfterStop, InitRuns, uiVars, workerVars, ctxVars, dxgiVars
<1>2. CASE fault = "none" /\ ~Quiet
  BY <1>2, FrontEndKeepsInv, HostKeepsInv, CaptureKeepsInv, InitKeepsInv, ClientKeepsInv
     DEF LifecycleNext, Quiet, Environment, Malformed
<1>3. CASE fault # "none" /\ ~Quiet
  BY <1>3 DEF LifecycleNext, Quiet
<1> QED BY <1>1, <1>2, <1>3

\* The invariant holds in every state that is reached.
THEOREM LifecycleInvariant == LifecycleSpec => []LifecycleInv
<1>1. LifecycleInit => LifecycleInv
  BY InitEstablishesInv
<1>2. LifecycleInv /\ [LifecycleNext]_lifeVars => LifecycleInv'
  BY StepKeepsInv
<1> QED BY <1>1, <1>2, PTL DEF LifecycleSpec

\* The threads, the socket and the duplication keep their types: the host's socket
\* is open exactly while runHost runs.
THEOREM LifecycleTypeCorrect == LifecycleSpec => []LifecycleTypeOK
<1>1. LifecycleInv => LifecycleTypeOK
  BY DEF LifecycleInv, LifecycleTyped
<1> QED BY <1>1, LifecycleInvariant, PTL

\* runHost never sleeps on initCv past an outcome that is recorded: the capture
\* thread is then about to notify.
THEOREM NoLostWakeup == LifecycleSpec => []WaitNotified
<1>1. LifecycleInv => WaitNotified
  BY DEF LifecycleInv
<1> QED BY <1>1, LifecycleInvariant, PTL

\* After stopSession the threads that runHost and runClient join are gone; the host's
\* socket is open just when an initialization thread or a served client's audio is
\* left behind, and an audio thread left behind keeps it.
THEOREM StopLeavesNothing == LifecycleSpec => []NothingLeft
<1>1. LifecycleInv => NothingLeft
  BY DEF LifecycleInv, LifecycleTyped, LifecycleTypeOK, WorkersHeld, PortKept, NothingLeft, Stopped
<1> QED BY <1>1, LifecycleInvariant, PTL

\* While m_activeInputCapture is valid, runClient is between the registration of its
\* input capture and the reset.  That it never dangles is not claimed: an early
\* return leaves it so.
THEOREM InputPointerAlive == LifecycleSpec => []InputAlive
<1>1. LifecycleInv => InputAlive
  BY DEF LifecycleInv
<1> QED BY <1>1, LifecycleInvariant, PTL

\* A startSession that stops the running session first never assigns to a thread
\* that is still joinable.
THEOREM StoppedThenStarted == LifecycleSpec => []StartAfterStop
<1>1. LifecycleInv => StartAfterStop
  BY DEF LifecycleInv
<1> QED BY <1>1, LifecycleInvariant, PTL

-----------------------------------------------------------------------------
\* HostSessions

StepNames == {"derive", "open", "push", "answer", "erase", "done"}

(***************************************************************************)
(* The steps of an initialization thread follow each other as in the code. *)
(***************************************************************************)
LEMMA StepOrder ==
    /\ {Steps[n] : n \in 1 .. Len(Steps)} = StepNames
    /\ After("derive") = "open"
    /\ After("open") = "push"
    /\ After("push") = "answer"
    /\ After("answer") = "erase"
<1>1. {Steps[n] : n \in 1 .. Len(Steps)} = StepNames
  BY DEF Steps, StepNames
<1>2. /\ Len(Steps) = 6
      /\ Steps[1] = "derive" /\ Steps[2] = "open" /\ Steps[3] = "push"
      /\ Steps[4] = "answer" /\ Steps[5] = "erase"
  BY DEF Steps
<1>3. (CHOOSE n \in 2 .. Len(Steps) : Steps[n - 1] = "derive") = 2
  BY DEF Steps
<1>4. (CHOOSE n \in 2 .. Len(Steps) : Steps[n - 1] = "open") = 3
  BY DEF Steps
<1>5. (CHOOSE n \in 2 .. Len(Steps) : Steps[n - 1] = "push") = 4
  BY DEF Steps
<1>6. (CHOOSE n \in 2 .. Len(Steps) : Steps[n - 1] = "answer") = 5
  BY DEF Steps
<1>7. After("derive") = "open" /\ After("open") = "push"
  BY <1>2, <1>3, <1>4 DEF After
<1>8. After("push") = "answer" /\ After("answer") = "erase"
  BY <1>2, <1>5, <1>6 DEF After
<1> QED BY <1>1, <1>7, <1>8

(***************************************************************************)
(* One step of an initialization thread moves that thread alone, and what  *)
(* the move does to the registry.                                          *)
(***************************************************************************)
LEMMA ThreadMoves ==
    ASSUME SessionsTyped, NEW s \in Sessions, InitThread(s)
    PROVE  /\ owner' = owner /\ inHand' = inHand
           /\ UNCHANGED <<handshakes, sessionId, trying, streaming, timedOut>>
           /\ threadPc' \in Seq(StepNames) /\ Len(threadPc') = Len(owner)
           /\ \A t \in Sessions \ {s} : threadPc'[t] = threadPc[t]
           /\ \/ /\ threadPc[s] = "derive" /\ threadPc'[s] = "open"
                 /\ UNCHANGED <<clients, initializingClients, responses>>
              \/ /\ threadPc[s] \in {"derive", "erase"} /\ threadPc'[s] = "done"
                 /\ initializingClients' = initializingClients \ {owner[s]}
                 /\ UNCHANGED <<clients, responses>>
              \/ /\ threadPc[s] = "open" /\ threadPc'[s] \in {"push", "erase"}
                 /\ UNCHANGED <<clients, initializingClients, responses>>
              \/ /\ threadPc[s] = "push" /\ threadPc'[s] = "answer"
                 /\ clients' = clients \cup {s}
                 /\ UNCHANGED <<initializingClients, responses>>
              \/ /\ threadPc[s] = "answer" /\ threadPc'[s] = "erase"
                 /\ responses' = responses \cup {s}
                 /\ UNCHANGED <<clients, initializingClients>>
<1>1. threadPc \in Seq(StepNames) /\ Len(threadPc) = Len(owner) /\ s \in 1 .. Len(threadPc)
  BY StepOrder DEF SessionsTyped, SessionsTypeOK, Sessions
<1>2. ASSUME NEW step \in StepNames, Reaches(s, step)
      PROVE  /\ threadPc' \in Seq(StepNames) /\ Len(threadPc') = Len(owner)
             /\ \A t \in Sessions \ {s} : threadPc'[t] = threadPc[t]
             /\ threadPc'[s] = step
  <2>1. threadPc' = [threadPc EXCEPT ![s] = step]
    BY <1>2 DEF Reaches
  <2>2. threadPc' \in Seq(StepNames) /\ Len(threadPc') = Len(owner)
    BY <1>1, <2>1
  <2> QED BY <1>1, <2>1, <2>2 DEF Sessions
<1>3. CASE Derive(s)
  BY <1>2, <1>3, StepOrder DEF Derive, WithoutFailed, StepNames, clientVars, netVars
<1>4. CASE Open(s)
  BY <1>2, <1>4, StepOrder DEF Open, StepNames, clientVars, netVars
<1>5. CASE PushBack(s)
  BY <1>2, <1>5, StepOrder DEF PushBack, StepNames, clientVars, netVars
<1>6. CASE Answer(s)
  BY <1>2, <1>6, StepOrder DEF Answer, StepNames, clientVars
<1>7. CASE Erase(s)
  BY <1>2, <1>7, StepOrder DEF Erase, StepNames, clientVars, netVars
<1> QED BY <1>3, <1>4, <1>5, <1>6, <1>7 DEF InitThread

\* The second critical section passes its two tests.
Admits == /\ HandshakeAdmitted
          /\ ~ TooManyClients
          /\ inHand \in Endpoints \ initializingClients

(***************************************************************************)
(* What the second critical section does when it starts a thread.          *)
(***************************************************************************)
LEMMA AdmissionAdds ==
    ASSUME SessionsTyped, Admits, owner' # owner
    PROVE  /\ inHand' = NoEndpoint
           /\ initializingClients' = initializingClients \cup {inHand}
           /\ Len(owner) \in Nat /\ Len(owner) + 1 <= MaxSessions
           /\ owner' \in Seq(Endpoints) /\ Len(owner') = Len(owner) + 1
           /\ Sessions' = Sessions \cup {Len(owner) + 1} /\ Len(owner) + 1 \notin Sessions
           /\ threadPc' \in Seq(StepNames) /\ Len(threadPc') = Len(owner')
           /\ owner'[Len(owner) + 1] = inHand /\ threadPc'[Len(owner) + 1] = "derive"
           /\ \A t \in Sessions : owner'[t] = owner[t] /\ threadPc'[t] = threadPc[t]
           /\ UNCHANGED <<clients, clientVars, netVars, timedOut>>
<1>1. /\ owner \in Seq(Endpoints) /\ Len(owner) <= MaxSessions
      /\ threadPc \in Seq(StepNames) /\ Len(threadPc) = Len(owner)
      /\ Len(owner) \in Nat
  BY StepOrder DEF SessionsTyped, SessionsTypeOK
<1>2. /\ inHand' = NoEndpoint
      /\ Len(owner) < MaxSessions
      /\ initializingClients' = initializingClients \cup {inHand}
      /\ owner' = Append(owner, inHand)
      /\ threadPc' = Append(threadPc, "derive")
      /\ UNCHANGED <<clients, clientVars, netVars, timedOut>>
  BY DEF Admits, HandshakeAdmitted
<1>3. inHand \in Endpoints
  BY DEF Admits
<1>4. owner' \in Seq(Endpoints) /\ Len(owner') = Len(owner) + 1
  BY <1>1, <1>2, <1>3
<1>5. threadPc' \in Seq(StepNames) /\ Len(threadPc') = Len(owner')
  BY <1>1, <1>2, <1>4 DEF StepNames
<1>6. owner'[Len(owner) + 1] = inHand /\ \A t \in Sessions : owner'[t] = owner[t]
  BY <1>1, <1>2, <1>3 DEF Sessions
<1>7. threadPc'[Len(owner) + 1] = "derive" /\ \A t \in Sessions : threadPc'[t] = threadPc[t]
  BY <1>1, <1>2 DEF Sessions, StepNames
<1>8. Sessions' = Sessions \cup {Len(owner) + 1} /\ Len(owner) + 1 \notin Sessions
  BY <1>1, <1>4 DEF Sessions
<1>9. Len(owner) + 1 <= MaxSessions
  BY <1>1, <1>2, SessionsAssumption
<1>10. Sessions' = Sessions \cup {Len(owner) + 1}
  BY <1>8
<1> QED BY <1>1, <1>2, <1>4, <1>5, <1>6, <1>7, <1>8, <1>9, <1>10

(***************************************************************************)
(* Every step is one of five: an admission, a step of a thread, a time-out,*)
(* a packet taken in hand, or a step that leaves the registry alone.       *)
(***************************************************************************)
LEMMA StepKinds ==
    ASSUME SessionsTyped, [SessionsNext]_vars
    PROVE  \/ Admits /\ owner' # owner
           \/ \E s \in Sessions : InitThread(s)
           \/ \E s \in Sessions : TimeOut(s)
           \/ HandshakeArrives
           \/ /\ UNCHANGED <<clients, initializingClients, owner, threadPc, timedOut, responses>>
              /\ inHand' \in {inHand, NoEndpoint}
              /\ \/ UNCHANGED <<handshakes, clientVars>>
                 \/ \E e \in Endpoints : Client(e)
<1>1. ASSUME HandshakeAdmitted
      PROVE  \/ Admits /\ owner' # owner
             \/ /\ UNCHANGED <<clients, initializingClients, owner, threadPc, timedOut, responses>>
                /\ inHand' = NoEndpoint
                /\ UNCHANGED <<handshakes, clientVars>>
  <2>1. CASE TooManyClients \/ inHand \in initializingClients
    BY <1>1, <2>1 DEF HandshakeAdmitted, netVars
  <2>2. CASE ~ (TooManyClients \/ inHand \in initializingClients)
    <3>1. inHand \in Endpoints
      BY <1>1 DEF HandshakeAdmitted, SessionsTyped, SessionsTypeOK
    <3>2. owner' = Append(owner, inHand) /\ owner \in Seq(Endpoints)
      BY <1>1, <2>2 DEF HandshakeAdmitted, SessionsTyped, SessionsTypeOK
    <3>3. Len(owner') = Len(owner) + 1 /\ Len(owner) \in Nat
      BY <3>1, <3>2
    <3>4. owner' # owner
      BY <3>3
    <3> QED BY <1>1, <2>2, <3>1, <3>4 DEF Admits
  <2> QED BY <2>1, <2>2
<1>2. ASSUME NEW e \in Endpoints, Client(e)
      PROVE  /\ UNCHANGED <<clients, initializingClients, owner, threadPc, timedOut, responses>>
             /\ inHand' = inHand
  BY <1>2 DEF Client, SendHandshake, ApprovalArrives, LeaveLoop, hostVars, netVars
<1>3. ASSUME UNCHANGED vars
      PROVE  /\ UNCHANGED <<clients, initializingClients, owner, threadPc, timedOut, responses>>
             /\ inHand' = inHand
             /\ UNCHANGED <<handshakes, clientVars>>
  BY <1>3 DEF vars, hostVars, netVars
<1> QED BY <1>1, <1>2, <1>3 DEF SessionsNext, ReceiverThread

(***************************************************************************)
(* Type correctness is inductive.                                          *)
(***************************************************************************)
LEMMA TypedStep ==
    ASSUME SessionsTyped, [SessionsNext]_vars
    PROVE  SessionsTyped'
<1> USE DEF SessionsTyped, SessionsTypeOK
<1>0. {Steps[n] : n \in 1 .. Len(Steps)} = StepNames
  BY StepOrder
<1>1. CASE Admits /\ owner' # owner
  <2>1. Sessions \subseteq Sessions'
    BY <1>1, AdmissionAdds
  <2>2. owner' \in Seq(Endpoints) /\ Len(owner') <= MaxSessions
    BY <1>1, AdmissionAdds
  <2>3. threadPc' \in Seq({Steps[n] : n \in 1 .. Len(Steps)}) /\ Len(threadPc') = Len(owner')
    BY <1>0, <1>1, AdmissionAdds
  <2>4. initializingClients' \subseteq Endpoints /\ inHand' \in Endpoints \cup {NoEndpoint}
    BY <1>1, AdmissionAdds DEF Admits
  <2> QED BY <1>1, <2>1, <2>2, <2>3, <2>4, AdmissionAdds DEF clientVars, netVars
<1>2. ASSUME NEW s \in Sessions, InitThread(s)
      PROVE  SessionsTyped'
  <2>1. Sessions' = Sessions
    BY <1>2, ThreadMoves DEF Sessions
  <2> QED BY <1>0, <1>2, <2>1, ThreadMoves
<1>3. ASSUME NEW s \in Sessions, TimeOut(s)
      PROVE  SessionsTyped'
  BY <1>3 DEF TimeOut, Sessions, clientVars, netVars
<1>4. CASE HandshakeArrives
  BY <1>4 DEF HandshakeArrives, Sessions, clientVars, netVars
<1>5. CASE /\ UNCHANGED <<clients, initializingClients, owner, threadPc, timedOut, responses>>
           /\ inHand' \in {inHand, NoEndpoint}
           /\ \/ UNCHANGED <<handshakes, clientVars>>
              \/ \E e \in Endpoints : Client(e)
  <2>1. CASE UNCHANGED <<handshakes, clientVars>>
    BY <1>5, <2>1 DEF Sessions, clientVars
  <2>2. ASSUME NEW e \in Endpoints, Client(e)
        PROVE  SessionsTyped'
    <3>1. /\ handshakes' \subseteq Endpoints
          /\ sessionId' \in [Endpoints -> Sessions \cup {NoSession}]
          /\ trying' \subseteq Endpoints /\ streaming' \subseteq Endpoints
          /\ trying' \cap streaming' = {}
      <4>1. CASE SendHandshake(e)
        BY <4>1 DEF SendHandshake, clientVars
      <4>2. CASE ApprovalArrives(e)
        BY <4>2 DEF ApprovalArrives, netVars
      <4>3. CASE LeaveLoop(e)
        BY <4>3 DEF LeaveLoop, netVars
      <4> QED BY <2>2, <4>1, <4>2, <4>3 DEF Client
    <3>2. Sessions' = Sessions
      BY <1>5 DEF Sessions
    <3> QED BY <1>5, <3>1, <3>2
  <2> QED BY <1>5, <2>1, <2>2
<1> QED BY <1>1, <1>2, <1>3, <1>4, <1>5, StepKinds

(***************************************************************************)
(* The endpoints being initialized are tracked exactly.                    *)
(***************************************************************************)
LEMMA TrackedStep ==
    ASSUME SessionsTyped, InitializingTracked, [SessionsNext]_vars
    PROVE  InitializingTracked'
<1> USE DEF InitializingTracked, Working
<1>1. CASE Admits /\ owner' # owner
  <2>1. Working' = Working \cup {Len(owner) + 1}
    BY <1>1, AdmissionAdds
  <2>2. inHand \notin initializingClients
    BY <1>1 DEF Admits
  <2>3. \A t \in Working : owner'[t] = owner[t] /\ owner[t] # inHand
    BY <1>1, <2>2, AdmissionAdds
  <2>4. initializingClients' = initializingClients \cup {inHand} /\ owner'[Len(owner) + 1] = inHand
    BY <1>1, AdmissionAdds
  <2>5. initializingClients' = {owner'[s] : s \in Working'}
    <3> HIDE DEF Working
    <3> QED BY <2>1, <2>3, <2>4
  <2>6. \A s, t \in Working' : owner'[s] = owner'[t] => s = t
    <3>1. \A s, t \in Working : owner[s] = owner[t] => s = t
      OBVIOUS
    <3> HIDE DEF Working
    <3> QED BY <2>1, <2>3, <2>4, <3>1
  <2> QED BY <2>5, <2>6
<1>2. ASSUME NEW s \in Sessions, InitThread(s)
      PROVE  InitializingTracked'
  <2>1. owner' = owner /\ Sessions' = Sessions
    BY <1>2, ThreadMoves DEF Sessions
  <2>2. CASE initializingClients' = initializingClients /\ threadPc[s] # "done" /\ threadPc'[s] # "done"
    <3>1. Working' = Working
      BY <1>2, <2>1, <2>2, ThreadMoves
    <3> QED BY <2>1, <2>2, <3>1
  <2>3. CASE /\ initializingClients' = initializingClients \ {owner[s]}
             /\ threadPc[s] # "done" /\ threadPc'[s] = "done"
    <3>1. Working' = Working \ {s} /\ s \in Working
      BY <1>2, <2>1, <2>3, ThreadMoves
    <3>2. \A t \in Working : owner[t] = owner[s] => t = s
      BY <3>1
    <3>3. initializingClients = {owner[t] : t \in Working}
      OBVIOUS
    <3>4. initializingClients' = {owner[t] : t \in Working \ {s}}
      <4> HIDE DEF Working
      <4> QED BY <2>3, <3>1, <3>2, <3>3
    <3> QED BY <2>1, <3>1, <3>4
  <2> QED BY <1>2, <2>2, <2>3, ThreadMoves
<1>3. ASSUME UNCHANGED <<initializingClients, owner, threadPc>>
      PROVE  InitializingTracked'
  BY <1>3 DEF Sessions
<1>4. ASSUME NEW s \in Sessions, TimeOut(s)
      PROVE  UNCHANGED <<initializingClients, owner, threadPc>>
  BY <1>4 DEF TimeOut
<1>5. ASSUME HandshakeArrives
      PROVE  UNCHANGED <<initializingClients, owner, threadPc>>
  BY <1>5 DEF HandshakeArrives
<1> QED BY <1>1, <1>2, <1>3, <1>4, <1>5, StepKinds

(***************************************************************************)
(* A step admits one session more, or admits none.                         *)
(***************************************************************************)
LEMMA AdmittedStep ==
    ASSUME SessionsTyped, [SessionsNext]_vars
    PROVE  \/ /\ Admits /\ owner' # owner
              /\ Admitted' = Admitted \cup {Len(owner) + 1}
           \/ owner' = owner /\ Admitted' \subseteq Admitted
<1> USE DEF Admitted
<1>1. ASSUME Admits, owner' # owner
      PROVE  Admitted' = Admitted \cup {Len(owner) + 1}
  BY <1>1, AdmissionAdds
<1>2. ASSUME NEW s \in Sessions, InitThread(s)
      PROVE  owner' = owner /\ Admitted' \subseteq Admitted
  <2>1. owner' = owner /\ Sessions' = Sessions
    BY <1>2, ThreadMoves DEF Sessions
  <2> QED BY <1>2, <2>1, ThreadMoves
<1>3. ASSUME NEW s \in Sessions, TimeOut(s)
      PROVE  owner' = owner /\ Admitted' \subseteq Admitted
  BY <1>3 DEF TimeOut, Sessions
<1>4. ASSUME UNCHANGED <<clients, owner, threadPc>>
      PROVE  owner' = owner /\ Admitted' \subseteq Admitted
  BY <1>4 DEF Sessions
<1>5. ASSUME HandshakeArrives
      PROVE  UNCHANGED <<clients, owner, threadPc>>
  BY <1>5 DEF HandshakeArrives
<1> QED BY <1>1, <1>2, <1>3, <1>4, <1>5, StepKinds

(***************************************************************************)
(* The two counts of the limit test bound the sessions admitted: a thread  *)
(* at work is counted by its endpoint, which no other thread works for.    *)
(***************************************************************************)
LEMMA AdmittedCounted ==
    ASSUME SessionsTyped, InitializingTracked
    PROVE  /\ IsFiniteSet(Admitted)
           /\ IsFiniteSet(clients) /\ IsFiniteSet(initializingClients)
           /\ Cardinality(Admitted) <= Cardinality(clients) + Cardinality(initializingClients)
<1>1. IsFiniteSet(Sessions)
  <2>1. Len(owner) \in Nat
    BY DEF SessionsTyped, SessionsTypeOK
  <2> QED BY <2>1, FS_Interval DEF Sessions
<1>2. clients \subseteq Sessions /\ Working \subseteq Sessions /\ Admitted \subseteq Sessions
  BY DEF SessionsTyped, SessionsTypeOK, Working, Admitted
<1>3. IsFiniteSet(clients) /\ IsFiniteSet(Working) /\ IsFiniteSet(Admitted)
  BY <1>1, <1>2, FS_Subset
<1>4. PICK f \in [Working -> initializingClients] : f = [s \in Working |-> owner[s]]
  BY DEF InitializingTracked
<1>5. f \in Surjection(Working, initializingClients)
  BY <1>4 DEF InitializingTracked, Surjection
<1>6. f \in Injection(Working, initializingClients)
  BY <1>4 DEF InitializingTracked, Injection, IsInjective
<1>7. /\ IsFiniteSet(initializingClients)
      /\ Cardinality(initializingClients) = Cardinality(Working)
  BY <1>3, <1>5, <1>6, FS_Surjection
<1>8. Admitted \subseteq clients \cup Working
  BY DEF Admitted, Working
<1>9. /\ IsFiniteSet(clients \cup Working)
      /\ Cardinality(clients \cup Working) <= Cardinality(clients) + Cardinality(Working)
  <2>1. Cardinality(clients \cap Working) \in Nat
    BY <1>3, FS_Intersection, FS_CardinalityType
  <2>2. Cardinality(clients) \in Nat /\ Cardinality(Working) \in Nat
    BY <1>3, FS_CardinalityType
  <2>3. /\ IsFiniteSet(clients \cup Working)
        /\ Cardinality(clients \cup Working) =
             Cardinality(clients) + Cardinality(Working) - Cardinality(clients \cap Working)
    BY <1>3, FS_Union
  <2> QED BY <2>1, <2>2, <2>3
<1>10. Cardinality(Admitted) <= Cardinality(clients \cup Working)
  BY <1>8, <1>9, FS_Subset
<1>11. /\ Cardinality(Admitted) \in Nat /\ Cardinality(clients) \in Nat
       /\ Cardinality(clients \cup Working) \in Nat /\ Cardinality(Working) \in Nat
  BY <1>3, <1>9, FS_CardinalityType
<1> QED BY <1>3, <1>7, <1>9, <1>10, <1>11

(***************************************************************************)
(* The limit is kept.                                                      *)
(***************************************************************************)
LEMMA LimitStep ==
    ASSUME SessionsTyped, InitializingTracked, ClientLimit, [SessionsNext]_vars
    PROVE  ClientLimit'
<1>1. /\ IsFiniteSet(Admitted) /\ Cardinality(Admitted) \in Nat
      /\ Cardinality(clients) \in Nat /\ Cardinality(initializingClients) \in Nat
      /\ Cardinality(Admitted) <= Cardinality(clients) + Cardinality(initializingClients)
  BY AdmittedCounted, FS_CardinalityType
<1>2. CASE Admits /\ Admitted' = Admitted \cup {Len(owner) + 1}
  <2>1. Cardinality(clients) + Cardinality(initializingClients) < Limit
    BY <1>1, <1>2, SessionsAssumption DEF Admits, TooManyClients
  <2>2. Cardinality(Admitted') <= Cardinality(Admitted) + 1
    <3>1. Cardinality(Admitted') = IF Len(owner) + 1 \in Admitted
                                   THEN Cardinality(Admitted) ELSE Cardinality(Admitted) + 1
      BY <1>1, <1>2, FS_AddElement
    <3> QED BY <1>1, <3>1
  <2>3. Cardinality(Admitted') \in Nat
    BY <1>1, <1>2, FS_AddElement, FS_CardinalityType
  <2> QED BY <1>1, <2>1, <2>2, <2>3, SessionsAssumption DEF ClientLimit
<1>3. CASE Admitted' \subseteq Admitted
  <2>1. Cardinality(Admitted') <= Cardinality(Admitted) /\ Cardinality(Admitted') \in Nat
    BY <1>1, <1>3, FS_Subset, FS_CardinalityType
  <2> QED BY <1>1, <2>1, SessionsAssumption DEF ClientLimit
<1> QED BY <1>2, <1>3, AdmittedStep

(***************************************************************************)
(* An approval follows the push_back of its session.                       *)
(***************************************************************************)
LEMMA ApprovalStep ==
    ASSUME SessionsTyped, ApprovedAfterPush, [SessionsNext]_vars
    PROVE  ApprovedAfterPush'
<1> USE DEF ApprovedAfterPush
<1>0. /\ clients \subseteq Sessions /\ responses \subseteq Sessions
      /\ sessionId \in [Endpoints -> Sessions \cup {NoSession}]
  BY DEF SessionsTyped, SessionsTypeOK
<1>1. CASE Admits /\ owner' # owner
  <2>1. /\ UNCHANGED <<clients, responses, timedOut, sessionId, streaming>>
        /\ Sessions' = Sessions \cup {Len(owner) + 1} /\ Len(owner) + 1 \notin Sessions
        /\ threadPc'[Len(owner) + 1] = "derive"
        /\ \A t \in Sessions : owner'[t] = owner[t] /\ threadPc'[t] = threadPc[t]
    BY <1>1, AdmissionAdds DEF clientVars, netVars
  <2>2. \A t \in Sessions' : threadPc'[t] = "answer" \/ t \in responses'
                                => t \in clients' \cup timedOut'
    BY <1>0, <2>1
  <2> QED BY <1>0, <2>1, <2>2
<1>2. ASSUME NEW s \in Sessions, InitThread(s)
      PROVE  ApprovedAfterPush'
  <2>1. Sessions' = Sessions
    BY <1>2, ThreadMoves DEF Sessions
  <2> QED BY <1>0, <1>2, <2>1, ThreadMoves
<1>3. ASSUME NEW s \in Sessions, TimeOut(s)
      PROVE  ApprovedAfterPush'
  BY <1>3 DEF TimeOut, Sessions, clientVars, netVars
<1>4. CASE HandshakeArrives
  BY <1>4 DEF HandshakeArrives, Sessions, clientVars, netVars
<1>5. CASE /\ UNCHANGED <<clients, initializingClients, owner, threadPc, timedOut, responses>>
           /\ inHand' \in {inHand, NoEndpoint}
           /\ \/ UNCHANGED <<handshakes, clientVars>>
              \/ \E e \in Endpoints : Client(e)
  <2>1. Sessions' = Sessions
    BY <1>5 DEF Sessions
  <2>2. CASE UNCHANGED <<handshakes, clientVars>>
    BY <1>5, <2>1, <2>2 DEF clientVars
  <2>3. ASSUME NEW e \in Endpoints, Client(e)
        PROVE  ApprovedAfterPush'
    <3>1. CASE SendHandshake(e)
      BY <1>5, <2>1, <3>1 DEF SendHandshake, clientVars
    <3>2. CASE ApprovalArrives(e)
      <4>1. PICK s \in responses : owner[s] = e /\ sessionId' = [sessionId EXCEPT ![e] = s]
        BY <3>2 DEF ApprovalArrives
      <4>2. sessionId'[e] = s /\ \A d \in Endpoints \ {e} : sessionId'[d] = sessionId[d]
        BY <1>0, <4>1
      <4>3. s # NoSession
        <5>1. Sessions \subseteq 1 .. MaxSessions
          BY SessionsAssumption DEF SessionsTyped, SessionsTypeOK, Sessions
        <5> QED BY <1>0, <4>1, <5>1, SessionsAssumption
      <4> QED BY <1>5, <2>1, <3>2, <4>1, <4>2, <4>3 DEF ApprovalArrives
    <3>3. CASE LeaveLoop(e)
      BY <1>5, <2>1, <3>3 DEF LeaveLoop
    <3> QED BY <2>3, <3>1, <3>2, <3>3 DEF Client
  <2> QED BY <1>5, <2>2, <2>3
<1> QED BY <1>1, <1>2, <1>3, <1>4, <1>5, StepKinds

(***************************************************************************)
(* A set whose elements are all equal is empty or a singleton.             *)
(***************************************************************************)
LEMMA AtMostOneElement ==
    ASSUME NEW T, \A x, y \in T : x = y
    PROVE  IsFiniteSet(T) /\ Cardinality(T) \in {0, 1}
<1>1. CASE T = {}
  BY <1>1, FS_EmptySet
<1>2. CASE T # {}
  <2>1. PICK x \in T : TRUE
    BY <1>2
  <2>2. T = {x}
    BY <2>1
  <2> QED BY <2>2, FS_Singleton
<1> QED BY <1>1, <1>2

(***************************************************************************)
(* An endpoint without a client that the host serves has one session at    *)
(* most on its way, so a repeated handshake leaves it with two at most.    *)
(***************************************************************************)
LEMMA FewStep ==
    ASSUME SessionsTyped, InitializingTracked, FewPerEndpoint, [SessionsNext]_vars
    PROVE  FewPerEndpoint'
<1> SUFFICES ASSUME NEW e \in Endpoints
             PROVE  /\ Cardinality(AdmittedFor(e)') <= 2
                    /\ inHand' = e => Cardinality(AdmittedFor(e)') <= 1
  BY DEF FewPerEndpoint
<1>1. IsFiniteSet(AdmittedFor(e)) /\ Cardinality(AdmittedFor(e)) \in Nat
  <2>1. AdmittedFor(e) \subseteq Admitted
    BY DEF AdmittedFor
  <2> QED BY <2>1, AdmittedCounted, FS_Subset, FS_CardinalityType
<1>2. /\ Cardinality(AdmittedFor(e)) <= 2
      /\ inHand = e => Cardinality(AdmittedFor(e)) <= 1
  BY DEF FewPerEndpoint
<1>3. CASE Admits /\ owner' # owner /\ Admitted' = Admitted \cup {Len(owner) + 1}
  <2>1. /\ inHand' # e
        /\ owner'[Len(owner) + 1] = inHand
        /\ \A t \in Sessions : owner'[t] = owner[t]
    BY <1>3, AdmissionAdds, SessionsAssumption
  <2>2. Admitted \subseteq Sessions
    BY DEF Admitted, SessionsTyped, SessionsTypeOK
  <2>3. CASE inHand = e
    <3>1. AdmittedFor(e)' = AdmittedFor(e) \cup {Len(owner) + 1}
      BY <1>3, <2>1, <2>2, <2>3 DEF AdmittedFor
    <3>2. Cardinality(AdmittedFor(e)') = IF Len(owner) + 1 \in AdmittedFor(e)
                                         THEN Cardinality(AdmittedFor(e))
                                         ELSE Cardinality(AdmittedFor(e)) + 1
      BY <1>1, <3>1, FS_AddElement
    <3> QED BY <1>1, <1>2, <2>1, <2>3, <3>2
  <2>4. CASE inHand # e
    <3>1. AdmittedFor(e)' = AdmittedFor(e)
      BY <1>3, <2>1, <2>2, <2>4 DEF AdmittedFor
    <3> QED BY <1>2, <2>1, <3>1
  <2> QED BY <2>3, <2>4
<1>4. CASE owner' = owner /\ Admitted' \subseteq Admitted
  <2>1. AdmittedFor(e)' \subseteq AdmittedFor(e)
    BY <1>4 DEF AdmittedFor
  <2>2. /\ Cardinality(AdmittedFor(e)') <= Cardinality(AdmittedFor(e))
        /\ Cardinality(AdmittedFor(e)') \in Nat
    BY <1>1, <2>1, FS_Subset, FS_CardinalityType
  <2>3. inHand' \in {inHand, NoEndpoint} \/ HandshakeArrives
    <3>1. ASSUME NEW s \in Sessions, TimeOut(s)
          PROVE  inHand' = inHand
      BY <3>1 DEF TimeOut
    <3> QED BY <1>4, <3>1, StepKinds, ThreadMoves
  <2>4. ASSUME HandshakeArrives, inHand' = e
        PROVE  Cardinality(AdmittedFor(e)) <= 1
    <3>1. ~ HasClient(e)
      BY <2>4 DEF HandshakeArrives
    <3>2. \A s, t \in AdmittedFor(e) : s = t
      BY <3>1 DEF AdmittedFor, Admitted, HasClient, InitializingTracked, Working
    <3> QED BY <3>2, AtMostOneElement
  <2>5. e # NoEndpoint
    BY SessionsAssumption
  <2> QED BY <1>1, <1>2, <2>2, <2>3, <2>4, <2>5
<1> QED BY <1>3, <1>4, AdmittedStep

(***************************************************************************)
(* The inductive invariant holds before the first handshake.               *)
(***************************************************************************)
LEMMA InvariantInitially == SessionsInit => SessionsInv
<1> SUFFICES ASSUME SessionsInit
             PROVE  SessionsInv
  OBVIOUS
<1>1. Len(owner) = 0 /\ Sessions = {}
  BY DEF SessionsInit, Sessions
<1>2. Admitted = {} /\ Working = {}
  BY <1>1 DEF SessionsInit, Admitted, Working
<1>3. SessionsTyped
  BY <1>1, SessionsAssumption DEF SessionsInit, SessionsTyped, SessionsTypeOK
<1>4. InitializingTracked
  BY <1>2 DEF SessionsInit, InitializingTracked
<1>5. ClientLimit
  BY <1>2, FS_EmptySet, SessionsAssumption DEF ClientLimit
<1>6. ApprovedAfterPush
  BY <1>1 DEF SessionsInit, ApprovedAfterPush
<1>7. FewPerEndpoint
  <2>1. \A e \in Endpoints : AdmittedFor(e) = {}
    BY <1>2 DEF AdmittedFor
  <2> QED BY <2>1, FS_EmptySet DEF FewPerEndpoint
<1> QED BY <1>3, <1>4, <1>5, <1>6, <1>7 DEF SessionsInv

(***************************************************************************)
(* Every step of the three threads and of the clients keeps the invariant. *)
(***************************************************************************)
LEMMA InvariantKept == SessionsInv /\ [SessionsNext]_vars => SessionsInv'
BY TypedStep, TrackedStep, LimitStep, ApprovalStep, FewStep DEF SessionsInv

(***************************************************************************)
(* Every state the handshake reaches satisfies the inductive invariant: it *)
(* relates the thread's place, the two sets under two mutexes, and the     *)
(* approvals on their way.                                                 *)
(***************************************************************************)
THEOREM SessionsInvariant == SessionsSpec => []SessionsInv
BY InvariantInitially, InvariantKept, PTL DEF SessionsSpec

(***************************************************************************)
(* The registry, the threads and the clients keep their types.             *)
(***************************************************************************)
THEOREM SessionsTypeCorrect == SessionsSpec => []SessionsTypeOK
<1>1. SessionsInv => SessionsTypeOK
  BY DEF SessionsInv, SessionsTyped
<1> QED BY <1>1, SessionsInvariant, PTL

(***************************************************************************)
(* The host never serves or sets up more sessions than MAX_CLIENTS, however*)
(* its three kinds of threads interleave.                                  *)
(***************************************************************************)
THEOREM LimitKept == SessionsSpec => []ClientLimit
<1>1. SessionsInv => ClientLimit
  BY DEF SessionsInv
<1> QED BY <1>1, SessionsInvariant, PTL

(***************************************************************************)
(* An endpoint is in initializingClients exactly while one thread works    *)
(* for it, so no failure path leaves a client locked out.                  *)
(***************************************************************************)
THEOREM TrackingExact == SessionsSpec => []InitializingTracked
<1>1. SessionsInv => InitializingTracked
  BY DEF SessionsInv
<1> QED BY <1>1, SessionsInvariant, PTL

(***************************************************************************)
(* A streaming client's session is one the host serves or has timed out.   *)
(***************************************************************************)
THEOREM ApprovalServed == SessionsSpec => []ApprovedIsServed
<1>1. SessionsInv => ApprovedIsServed
  <2> SUFFICES ASSUME SessionsInv, NEW e \in streaming
               PROVE  /\ sessionId[e] # NoSession
                      /\ owner[sessionId[e]] = e
                      /\ sessionId[e] \in clients \cup timedOut
    BY DEF ApprovedIsServed
  <2>1. e \in Endpoints /\ sessionId[e] # NoSession
    BY DEF SessionsInv, SessionsTyped, ApprovedAfterPush
  <2>2. sessionId[e] \in responses /\ owner[sessionId[e]] = e /\ sessionId[e] \in Sessions
    BY <2>1 DEF SessionsInv, SessionsTyped, ApprovedAfterPush
  <2> QED BY <2>1, <2>2 DEF SessionsInv, ApprovedAfterPush
<1> QED BY <1>1, SessionsInvariant, PTL

(***************************************************************************)
(* A repeated handshake never gives an endpoint a third session.           *)
(***************************************************************************)
THEOREM TwoSessionsAtMost == SessionsSpec => []AtMostTwo
<1>1. SessionsInv => AtMostTwo
  <2> SUFFICES ASSUME SessionsInv, NEW e \in Endpoints
               PROVE  Cardinality({s \in clients : owner[s] = e}) <= 2
    BY DEF AtMostTwo
  <2>1. {s \in clients : owner[s] = e} \subseteq AdmittedFor(e)
    BY DEF AdmittedFor, Admitted
  <2>2. AdmittedFor(e) \subseteq Admitted /\ IsFiniteSet(Admitted)
    BY AdmittedCounted DEF SessionsInv, AdmittedFor
  <2>3. IsFiniteSet(AdmittedFor(e)) /\ IsFiniteSet({s \in clients : owner[s] = e})
    BY <2>1, <2>2, FS_Subset
  <2>4. Cardinality({s \in clients : owner[s] = e}) <= Cardinality(AdmittedFor(e))
    BY <2>1, <2>3, FS_Subset
  <2>5. /\ Cardinality({s \in clients : owner[s] = e}) \in Nat
        /\ Cardinality(AdmittedFor(e)) \in Nat /\ Cardinality(AdmittedFor(e)) <= 2
    BY <2>3, FS_CardinalityType DEF SessionsInv, FewPerEndpoint
  <2> QED BY <2>4, <2>5
<1> QED BY <1>1, SessionsInvariant, PTL
==============================================================================
