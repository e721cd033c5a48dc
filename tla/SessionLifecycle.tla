--------------------------- MODULE SessionLifecycle ---------------------------
(***************************************************************************)
(* Starting and stopping a session (SessionManager::startSession,          *)
(* stopSession, runHost, runClient): the thread of the front end, the two  *)
(* session threads, and the threads they start and join.                   *)
(*                                                                         *)
(* A front end either has no error callback (the command line) or one that *)
(* stops the session (NexusDash); the callback runs on the thread that     *)
(* reports the error.  A std::thread that joins itself, is assigned to     *)
(* while joinable or is destroyed while joinable ends the program.         *)
(*                                                                         *)
(* receiver stands for the packetizer, the sender and the receiver, which  *)
(* leave their loop once m_running is false, unless the receiver spins;    *)
(* initThread for the threads in initThreads, of which one at a time is    *)
(* followed; audio for the capture threads of all served clients.          *)
(***************************************************************************)
EXTENDS CaptureDXGI, Sequences

CONSTANT Plans              \* bound: the roles startSession is called with, in order

ASSUME LifecycleAssumption == \A p \in Plans : p \in Seq({"host", "client", "both"})

VARIABLES running,          \* m_running
          callback,         \* the front end's error callback stops the session
          ui,               \* [step, role, window, stopped]: what the front end's thread does
          host,             \* m_hostThread: "none" when not joinable
          client,           \* m_clientThread
          capture, receiver, initThread, net,
          audio,            \* a CaptureThread of an AudioCapture runs
          initDone, initFailed,
          served,           \* a client state's audio callback refers to the HostContext
          port,             \* who keeps the host's socket open
          input,            \* m_activeInputCapture: "null", "valid" or "dangling"
          plan,             \* the calls of startSession still to come
          fault             \* why the program has ended

uiVars     == <<ui, plan>>
workerVars == <<capture, receiver, initThread, net, audio>>
ctxVars    == <<initDone, initFailed, served, port>>
lifeVars   == <<running, callback, uiVars, host, client, workerVars, ctxVars, input, fault, dxgiVars>>

LifecycleInit ==
    /\ running = FALSE /\ callback \in BOOLEAN
    /\ ui = [step |-> "idle", role |-> "none", window |-> FALSE, stopped |-> FALSE]
    /\ host = "none" /\ client = "none"
    /\ capture = "none" /\ receiver = "none" /\ initThread = "none" /\ net = "none"
    /\ audio = FALSE /\ initDone = FALSE /\ initFailed = FALSE /\ served = FALSE /\ port = "free"
    /\ input = "null" /\ plan \in Plans /\ fault = "none"
    /\ CaptureDXGIInit

\* A join of t returns at once.
Over(t) == t \in {"none", "over", "ended"}

-----------------------------------------------------------------------------
\* The front end.

StartSession ==
    /\ ui.step = "idle" /\ plan # <<>>
    /\ \E w \in BOOLEAN :
         /\ Head(plan) = "host" => ~w
         /\ ui' = [step |-> IF running THEN "joinHost" ELSE "start",
                  role |-> Head(plan), window |-> w, stopped |-> running]
    /\ running' = FALSE
    /\ plan' = Tail(plan)
    /\ UNCHANGED <<callback, host, client, workerVars, ctxVars, input, fault, dxgiVars>>

\* mutant of StopSession: the threads are joined without being told to end
StopSessionWaits ==
    /\ ui.step = "idle" /\ (running \/ host # "none" \/ client # "none")
    /\ ui' = [ui EXCEPT !.step = "joinHost", !.role = "none"]
    /\ UNCHANGED <<running, callback, plan, host, client, workerVars, ctxVars, input, fault, dxgiVars>>

StopSession ==
    /\ ui.step = "idle" /\ (running \/ host # "none" \/ client # "none")
    /\ running' = FALSE
    /\ ui' = [ui EXCEPT !.step = "joinHost", !.role = "none"]
    /\ UNCHANGED <<callback, plan, host, client, workerVars, ctxVars, input, fault, dxgiVars>>

JoinHost ==
    /\ ui.step = "joinHost" /\ Over(host)
    /\ host' = "none"
    /\ ui' = [ui EXCEPT !.step = "joinClient"]
    /\ UNCHANGED <<running, callback, plan, client, workerVars, ctxVars, input, fault, dxgiVars>>

\* mutant of JoinClient: the client thread is forgotten
ForgetClient ==
    /\ ui.step = "joinClient"
    /\ ui' = [ui EXCEPT !.step = IF ui.role = "none" THEN "idle" ELSE "start"]
    /\ UNCHANGED <<running, callback, plan, host, client, workerVars, ctxVars, input, fault, dxgiVars>>

JoinClient ==
    /\ ui.step = "joinClient" /\ Over(client)
    /\ client' = "none"
    /\ ui' = [ui EXCEPT !.step = IF ui.role = "none" THEN "idle" ELSE "start"]
    /\ UNCHANGED <<running, callback, plan, host, workerVars, ctxVars, input, fault, dxgiVars>>

\* Without the cryptography library the error is reported on this thread.
CryptoInitialize(ok) ==
    /\ ui.step = "start"
    /\ IF ok THEN running' = TRUE /\ ui' = [ui EXCEPT !.step = "spawn"]
       ELSE /\ running' = running
            /\ ui' = [ui EXCEPT !.step = IF callback THEN "joinHost" ELSE "idle", !.role = "none"]
    /\ UNCHANGED <<callback, plan, host, client, workerVars, ctxVars, input, fault, dxgiVars>>

\* Assigning to a thread that is still joinable ends the program.
SpawnHost ==
    /\ ui.step = "spawn" /\ ui.role \in {"host", "both"}
    /\ IF host = "none" THEN host' = "bind" /\ UNCHANGED fault
                        ELSE fault' = "assigned" /\ UNCHANGED host
    /\ ui' = IF ui.role = "both" THEN [ui EXCEPT !.role = "client"]
                                 ELSE [ui EXCEPT !.step = "idle", !.role = "none"]
    /\ UNCHANGED <<running, callback, plan, client, workerVars, ctxVars, input, dxgiVars>>

SpawnClient ==
    /\ ui.step = "spawn" /\ ui.role = "client"
    /\ IF client = "none" THEN client' = "bind" /\ UNCHANGED fault
                          ELSE fault' = "assigned" /\ UNCHANGED client
    /\ ui' = [ui EXCEPT !.step = "idle", !.role = "none"]
    /\ UNCHANGED <<running, callback, plan, host, workerVars, ctxVars, input, dxgiVars>>

\* A window message follows m_activeInputCapture, wherever it points.
HandleMessage ==
    /\ ui.step = "idle" /\ input = "dangling"
    /\ fault' = "input"
    /\ UNCHANGED <<running, callback, uiVars, host, client, workerVars, ctxVars, input, dxgiVars>>

-----------------------------------------------------------------------------
\* The host thread.

Others == <<callback, uiVars, client, net, audio, input>>

\* The callback joins m_hostThread, on m_hostThread.
HostReports(next) ==
    IF callback THEN fault' = "joinedItself" /\ UNCHANGED <<running, host>>
    ELSE running' = FALSE /\ host' = next /\ UNCHANGED fault

HostBinds ==
    /\ host = "bind" /\ port = "free"
    /\ port' = "host" /\ host' = "stun"
    /\ served' = FALSE /\ initThread' = "none"
    /\ UNCHANGED <<running, Others, capture, receiver, initDone, initFailed, dxgiVars, fault>>

HostBindFails ==
    /\ host = "bind"
    /\ HostReports("over")
    /\ UNCHANGED <<Others, capture, receiver, initThread, ctxVars, dxgiVars>>

\* Candidate gathering is over; the threads are started.
HostStarts ==
    /\ host = "stun"
    /\ host' = "wait" /\ capture' = "begin" /\ receiver' = "loop"
    /\ UNCHANGED <<running, Others, initThread, ctxVars, dxgiVars, fault>>

HostWaits ==
    /\ host = "wait"
    /\ host' = IF initDone \/ initFailed \/ ~running THEN "check" ELSE "asleep"
    /\ UNCHANGED <<running, Others, capture, receiver, initThread, ctxVars, dxgiVars, fault>>

SpuriousWakeup ==
    /\ host = "asleep"
    /\ host' = "wait"
    /\ UNCHANGED <<running, Others, capture, receiver, initThread, ctxVars, dxgiVars, fault>>

HostChecks ==
    /\ host = "check"
    /\ IF initFailed THEN HostReports("joinEarly")
       ELSE host' = (IF running THEN "join" ELSE "joinEarly") /\ UNCHANGED <<running, fault>>
    /\ UNCHANGED <<Others, capture, receiver, initThread, ctxVars, dxgiVars>>

InitRuns == initThread \notin {"none", "done", "over"}

\* What belongs to a HostContext that no thread will look at again.
Forgotten == initDone' = FALSE /\ initFailed' = FALSE /\ Cleanup

\* Who keeps the HostContext once the host thread has left it.
KeptBy == IF served THEN "audio" ELSE IF InitRuns THEN "init" ELSE "free"

\* The early return leaves initThreads alone: with the context goes a
\* std::thread that nobody has joined.
HostLeavesEarly ==
    /\ host = "joinEarly" /\ Over(capture) /\ Over(receiver)
    /\ host' = "over" /\ capture' = "none" /\ receiver' = "none"
    /\ port' = KeptBy
    /\ fault' = IF KeptBy = "free" /\ initThread # "none" THEN "initThread" ELSE "none"
    /\ Forgotten
    /\ UNCHANGED <<running, Others, initThread, served, losses>>

HostJoins ==
    /\ host = "join" /\ Over(capture) /\ Over(receiver)
    /\ host' = "joinInit" /\ capture' = "none" /\ receiver' = "none"
    /\ UNCHANGED <<running, Others, initThread, ctxVars, dxgiVars, fault>>

HostLeaves ==
    /\ host = "joinInit" /\ ~InitRuns
    /\ host' = "over" /\ initThread' = "none"
    /\ port' = KeptBy
    /\ Forgotten
    /\ UNCHANGED <<running, Others, capture, receiver, served, losses, fault>>

-----------------------------------------------------------------------------
\* The capture thread.

Notified == IF host = "asleep" THEN "wait" ELSE host

CaptureBegins ==
    /\ capture = "begin"
    /\ capture' = IF running THEN "init" ELSE "ended"
    /\ UNCHANGED <<running, Others, host, receiver, initThread, ctxVars, dxgiVars, fault>>

\* mutant of CaptureFails: the host thread is not told
CaptureFailsSilently ==
    /\ initFailed' = TRUE /\ host' = host /\ capture' = "ended"
    /\ UNCHANGED initDone

CaptureFails ==
    /\ initFailed' = TRUE /\ host' = Notified /\ capture' = "ended"
    /\ UNCHANGED initDone

CaptureInitializes ==
    /\ capture = "init"
    /\ \/ Initialize(TRUE) /\ capture' = "test" /\ UNCHANGED <<host, initDone, initFailed>>
       \/ Initialize(FALSE) /\ CaptureFails
    /\ UNCHANGED <<running, Others, receiver, initThread, served, port, losses, fault>>

\* The first frame tells the size; without it there is no session.
CaptureTests ==
    /\ capture = "test"
    /\ \/ /\ AcquireFrame("ok")
          /\ initDone' = TRUE /\ capture' = "notify" /\ UNCHANGED <<host, initFailed>>
       \/ (AcquireFrame("timeout") \/ AcquireFrame("failed")) /\ CaptureFails
    /\ UNCHANGED <<running, Others, receiver, initThread, served, port, losses, fault>>

CaptureNotifies ==
    /\ capture = "notify"
    /\ ReleaseFrame
    /\ host' = Notified /\ capture' = "loop"
    /\ UNCHANGED <<running, Others, receiver, initThread, ctxVars, losses, fault>>

CaptureLoops ==
    /\ capture = "loop"
    /\ IF ~running THEN capture' = "ended" /\ UNCHANGED <<device, dupl, held>>
       ELSE \/ AcquireFrame("ok") /\ capture' = "encode"
            \/ AcquireFrame("timeout") /\ capture' = capture
            \/ AcquireFrame("failed") /\ capture' = "reinit"
    /\ UNCHANGED <<running, Others, host, receiver, initThread, ctxVars, losses, fault>>

CaptureGivesBack ==
    /\ capture = "encode"
    /\ ReleaseFrame /\ capture' = "loop"
    /\ UNCHANGED <<running, Others, host, receiver, initThread, ctxVars, losses, fault>>

\* A session that is ending re-initializes nothing: a frame that is held stays.
CaptureReinitializes ==
    /\ capture = "reinit"
    /\ IF running THEN (\E ok \in BOOLEAN : Initialize(ok)) ELSE UNCHANGED <<device, dupl, held>>
    /\ capture' = "loop"
    /\ UNCHANGED <<running, Others, host, receiver, initThread, ctxVars, losses, fault>>

LoseDevice ==
    /\ DeviceRemoved /\ capture \notin {"none", "ended"}
    /\ UNCHANGED <<running, Others, host, capture, receiver, initThread, ctxVars, fault>>

-----------------------------------------------------------------------------
\* The receiver thread and the initialization thread of a joining client.

ReceiverLeaves ==
    /\ receiver = "loop" /\ ~running
    /\ receiver' = "ended"
    /\ UNCHANGED <<running, Others, host, capture, initThread, ctxVars, dxgiVars, fault>>

\* A packet of a served client names an encryptedSize above the 2048 bytes of the
\* buffer: `continue' goes back to the same packet, and to m_running never.
ReceiverSpins ==
    /\ receiver = "loop" /\ served
    /\ receiver' = "spinning"
    /\ UNCHANGED <<running, Others, host, capture, initThread, ctxVars, dxgiVars, fault>>

\* A handshake starts a thread; one that has finished is joined first.
Handshake ==
    /\ receiver = "loop" /\ initThread \in {"none", "done"}
    /\ initThread' = "begin"
    /\ UNCHANGED <<running, Others, host, capture, receiver, ctxVars, dxgiVars, fault>>

\* The thread ends at t.  If it was the last to use the context it destroys it,
\* its own joinable std::thread included.
InitEnds(t) ==
    /\ initThread' = t
    /\ port' = IF port = "init" THEN IF served' THEN "audio" ELSE "free" ELSE port
    /\ fault' = IF port' = "free" /\ port = "init" THEN "initThread" ELSE "none"

InitBegins ==
    /\ initThread = "begin"
    /\ UNCHANGED served
    /\ IF running THEN initThread' = "keys" /\ UNCHANGED <<port, fault>> ELSE InitEnds("over")
    /\ UNCHANGED <<running, Others, host, capture, receiver, initDone, initFailed, dxgiVars>>

InitDerivesKeys ==
    /\ initThread = "keys"
    /\ UNCHANGED served
    /\ \/ initThread' = "encoder" /\ UNCHANGED <<port, fault>>
       \/ InitEnds("over")
    /\ UNCHANGED <<running, Others, host, capture, receiver, initDone, initFailed, dxgiVars>>

\* The audio callback is kept before anything else, whatever becomes of the rest:
\* it refers to the context and to the client that owns the audio capture.
AudioInitialize == served' = TRUE

\* Start follows a null pointer when Initialize found no audio endpoint.  The thread
\* it starts runs until Stop, which only the destructor calls: the callback keeps
\* the client, the client its audio capture, and that the callback, so that the
\* destructor is never reached.
AudioStart ==
    \/ InitEnds("done") /\ audio' = TRUE
    \/ fault' = "audio" /\ UNCHANGED <<initThread, port, audio>>

InitOpensEncoder ==
    /\ initThread = "encoder"
    /\ \/ AudioInitialize /\ AudioStart /\ UNCHANGED running
       \/ /\ UNCHANGED <<served, audio>>
          /\ IF callback THEN running' = FALSE /\ initThread' = "report" /\ UNCHANGED <<port, fault>>
             ELSE InitEnds("done") /\ UNCHANGED running
    /\ UNCHANGED <<callback, uiVars, client, net, input, host, capture, receiver, initDone, initFailed,
                   dxgiVars>>

\* The callback's stopSession, on this thread.
InitJoins ==
    /\ initThread = "report" /\ Over(host) /\ Over(client)
    /\ host' = "none" /\ client' = "none"
    /\ UNCHANGED served /\ InitEnds("done")
    /\ UNCHANGED <<running, callback, uiVars, net, audio, input, capture, receiver, initDone, initFailed, dxgiVars>>

-----------------------------------------------------------------------------
\* The client thread.

HostSide == <<host, capture, receiver, initThread, audio, ctxVars, dxgiVars>>

\* The callback joins m_hostThread and then the thread it runs on.
ClientReports(next, pointer) ==
    /\ running' = FALSE
    /\ IF callback THEN client' = "report" /\ input' = input ELSE client' = next /\ input' = pointer

ClientJoinsItself ==
    /\ client = "report" /\ Over(host)
    /\ host' = "none" /\ fault' = "joinedItself"
    /\ UNCHANGED <<running, callback, uiVars, client, capture, receiver, initThread, audio, ctxVars,
                   dxgiVars, net, input>>

ClientBinds ==
    /\ client = "bind"
    /\ \/ client' = "stun" /\ UNCHANGED <<running, input>>
       \/ ClientReports("over", input)
    /\ UNCHANGED <<callback, uiVars, HostSide, net, fault>>

\* Candidate gathering is over; a client with a window registers its input capture.
ClientRegisters ==
    /\ client = "stun"
    /\ IF ui.window THEN input' = "valid" /\ client' = "renderer"
                    ELSE client' = "decoder" /\ UNCHANGED input
    /\ UNCHANGED <<running, callback, uiVars, HostSide, net, fault>>

\* An early return destroys the input capture; the pointer to it stays.
Left == IF input = "valid" THEN "dangling" ELSE input

ClientOpensRenderer ==
    /\ client = "renderer"
    /\ \/ client' = "decoder" /\ UNCHANGED <<running, input>>
       \/ ClientReports("over", Left)
    /\ UNCHANGED <<callback, uiVars, HostSide, net, fault>>

ClientOpensDecoder ==
    /\ client = "decoder"
    /\ \/ client' = "handshake" /\ net' = "loop" /\ UNCHANGED <<running, input>>
       \/ ClientReports("over", Left) /\ UNCHANGED net
    /\ UNCHANGED <<callback, uiVars, HostSide, fault>>

\* mutant of HandshakeEnds: without the reset of m_activeInputCapture
HandshakeEndsRegistered ==
    /\ client = "handshake"
    /\ \/ client' = "stream" /\ UNCHANGED <<running, input>>
       \/ ClientReports("joinNet", input)
    /\ UNCHANGED <<callback, uiVars, HostSide, net, fault>>

\* Approved, or rejected, timed out or stopped: the last three are reported alike.
HandshakeEnds ==
    /\ client = "handshake"
    /\ \/ client' = "stream" /\ UNCHANGED <<running, input>>
       \/ ClientReports("joinNet", "null")
    /\ UNCHANGED <<callback, uiVars, HostSide, net, fault>>

StreamEnds ==
    /\ client = "stream"
    /\ \/ ~running /\ client' = "unregister" /\ UNCHANGED <<running, input>>
       \/ ClientReports("unregister", input)             \* an exception
    /\ UNCHANGED <<callback, uiVars, HostSide, net, fault>>

ClientUnregisters ==
    /\ client = "unregister"
    /\ client' = "joinNet" /\ input' = "null"
    /\ UNCHANGED <<running, callback, uiVars, HostSide, net, fault>>

\* mutant of ClientJoinsNet: the receiving thread is not waited for
ClientLeavesNet ==
    /\ client = "joinNet"
    /\ client' = "over" /\ UNCHANGED net
    /\ UNCHANGED <<running, callback, uiVars, HostSide, input, fault>>

ClientJoinsNet ==
    /\ client = "joinNet" /\ Over(net)
    /\ client' = "over" /\ net' = "none"
    /\ UNCHANGED <<running, callback, uiVars, HostSide, input, fault>>

NetLeaves ==
    /\ net = "loop" /\ ~running
    /\ net' = "ended"
    /\ UNCHANGED <<running, callback, uiVars, HostSide, client, input, fault>>

\* The same for a packet that names the session of the client, once it has one.
NetSpins ==
    /\ net = "loop" /\ client \in {"handshake", "stream", "unregister", "joinNet", "report"}
    /\ net' = "spinning"
    /\ UNCHANGED <<running, callback, uiVars, HostSide, client, input, fault>>

-----------------------------------------------------------------------------
Joining       == JoinHost \/ JoinClient
Starting      == (\E ok \in BOOLEAN : CryptoInitialize(ok)) \/ SpawnHost \/ SpawnClient
HostThread    == \/ HostBinds \/ HostBindFails \/ HostStarts \/ HostWaits \/ HostChecks
                 \/ HostLeavesEarly \/ HostJoins \/ HostLeaves
CaptureThread == \/ CaptureBegins \/ CaptureInitializes \/ CaptureTests \/ CaptureNotifies
                 \/ CaptureLoops \/ CaptureGivesBack \/ CaptureReinitializes
InitWorks     == InitBegins \/ InitDerivesKeys \/ InitOpensEncoder \/ InitJoins
ClientThread  == \/ ClientBinds \/ ClientRegisters \/ ClientOpensRenderer \/ ClientOpensDecoder
                 \/ HandshakeEnds \/ (StreamEnds /\ ~running) \/ ClientUnregisters
                 \/ ClientJoinsNet \/ ClientJoinsItself
Malformed     == ReceiverSpins \/ NetSpins
Environment   == SpuriousWakeup \/ LoseDevice \/ Handshake \/ StreamEnds \/ HandleMessage \/ Malformed
Quiet         == UNCHANGED lifeVars

\* What nobody can wake: runHost asleep after the capture thread left without a
\* word, an initialization thread and runHost joining each other, and a thread that
\* handles the same packet for ever.
Asleep == host = "asleep" /\ capture = "ended" /\ ~initDone /\ ~initFailed
Knot   == initThread = "report" /\ host = "joinInit"
Spins  == receiver = "spinning" \/ net = "spinning"

LifecycleNext ==
    \/ /\ fault = "none"
       /\ \/ StartSession \/ StopSession \/ Joining \/ Starting
          \/ HostThread \/ CaptureThread \/ InitWorks \/ ClientThread
          \/ ReceiverLeaves \/ NetLeaves \/ Environment
    \/ (fault # "none" \/ Knot \/ Spins \/ plan = <<>>) /\ Quiet

LifecycleSpec == LifecycleInit /\ [][LifecycleNext]_lifeVars

\* Every thread that can go on does.  The user need not start or stop anything,
\* and nothing outside need happen.
Going(A) == fault = "none" /\ A

LifecycleFairness ==
    /\ WF_lifeVars(Going(Joining)) /\ WF_lifeVars(Going(Starting))
    /\ WF_lifeVars(Going(HostThread)) /\ WF_lifeVars(Going(CaptureThread))
    /\ WF_lifeVars(Going(InitWorks)) /\ WF_lifeVars(Going(ClientThread))
    /\ WF_lifeVars(Going(ReceiverLeaves)) /\ WF_lifeVars(Going(NetLeaves))

FairLifecycleSpec == LifecycleSpec /\ LifecycleFairness

-----------------------------------------------------------------------------
HostSteps    == {"none", "bind", "stun", "wait", "asleep", "check", "join", "joinEarly", "joinInit", "over"}
CaptureSteps == {"none", "begin", "init", "test", "notify", "loop", "encode", "reinit", "ended"}
InitSteps    == {"none", "begin", "keys", "encoder", "report", "done", "over"}
ClientSteps  == {"none", "bind", "stun", "renderer", "decoder", "handshake", "stream", "unregister",
                 "joinNet", "report", "over"}
LoopSteps    == {"none", "loop", "spinning", "ended"}

LifecycleTypeOK ==
    /\ audio \in BOOLEAN
    /\ host \in HostSteps /\ capture \in CaptureSteps /\ client \in ClientSteps
    /\ initThread \in InitSteps /\ receiver \in LoopSteps /\ net \in LoopSteps
    /\ port \in {"free", "host", "init", "audio"} /\ input \in {"null", "valid", "dangling"}
    /\ port = "host" <=> host \in HostSteps \ {"none", "bind", "over"}
    /\ capture # "none" => host \in HostSteps \ {"none", "bind", "stun", "over"}
    /\ held => dupl
    /\ dupl => device # "none"

\* No lost wake-up: while runHost sleeps on initCv, an outcome of the capture's
\* start that is already recorded is about to be announced.
WaitNotified ==
    host = "asleep" /\ (initDone \/ initFailed) => capture = "notify"

\* Between two sessions.
Stopped == ui.step = "idle" /\ host = "none" /\ client = "none"

\* After stopSession the threads that runHost and runClient join are gone.  Left
\* behind are, by name: an initialization thread after an early return of runHost,
\* and the audio threads of served clients.  What they use is left with them: the
\* context, and with it its socket, stays exactly as long as one of the two does.
NothingLeft ==
    Stopped =>
      /\ capture = "none" /\ receiver = "none" /\ net = "none"
      /\ port = "free" <=> ~InitRuns /\ ~served
      /\ audio => port = "audio"

\* What the readiness report says of stopSession: it joins all secondary threads, the
\* audio threads of the clients among them.
AudioJoined == Stopped => ~audio

\* While m_activeInputCapture is valid the client's input capture exists: a client
\* that gets as far as its handshake resets the pointer before the object goes.  The
\* pointer that an early return leaves behind is dangling, and not excluded here.
InputAlive ==
    input = "valid" =>
      client \in {"renderer", "decoder", "handshake", "stream", "unregister", "report"}

\* A start that stops the running session first never meets a joinable thread.
StartAfterStop == fault = "assigned" => ~ui.stopped

\* A call of stopSession returns, whatever the threads are at, unless one of the
\* three cases above holds: the wait and the joins have no time limit.
StopReturns ==
    ui.step \in {"joinHost", "joinClient"} ~>
      ui.step \notin {"joinHost", "joinClient"} \/ fault # "none" \/ Asleep \/ Knot \/ Spins
=============================================================================
