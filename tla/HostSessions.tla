---------------------------- MODULE HostSessions ----------------------------
(***************************************************************************)
(* The handshake between runClient and runHost (common/session_manager.cpp)*)
(* and the host's registry of clients.  A handshake packet is handled in   *)
(* two critical sections of the receiver thread, which start a thread that *)
(* sets up the session; the capture thread drops silent clients; the       *)
(* client repeats its packet until it is answered or gives up.             *)
(*                                                                         *)
(* A session is the number of its initialization thread.  It stands for    *)
(* the random sessionId and the fresh host key pair of that thread.  Every *)
(* run of a client has a key pair and, binding port 0, an endpoint of its  *)
(* own, so the endpoint stands for the client's key.                       *)
(*                                                                         *)
(* The network loses, delays, repeats and reorders packets: one that was   *)
(* sent may arrive at any time later, any number of times, or never.  A    *)
(* refusal only makes the client leave its handshake loop, which it may do *)
(* at any time, so refusals are not kept.                                  *)
(*                                                                         *)
(* The receiver thread takes packets for good only while it is not caught  *)
(* in its endless `continue` on a malformed one (SessionLifecycle follows  *)
(* that); nothing here says that it goes on, so a caught one is a behaviour*)
(* of this module that takes no more packets.                              *)
(***************************************************************************)
EXTENDS Integers, FiniteSets, Sequences

CONSTANTS Endpoints,      \* clients, by IP address and port
          Limit,          \* clients and initializations admitted: 32
          MaxSessions,    \* bound: initialization threads ever started
          NoEndpoint, NoSession

ASSUME SessionsAssumption ==
    /\ Limit \in Nat \ {0}
    /\ MaxSessions \in Nat
    /\ NoEndpoint \notin Endpoints
    /\ NoSession \notin 1 .. MaxSessions

VARIABLES
    \* host
    clients,              \* sessions in ctx->clients
    initializingClients,  \* endpoints
    owner,                \* session -> its endpoint, for the threads started so far
    threadPc,             \* session -> where its thread is
    inHand,               \* endpoint found without a client, not yet admitted, or NoEndpoint
    \* network
    handshakes,           \* endpoints that have sent their handshake packet
    responses,            \* sessions whose approval has been sent
    \* clients
    sessionId,            \* endpoint -> the session last approved, or NoSession
    trying, streaming,    \* endpoints whose client is in its handshake loop, or past it
    \* history
    timedOut              \* sessions the capture thread has dropped

hostVars == <<clients, initializingClients, owner, threadPc, inHand>>
clientVars == <<sessionId, trying, streaming>>
netVars == <<handshakes, responses>>
vars == <<hostVars, clientVars, netVars, timedOut>>

Sessions == 1 .. Len(owner)

SessionsInit ==
    /\ clients = {} /\ initializingClients = {}
    /\ owner = <<>> /\ threadPc = <<>>
    /\ inHand = NoEndpoint
    /\ handshakes = {} /\ responses = {}
    /\ sessionId = [e \in Endpoints |-> NoSession]
    /\ trying = Endpoints /\ streaming = {}
    /\ timedOut = {}

-----------------------------------------------------------------------------
\* The host's receiver thread.

HasClient(e) == \E s \in clients : owner[s] = e

TooManyClientsOnly == Cardinality(clients) >= Limit     \* mutant: initializations not counted
TooManyClients == Cardinality(clients) + Cardinality(initializingClients) >= Limit

\* The packet of a client that is there already is dropped.
HandshakeArrives ==
    /\ inHand = NoEndpoint
    /\ \E e \in handshakes : ~ HasClient(e) /\ inHand' = e
    /\ UNCHANGED <<clients, initializingClients, owner, threadPc, clientVars, netVars, timedOut>>

\* The second critical section: a refusal, nothing, or the new thread.
HandshakeAdmitted ==
    /\ inHand # NoEndpoint
    /\ inHand' = NoEndpoint
    /\ IF TooManyClients \/ inHand \in initializingClients
       THEN UNCHANGED <<initializingClients, owner, threadPc>>
       ELSE /\ Len(owner) < MaxSessions
            /\ initializingClients' = initializingClients \cup {inHand}
            /\ owner' = Append(owner, inHand)
            /\ threadPc' = Append(threadPc, "derive")
    /\ UNCHANGED <<clients, clientVars, netVars, timedOut>>

ReceiverThread == HandshakeArrives \/ HandshakeAdmitted

-----------------------------------------------------------------------------
\* The thread of session s.

StepsAnswerFirst == <<"derive", "open", "answer", "push", "erase", "done">>  \* mutant: order
Steps == <<"derive", "open", "push", "answer", "erase", "done">>

After(step) == Steps[CHOOSE n \in 2 .. Len(Steps) : Steps[n - 1] = step]
Reaches(s, step) == threadPc' = [threadPc EXCEPT ![s] = step]

\* No keys can be derived: the thread returns at once.
StillInitializing(s) == initializingClients         \* mutant: the early return does not clean up
WithoutFailed(s) == initializingClients \ {owner[s]}

Derive(s) ==
    /\ threadPc[s] = "derive"
    /\ \/ /\ Reaches(s, After("derive"))
          /\ UNCHANGED initializingClients
       \/ /\ Reaches(s, "done")
          /\ initializingClients' = WithoutFailed(s)
    /\ UNCHANGED <<clients, owner, inHand, clientVars, netVars, timedOut>>

\* EncoderManager::Initialize; when it fails, the client is refused.
Open(s) ==
    /\ threadPc[s] = "open"
    /\ Reaches(s, After("open")) \/ Reaches(s, "erase")
    /\ UNCHANGED <<clients, initializingClients, owner, inHand, clientVars, netVars, timedOut>>

PushBack(s) ==
    /\ threadPc[s] = "push"
    /\ clients' = clients \cup {s}
    /\ Reaches(s, After("push"))
    /\ UNCHANGED <<initializingClients, owner, inHand, clientVars, netVars, timedOut>>

Answer(s) ==
    /\ threadPc[s] = "answer"
    /\ responses' = responses \cup {s}
    /\ Reaches(s, After("answer"))
    /\ UNCHANGED <<clients, initializingClients, owner, inHand, handshakes, clientVars, timedOut>>

Erase(s) ==
    /\ threadPc[s] = "erase"
    /\ initializingClients' = initializingClients \ {owner[s]}
    /\ Reaches(s, "done")
    /\ UNCHANGED <<clients, owner, inHand, clientVars, netVars, timedOut>>

InitThread(s) == Derive(s) \/ Open(s) \/ PushBack(s) \/ Answer(s) \/ Erase(s)

\* The capture thread: more than 30 s without a packet.
TimeOut(s) ==
    /\ s \in clients
    /\ clients' = clients \ {s}
    /\ timedOut' = timedOut \cup {s}
    /\ UNCHANGED <<initializingClients, owner, threadPc, inHand, clientVars, netVars>>

-----------------------------------------------------------------------------
\* The client with endpoint e.

SendHandshake(e) ==
    /\ e \in trying \ handshakes
    /\ handshakes' = handshakes \cup {e}
    /\ UNCHANGED <<hostVars, responses, clientVars, timedOut>>

\* netThread: an approval is taken whenever it comes, a second one too.
ApprovalArrives(e) ==
    /\ e \in trying \cup streaming
    /\ \E s \in responses : owner[s] = e /\ sessionId' = [sessionId EXCEPT ![e] = s]
    /\ UNCHANGED <<hostVars, netVars, trying, streaming, timedOut>>

\* The end of the handshake loop: an approval, a refusal, or 30 s.  Of two answers
\* the approval counts.
LeaveLoop(e) ==
    /\ e \in trying
    /\ trying' = trying \ {e}
    /\ streaming' = IF sessionId[e] # NoSession THEN streaming \cup {e} ELSE streaming
    /\ UNCHANGED <<hostVars, sessionId, netVars, timedOut>>

Client(e) == SendHandshake(e) \/ ApprovalArrives(e) \/ LeaveLoop(e)

SessionsNext == \/ ReceiverThread
                \/ \E s \in Sessions : InitThread(s) \/ TimeOut(s)
                \/ \E e \in Endpoints : Client(e)

SessionsSpec == SessionsInit /\ [][SessionsNext]_vars

-----------------------------------------------------------------------------
\* Type correctness.
SessionsTypeOK ==
    /\ owner \in Seq(Endpoints) /\ Len(owner) <= MaxSessions
    /\ threadPc \in Seq({Steps[n] : n \in 1 .. Len(Steps)}) /\ Len(threadPc) = Len(owner)
    /\ clients \subseteq Sessions
    /\ initializingClients \subseteq Endpoints
    /\ inHand \in Endpoints \cup {NoEndpoint}
    /\ sessionId \in [Endpoints -> Sessions \cup {NoSession}]
    /\ trying \cap streaming = {}

\* The sessions that are served or on their way to it.
Admitted == clients \cup {s \in Sessions : threadPc[s] \in {"derive", "open", "push"}}

\* The host never serves, or sets up, more sessions than the limit admits: a
\* session is counted at every moment between its admission and its end, although
\* push_back and the erase from initializingClients are two critical sections
\* under two mutexes.
ClientLimit == Cardinality(Admitted) <= Limit

\* The sessions whose thread has not come to its end.
Working == {s \in Sessions : threadPc[s] # "done"}

\* An endpoint is in initializingClients exactly while one thread works for it.
\* One that stayed there could never connect again; one that left too early, or a
\* second thread whose end erased the first one's entry, would break the limit.
InitializingTracked ==
    /\ initializingClients = {owner[s] : s \in Working}
    /\ \A s, t \in Working : owner[s] = owner[t] => s = t

\* A client that streams uses a session of its own that the host serves, unless
\* the host dropped it as silent: the approval is sent after the push_back.
ApprovedIsServed ==
    \A e \in streaming : /\ sessionId[e] # NoSession
                         /\ owner[sessionId[e]] = e
                         /\ sessionId[e] \in clients \cup timedOut

\* The two critical sections let a repeated handshake start a second session, when
\* the first one is pushed and erased between them; never a third.
AtMostTwo == \A e \in Endpoints : Cardinality({s \in clients : owner[s] = e}) <= 2

-----------------------------------------------------------------------------
\* The inductive invariant behind the properties.

SessionsTyped == /\ SessionsTypeOK
                 /\ handshakes \subseteq Endpoints
                 /\ responses \subseteq Sessions
                 /\ timedOut \subseteq Sessions
                 /\ trying \subseteq Endpoints
                 /\ streaming \subseteq Endpoints

\* Every approval, on its way or taken, was preceded by its push_back.
ApprovedAfterPush ==
    /\ \A s \in Sessions : threadPc[s] = "answer" \/ s \in responses => s \in clients \cup timedOut
    /\ \A e \in Endpoints : sessionId[e] # NoSession
                               => sessionId[e] \in responses /\ owner[sessionId[e]] = e
    /\ \A e \in streaming : sessionId[e] # NoSession

\* One endpoint's sessions: the one in hand was found without a client, so that at
\* most one thread can still be on its way to push_back.
AdmittedFor(e) == {s \in Admitted : owner[s] = e}

FewPerEndpoint ==
    \A e \in Endpoints : /\ Cardinality(AdmittedFor(e)) <= 2
                         /\ inHand = e => Cardinality(AdmittedFor(e)) <= 1

SessionsInv == /\ SessionsTyped
               /\ InitializingTracked
               /\ ClientLimit
               /\ ApprovedAfterPush
               /\ FewPerEndpoint
=============================================================================
