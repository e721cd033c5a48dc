------------------------------ MODULE MCParts -------------------------------
(***************************************************************************)
(* The parts that stand alone: the client's receiver and its replay        *)
(* window, the queue between two of the host's threads, and the            *)
(* retransmission cache.  They share no state and are checked in one run:  *)
(* a behaviour is one of theirs, while the others rest as they were at     *)
(* first.                                                                  *)
(***************************************************************************)
EXTENDS MCReplayWindow, MCReceiverUse, MCLockFreeQueue, MCPacketCache

VARIABLE part      \* whose behaviour it is

PartsInit ==
    /\ WindowInit /\ UseInit /\ QueueInit /\ CacheInit
    /\ part \in {"window", "receiver", "queue", "cache"}

PartsNext ==
    /\ \/ part = "window" /\ WindowNext /\ UNCHANGED <<useVars, queueVars, cacheVars>>
       \/ part = "receiver" /\ UseNext /\ UNCHANGED <<windowVars, queueVars, cacheVars>>
       \/ part = "queue" /\ QueueNext /\ UNCHANGED <<windowVars, useVars, cacheVars>>
       \/ part = "cache" /\ CacheNext /\ UNCHANGED <<windowVars, useVars, queueVars>>
    /\ UNCHANGED part

PartsSpec == PartsInit /\ [][PartsNext]_<<windowVars, useVars, queueVars, cacheVars, part>>
=============================================================================
