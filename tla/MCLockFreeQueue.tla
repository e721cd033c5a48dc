-------------------------- MODULE MCLockFreeQueue ---------------------------
(***************************************************************************)
(* Instances of LockFreeQueue for TLC: encodeQueue's single producer, and  *)
(* the threads of session_manager.cpp that all push to sendQueue.          *)
(***************************************************************************)
EXTENDS LockFreeQueue

SpscProducers == {"capture"}
SendQueueProducers == {"packetizer", "audio"}
=============================================================================
