--------------------------- MODULE MCHostSessions ---------------------------
(***************************************************************************)
(* Model checking of HostSessions: two clients and up to four threads,     *)
(* with a limit of three, so that one client can get two sessions from a   *)
(* repeated handshake, and the limit is reached.                           *)
(***************************************************************************)
EXTENDS HostSessions, TLC

MCSymmetry == Permutations(Endpoints)
=============================================================================
