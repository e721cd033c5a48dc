--------------------------- MODULE MCReplayWindow ---------------------------
(***************************************************************************)
(* The instance of ReplayWindow that TLC checks.                           *)
(***************************************************************************)
EXTENDS ReplayWindow

\* Numbers up to twice the window and one more: every bit is reused once, and
\* the window can be jumped over in one step (diff >= WINDOW_SIZE).
MCSeqs == 0 .. 2 * WindowSize + 1
=============================================================================
