--------------------------- MODULE MCHostPipeline ---------------------------
\* Two clients, two frames each of at most two fragments, and pools small enough
\* to run out in the middle of a frame.
EXTENDS HostPipeline

CONSTANTS c1, c2

MCClients == {c1, c2}
MCAudioClients == {c1}
MCFragmentCounts == {2}
MCMaxFrames == [c \in MCClients |-> IF c = c1 THEN 2 ELSE 1]
=============================================================================
