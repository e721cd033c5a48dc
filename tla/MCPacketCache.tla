---------------------------- MODULE MCPacketCache ----------------------------
\* The cache at its full size.  With frames of as many fragments as its key has room
\* for, every smaller frame's packets are among those of one; frames of one fragment
\* are the fewest packets that meet in a slot.
EXTENDS PacketCache

MCFragmentCounts == {64}
MCSmallFrames    == {1}
=============================================================================
