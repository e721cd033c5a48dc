\* sendQueue as session_manager.cpp uses it: the packetizer and an audio
\* callback push at the same time.
CONSTANTS
  Capacity = 2
  IndexMod = 4
  Items = {i1, i2}
  Producers <- SendQueueProducers
  Null = Null
SPECIFICATION QueueSpec
PROPERTY ImplementsFifo
