SPECIFICATION Spec
CONSTANTS
  Tries = 2
  MaxLuns = 2
  Devices <- LargeBlocks
  ChunkCounts = {0, 2}
  MaxCalls = 3
  MaxFaults = 1
INVARIANTS SectorsAre512
CHECK_DEADLOCK FALSE
