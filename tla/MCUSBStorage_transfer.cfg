SPECIFICATION Spec
CONSTANTS
  Tries = 2
  MaxLuns = 2
  Devices <- MCDevices
  ChunkCounts = {0, 2}
  MaxCalls = 3
  MaxFaults = 1
INVARIANTS TypeOK OwnData
PROPERTIES ChoosesDisk DiskAccepted
CHECK_DEADLOCK FALSE
