SPECIFICATION Spec
CONSTANTS
  DeviceCount = 3
  MaxDevices = 2
  Sticks = {a, b}
  Storage = {a, b}
  SDCard = SDCard
  Blob = Blob
  NullDevice = NullDevice
  Good = {a}
  Corrupt = {SDCard}
  MaxFaults = 1
INVARIANTS TypeOK HandleOwnership SlotAvailable BlobHasHost VerdictPublished NoSDCardVerdict
PROPERTIES LaunchedFromHealthyDevice
CHECK_DEADLOCK FALSE
