SPECIFICATION Spec
CONSTANTS
  DeviceCount = 4
  MaxDevices = 2
  Sticks = {a, b}
  Storage = {a, b}
  SDCard = SDCard
  Blob = Blob
  NullDevice = NullDevice
  Good = {SDCard}
  Corrupt = {}
  MaxFaults = 0
INVARIANT MountedVolumesRegistered
CHECK_DEADLOCK FALSE
