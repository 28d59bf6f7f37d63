SPECIFICATION FairSpec
CONSTANTS
  DeviceCount = 3
  MaxDevices = 1
  Sticks = {a}
  Storage = {a}
  SDCard = SDCard
  Blob = Blob
  NullDevice = NullDevice
  Good = {SDCard}
  Corrupt = {}
  MaxFaults = 0
PROPERTY ReinsertedCardLaunches
CHECK_DEADLOCK FALSE
