SPECIFICATION FairSpec
CONSTANTS
  DeviceCount = 3
  MaxDevices = 2
  Sticks = {a, b}
  Storage = {a}
  SDCard = SDCard
  Blob = Blob
  NullDevice = NullDevice
  Good = {SDCard}
  Corrupt = {a}
  MaxFaults = 0
PROPERTIES GoodCardLaunches RemovalAnnounced
CHECK_DEADLOCK FALSE
