\* A card that IOS knows, one of high capacity that it does not, one of version 1,
\* and two of version 2 without high capacity: IOS passes commands on to the first,
\* which may be busy for longer than it is polled, and not to the second.
SPECIFICATION Spec
CONSTANTS
  Cards = {sc, hc, old, slow, low}
  NoCard = NoCard
  HighCapacity = {hc}
  Version2 = {sc, hc, slow, low}
  Known = {sc}
  Plain = {slow}
  Slow = {slow}
  CardSectors = 10
  PageSize = 2
  AddressSpace = 20
  ChunkSectors = 2
  OpCondTries = 2
  Requests <- MCRequests
  MaxFaults = 1
INVARIANTS TypeOK OwnSectors Released
PROPERTIES CardAccepted
CHECK_DEADLOCK TRUE
