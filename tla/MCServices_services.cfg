\* Reads of one to six sectors anywhere in a file of fifteen, in any order, with
\* regions of six sectors and an AES engine that takes four at a time; imports
\* of contents of two chunks; a title, a reload and the title after it, with lists
\* of no, one and two HID devices; a timer that wraps three times; four windows of
\* four years of the calendar.
SPECIFICATION ServicesSpec
CONSTANTS
  BlockSize = 6
  AesChunk  = 4
  MaxCount  = 6
  Sectors   = 15
  AddressSpace = 18
  Files     = {f1, f2}
  NoFile    = NoFile
  f1 = f1
  f2 = f2
  Tmds <- MCTmds
  Data = {"banner", "stub", "app"}
  Stub = "stub"
  Dol = "dol"
  Keys = {k1}
  NoKey = NoKey
  Cfds = {0, 1}
  ContentChunks = 2
  DolChunks = 2
  Lists = {0, 1, 2}
  MaxTitles = 2
  TimerWrap = 4
  TickWrap = 32
  Interval = 3
  MaxTicks = 12
  Anchors <- MCAnchors
  Window = 1460
  Times = {0, 23296, 86399}
INVARIANTS ReadTypeOK InBuffer PlainText
INVARIANTS ImportTypeOK InstallerCannotTell StubCfdIsStub OwnStub
INVARIANTS HIDTypeOK HeldOnce NoOldRequest
INVARIANT ClockTypeOK
INVARIANT StampRight
PROPERTIES ReadEnds GameLearns ReloadEnds ClockSteady
CHECK_DEADLOCK TRUE
