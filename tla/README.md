# Verification of CTGP-R MSC

CTGP-R MSC launches CTGP-R from a USB storage device. It has two halves: a
PowerPC program (`src/channel`, the *channel*) with the user interface, and an
IOS module (`src/ios`), loaded into the ARM coprocessor, that finds a storage
device, decrypts the pack's `blob.bin`, launches its `main.dol`, and then
pretends to be the SD card slot for the game. This directory holds TLA+ models
of the parts where several threads, devices or processors have to agree, the
TLC runs that check them, and TLAPS proofs of what holds for every instance.

All models describe the release build (`NDEBUG`): assertions, `PRINT` and the
log file are compiled out, and `abort()` ends only the calling thread
(`src/ios/IOS/System.cpp:93-103`).

## Inventory

| Component | State | Operations | Correct when | Model |
|---|---|---|---|---|
| DeviceMgr (`ios/Disk/DeviceMgr.cpp`) | 9 device handles (flags, a variant disk), table of 32 USB devices, launch error | `Run`, `USBChange`, `UpdateHandle`, `DeviceRead/Write/Init`, `SetError` | tables stay in step, the verdict shown is right, the launched device is healthy, media are served in the end | `DeviceMgr`, `HandleTable` |
| Blob (`ios/CTGP/Blob.cpp`) | the open file, its device, AES state | `Mount`, `Reset`, `ReadSectors`, `LaunchMainDOL` | never outlives its host; a read returns the plain text of the sectors asked for | `DeviceMgr` (mount, launch), `BlobRead` (decryption) |
| IPC channel, IOS side (`ios/IOS/IPCLog.cpp`) | three message queues | `HandleRequest`, `Notify`, `SetLaunchState`, `WaitForStartRequest` | no message lost or doubled, nothing written after the close, the close completes | `IPCLog`, `Mailbox` |
| IPC channel, PowerPC side (`IPCLog` in `channel/Main/IOSBoot.cpp`) | event count and trigger, event queue | constructor, hook thread, `startGameIOS` | the game starts when all services are up | `IPCLog` |
| PowerPC main program (`channel/Main/Saoirse.cpp`) | - | `main`, `LaunchGame` | the channel is closed before the memory is reused | `IPCLog` (order of steps) |
| EmuSDIO (`ios/EmuSDIO/EmuSDIO.cpp`) | `g_emuDevId`, card registers | SDIO commands | accesses only the launched device | `DeviceMgr` (accesses), `IPCLog` (notice); the commands have no state |
| EmuHID (`ios/CTGP/EmuHID.cpp`) | device list, pending request of the game | `IPCRequest`, `Reload` | every device change request of the game is answered once, none after a reload | `EmuHID`, `IPCLog` (notice) |
| EmuES (`ios/IOS/EmuES.cpp`) | title key, index, id and descriptor of the stub | `ReqIoctlv` (the import, `LaunchTitle`), `CloseAllPPC` | an installer cannot tell that the stub is swapped; ES never takes the server's loader; a reload closes everything | `EmuES` (import), `EmuHID` (reload), `IPCLog` (notice) |
| System (`ios/IOS/System.cpp`) | two timer contexts and the index of the one in use | `Entry`, `SystemThreadEntry`, `SetTime`, `GetTime`, timer thread | a reading never shows that a context is renewed, and every tick is counted (which a wrap of the timer breaks) | `Clock`, `IPCLog` (start order) |
| USB (`ios/Disk/USB.cpp`) | resource fd | `EnqueueDeviceChange`, `Attach`, transfers | - | `DeviceMgr` (reports, attach), `USBStorage` (messages) |
| USBStorage (`ios/Disk/USBStorage.cpp`) | tag, shared buffer, LUN | `SCSITransfer`, `Init`, `ReadSectors`, `WriteSectors` | a transfer returns its own data, whatever an abandoned one left behind; `Init` finds the disk | `USBStorage` |
| SDCard (`ios/Disk/SDCard.cpp`) | handle, RCA, capacity flag, shared buffer | `Startup`, `ReadSectors`, `WriteSectors`, `IsInserted` | a transfer moves its own sectors, no call leaves the card selected, a card that IOS knows or one of high capacity is not refused for nothing | `SDCard` |
| FatFs glue (`ios/Disk/FatFS.cpp`) | - | disk callbacks, time stamps | a stamp is the date of the calendar | `FatTime` (time stamps), `DeviceMgr` (failures) |
| Patch (`ios/IOS/Patch.cpp`) | - | path redirection, kernel patches | - | not modelled |
| Loader (`ios/Loader/Loader.cpp`) | position in the module's file | file resource manager, start of the module | - | not modelled |
| OS primitives (`common/System/OS.hpp`) | queues | - | - | queues in `IPCLog`, `DeviceMgr` and `EmuHID` |
| Input, BasicUI, debugPrint | button state | - | - | not modelled |
| Arch, boot loader, Globals, Config, Log, DI/ES/AES/SHA wrappers, FatFs, LZMA | - | - | - | not modelled: sequential I/O, constants, thin wrappers, third-party code |

How they interact. DeviceMgr runs in its own IOS thread (priority 40) and
drives Blob, FatFs, USBStorage and SDCard by calls. Its inputs are messages in
one queue: a 64 ms timer and the asynchronous reply of the USB resource
manager. EmuSDIO, EmuHID, EmuES and the System thread (priority 80) run beside
it; EmuSDIO calls `DeviceRead`, `DeviceWrite` and so `SetError` in the middle
of whatever DeviceMgr is doing. All of them talk to the PowerPC side through
one *print hook*: an ioctl that the PowerPC side keeps outstanding at
`/dev/saoirse` and that an IOS thread answers when it has something to say.

What is hard here: flags that several steps and two threads change (DeviceMgr);
one shared request and two message queues with capacity limits, on two
processors (IPCLog); counting notices rather than telling them apart; errors
half-way through a mount; devices that come, go and come back while their
previous incarnation is still in a table; an import of six kinds of requests in
which one content is replaced under the eyes of ES; a clock that is renewed
while it is read; assertions that the release build does not have.
`PROJECT.json` lists each of these hazards at its line.

## Modules

### DeviceMgr (`DeviceMgr.tla`, `HandleTable.tla`, `MCDeviceMgr.tla`, `DeviceMgrProofs.tla`)

The DeviceMgr thread is cut into steps where it can block or where another
actor can see a difference: the receive of its queue (`pc = "receive"`), each
device of a change report (`attach`), each handle of a pass (`update`), the
early announcement (`announce`), `f_mount` (`mount`), `Blob::Mount` up to the
end of `f_open` (`blob`) and from there on (`opened`), `LaunchMainDOL` up to its
last read (`launch`) and from there to `g_emuDevId = m_devId` (`loaded`), its notice
(`notify`), and the end of the pass (`publish`). The two cuts behind a file
operation are there because EmuSDIO has the higher priority: it may find an error of
the same device when the file was read without one and before the result is
used. Everything between two such points is one action: the scan of a
report with its two passes over `m_usbDevices` is `USBChange`, an ejection with
the Blob's own ejection is `EjectHandle`.

State. Each flag of `m_devices[]` is a set of handle numbers (`enabled`,
`inserted`, `errored`, `mounted`); `disk` is the variant. `inUse`, `usbId`,
`intId` are the fields of `m_usbDevices[]`; `toAttach` the devices of the
current report still to handle. `volumes` is FatFs's table, `blobDev` the
device of the open file. `launchError`, `oldLaunchState`, `somethingInserted`
are the variables of `Run`. `emuDevId`, `emuReq` are EmuSDIO's device and the
access under way; `usbReq`, `report` the pending request; `ppc`, `notified`,
`launched` what the PowerPC side did and was told; `present` the media that are
physically in.

Environment. Media move at any time (`MoveMedium`), at most `MaxDevices` USB
devices at once (the size of a report). Attach and disk I/O fail when the
medium is gone, and by `MaxFaults` injected faults when it is not. `f_mount`
and `f_unmount` do not fail (ten volumes for nine handles, and the
synchronisation callbacks always succeed). A USB device stands for the low half
of its id, the only part that the code compares.

`HandleTable` is the abstract specification: what the table of handles promises
to a stick, to `blob.bin` and to the game, in nine variables and without the USB
table, the volumes, the launch error or the order of a pass. A handle is
*leased* to a stick that the last report lists and that no working handle
serves; it is free again only when its stick was pulled and its volume closed; a
report that no longer lists a stick unplugs its handle, which only a handle that
failed may escape; a failure lasts until the handle is opened or ejected;
`blob.bin` is opened on, and the game gets, a handle that was open, plugged and
not failed when its files were read (`tested`), and that stays open and plugged
until it is used, while an access of the running game may still fail it; later
accesses go to that number whatever it is leased to. `DeviceMgr` implements it
(`HandleTableSpec`): a lease is the `disk` of an enabled handle, `plugged`,
`failed` and `open` are `inserted`, `errored` (of enabled handles) and `mounted`
without the Blob's handle, `host` is `blobDev`, `tested` is the handle of the
steps `opened` and `loaded`, `game` and `access` are `emuDevId` and `emuReq`,
`listed` is `report`.

### IPCLog (`IPCLog.tla`, `Mailbox.tla`, `MCIPCLog.tla`, `IPCLogProofs.tla`)

The IPCLog thread of IOS, the notifying threads, the PowerPC hook thread and the
PowerPC main thread, from the first attempt to open `/dev/saoirse` to the start
of the game. `ipcQueue`, `response` and `startQueue` are `m_ipcQueue`,
`m_responseQueue` and `m_startRequestQueue`; `pending[s]` is the message that
thread `s` holds while it waits in `m_responseQueue.receive()`; `reply` is an
answered hook that the PowerPC side has not handled; `eventCount`, `trigger`,
`eventQueue`, `shown` are `m_eventCount`, `m_triggerEventCount`, the queue of
`startGameIOS` and `LaunchState.Error`. `Notify` and `SetLaunchState` are three
steps: a thread receives the hook (`TakeHook`, it is the `holder` then), writes
to its buffer (`Write`, the `buffer`) and answers it (`Send`). Anything may
happen between them: the close may be received, another thread may wait. A
second hook in use at the same time would show as one buffer with two writers.
The hook thread has a higher priority than the main thread, so handling a reply
and registering the hook again is one step. A synchronous call of the main
thread ends when IOS answers it; the delay of that answer cannot be observed and
has no step of its own. The reply that ends the hook thread stays in `reply` for
good.

`Mailbox` is the abstract specification: per-thread queues of messages, each
delivered once and in order until the channel is closed. `IPCLog` implements it
under the mapping `InTransit` (the message on its way, then the one waiting).

### BlobRead (`BlobRead.tla`, `BlobReadProofs.tla`)

`blob.bin` is AES-CBC in regions of 64 sectors, each with a vector that encodes
its first sector. `Blob::ReadSectors` decrypts any range of it in place. One
step is the start of a read (`BeginRead`: the vector is computed, read from the
file or kept from the last read), the head of the loop (`NextBlock`), each call
of the AES engine (`Decrypt`), the end of a block and the return. `iv`, `s`,
`nextIv`, `nextIvSector` are the variables of the code, `left` is the
`sectorCount` of `BlobDecrypt`. No byte is computed: a sector is the file and
position it came from and the vector it was decrypted with, and a vector is
where its 16 bytes came from, so that "plain text" means "decrypted with the
vector that CBC over the whole file has there" (`RightIv`).

The statics `nextIv` and `nextIvSector` survive the file: `Mount` and `Eject`
leave them alone. What saves the next file is that FatFs reads sector 0 of a
new volume before any other (`volume = "untouched"`), which replaces them.
`BlobAssumption` says that FatFs asks for at most one region at a time
(`MaxCount <= BlockSize`). This is a limit of the code: for a longer read
`decryptCount` becomes zero or wraps. A failing seek or read returns before it
changes any of this state and is not a step.

### EmuES (`EmuES.tla`, `EmuESProofs.tla`)

The import of the channel, which CTGP-R updates itself with. The TMD that the
installer hands over lists a loader stub; EmuES edits a copy of it (`Edited`), so
that ES expects this program there, throws the data of that content away
(`AddContentData`) and writes the program when the content is finished
(`FinishStub`). `titleKey`, `stubIndex`, `stubCid`, `stubCfd` are the statics of
`EmuES.cpp`. One thread serves one request at a time, so each ioctlv is a step,
with everything that it asks of ES; a failure of the AES engine or of ES after
any number of the writes is `FinishStubFails`. A request with the wrong vectors
is refused before it changes anything and is no step.

ES and the installer are external. ES has the key of the ticket (`esKey`), the
TMD of its import, and open contents; it may refuse a ticket, a title or a
content, and takes a content when its data has the hash of the TMD (`Matches`).
The installer sends its requests in any order and data out of place; it sends no
more chunks than a content has. No byte is computed: a hash is the name of the
data, and a chunk of encrypted data is the data it came from, its place, its key
and its vector. `disturbed` records that in this import a request was refused, or
one for another title came in between, where EmuES and ES part: lines 202 and
237-239 change the statics before ES has agreed, and ES goes on with the import
it has. `s_ctgpTicketAdded` is written and never read, and is left out.

### Clock (`Clock.tla`, `TimeProofs.tla`)

`SetTime`, `GetTime` and the timer thread of `System.cpp`. `timer` is the 32-bit
hardware timer, `ctxTimer`, `ctxTick`, `timerIndex` are `s_timerCtx[]` and
`s_timerIndex`. The thread reads the timer, stores `m_tick` and `m_timer` of the
context that is not in use, and flips the index, each in a step of its own
(`ReadTimer`, `StoreTick`, `StoreTimer`, `Flip`), and the time passes between any
two of them. It has the lowest priority, so that a `GetTime` on another thread
runs to its end in any of these states: `TimeNow` is what it sees there. `ticks` and
`wraps` count what really passed. `DiffTicks` is the macro with its operands
extended to 64 bits, which after a wrap of the timer gives a difference that is
short by 2^32 and by one.

`ClockSteady` is what the two contexts are for: no step of the thread can be seen
by `GetTime`, and a tick adds one, as long as the timer does not wrap at it. What
the wrap should do is `TicksCounted`, and it does not (see the findings).

### FatTime (`FatTime.tla`, `TimeProofs.tla`)

`civil_from_days` and `get_fattime` of `FatFS.cpp`, against a calendar that is
advanced day by day (`Successor`). The fields of the stamp are cut to their bits.
The calendar is followed for `Window` days from each of the `Anchors`, which are
firsts of January of the years that a stamp can tell (`FatAssumption`).

### MCServices (`MCServices.tla`)

BlobRead, EmuES, EmuHID, Clock and FatTime touch no state of each other, and a run
of their product would multiply what does not interact. `focus` picks one of them at
the start; the other four rest in an initial state, so that one run checks the five.

### EmuHID (`EmuHID.tla`, `EmuHIDProofs.tla`)

The thread of EmuHID between the game and the real HID manager, and the reload
on the thread of EmuES. Both have priority 80, and one of them runs until it
blocks, so a step ends at a receive, at a synchronous call (`busy`, `attach`,
`suspend`), and at `ioctlAsync`, which hands the next request to the HID
manager before the current answer is passed on (`answer`). `hidQueue`,
`deviceChangeReq`, `available`, `devices`, `count` are the statics of
`EmuHID.cpp` and `result` is the result field of the one asynchronous request,
`s_cbReq`, which the manager may overwrite as soon as it is armed again. A
device list stands for its own length, so that a list that is copied with the
count of another one shows as a pair of different numbers in `told`.

The game makes one synchronous call at a time, and has one device change
request open; it may reload whenever no call is under way. The reload closes
its handle through the queue of EmuHID (`CloseAllPPC`), answers what is pending
and makes the list available again (`Reload`, `Reloaded`). Closing a handle
while a request is open is left to the reload.

### USBStorage (`USBStorage.tla`, `MCUSBStorage.tla`, `USBStorageProofs.tla`)

The bulk-only transport to a USB storage device. A transfer is a command block,
chunks of data and a status, each one bulk message through `m_buffer` (`pc`:
`command`, `data`, `status`, then `ended` when the call has its result). A step
ends where a message is issued: that the message moves, and that its caller
takes what it brought and issues the next one, is one step, so that the other
thread can change `buffer` and `tag` before a message moves but not between its
end and the copy. `id`, `lun`, `blockSize`, `valid`, `tag` are the members;
`error` is the flag of the `DeviceHandle`. `Init` runs the same transfers, with
`stage` for the one it waits for and `try` for `i` of `FindLun`, whose other
loop variable is `m_lun` itself.

Two threads call it: DeviceMgr (`manager`) and EmuSDIO (`sdio`), which does not
ask whether `Init` was called. Before `Init` the members hold garbage, which may
be the values of an earlier device. `alone` says that no other call overlapped
the one under way.

The device answers in order through `pipe` (its IN pipe) and keeps what nobody
reads. A part is named by its command (`of`), its place (`k`) and whether the
device was content (`ok`). A transfer that fails is abandoned, and the code does
no reset recovery: the device may still wait for data (`writing`) or have parts
to send, and it may keep or drop these when the next command comes. A unit in
`attention` refuses commands until its sense data is requested; a unit in
`device.disks` is a direct access device. `m_tag` does not wrap: a part that
outlived 2^32 transfers is out of the model.

### SDCard (`SDCard.tla`, `MCSDCard.tla`, `SDCardProofs.tla`)

The driver of the SD slot, `__sd0_initio` and the two transfers, called by the
DeviceMgr thread (`manager`: starts, reads, writes) and EmuSDIO (`sdio`: reads,
writes). Each ioctl is a step and so is each `memcpy` out of `rw_buffer`; the
`pc` of a thread is the ioctl that it issues next. The initialisation is a table
of steps (`After`, `Failing`), and the steps that decide something have actions
of their own (`ResetCard`, `GetStatus`, `Reopen`, `OpCond`). `fd`, `rca`, `sdhc`,
`tries` are the statics and the loop counter, `rca` only as whether it is the
card's. A transfer counts its sectors in `done`; `own` says that each chunk went
between the right places, where `rwBuffer` names the data in the buffer by owner,
position and length. `started` and `error` are what FatFs and the
`DeviceHandle` know.

The card is a party of its own, with the states of the SD specification. That it
takes SELECT only in "stby", so not when it is already selected, is the
assumption on which the driver rests without saying so: there is no lock, and a
second transfer fails at its select (and takes the device out of service by
`SetError`). GETSTATUS errors have the inserted bit clear, as IOS's `-4` has.
A command without data is sent by `ioctlv` if `__sd0_sdhc` is set and by `ioctl` if
not (line 190). What an `ioctl` does for a card that IOS did not initialise itself is
known to the repository only through the FIXME of line 515, "SDv2 cards which are
not high-capacity won't work", and so is a choice of the environment: IOS passes the
commands on to the cards in `Plain` and refuses them for others (`Passes`).
`CardAccepted` claims the start of the cards that IOS knows, and of those of high
capacity that are ready by the last poll; a card of the FIXME is refused unless it is
in `Plain`.
`clean` says of a call that it met only clean calls: a start beside a transfer
clears `__sd0_sdhc` and deselects the card under it, which EmuSDIO cannot see. A
select or deselect that is reported to do something else than it did sets
`misled`, since the driver cannot know better. Failures that both ends agree
on, before or after the effect, are `Fault`.

## Runs

| Run | Expect | What it shows | Bounds |
|---|---|---|---|
| `launch` | pass | the USB and handle tables in step, a free entry for each device, Blob and host, the published verdict, the NoSDCard verdict, the health of the launched device when it is read and when it is handed over | 3 handles, 2 entries, a good and an empty stick, a corrupt SD card, 1 fault |
| `live` | pass | a good card is launched unless another `blob.bin` is opened first; removal of the last medium is announced unless a stick lost its entry or its report | 3 handles, 2 entries, a corrupt stick and one that is no storage, a good SD card, no injected faults |
| `second` | violation | `std::get<Blob>` on a handle that is not the Blob | 4 handles, 2 sticks and a good SD card |
| `unmount` | violation | unmounting one device unregisters another's volume | as `second` |
| `retry` | violation | a reinserted good card may never be tried again | 3 handles, 1 entry, an empty stick and a good SD card, no faults |
| `channel` | pass | one hook, no late write, readiness, the mailbox refinement, delivery, the start of the game | 2 launches, 2 launch states sent, 2 attempts to open |
| `services` | pass | a read of the blob ends, stays in its buffer and returns plain text; in an import contents sent as the server has them are taken, and the stub is this program; requests of the game for HID devices are held once and none survives a reload, the reload ends, and a title learns of the devices; no reading shows that the clock is renewed; time stamps are those of the calendar | regions of 6 sectors, AES calls of 4, reads of 1 to 6, files of 15 (two and a half regions), 2 files; 3 TMDs, 2 descriptors, contents and program of 2 chunks; 2 titles, lists 0, 1 and 2; a timer of 4 values, 12 ticks; 4 years from each of 4 anchors |
| `transfer` | pass | a transfer that nothing overlaps returns its own data; `Init` ends on a disk, with its block size, and does not refuse a device that has one | 2 threads, 3 calls, 1 fault, 2 tries, transfers of 0 to 2 chunks, the devices of `MCDevices` |
| `blocks` | violation | `Init` accepts a disk whose blocks are not 512 bytes | as `transfer`, devices of `LargeBlocks` |
| `card` | pass | a transfer moves its own sectors, the card is deselected in the end, a start refuses no card that IOS knows, and none of high capacity that is ready in time | 5 cards (known or not, of both capacities, slow, version 1; of the cards of line 515 one that IOS serves and one that it does not), 10 sectors, chunks of 2, 2 polls, 4 requests, 1 fault |
| `close` | violation | closing the channel can deadlock | 1 launch, 1 launch state |
| `wrap` | violation | a wrap of the timer loses its turn and a tick | a timer of 4 values, 12 ticks |

Why the bounds are enough. `launch` has one device of each content, as many
sticks as entries and more than handles for them, so that every order of
mounting, failing and ejecting two hosts occurs and the tables are full, emptied
and re-used, with an error on any device (one fault, and any number by removing
a device in use); an access of the running game can fail in any step of the next
launch. `live` needs a good card, a competitor whose pack is found but does not
launch (it may have, or leave behind, the Blob), and two sticks, so that another
one can come or go after a stick failed. Only one of these is a storage device:
with two the run passes as well, on 905 432 states in 3:32 minutes on two
workers, which leaves too little room for a slower machine. `channel` has two
launches, so that a notice is counted twice, and two launch states, so that one
can be on its way while the next one waits. `services` has every alignment of a
read to the regions, whole and partial AES calls, reads over a boundary, and a
second file that finds the statics of the first; TMDs with the stub and another
content beside it, with the stub's data as the banner, and with the stub as id
0, and two descriptors, so that the one that the stub had is given to another
content while the import goes on; a timer that wraps three times, in each state
of the thread; and the years from a century that is a leap year, from one that
is not, the first of FAT and those in which 32 bits of seconds wrap. For EmuHID
it has one reload at every point, and three lists, so that a list can change
twice while the first change is passed on. `transfer` has a call that fails at
any of its messages before a call that must not see its remains (or at the same
time as it), as well as the transfers of `Init` one after the other, and devices
with two units of which none or the second is a disk, with too many units and
without endpoints. `card` has a transfer of two chunks through the buffer and
one without it, at sectors that a card of the other capacity takes for others,
with `AddressSpace` just large enough, so that an address that is multiplied
twice or not at all shows; a transfer past the end of the card; and as many
polls as it takes to tell the last from the first. Deadlock checking is off
where the system really stops: DeviceMgr when its thread was aborted or waits
for a closed channel, IPCLog when the game runs, and USBStorage when its calls
are used up or its handle has an error. It is on for MCServices (where the ends
of the time and of the calendar stutter), Clock and SDCard.

Fairness. DeviceMgr: the thread is scheduled (`WF(Run)`), its queue is first in,
first out, so that a report is not passed over for timer messages for ever
(`SF(USBChange)`), an I/O request returns (`WF(EmuDone)`), and the resource
manager reports changes (`WF(ReportChange)`). Media need not move and the game
need not start. IPCLog: every thread runs (`WF`), with the hook in hand as well,
and a waiting thread is served if the hook comes again and again
(`SF(TakeHook)`): the four services notify once each and so cannot shut
DeviceMgr out. DeviceMgr itself, which acts on what the user does, is under no
fairness. BlobRead: `ReadSectors` runs on to its return (`WF(ReadSectors)`); the
next read need not come; the import, the clock and the stamps are under no
fairness. EmuHID: both threads are scheduled, the HID manager reports a change
(`WF(ReportChange)`), and the game asks again after an answer (`WF(Ask)`), as
the USB library of a game does. It need not open the device, make other calls or
reload, and no fault need occur.

## Findings

Each is a run that expects a violation; the text in `PROJECT.json` quotes the
lines. (1) With the Blob in use, a second storage device that mounts reaches
`std::get<Blob>` on its own handle (`DeviceMgr.cpp:610`), which ends the thread.
(2) `f_unmount("0:")` (`DeviceMgr.cpp:507`) unregisters the SD card's volume
whichever device is ejected. (3) A mount that fails on another device closes
`blob.bin` and leaves the Blob handle mounted, so that a card that is reinserted
is never launched again, against the comment at line 475. (4) `Close`
(`IPCLog.cpp:63-70`) waits for the hook on the thread that would have to hand it
over; a launch state that takes the hook in that moment blocks both processors.
The sleep before it cannot help: the hook that comes back meanwhile stays in
`m_ipcQueue`. (5) `FatFS.cpp:67` says that sectors are always 512 bytes, and the
buffers of FatFs and EmuSDIO are made for that; `Init` (`USBStorage.cpp:270`)
accepts any block size, and a transfer is as long as the device's blocks make
it. (6) `diff_ticks` (`System.cpp:175-177`) has a case for the wrap of the
timer, and the readings are renewed in an interval shorter than its 38 minutes
(line 181) so that no wrap is missed; but the case is computed in 64 bits, and
each wrap sets the clock back by 2^32 + 1 ticks. The time is right for 38
minutes after it was set and then runs below its base, at the far end of 64
bits, where the quotient of line 219 is no time at all. In the release build
only file time stamps use it.

Two things that no run claims. The comment at `System.cpp:181` speaks of a 32
minute interval, while `usleep` takes microseconds and the interval is 1.92
seconds; either is short enough.
FAT counts seconds in twos, and `get_fattime` stores seconds modulo 32;
`StampRight` leaves them out.

`GoodCardLaunches`, `RemovalAnnounced` and `GameStarts` state what does hold
around these, and name each exit. The first two exempt an aborted thread, and
the game: the channel is closed then, and the thread waits in it for ever.
`GoodCardLaunches` begins when the Blob is not mounted, and exempts a card that
fails or is taken out (`Settled`) and a `blob.bin` of another medium that is
opened first (`OtherPack`): even if that pack turns out to be corrupt the Blob
stays mounted (`DeviceMgr.cpp:612-614`), and `UpdateHandle(8)` does nothing for
the card, which is the cause of (3). `RemovalAnnounced` exempts a stick that
failed and whose entry an unrelated report has invalidated (line 346,
`Orphaned`): its handle stays inserted for ever, a defect that no document
speaks of (the last of the hazards); and a report that was lost (`Unreported`).
Without `OtherPack` or without `Orphaned` the run `live` finds a violation.
`GameStarts` exempts a DeviceMgr that still has something to say.
`GameAfterAllReady` exempts a second launch, which is counted in the place of a
missing notice. `GameLearns` exempts a title that shut the HID device down
(`Shutdown` does not make the list available again) and a failure of the HID
manager (after which nothing polls any more); both are listed under the hazards,
since no document of the repository says what is meant. The properties of
`USBStorage` exempt calls that overlap (`alone`): nothing in the code keeps the
two threads apart, and nothing promises that it does. `InstallerCannotTell` and
`StubCfdIsStub` exempt an import that was disturbed; `OwnStub` exempts nothing.

## Proofs

`DeviceMgrProofs`, `IPCLogProofs`, `BlobReadProofs`, `EmuHIDProofs`,
`USBStorageProofs`, `SDCardProofs`, `EmuESProofs` and `TimeProofs` are checked
by TLAPS, from the named assumptions on the constants (`ConstantsAssumption`,
`ChannelAssumption`, `BlobAssumption`, `HIDAssumption`, `StorageAssumption`,
`CardAssumption`, `ImportAssumption`, `ClockAssumption`, `FatAssumption`) and
nothing else, but `DiskFound`, which also assumes more than one try (5 in the code).

*DeviceMgr.* `IInv` is the conjunction of `TypeOK`; `Control` (which handle each
`pc` may be working on); `FixedHandles` (the SD slot and the Blob keep their
handles, nothing is inserted in a disabled one); `USBTable` (entries are
distinct and apart from the devices still to attach); `Ownership` (the core of
`HandleOwnership`); `FewReported` (a report fits the table); `HostInv`; `Shown`
(how `notified` may lag behind inside a pass); `GameErrors` (between the read of
a file and its use, an error of the device is one that the running game met);
and `NothingBehind` (the handles that the current pass has dealt with). Each
part has a step lemma with one case per action. The strengthening is needed
because the properties speak of the end of a pass or of one table only:
`SlotAvailable` follows by counting, since a full table and one more device
would make a report of more than `MaxDevices`.

`ImplementsHandleTable` proves the refinement, from three more parts
(`TableInv`): a stick whose handle works, or is about to be mounted, is in the
USB table with that handle (`Served`), since only an error takes its `intId`
away; what a pass is about to mount is not mounted (`Unopened`); and an enabled
handle holds a stick (`Holding`). Between the read of a file and its use nothing
ejects the handle, since only this thread ejects (`Untested`, `HostIsReady`).
`Served` is what makes `Unplug` and `Lease` true of the code: `USBChange` finds
the handles to unplug, and the devices that need no new one, through the USB
table only. There is one step lemma for each action; `AttachDevice` becomes
`Lease`, the scan of a report `Unplug`, and the steps that only touch the
thread's own state become stutters. `StickServedOnce` follows from `Served` and
`Ownership`. `PassEnds` measures what is left of a pass (`PassLeft`: the handles
to come, and the steps that the present one may still take).

*IPCLog.* `IInv` adds to `TypeOK` and `OneHook`: no hook before its thread
exists, none after the close, `Counted` (notices waiting, arriving and counted
add up to launches and services that reported) and `Ready` (the event is sent
only then). `GameWhenReady` is the counting argument of `FiveIsAll`.
`ImplementsMailbox` proves the refinement: `WaitPosts` maps the start of a wait
to `Post`, `EventDelivers` maps the handling of a reply to `Deliver`, taking the
hook changes nothing in the abstract state. `HookNeverLost` adds that the one
hook is in the queue, with the thread that received it or on its way back
(`HookExists`), and `Written` that a buffer holds what its holder has to say.
`EventNotMissed` is about the comparison of the count with its trigger for
equality, which a count that is already larger never meets: five notices need
two services that report only after the start request (`EventInv`), as long as
no more than two launches were notified. Two is exact: with a third one before
`startGameIOS` the count reaches five before there is a trigger.

*BlobRead.* `IInv` adds to `TypeOK` and `PlainText`: `Progress` (the sectors
before `s` are plain, the others as they were read), `AtBlock` and `InBlock`
(a block starts where its vector is known and crosses no boundary), and `Kept`
(the kept vector is the last cipher text before `nextIvSector`, of the open
file, once the volume was accessed). The arithmetic of regions (`WithinRegion`,
`RegionEnd`, `BlockFits`, `NoWrap`) is in lemmas; `BlockFits` is where
`MaxCount <= BlockSize` is needed. It is also what `RoundsGetOn` rests on: a
`decryptCount` of 0 would go round for ever. `LeftToDo` counts the rounds that are
left of a read.

*EmuHID.* `IInv` says what the queue can hold: at most one call (`OneCall`),
one request of each title (`HeldOnce`) and one answer of the manager
(`OneAnswer`), hence three messages of the eight that it has room for
(`ShortQueue`); and during a reload the close is behind every request
(`Closing`), so that when it is answered `s_deviceChangeReq` holds the last
request that is open, and `Reload` answers that. `Pop` and `Push` reduce a
receive and a send to these sets of positions.

`ListInv` is about the lists. `s_devices` and the result are the manager's to
write, `s_deviceCount` is set when the answer is received (`ListKept`), so that a
request of the title in between is told a list with the length of the one
before. `NeverLastMixed` says that another answer follows, `ChangesReachTitle`
that what the manager reported last is told or on its way (`OnTheWay`), over
reloads too, as long as it has not failed and the title did not shut the device
down. `CloseComesNearer` measures what is in front of the close of a reload
(`Distance`, its place in the queue and the work on the message at hand):
requests that come meanwhile queue up behind it.

*USBStorage.* A write is easy: the device takes data only for the command that it
executed last. For a read nothing compares the tag of the data, only that of the
status at the end, and `OwnData` says that this is enough. `Whole`: what is in
the pipe are ends of answers, each complete up to its status, so that behind a
part that a message took comes the next part of the same answer (`ReadOwn`).
`Latest`: nothing but the transfer under way has the last tag. A status with that
tag, reached by following one answer from part to part, is then the status of
this very command, and all that was read before it was its data (`MessageMine`).
`DeviceStep` keeps `Whole` over everything the device does. `InitInv` follows the
search for a unit to the block size. `DiskFound` has a second invariant, `FindInv`,
kept for `Tries > 1`: the pipe is empty when `Init` begins (`UnusedInv`: an earlier
I/O that left something in it has failed, and the handle with it); while nothing
disturbs `Init` it holds just the answer to the transfer under way, refused for a
UNIT ATTENTION only (`AnswerInv`); and no disk was passed over, nor asked for its
sense data twice (`LoopInv`). With one try a disk that reports a UNIT ATTENTION
would be passed over, hence the premise. `TransfersEnd` counts the messages that
a transfer still needs (`MessagesLeft`, at most the chunks and two): each one
that ends takes one away, whatever the device answers, and the other thread adds
none. `SearchEnds` is about the two loops of `FindLun`, one of which runs over
the member `m_lun` that both threads use: the transfers of a search are in the
order of unit, try and place in the try (`Further`), below the number of units.
Together: every call ends, if its messages do.

*SDCard.* `CleanInv`: a clean transfer meets only clean transfers. `SelectInv`:
while one of them is past its select the card is selected, so the other one is
not, and `rw_buffer` is its own (`OwnInv`). `CapacityInv`: as long as the card
has power, the capacity flag is right or nobody uses it, which needs `StartInv`
(who transfers while the volume is started or not). `AcceptInv`: a start that is
still undisturbed is on its track (`OnTrack`, the state of the card at each
step), from which no ioctl fails by itself: up to the answer about its capacity
`__sd0_sdhc` is set, and behind it IOS passes the commands of a `Usable` card
on. `AddressRight` is the arithmetic: the address of a sector of the card does
not wrap, and the card finds that sector by it. `ReleaseInv`: a selected card
has a thread on the way to a deselect. `PassInv`: a card is selected only as
long as IOS passes its commands on. `CallsEnd` counts the steps that a call may
still take (`StepsLeft`: the polls of the card or the sectors that are left, and
the steps behind them). Each step of the call takes some away, whatever the card
answers, and nothing that the other thread does, with a start that clears the
statics under a transfer, or that happens to the card sets it back.

*EmuES.* `IInv` adds to `ImportTypeOK`: ES has the edited TMD (`Import`); open
contents are different contents of it (`Opened`); and while nothing disturbed the
import, the index and id of the stub are those of the TMD (`StubKnown`) and each
open content holds what was sent for it, but the stub, which is open under
`stubCfd` and empty (`Contents`). `RestStart` is the step that needs it all: a
content that ES opens is told from the others by its id, and `stubCfd` is unset
by then since no content is open twice. `CannotTell` follows where a content is
finished, by what it holds; `OwnStubTaken` from the edited TMD alone.
`ImportAssumption` says what the code takes for granted of a TMD: that an
index is a place in the list, that ids differ, and that there is one stub.

*Clock and time stamps.* The invariant of the clock says that the context in use
is a past reading of the timer that is `age` ticks old, less than a turn of the
timer, and that its `m_tick` is right up to the wraps before that reading; and
what the thread has copied so far of the other one. The interval only has to be
shorter than a turn of the timer (`ClockAssumption`). `RenewedUnseen` takes the
same invariant before and after a step: the new context tells what the old one
told. It also bounds the defect of finding (6): `WrapsLose` says that the clock
is behind by `wraps` turns of the timer and as many ticks, never by more, and
`RightBeforeWrap` that it is right until the first wrap.

For the stamps the proof numbers the days (`DayNumber`: the days up to the new
year, by the Gregorian rule, and those before the month). `SuccessorCounts`: the
calendar adds one. `CivilFromDays`: the closed formula inverts the numbering, for
every date from 1970 on; its year of the era (`EraDivides`) and its month
(`MonthFound`) are found in lemmas of their own, since a year of the code begins
in March. By `FatAssumption` the calendar stays below the year 2108, so no field
of a stamp overflows (`StampsRight`).

| Theorem | Module | Property |
|---|---|---|
| `TypeCorrect` | all eight | `TypeOK` (`ReadTypeOK`, `ImportTypeOK`, `HIDTypeOK`, `ClockTypeOK`) |
| `HandlesOwned`, `SlotFound` | `DeviceMgrProofs` | `HandleOwnership`, `SlotAvailable` |
| `BlobHosted`, `LaunchIsHealthy` | `DeviceMgrProofs` | `BlobHasHost`, `LaunchedFromHealthyDevice` |
| `VerdictIsPublished`, `NoSDCardIsRight` | `DeviceMgrProofs` | `VerdictPublished`, `NoSDCardVerdict` |
| `ImplementsHandleTable` | `DeviceMgrProofs` | `HandleTableSpec` (in no run) |
| `StickServedOnce`, `PassEnds` | `DeviceMgrProofs` | - |
| `OneHookHolds`, `NothingAfterClose` | `IPCLogProofs` | `OneHook`, `NoLateWrite` |
| `GameWhenReady` | `IPCLogProofs` | `GameAfterAllReady` |
| `ImplementsMailbox` | `IPCLogProofs` | `MailboxSpec` |
| `HookNeverLost`, `EventNotMissed` | `IPCLogProofs` | - |
| `StaysInBuffer`, `ReadsPlainText` | `BlobReadProofs` | `InBuffer`, `PlainText` |
| `RoundsGetOn` | `BlobReadProofs` | - |
| `RequestsHeldOnce`, `NoOldRequestLeft` | `EmuHIDProofs` | `HeldOnce`, `NoOldRequest` |
| `NeverLastMixed`, `ChangesReachTitle`, `CloseComesNearer` | `EmuHIDProofs` | - |
| `OnlyItsData`, `OnlyDisks`, `DiskFound` | `USBStorageProofs` | `OwnData`, `ChoosesDisk`, `DiskAccepted` |
| `TransfersEnd`, `SearchEnds` | `USBStorageProofs` | - |
| `TransfersApart`, `CardReleased`, `StartAccepts` | `SDCardProofs` | `OwnSectors`, `Released`, `CardAccepted` |
| `CallsEnd` | `SDCardProofs` | - |
| `CannotTell`, `StubDescriptor`, `OwnStubTaken` | `EmuESProofs` | `InstallerCannotTell`, `StubCfdIsStub`, `OwnStub` |
| `RenewedUnseen` | `TimeProofs` | `ClockSteady` |
| `WrapsLose`, `RightBeforeWrap`, `CivilFromDays` | `TimeProofs` | - |
| `StampsRight` | `TimeProofs` | `StampRight` |

A theorem without a property (-) states one that no run checks.

Every safety property and action property of the passing runs is proved. Only
model-checked are the liveness properties, which are out of the prover's reach.
What each of them rests on besides fairness, that nothing is lost or goes round
in circles, is proved:

| Liveness property | Its safety core |
|---|---|
| `ReadEnds` | `RoundsGetOn` |
| `ReloadEnds` | `CloseComesNearer` |
| `GameLearns` | `ChangesReachTitle`, `NeverLastMixed` |
| `Delivered` | `HookNeverLost`, `OneHookHolds` |
| `GameStarts` | `EventNotMissed` |
| `GoodCardLaunches`, `RemovalAnnounced` | `PassEnds`, `VerdictIsPublished` |

TLC finds `HandleTableSpec` true on the instance of `launch` (3.3 million states),
but that run is the largest already, and the refinement would multiply its time;
it is left to the proof.

## Plan

In this order; each module gets an MC module or joins one of the existing runs.

1. `DeviceMgr`, with its proofs: done.
2. `IPCLog` and `Mailbox`, with their proofs: done.
3. `BlobRead`, with its proofs: done.
4. `USBStorage`, with its proofs: done.
5. `SDCard`, with its proofs: done.
6. `EmuHID` with the reload of EmuES, and its proofs: done.
7. `EmuES`, the title import protocol, with its proofs: done.
8. `Clock` and `FatTime`, with their proofs: done.
9. `HandleTable`, the abstract table of handles that `DeviceMgr` implements, with
   the proof of the refinement: done.
10. The safety cores of the liveness properties, and that every call of the two
    drivers ends: done.
11. What would come next: the timer messages that fill DeviceMgr's queue of 8
    while its thread is blocked, which needs the limits of the queues of IOS.

## Not modelled

EmuSDIO's commands: each is answered with a constant, or passes its arguments to
`DeviceRead` and `DeviceWrite`, which are modelled; there is no register to
hold. The rest of EmuES (`GetDeviceID`, `DIVerify`, the title context) passes
arguments on. Loader: one thread serves one reader from start to end. Patch:
machine code, and a comparison of path names without state. In `Blob.cpp` two
ways out are left out: a failure of the AES engine, which is only asserted, and
so ignored in the release build (lines 81 and 91: the buffer would keep cipher
text); and an `f_read` that returns `FR_OK` with fewer bytes than asked for, at
the end of a truncated `blob.bin`. The archive reader, `UnalignedMemcpy`, the
button edges of `Input` and the configuration are short sequential functions
that a unit test reaches. Drawing, formatted output and the loading of IOS in
`IOSBoot.cpp` are I/O. FatFs, LZMA and printf, by far the most lines of the
repository, are third-party code; FatFs is modelled as far as its callers see it
(volumes, files that are refused when their volume is gone, the order of its
reads in a new volume).
