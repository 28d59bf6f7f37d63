------------------------------ MODULE DeviceMgr ------------------------------
(***************************************************************************)
(* The storage device manager of the IOS module (ios/Disk/DeviceMgr.cpp)   *)
(* with the parts it drives: the table of device handles, the table of     *)
(* USB devices, the FatFs volumes, the Blob virtual disk (ios/CTGP/        *)
(* Blob.cpp) and the launch state it sends to the PowerPC side.            *)
(*                                                                         *)
(* Actors:                                                                 *)
(*   - the DeviceMgr thread (DeviceMgr::Run).  It is cut into steps where  *)
(*     it blocks: in the receive of its timer queue, in the IPC calls of   *)
(*     USB attach, in disk I/O, and in IPCLog, which waits for a print     *)
(*     hook request of the PowerPC side;                                   *)
(*   - the EmuSDIO thread, of higher priority, which reads and writes the  *)
(*     launched device for the game;                                       *)
(*   - the PowerPC side of IPCLog (registers hooks until it launches the   *)
(*     game, which closes the channel);                                    *)
(*   - the USB resource manager and the user, who moves media.             *)
(*                                                                         *)
(* f_mount and f_unmount cannot fail here: FF_VOLUMES (10) exceeds         *)
(* DeviceCount, ff_cre_syncobj and ff_del_syncobj always return 1, and     *)
(* opt = 0 defers the mount.  Their error branches have no action.         *)
(***************************************************************************)
EXTENDS Integers, FiniteSets

CONSTANTS
  DeviceCount,  \* DeviceMgr::DeviceCount: handle 0 is the SD slot, the last the Blob
  MaxDevices,   \* USB::MaxDevices: most devices in a report, size of m_usbDevices
  Sticks,       \* USB devices, each standing for the low half of its usbId
  Storage,      \* those that are bulk-only SCSI mass storage
  SDCard, Blob, NullDevice,  \* the other alternatives of the variant `disk`
  Good,         \* media that hold CTGP-R
  Corrupt,      \* media with a blob.bin whose main.dol cannot be launched
  MaxFaults     \* bound on injected attach and I/O errors

Devices == 0 .. DeviceCount - 1
Slots   == 0 .. MaxDevices - 1
BlobId  == DeviceCount - 1
Media   == Sticks \cup {SDCard}
NoDevice == -1           \* m_devId and g_emuDevId before a mount
NoIntId  == DeviceCount  \* an invalid intId
LaunchErrors == {"OK", "NoSDCard", "NoCTGPR", "CTGPCorrupt"}

ASSUME ConstantsAssumption ==
  /\ DeviceCount \in Nat /\ DeviceCount >= 2
  /\ MaxDevices \in Nat \ {0}
  /\ IsFiniteSet(Sticks)
  /\ Storage \subseteq Sticks
  /\ {SDCard, Blob, NullDevice} \cap Sticks = {}
  /\ SDCard # Blob /\ SDCard # NullDevice /\ Blob # NullDevice
  /\ Good \subseteq Media /\ Corrupt \subseteq Media /\ Good \cap Corrupt = {}
  /\ MaxFaults \in Nat

VARIABLES
  \* m_devices: one set per flag, and the variant `disk` of each handle
  enabled, inserted, errored, mounted, disk,
  \* m_usbDevices, and the new devices of the current change still to attach
  inUse, usbId, intId, toAttach,
  \* FatFs[]: the registered volumes; the device of the open blob.bin
  volumes, blobDev,
  \* m_launchError, oldLaunchState, m_somethingInserted
  launchError, oldLaunchState, somethingInserted,
  \* where the DeviceMgr thread is, and the handle it updates
  pc, cur,
  \* the EmuSDIO thread: g_emuDevId and the device of the access under way
  emuDevId, emuReq,
  \* USB resource manager: the pending GetDeviceChange and its device list
  usbReq, report,
  \* PowerPC side: its progress, LaunchState.Error, and whether Notify(0) arrived
  ppc, notified, launched,
  \* the media that are physically in, and the faults injected so far
  present, faults

handleVars == <<enabled, inserted, errored, mounted, disk>>
usbVars    == <<inUse, usbId, intId, toAttach>>
fsVars     == <<volumes, blobDev>>
launchVars == <<launchError, oldLaunchState, somethingInserted>>
threadVars == <<pc, cur>>
emuVars    == <<emuDevId, emuReq>>
rmVars     == <<usbReq, report>>
ppcVars    == <<ppc, notified, launched>>
envVars    == <<present, faults>>
vars == <<handleVars, usbVars, fsVars, launchVars, threadVars, emuVars, rmVars,
          ppcVars, envVars>>

-----------------------------------------------------------------------------
(* No more USB devices are plugged in at a time than a report has room for. *)
FewSticks(S) == Cardinality(S \cap Sticks) <= MaxDevices

(* The constructor, and the start of Run: the first GetDeviceChange is sent. *)
Init ==
  /\ enabled = {0, BlobId}
  /\ inserted = {} /\ errored = {} /\ mounted = {}
  /\ disk = [d \in Devices |-> IF d = 0 THEN SDCard
                               ELSE IF d = BlobId THEN Blob ELSE NullDevice]
  /\ inUse = {}
  /\ usbId = [j \in Slots |-> NullDevice]
  /\ intId = [j \in Slots |-> NoIntId]
  /\ toAttach = {}
  /\ volumes = {} /\ blobDev = NoDevice
  /\ launchError = "OK" /\ oldLaunchState = "OK" /\ somethingInserted = FALSE
  /\ pc = "receive" /\ cur = 0
  /\ emuDevId = NoDevice /\ emuReq = NoDevice
  /\ usbReq = "armed" /\ report = {}
  /\ ppc = "menu" /\ notified = "OK" /\ launched = FALSE
  /\ present \in {S \in SUBSET Media : FewSticks(S)} /\ faults = 0

(* A mutant: the access does not look at `enabled` and `error`.             *)
UncheckedAccess(d) == disk[d] \in present

(* A disk access of the handle reaches a medium: DeviceInit, DeviceRead and *)
(* DeviceWrite refuse a handle that is not enabled or has an error.         *)
Readable(d) == d \in enabled \ errored /\ disk[d] \in present

Fault == faults < MaxFaults /\ faults' = faults + 1

(* The I/O of a device fails: the access is refused, the medium is gone, or *)
(* a fault is injected.                                                     *)
IOFails(d) == (~Readable(d) /\ UNCHANGED faults) \/ Fault

(* IPCLog::SetLaunchState and Notify wait for a print hook request, which   *)
(* the PowerPC side keeps sending until it closes the channel.              *)
TakeHook == ppc = "menu"

-----------------------------------------------------------------------------
(* Mutants: the old launch state is not captured; the pass skips the SD.    *)
PassWithoutOldState ==
  /\ somethingInserted' = FALSE
  /\ pc' = "update" /\ cur' = 0
  /\ UNCHANGED <<launchError, oldLaunchState>>

PassWithoutSDCard ==
  /\ oldLaunchState' = launchError
  /\ somethingInserted' = FALSE
  /\ pc' = "update" /\ cur' = 1
  /\ UNCHANGED launchError

(* Run: a timer message, or ForceUpdate, starts a pass over the handles.    *)
StartPass ==
  /\ oldLaunchState' = launchError
  /\ somethingInserted' = FALSE
  /\ pc' = "update" /\ cur' = 0
  /\ UNCHANGED launchError

Tick ==
  /\ pc = "receive"
  /\ StartPass
  /\ UNCHANGED <<handleVars, usbVars, fsVars, emuVars, rmVars, ppcVars, envVars>>

(* A mutant: every listed device counts as new.                             *)
Listed == report

(* USBChange, first half: invalidate the intId of devices that errored and  *)
(* drop the devices that the report no longer lists.                        *)
Gone == {j \in inUse : usbId[j] \notin report}
New  == report \ {usbId[j] : j \in inUse}

USBChange ==
  /\ pc = "receive" /\ usbReq = "replied"
  /\ intId' = [j \in Slots |->
                 IF j \in Gone \/ intId[j] \in errored THEN NoIntId ELSE intId[j]]
  /\ inserted' = inserted \ {intId[j] : j \in Gone}
  /\ inUse' = inUse \ Gone
  /\ usbId' = [j \in Slots |-> IF j \in Gone THEN NullDevice ELSE usbId[j]]
  /\ toAttach' = New
  /\ pc' = "attach"
  /\ UNCHANGED <<enabled, errored, mounted, disk, fsVars, launchVars, cur,
                 emuVars, rmVars, ppcVars, envVars>>

(* The reply is an error: USBFatal, which does nothing in a release build.  *)
USBChangeError ==
  /\ pc = "receive" /\ usbReq = "replied"
  /\ Fault
  /\ pc' = "attach"
  /\ UNCHANGED <<handleVars, usbVars, fsVars, launchVars, cur, emuVars, rmVars,
                 ppcVars, present>>

(* USBChange, second half: one new device.  It takes the first free entry;  *)
(* a storage device that attaches also takes the first handle not enabled.  *)
First(S) == {x \in S : \A y \in S : x <= y}

AttachDevice(s) ==
  /\ pc = "attach" /\ s \in toAttach
  /\ toAttach' = toAttach \ {s}
  /\ \E j \in First(Slots \ inUse) :
       /\ inUse' = inUse \cup {j}
       /\ usbId' = [usbId EXCEPT ![j] = s]
       /\ \/ /\ \/ /\ s \notin present \/ s \notin Storage \/ Devices \subseteq enabled
                  /\ UNCHANGED faults
               \/ Fault
            /\ intId' = [intId EXCEPT ![j] = NoIntId]
            /\ UNCHANGED handleVars
          \/ /\ s \in present /\ s \in Storage
            /\ \E k \in First(Devices \ enabled) :
                 /\ intId' = [intId EXCEPT ![j] = k]
                 /\ disk' = [disk EXCEPT ![k] = s]
                 /\ inserted' = inserted \cup {k} /\ enabled' = enabled \cup {k}
                 /\ errored' = errored \ {k} /\ mounted' = mounted \ {k}
            /\ UNCHANGED faults
  /\ UNCHANGED <<fsVars, launchVars, threadVars, emuVars, rmVars, ppcVars, present>>

(* Run: re-arm GetDeviceChange, then go on with the pass of this iteration. *)
(* If the request cannot be sent, USBFatal, and no change is reported again. *)
Rearm ==
  /\ pc = "attach" /\ toAttach = {}
  /\ \/ usbReq' = "armed" /\ UNCHANGED faults
     \/ usbReq' = "lost" /\ Fault
  /\ StartPass
  /\ UNCHANGED <<handleVars, usbVars, fsVars, emuVars, report, ppcVars, present>>

-----------------------------------------------------------------------------
(* A mutant: the pass also updates the last handle.                         *)
NextHandleInclusive ==
  /\ cur' = cur + 1
  /\ pc' = IF cur + 1 <= BlobId THEN "update" ELSE "publish"

(* UpdateHandle(cur), up to the point where it may mount.                   *)
NextHandle ==
  /\ cur' = cur + 1
  /\ pc' = IF cur + 1 < BlobId THEN "update" ELSE "publish"

(* A mutant: the SD slot is sampled whatever device the handle holds.       *)
SampledAnyDisk == IF SDCard \in present THEN inserted \cup {cur} ELSE inserted \ {cur}

(* `inserted` after SDCard::IsInserted is sampled.                          *)
Sampled == IF disk[cur] # SDCard THEN inserted
           ELSE IF SDCard \in present THEN inserted \cup {cur} ELSE inserted \ {cur}

SkipHandle ==
  /\ pc = "update" /\ cur \notin enabled
  /\ NextHandle
  /\ UNCHANGED <<handleVars, usbVars, fsVars, launchVars, emuVars, rmVars, ppcVars,
                 envVars>>

(* A mutant: the Blob is left behind.                                       *)
EjectedAlone == {cur}

(* The handle is not inserted: clear its error, and unmount it if mounted,  *)
(* with the Blob if the blob file is on it.  Every unmount is of volume 0.  *)
Ejected == IF cur \in mounted /\ blobDev = cur THEN {cur, BlobId} ELSE {cur}

EjectHandle ==
  /\ pc = "update" /\ cur \in enabled /\ cur \notin Sampled
  /\ inserted' = Sampled \ Ejected
  /\ errored' = errored \ Ejected
  /\ mounted' = mounted \ Ejected
  /\ volumes' = IF cur \in mounted THEN volumes \ {0} ELSE volumes
  /\ blobDev' = IF BlobId \in Ejected THEN NoDevice ELSE blobDev
  /\ enabled' = IF cur \in mounted /\ disk[cur] \in Sticks THEN enabled \ {cur} ELSE enabled
  /\ NextHandle
  /\ UNCHANGED <<disk, usbVars, launchVars, emuVars, rmVars, ppcVars, envVars>>

(* A mutant: a device counts only when it is about to be mounted.           *)
NoteUnmounted == inserted' = Sampled /\ somethingInserted' = (cur \notin mounted)

NoteInserted == inserted' = Sampled /\ somethingInserted' = TRUE

(* Inserted, and already mounted or in error: nothing to do.                *)
KeepHandle ==
  /\ pc = "update" /\ cur \in enabled \cap Sampled /\ cur \in mounted \cup errored
  /\ NoteInserted
  /\ NextHandle
  /\ UNCHANGED <<enabled, errored, mounted, disk, usbVars, fsVars, launchError,
                 oldLaunchState, emuVars, rmVars, ppcVars, envVars>>

(* Inserted and not mounted: mount it, after telling the PowerPC side that  *)
(* there is a device if it was told there is none.                          *)
OpenHandle ==
  /\ pc = "update" /\ cur \in enabled \cap Sampled /\ cur \notin mounted \cup errored
  /\ NoteInserted
  /\ \/ /\ launchError = "NoSDCard"
        /\ launchError' = "OK" /\ pc' = "announce"
     \/ /\ launchError # "NoSDCard"
        /\ pc' = "mount" /\ UNCHANGED launchError
  /\ UNCHANGED <<enabled, errored, mounted, disk, usbVars, fsVars, oldLaunchState,
                 cur, emuVars, rmVars, ppcVars, envVars>>

Announce ==
  /\ pc = "announce"
  /\ TakeHook /\ notified' = launchError
  /\ pc' = "mount"
  /\ UNCHANGED <<handleVars, usbVars, fsVars, launchVars, cur, emuVars, rmVars, ppc,
                 launched, envVars>>

(* f_mount of the handle's volume, then the choice between mounting the     *)
(* Blob and launching it: std::get<Blob> on a handle that is not the Blob   *)
(* does not return (abort cancels the thread).                              *)
MountVolume ==
  /\ pc = "mount"
  /\ mounted' = mounted \cup {cur}
  /\ errored' = errored \ {cur}
  /\ volumes' = volumes \cup {cur}
  /\ \/ /\ BlobId \notin inserted \/ BlobId \in errored
        /\ inserted' = inserted \ {BlobId} /\ pc' = "blob"
     \/ /\ BlobId \in inserted /\ BlobId \notin errored
        /\ pc' = "aborted" /\ UNCHANGED inserted
  /\ UNCHANGED <<enabled, disk, usbVars, blobDev, launchVars, cur, emuVars, rmVars,
                 ppcVars, envVars>>

-----------------------------------------------------------------------------
(* Blob::Mount(cur).  An open file is closed first; f_close refuses a file  *)
(* whose volume is no longer registered, and then nothing else happens.     *)
BlobStale == blobDev # NoDevice /\ blobDev \notin volumes

BlobMountFails ==
  /\ pc = "blob"
  /\ \/ BlobStale /\ UNCHANGED <<blobDev, errored, faults>>
     \/ /\ ~BlobStale /\ blobDev' = NoDevice
        /\ \/ /\ Readable(cur) /\ disk[cur] \notin Good \cup Corrupt
              /\ UNCHANGED <<errored, faults>>
           \/ IOFails(cur) /\ errored' = errored \cup {cur}
  /\ launchError' = "NoCTGPR"
  /\ NextHandle
  /\ UNCHANGED <<enabled, inserted, mounted, disk, usbVars, volumes, oldLaunchState,
                 somethingInserted, emuVars, rmVars, ppcVars, present>>

(* f_open finds the file and reads its directory without an error.          *)
BlobOpens ==
  /\ pc = "blob" /\ ~BlobStale /\ Readable(cur) /\ disk[cur] \in Good \cup Corrupt
  /\ blobDev' = NoDevice
  /\ pc' = "opened"
  /\ UNCHANGED <<handleVars, usbVars, volumes, launchVars, cur, emuVars, rmVars, ppcVars,
                 envVars>>

(* The Blob is this device's; UpdateHandle(8) mounts the Blob's own volume  *)
(* and goes on to launch, unless the Blob still counts as mounted.          *)
BlobMounts ==
  /\ pc = "opened"
  /\ blobDev' = cur
  /\ inserted' = inserted \cup {BlobId}
  /\ errored' = errored \ {BlobId}
  /\ \/ /\ BlobId \in mounted
        /\ NextHandle /\ UNCHANGED <<mounted, volumes>>
     \/ /\ BlobId \notin mounted
        /\ mounted' = mounted \cup {BlobId} /\ volumes' = volumes \cup {BlobId}
        /\ pc' = "launch" /\ UNCHANGED cur
  /\ UNCHANGED <<enabled, disk, usbVars, launchVars, emuVars, rmVars, ppcVars, envVars>>

(* Blob::LaunchMainDOL fails: the pack is corrupt, or reading it through    *)
(* the Blob's host fails, which marks the host too.                         *)
LaunchFails ==
  /\ pc = "launch"
  /\ \/ /\ Readable(blobDev) /\ disk[blobDev] \in Corrupt
        /\ errored' = errored \cup {BlobId} /\ UNCHANGED faults
     \/ IOFails(blobDev) /\ errored' = errored \cup {BlobId, blobDev}
  /\ launchError' = "CTGPCorrupt"
  /\ NextHandle
  /\ UNCHANGED <<enabled, inserted, mounted, disk, usbVars, fsVars, oldLaunchState,
                 somethingInserted, emuVars, rmVars, ppcVars, present>>

(* It reads both files to the end without an error ...                      *)
ReadDOL ==
  /\ pc = "launch" /\ Readable(blobDev) /\ disk[blobDev] \in Good
  /\ pc' = "loaded"
  /\ UNCHANGED <<handleVars, usbVars, fsVars, launchVars, cur, emuVars, rmVars, ppcVars,
                 envVars>>

(* ... and later, whatever EmuSDIO has found out about the device since,    *)
(* gives EmuSDIO its device; then Notify(0) waits for a hook.               *)
LaunchDOL ==
  /\ pc = "loaded"
  /\ emuDevId' = blobDev
  /\ pc' = "notify"
  /\ UNCHANGED <<handleVars, usbVars, fsVars, launchVars, cur, emuReq, rmVars, ppcVars,
                 envVars>>

NotifyLaunch ==
  /\ pc = "notify"
  /\ TakeHook /\ launched' = TRUE
  /\ launchError' = "OK"
  /\ errored' = errored \ {BlobId}
  /\ NextHandle
  /\ UNCHANGED <<enabled, inserted, mounted, disk, usbVars, fsVars, oldLaunchState,
                 somethingInserted, emuVars, rmVars, ppc, notified, envVars>>

(* A mutant: NoSDCard is never concluded.                                   *)
VerdictOfLaunch == launchError

(* Run, the end of a pass: SetLaunchState when the launch error changed.    *)
Verdict == IF somethingInserted THEN launchError ELSE "NoSDCard"

Publish ==
  /\ pc = "publish"
  /\ launchError' = Verdict
  /\ \/ /\ Verdict # oldLaunchState
        /\ TakeHook /\ notified' = Verdict
     \/ /\ Verdict = oldLaunchState
        /\ UNCHANGED notified
  /\ pc' = "receive"
  \* dead until the next pass sets them
  /\ oldLaunchState' = "OK" /\ somethingInserted' = FALSE /\ cur' = 0
  /\ UNCHANGED <<handleVars, usbVars, fsVars, emuVars, rmVars, ppc, launched, envVars>>

-----------------------------------------------------------------------------
(* EmuSDIO serves the game from the launched device.  DeviceRead and        *)
(* DeviceWrite check the handle, then do the I/O, then report its failure.  *)
EmuAccess ==
  /\ ppc = "game" /\ emuReq = NoDevice /\ emuDevId \in enabled \ errored
  /\ emuReq' = emuDevId
  /\ UNCHANGED <<handleVars, usbVars, fsVars, launchVars, threadVars, emuDevId, rmVars,
                 ppcVars, envVars>>

EmuDone ==
  /\ emuReq # NoDevice
  /\ emuReq' = NoDevice
  /\ \/ disk[emuReq] \in present /\ UNCHANGED <<errored, faults>>
     \/ /\ (disk[emuReq] \notin present /\ UNCHANGED faults) \/ Fault
        /\ errored' = errored \cup {emuReq}
  /\ UNCHANGED <<enabled, inserted, mounted, disk, usbVars, fsVars, launchVars,
                 threadVars, emuDevId, rmVars, ppcVars, present>>

(* PowerPC side: startGameIOS has its events, Notify(0) among them, and     *)
(* LaunchGame closes the channel: no print hook is sent any more.           *)
LaunchGame ==
  /\ TakeHook /\ launched
  /\ ppc' = "game"
  /\ UNCHANGED <<handleVars, usbVars, fsVars, launchVars, threadVars, emuVars, rmVars,
                 notified, launched, envVars>>

(* The USB resource manager answers GetDeviceChange when its list changed.  *)
ReportChange ==
  /\ usbReq = "armed" /\ report # present \cap Sticks
  /\ usbReq' = "replied" /\ report' = present \cap Sticks
  /\ UNCHANGED <<handleVars, usbVars, fsVars, launchVars, threadVars, emuVars, ppcVars,
                 envVars>>

MoveMedium(m) ==
  /\ \/ m \in present /\ present' = present \ {m}
     \/ m \notin present /\ present' = present \cup {m}
  /\ FewSticks(present')
  /\ UNCHANGED <<handleVars, usbVars, fsVars, launchVars, threadVars, emuVars, rmVars,
                 ppcVars, faults>>

-----------------------------------------------------------------------------
UpdateHandle == SkipHandle \/ EjectHandle \/ KeepHandle \/ OpenHandle \/ Announce
                \/ MountVolume \/ BlobMountFails \/ BlobOpens \/ BlobMounts
                \/ LaunchFails \/ ReadDOL \/ LaunchDOL \/ NotifyLaunch

Run == Tick \/ USBChange \/ USBChangeError \/ (\E s \in Sticks : AttachDevice(s)) \/ Rearm
       \/ UpdateHandle \/ Publish

Next == Run \/ EmuAccess \/ EmuDone \/ LaunchGame
        \/ ReportChange \/ (\E m \in Media : MoveMedium(m))

Spec == Init /\ [][Next]_vars

(* The DeviceMgr thread is woken by its timer and by hooks; its queue is    *)
(* first in, first out, so a queued report is received (SF); EmuSDIO's I/O  *)
(* returns; the hook thread loops; the resource manager reports changes.    *)
Fairness ==
  /\ WF_vars(Run) /\ SF_vars(USBChange)
  /\ WF_vars(EmuDone) /\ WF_vars(ReportChange)

FairSpec == Spec /\ Fairness
-----------------------------------------------------------------------------
PCs == {"receive", "attach", "update", "announce", "mount", "blob", "opened", "launch",
        "loaded", "notify", "publish", "aborted"}

(* The type invariant of the DeviceMgr and of its environment.              *)
TypeOK ==
  /\ enabled \subseteq Devices /\ inserted \subseteq Devices
  /\ errored \subseteq Devices /\ mounted \subseteq Devices
  /\ disk \in [Devices -> Sticks \cup {SDCard, Blob, NullDevice}]
  /\ inUse \subseteq Slots /\ toAttach \subseteq Sticks
  /\ usbId \in [Slots -> Sticks \cup {NullDevice}]
  /\ intId \in [Slots -> Devices \cup {NoIntId}]
  /\ volumes \subseteq Devices
  /\ blobDev \in Devices \cup {NoDevice}
  /\ launchError \in LaunchErrors /\ oldLaunchState \in LaunchErrors
  /\ somethingInserted \in BOOLEAN
  /\ pc \in PCs /\ cur \in Devices
  /\ emuDevId \in Devices \cup {NoDevice} /\ emuReq \in Devices \cup {NoDevice}
  /\ usbReq \in {"armed", "replied", "lost"} /\ report \subseteq Sticks
  /\ ppc \in {"menu", "game"}
  /\ notified \in LaunchErrors /\ launched \in BOOLEAN
  /\ present \subseteq Media /\ faults \in 0 .. MaxFaults

(* A USB table entry that points at a device handle owns it: the handle is  *)
(* enabled and inserted, holds that very USB device, and no other entry     *)
(* points at it or stands for the same device.  USBChange keeps two tables  *)
(* in step through errors, removals and re-use of handles (lines 341-450).  *)
HandleOwnership ==
  \A j \in inUse :
    /\ intId[j] # NoIntId => /\ intId[j] \in enabled \cap inserted
                             /\ disk[intId[j]] = usbId[j]
                             /\ \A i \in inUse \ {j} : intId[i] # intId[j]
    /\ \A i \in inUse \ {j} : usbId[i] # usbId[j]

(* A new device always finds a free entry of m_usbDevices, what line 384    *)
(* asserts (the release build compiles the assertion out, and would write   *)
(* past the table).                                                         *)
SlotAvailable == pc = "attach" /\ toAttach # {} => inUse # Slots

(* The open blob.bin lives on a device that is still mounted and enabled,   *)
(* and the Blob handle is inserted only while the file is open: no ejection *)
(* leaves the virtual disk behind on a device that is gone.                 *)
BlobHasHost ==
  /\ blobDev # NoDevice => blobDev \in mounted \cap enabled
  /\ BlobId \in inserted => blobDev # NoDevice

(* Whenever the thread waits for its next message, the PowerPC side shows   *)
(* the current launch error: neither the early OK of line 550 nor a change  *)
(* later in the pass is lost by the comparison with oldLaunchState.         *)
VerdictPublished == pc = "receive" => notified = launchError

(* "Please insert an SD card or USB" is shown only when every handle that   *)
(* is left inserted, the Blob included, is in error.                        *)
NoSDCardVerdict == pc = "receive" /\ launchError = "NoSDCard" => inserted \subseteq errored

(* LaunchMainDOL reads the files to the end only of a device that is        *)
(* mounted, enabled, inserted and free of errors.  When it hands the device *)
(* to the game (g_emuDevId) later, the device is still mounted, enabled and *)
(* inserted; it has an error by then only if the game runs already, has     *)
(* this very device, and met the error itself.                              *)
LaunchedFromHealthyDevice ==
  [][/\ pc = "launch" /\ pc' = "loaded" =>
          blobDev \in (mounted \cap enabled \cap inserted) \ errored
     /\ pc = "loaded" /\ pc' = "notify" =>
          /\ emuDevId' \in mounted \cap enabled \cap inserted
          /\ emuDevId' \in errored => ppc = "game" /\ emuDevId = emuDevId']_vars

(* std::get<Blob> is applied only to the Blob: the thread is never aborted  *)
(* by a second storage device.                                              *)
NoBadVariantAccess == pc # "aborted"

(* A handle that was mounted and not unmounted still has its FatFs volume:  *)
(* unmounting one device does not unmount another.                          *)
MountedVolumesRegistered == mounted \subseteq volumes

(* A good SD card put into an empty slot, while the Blob is not mounted, is *)
(* launched, unless it is taken out again, fails, the thread was aborted,   *)
(* blob.bin of another medium is opened before the card's (the Blob then    *)
(* stays mounted, even if that pack does not launch), or the game runs (the *)
(* channel is closed, and the thread waits in it for ever).                 *)
Settled == (SDCard \notin present) \/ 0 \in errored \/ pc = "aborted" \/ ppc = "game"
OtherPack == blobDev \notin {NoDevice, 0}
SlotEmpty == 0 \notin inserted \cup errored \cup mounted

GoodCardLaunches ==
  (SDCard \in present /\ SlotEmpty /\ BlobId \notin mounted)
    ~> (emuDevId = 0 \/ Settled \/ OtherPack)

(* The same without the condition on the Blob: a card that was ejected and  *)
(* is reinserted is tried again (the comment of lines 475-476).             *)
ReinsertedCardLaunches ==
  (SDCard \in present /\ SlotEmpty) ~> (emuDevId = 0 \/ Settled)

(* When the last medium is taken out, the PowerPC side is told so, unless   *)
(* the thread was aborted, the game runs, a stick whose I/O failed before   *)
(* its removal has lost its entry of m_usbDevices (line 346: no report can  *)
(* unplug its handle any more), or the report of its removal got lost.      *)
Orphaned == \E k \in inserted : disk[k] \in Sticks /\ \A j \in inUse : intId[j] # k
Unreported == usbReq = "lost" \/ (usbReq = "armed" /\ \E j \in inUse : usbId[j] \notin report)

RemovalAnnounced ==
  (present = {}) ~> (notified = "NoSDCard" \/ present # {} \/ ppc = "game"
                     \/ pc = "aborted" \/ Orphaned \/ Unreported)

(* The DeviceMgr implements the table of handles: no stick is served by two *)
(* handles unless it failed in one, a handle is free for another device     *)
(* only when its own was pulled and its volume closed, the removal of a     *)
(* device that works is not missed (lines 341-450), and what blob.bin is    *)
(* opened on and what the game gets is open and worked when it was read.    *)
DeviceHandles == Devices \ {BlobId}

Leases == [k \in DeviceHandles |-> IF k \in enabled THEN disk[k] ELSE NullDevice]

(* The handle that was read, for f_open or by LaunchDOL, and is used next.  *)
Tested == IF pc = "opened" THEN cur ELSE IF pc = "loaded" THEN blobDev ELSE NoDevice

Table == INSTANCE HandleTable
  WITH Handles <- DeviceHandles, Card <- SDCard, CardHandle <- 0,
       Free <- NullDevice, None <- NoDevice,
       lease <- Leases, plugged <- inserted \ {BlobId},
       failed <- (errored \cap enabled) \ {BlobId}, open <- mounted \ {BlobId},
       host <- blobDev, tested <- Tested, game <- emuDevId, access <- emuReq, listed <- report

HandleTableSpec == Table!Spec
=============================================================================
