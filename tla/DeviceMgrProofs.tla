-------------------------- MODULE DeviceMgrProofs --------------------------
(***************************************************************************)
(* Safety of the DeviceMgr for every number of handles, table size, set of *)
(* USB devices and media.  IInv is inductive; each of its parts is proved  *)
(* by a lemma of its own, action by action.                                *)
(***************************************************************************)
EXTENDS DeviceMgr, FiniteSetTheorems, TLAPS

Opening == {"announce", "mount", "blob", "opened", "launch", "loaded", "notify"}
InPass  == Opening \cup {"update", "publish"}

(* Where the thread is tells which handle it works on, and how far.         *)
Control ==
  /\ pc \in Opening \cup {"update"} => cur < BlobId
  /\ pc = "publish" => cur = BlobId
  /\ pc \in Opening => cur \in enabled \cap inserted /\ somethingInserted
  /\ pc \in {"blob", "opened"} => cur \in mounted /\ BlobId \notin inserted
  /\ pc = "opened" => blobDev = NoDevice
  /\ pc \in {"launch", "loaded", "notify"} => blobDev = cur

(* The SD slot and the Blob keep their handles; the others hold USB sticks. *)
FixedHandles ==
  /\ {0, BlobId} \subseteq enabled /\ inserted \subseteq enabled
  /\ disk[0] = SDCard /\ disk[BlobId] = Blob
  /\ \A d \in Devices \ {0, BlobId} : disk[d] \in Sticks \cup {NullDevice}

(* The USB table lists distinct devices of the report, and none to attach.  *)
USBTable ==
  /\ \A j \in inUse : usbId[j] \in Sticks
  /\ \A i, j \in inUse : usbId[i] = usbId[j] => i = j
  /\ toAttach # {} => /\ pc = "attach" /\ usbReq = "replied"
                      /\ toAttach \subseteq report
                      /\ \A j \in inUse : usbId[j] \in report \ toAttach

Ownership ==
  \A j \in inUse : intId[j] # NoIntId =>
    /\ intId[j] \in (enabled \cap inserted) \ {0, BlobId}
    /\ disk[intId[j]] = usbId[j]

FewReported == FewSticks(present) /\ Cardinality(report) <= MaxDevices

HostInv == BlobHasHost /\ blobDev # BlobId

(* What the PowerPC side shows: the launch error between passes; in a pass  *)
(* the old one, unless the early OK was sent.                               *)
Shown ==
  /\ pc \in {"receive", "attach"} => notified = launchError
  /\ pc \in InPass =>
       /\ \/ notified = oldLaunchState
          \/ /\ somethingInserted /\ notified = "OK"
             /\ oldLaunchState = "NoSDCard" /\ launchError # "NoSDCard"
       /\ launchError = "NoSDCard" => oldLaunchState = "NoSDCard"
  /\ pc = "announce" => launchError = "OK" /\ oldLaunchState = "NoSDCard"

(* A pass that has seen nothing leaves nothing inserted or mounted behind   *)
(* it, and nothing is mounted before NoSDCard is withdrawn.                 *)
NothingBehind ==
  /\ mounted \subseteq enabled
  /\ launchError = "NoSDCard" => mounted \subseteq {BlobId} /\ pc \notin Opening
  /\ pc \in InPass => \A d \in Devices : d < cur =>
       /\ ~somethingInserted => d \notin inserted \cup mounted
       /\ launchError = "NoSDCard" => d \notin inserted \ errored
  /\ NoSDCardVerdict

IInv == /\ TypeOK /\ Control /\ FixedHandles /\ USBTable /\ Ownership
        /\ FewReported /\ HostInv /\ Shown /\ NothingBehind
-----------------------------------------------------------------------------
(* Arithmetic of the handle numbers.                                        *)
LEMMA Handles ==
  /\ BlobId \in Devices /\ 0 \in Devices /\ 0 < BlobId /\ BlobId \in Int
  /\ NoIntId \notin Devices /\ NoDevice \notin Devices
  /\ \A d \in Devices : d \in Int /\ 0 <= d /\ d <= BlobId
  /\ \A d \in Devices : d < BlobId => d + 1 \in Devices
  /\ Devices \subseteq Int /\ NoDevice \in Int /\ NoIntId \in Int
BY ConstantsAssumption DEF BlobId, Devices, NoIntId, NoDevice

(* The first element of a set belongs to it.                                *)
LEMMA FirstMember == \A S : First(S) \subseteq S
BY DEF First

(* The initial state satisfies the invariant.                               *)
LEMMA InitInv == Init => IInv
<1> SUFFICES ASSUME Init PROVE IInv
  OBVIOUS
<1> USE Handles DEF Init
<1>1. TypeOK
  <2>1. disk \in [Devices -> Sticks \cup {SDCard, Blob, NullDevice}]
    OBVIOUS
  <2>2. faults \in 0 .. MaxFaults
    BY ConstantsAssumption
  <2>3. /\ usbId \in [Slots -> Sticks \cup {NullDevice}]
        /\ intId \in [Slots -> Devices \cup {NoIntId}]
        /\ present \subseteq Media
    OBVIOUS
  <2>4. launchError \in LaunchErrors /\ oldLaunchState \in LaunchErrors /\ notified \in LaunchErrors /\ pc \in PCs
    BY DEF LaunchErrors, PCs
  <2> QED
    BY <2>1, <2>2, <2>3, <2>4 DEF TypeOK
<1>2. Control /\ FixedHandles /\ USBTable /\ Ownership
  BY DEF Control, FixedHandles, USBTable, Ownership, Opening, Media
<1>3. FewReported
  <2>1. Cardinality({}) = 0
    BY FS_EmptySet
  <2> QED
    BY <2>1, ConstantsAssumption DEF FewReported
<1>4. HostInv /\ Shown /\ NothingBehind
  BY DEF HostInv, BlobHasHost, Shown, NothingBehind, NoSDCardVerdict, InPass, Opening
<1> QED
  BY <1>1, <1>2, <1>3, <1>4 DEF IInv

(* NextHandle keeps the types of `cur` and `pc` wherever an action uses it.  *)
LEMMA NextType ==
  ASSUME TypeOK, Control, pc \in {"update", "blob", "opened", "launch", "notify"}, NextHandle
  PROVE  cur' \in Devices /\ pc' \in PCs
BY Handles DEF TypeOK, Control, NextHandle, Opening, PCs

(* Sampling the SD slot names no handle outside the table.                  *)
LEMMA SampledType ==
  ASSUME TypeOK
  PROVE  Sampled \subseteq Devices
BY DEF TypeOK, Sampled

(* An injected fault stays within its bound.                                *)
LEMMA FaultType ==
  ASSUME TypeOK, Fault
  PROVE  faults' \in 0 .. MaxFaults
BY ConstantsAssumption DEF TypeOK, Fault

(* Every step preserves the types.  Only the update of a handle moves `cur`,*)
(* and Control keeps it below the Blob's handle there.                      *)
LEMMA TypeStep == IInv /\ [Next]_vars => TypeOK'
<1> SUFFICES ASSUME TypeOK, Control, [Next]_vars PROVE TypeOK'
  BY DEF IInv
<1> USE DEF TypeOK, handleVars, usbVars, fsVars, launchVars, threadVars, emuVars, rmVars,
            ppcVars, envVars
<1>1. CASE Tick
  BY <1>1, Handles DEF Tick, StartPass, PCs
<1>2. CASE USBChange
  BY <1>2 DEF USBChange, Gone, New, PCs
<1>3. CASE USBChangeError
  BY <1>3, ConstantsAssumption DEF USBChangeError, Fault, PCs
<1>4. ASSUME NEW s \in Sticks, AttachDevice(s) PROVE TypeOK'
  <2>1. PICK j \in First(Slots \ inUse) :
           /\ inUse' = inUse \cup {j}
           /\ usbId' = [usbId EXCEPT ![j] = s]
           /\ \/ /\ UNCHANGED faults \/ Fault
                 /\ intId' = [intId EXCEPT ![j] = NoIntId]
                 /\ UNCHANGED handleVars
              \/ /\ \E k \in First(Devices \ enabled) :
                      /\ intId' = [intId EXCEPT ![j] = k]
                      /\ disk' = [disk EXCEPT ![k] = s]
                      /\ inserted' = inserted \cup {k} /\ enabled' = enabled \cup {k}
                      /\ errored' = errored \ {k} /\ mounted' = mounted \ {k}
                 /\ UNCHANGED faults
    BY <1>4 DEF AttachDevice
  <2>2. j \in Slots
    BY <2>1, FirstMember
  <2>3. CASE /\ UNCHANGED faults \/ Fault
             /\ intId' = [intId EXCEPT ![j] = NoIntId]
             /\ UNCHANGED handleVars
    BY <1>4, <2>1, <2>2, <2>3, ConstantsAssumption DEF AttachDevice, Fault
  <2>4. CASE /\ \E k \in First(Devices \ enabled) :
                   /\ intId' = [intId EXCEPT ![j] = k]
                   /\ disk' = [disk EXCEPT ![k] = s]
                   /\ inserted' = inserted \cup {k} /\ enabled' = enabled \cup {k}
                   /\ errored' = errored \ {k} /\ mounted' = mounted \ {k}
             /\ UNCHANGED faults
    BY <1>4, <2>1, <2>2, <2>4, FirstMember DEF AttachDevice
  <2> QED
    BY <2>1, <2>3, <2>4
<1>5. CASE Rearm
  BY <1>5, Handles, FaultType DEF Rearm, StartPass, PCs
<1>6. CASE SkipHandle
  BY <1>6, NextType DEF SkipHandle
<1>7. CASE EjectHandle
  BY <1>7, NextType, SampledType DEF EjectHandle
<1>8. CASE KeepHandle
  BY <1>8, NextType, SampledType DEF KeepHandle, NoteInserted
<1>9. CASE OpenHandle
  BY <1>9, SampledType DEF OpenHandle, NoteInserted, LaunchErrors, PCs
<1>10. CASE Announce
  BY <1>10 DEF Announce, PCs
<1>11. CASE MountVolume
  BY <1>11 DEF MountVolume, PCs
<1>12. CASE BlobMountFails
  BY <1>12, NextType, FaultType DEF BlobMountFails, IOFails, LaunchErrors
<1>13. CASE BlobMounts
  BY <1>13, NextType, Handles DEF BlobMounts, PCs
<1>14. CASE LaunchFails
  <2>1. blobDev \in Devices /\ BlobId \in Devices
    BY <1>14, Handles DEF LaunchFails, Control
  <2>2. errored' \subseteq Devices
    BY <1>14, <2>1 DEF LaunchFails
  <2>3. faults' \in 0 .. MaxFaults
    BY <1>14, FaultType DEF LaunchFails, IOFails
  <2>4. cur' \in Devices /\ pc' \in PCs /\ launchError' \in LaunchErrors
    BY <1>14, NextType DEF LaunchFails, LaunchErrors
  <2> QED
    BY <1>14, <2>2, <2>3, <2>4 DEF LaunchFails
<1>15. CASE BlobOpens \/ ReadDOL \/ LaunchDOL
  <2>1. CASE BlobOpens
    BY <2>1 DEF BlobOpens, PCs
  <2>2. CASE ReadDOL
    BY <2>2 DEF ReadDOL, PCs
  <2>3. CASE LaunchDOL
    BY <2>3 DEF LaunchDOL, PCs
  <2> QED
    BY <1>15, <2>1, <2>2, <2>3
<1>16. CASE NotifyLaunch
  BY <1>16, NextType DEF NotifyLaunch, LaunchErrors
<1>17. CASE Publish
  <2>1. Verdict \in LaunchErrors
    BY DEF Verdict, LaunchErrors
  <2>2. /\ launchError' \in LaunchErrors /\ notified' \in LaunchErrors
        /\ oldLaunchState' \in LaunchErrors /\ somethingInserted' \in BOOLEAN
        /\ pc' \in PCs /\ cur' \in Devices
    BY <1>17, <2>1, Handles DEF Publish, LaunchErrors, PCs
  <2>3. UNCHANGED <<handleVars, usbVars, fsVars, emuVars, rmVars, ppc, launched, envVars>>
    BY <1>17 DEF Publish
  <2> QED
    BY <2>2, <2>3
<1>18. CASE EmuAccess
  BY <1>18 DEF EmuAccess
<1>19. CASE EmuDone
  BY <1>19, FaultType DEF EmuDone
<1>20. CASE LaunchGame
  BY <1>20 DEF LaunchGame
<1>21. CASE ReportChange
  BY <1>21 DEF ReportChange
<1>22. ASSUME NEW m \in Media, MoveMedium(m) PROVE TypeOK'
  BY <1>22 DEF MoveMedium
<1>23. CASE UNCHANGED vars
  BY <1>23 DEF vars
<1> QED
  BY <1>1, <1>2, <1>3, <1>4, <1>5, <1>6, <1>7, <1>8, <1>9, <1>10, <1>11, <1>12, <1>13,
     <1>14, <1>15, <1>16, <1>17, <1>18, <1>19, <1>20, <1>21, <1>22, <1>23
     DEF Next, Run, UpdateHandle

-----------------------------------------------------------------------------
(* Control: the handle under update stays below the Blob's, enabled and     *)
(* inserted until the pass leaves it.                                       *)
LEMMA ControlStep == IInv /\ [Next]_vars => Control'
<1> SUFFICES ASSUME TypeOK, Control, FixedHandles, [Next]_vars PROVE Control'
  BY DEF IInv
<1> USE DEF Control, Opening, handleVars, fsVars, launchVars, threadVars
<1>1. CASE Tick \/ Rearm
  BY <1>1, Handles DEF Tick, Rearm, StartPass
<1>2. CASE USBChange \/ USBChangeError
  BY <1>2 DEF USBChange, USBChangeError
<1>3. ASSUME NEW s \in Sticks, AttachDevice(s) PROVE Control'
  BY <1>3 DEF AttachDevice
<1>4. ASSUME pc \in {"update", "blob", "opened", "launch", "notify"}, NextHandle PROVE Control'
  <2>1. cur \in Int /\ cur < BlobId /\ BlobId \in Int
    BY <1>4, Handles DEF TypeOK
  <2> QED
    BY <1>4, <2>1 DEF NextHandle
<1>5. CASE SkipHandle \/ EjectHandle \/ KeepHandle
  BY <1>4, <1>5 DEF SkipHandle, EjectHandle, KeepHandle
<1>6. CASE OpenHandle
  BY <1>6 DEF OpenHandle, NoteInserted
<1>7. CASE Announce
  BY <1>7 DEF Announce
<1>8. CASE MountVolume
  BY <1>8, Handles DEF MountVolume
<1>9. CASE BlobMountFails \/ LaunchFails \/ NotifyLaunch
  BY <1>4, <1>9 DEF BlobMountFails, LaunchFails, NotifyLaunch
<1>10. CASE BlobMounts
  BY <1>4, <1>10 DEF BlobMounts
<1>11. CASE BlobOpens \/ ReadDOL \/ LaunchDOL
  BY <1>11 DEF BlobOpens, ReadDOL, LaunchDOL
<1>12. CASE Publish
  BY <1>12 DEF Publish
<1>13. ASSUME UNCHANGED <<threadVars, enabled, inserted, mounted, blobDev, launchVars>>
       PROVE  Control'
  BY <1>13
<1> QED
  BY <1>1, <1>2, <1>3, <1>5, <1>6, <1>7, <1>8, <1>9, <1>10, <1>11, <1>12, <1>13
     DEF Next, Run, UpdateHandle, EmuAccess, EmuDone, LaunchGame,
         ReportChange, MoveMedium, vars

(* Only the SD handle is sampled: any other inserted flag is left alone.    *)
LEMMA SampledHandles ==
  ASSUME TypeOK, Control, FixedHandles, pc = "update"
  PROVE  /\ Sampled \subseteq inserted \cup {0} /\ inserted \ {0} \subseteq Sampled
         /\ \A d \in Devices \ {cur} : d \in Sampled <=> d \in inserted
<1>1. cur \in Devices /\ cur # BlobId
  BY Handles DEF TypeOK, Control
<1>2. cur # 0 => disk[cur] # SDCard
  BY <1>1, ConstantsAssumption DEF FixedHandles
<1> QED
  BY <1>1, <1>2 DEF Sampled, TypeOK

(* FixedHandles: no stick takes the SD slot's or the Blob's handle, and a   *)
(* handle is disabled only when nothing is inserted in it.                  *)
LEMMA FixedHandlesStep == IInv /\ [Next]_vars => FixedHandles'
<1> SUFFICES ASSUME TypeOK, Control, FixedHandles, [Next]_vars PROVE FixedHandles'
  BY DEF IInv
<1> USE DEF handleVars
<1>1. CASE USBChange
  BY <1>1 DEF USBChange, FixedHandles
<1>2. ASSUME NEW s \in Sticks, AttachDevice(s) PROVE FixedHandles'
  <2>1. CASE UNCHANGED handleVars
    BY <2>1 DEF FixedHandles
  <2>2. ASSUME NEW k \in First(Devices \ enabled), disk' = [disk EXCEPT ![k] = s],
               inserted' = inserted \cup {k}, enabled' = enabled \cup {k}
        PROVE  FixedHandles'
    <3>1. k \in Devices /\ k \notin {0, BlobId}
      BY <2>2, FirstMember DEF FixedHandles
    <3> QED
      BY <1>2, <2>2, <3>1, Handles DEF FixedHandles, TypeOK
  <2> QED
    BY <1>2, <2>1, <2>2 DEF AttachDevice
<1>3. CASE EjectHandle
  <2>1. cur \in Devices /\ cur # BlobId /\ disk[BlobId] = Blob /\ disk[0] = SDCard
    BY <1>3, Handles DEF TypeOK, Control, EjectHandle, FixedHandles
  <2>2. enabled' = enabled \/ (enabled' = enabled \ {cur} /\ disk[cur] \in Sticks)
    BY <1>3 DEF EjectHandle
  <2>3. inserted' \subseteq enabled \ {cur}
    BY <1>3, SampledHandles DEF EjectHandle, FixedHandles, Ejected
  <2>4. {0, BlobId} \subseteq enabled'
    BY <2>1, <2>2, ConstantsAssumption DEF FixedHandles
  <2> QED
    BY <1>3, <2>2, <2>3, <2>4 DEF EjectHandle, FixedHandles
<1>4. CASE KeepHandle \/ OpenHandle
  BY <1>4, SampledHandles DEF KeepHandle, OpenHandle, NoteInserted, FixedHandles
<1>5. CASE MountVolume
  BY <1>5 DEF MountVolume, FixedHandles
<1>6. CASE BlobMounts
  BY <1>6 DEF BlobMounts, FixedHandles
<1>7. ASSUME UNCHANGED <<enabled, inserted, disk>> PROVE FixedHandles'
  BY <1>7 DEF FixedHandles
<1> QED
  BY <1>1, <1>2, <1>3, <1>4, <1>5, <1>6, <1>7
     DEF Next, Run, UpdateHandle, Tick, USBChangeError, Rearm, SkipHandle, Announce,
         BlobMountFails, LaunchFails, BlobOpens, ReadDOL, LaunchDOL, NotifyLaunch, Publish, EmuAccess,
         EmuDone, LaunchGame, ReportChange, MoveMedium, vars

(* FewReported: a report repeats the devices plugged in when it was sent.   *)
LEMMA FewReportedStep == IInv /\ [Next]_vars => FewReported'
<1> SUFFICES ASSUME FewReported, [Next]_vars PROVE FewReported'
  BY DEF IInv
<1> USE DEF FewReported, FewSticks
<1>1. CASE ReportChange
  BY <1>1 DEF ReportChange, envVars
<1>2. ASSUME NEW m \in Media, MoveMedium(m) PROVE FewReported'
  BY <1>2 DEF MoveMedium, rmVars
<1>3. ASSUME UNCHANGED <<present, report>> PROVE FewReported'
  BY <1>3
<1> QED
  BY <1>1, <1>2, <1>3
     DEF Next, Run, UpdateHandle, Tick, USBChange, USBChangeError, AttachDevice, Rearm,
         SkipHandle, EjectHandle, KeepHandle, OpenHandle, Announce, MountVolume,
         BlobMountFails, BlobMounts, LaunchFails, BlobOpens, ReadDOL, LaunchDOL, NotifyLaunch, Publish,
         EmuAccess, EmuDone, LaunchGame, vars, rmVars, envVars

(* USBTable: the scan drops the devices that the report does not list, and  *)
(* the new ones it leaves to attach are in no entry.                        *)
LEMMA USBTableStep == IInv /\ [Next]_vars => USBTable'
<1> SUFFICES ASSUME TypeOK, USBTable, [Next]_vars PROVE USBTable'
  BY DEF IInv
<1> USE DEF usbVars, rmVars, threadVars
<1>1. CASE Tick \/ USBChangeError
  BY <1>1 DEF Tick, USBChangeError, StartPass, USBTable
<1>2. CASE USBChange
  <2>1. \A j \in inUse' : j \in inUse /\ usbId'[j] = usbId[j] /\ usbId[j] \in report
    BY <1>2 DEF USBChange, Gone, TypeOK
  <2>2. \A j \in inUse : usbId[j] \notin toAttach'
    BY <1>2 DEF USBChange, New
  <2>3. toAttach' \subseteq report /\ pc' = "attach" /\ UNCHANGED <<usbReq, report>>
        /\ usbReq = "replied"
    BY <1>2 DEF USBChange, New
  <2> QED
    BY <2>1, <2>2, <2>3 DEF USBTable
<1>3. ASSUME NEW s \in Sticks, AttachDevice(s) PROVE USBTable'
  <2>1. PICK j \in First(Slots \ inUse) :
           inUse' = inUse \cup {j} /\ usbId' = [usbId EXCEPT ![j] = s]
    BY <1>3 DEF AttachDevice
  <2>2. j \in Slots /\ j \notin inUse
    BY <2>1, FirstMember
  <2>3. usbId'[j] = s /\ \A i \in inUse : usbId'[i] = usbId[i]
    BY <2>1, <2>2 DEF TypeOK
  <2>4. s \in toAttach /\ toAttach' = toAttach \ {s} /\ UNCHANGED <<pc, usbReq, report>>
    BY <1>3 DEF AttachDevice
  <2>5. \A i \in inUse : usbId[i] # s
    BY <2>4 DEF USBTable
  <2> QED
    BY <2>1, <2>3, <2>4, <2>5 DEF USBTable
<1>4. CASE Rearm
  BY <1>4 DEF Rearm, USBTable
<1>5. CASE ReportChange
  BY <1>5 DEF ReportChange, USBTable
<1>6. ASSUME pc # "attach", UNCHANGED <<usbVars, rmVars>> PROVE USBTable'
  BY <1>6 DEF USBTable
<1>7. ASSUME UNCHANGED <<usbVars, rmVars, pc>> PROVE USBTable'
  BY <1>7 DEF USBTable
<1> QED
  BY <1>1, <1>2, <1>3, <1>4, <1>5, <1>6, <1>7
     DEF Next, Run, UpdateHandle, SkipHandle, EjectHandle, KeepHandle, OpenHandle,
         Announce, MountVolume, BlobMountFails, BlobMounts, LaunchFails, BlobOpens, ReadDOL, LaunchDOL,
         NotifyLaunch, Publish, EmuAccess, EmuDone, LaunchGame, MoveMedium, vars

(* Ownership: the handle of an entry loses its flags only when the entry    *)
(* goes, since distinct entries own distinct handles.                       *)
LEMMA OwnershipStep == IInv /\ [Next]_vars => Ownership'
<1> SUFFICES ASSUME TypeOK, Control, FixedHandles, USBTable, Ownership, [Next]_vars
             PROVE  Ownership'
  BY DEF IInv
<1> USE DEF handleVars, usbVars
<1>1. CASE USBChange
  <2> SUFFICES ASSUME NEW j \in inUse', intId'[j] # NoIntId
               PROVE  /\ intId'[j] \in (enabled' \cap inserted') \ {0, BlobId}
                      /\ disk'[intId'[j]] = usbId'[j]
    BY DEF Ownership
  <2>1. j \in inUse \ Gone /\ j \in Slots
    BY <1>1 DEF USBChange, TypeOK
  <2>2. intId'[j] = intId[j] /\ usbId'[j] = usbId[j] /\ intId[j] # NoIntId
    BY <1>1, <2>1 DEF USBChange
  <2>3. intId[j] \in (enabled \cap inserted) \ {0, BlobId} /\ disk[intId[j]] = usbId[j]
    BY <2>1, <2>2 DEF Ownership
  <2>4. \A i \in Gone : intId[i] # intId[j]
    BY <2>1, <2>2, <2>3 DEF Ownership, USBTable, Gone
  <2> QED
    BY <1>1, <2>2, <2>3, <2>4 DEF USBChange
<1>2. ASSUME NEW s \in Sticks, AttachDevice(s) PROVE Ownership'
  <2>1. PICK j \in First(Slots \ inUse) :
           /\ inUse' = inUse \cup {j} /\ usbId' = [usbId EXCEPT ![j] = s]
           /\ \/ intId' = [intId EXCEPT ![j] = NoIntId] /\ UNCHANGED handleVars
              \/ \E k \in First(Devices \ enabled) :
                   /\ intId' = [intId EXCEPT ![j] = k] /\ disk' = [disk EXCEPT ![k] = s]
                   /\ inserted' = inserted \cup {k} /\ enabled' = enabled \cup {k}
    BY <1>2 DEF AttachDevice
  <2>2. j \in Slots /\ j \notin inUse
    BY <2>1, FirstMember
  <2>3. usbId'[j] = s /\ \A i \in inUse : usbId'[i] = usbId[i]
    BY <2>1, <2>2 DEF TypeOK
  <2>4. CASE intId' = [intId EXCEPT ![j] = NoIntId] /\ UNCHANGED handleVars
    BY <2>1, <2>2, <2>3, <2>4 DEF Ownership, TypeOK
  <2>5. ASSUME NEW k \in First(Devices \ enabled),
               intId' = [intId EXCEPT ![j] = k], disk' = [disk EXCEPT ![k] = s],
               inserted' = inserted \cup {k}, enabled' = enabled \cup {k}
        PROVE  Ownership'
    <3>1. k \in Devices \ enabled /\ k \notin {0, BlobId}
      BY <2>5, FirstMember DEF FixedHandles
    <3>2. intId'[j] = k /\ disk'[k] = s
      BY <2>2, <2>5, <3>1 DEF TypeOK
    <3>3. \A i \in inUse : intId'[i] = intId[i]
      BY <2>2, <2>5 DEF TypeOK
    <3>4. ASSUME NEW i \in inUse, intId[i] # NoIntId
          PROVE  /\ intId[i] \in (enabled' \cap inserted') \ {0, BlobId}
                 /\ disk'[intId[i]] = usbId[i]
      BY <2>5, <3>1, <3>4 DEF Ownership, TypeOK
    <3> QED
      BY <2>1, <2>3, <2>5, <3>1, <3>2, <3>3, <3>4 DEF Ownership
  <2> QED
    BY <2>1, <2>4, <2>5
<1>3. CASE EjectHandle
  <2>1. cur \in Devices /\ cur \notin Sampled
    BY <1>3 DEF EjectHandle, TypeOK
  <2>2. ASSUME NEW d \in inserted \ {0, BlobId} PROVE d \in inserted' /\ d # cur
    BY <1>3, <2>1, <2>2, SampledHandles DEF EjectHandle, Ejected
  <2> QED
    BY <1>3, <2>2 DEF EjectHandle, Ownership
<1>4. CASE KeepHandle \/ OpenHandle
  BY <1>4, SampledHandles DEF KeepHandle, OpenHandle, NoteInserted, Ownership
<1>5. CASE MountVolume
  BY <1>5 DEF MountVolume, Ownership
<1>6. CASE BlobMounts
  BY <1>6 DEF BlobMounts, Ownership
<1>7. ASSUME UNCHANGED <<enabled, inserted, disk, usbVars>> PROVE Ownership'
  BY <1>7 DEF Ownership
<1> QED
  BY <1>1, <1>2, <1>3, <1>4, <1>5, <1>6, <1>7
     DEF Next, Run, UpdateHandle, Tick, USBChangeError, Rearm, SkipHandle, Announce,
         BlobMountFails, LaunchFails, BlobOpens, ReadDOL, LaunchDOL, NotifyLaunch, Publish, EmuAccess,
         EmuDone, LaunchGame, ReportChange, MoveMedium, vars

(* HostInv: wherever the host of the open blob.bin is unmounted, disabled or*)
(* replaced, the file is closed and the Blob's handle is not inserted.      *)
LEMMA HostStep == IInv /\ [Next]_vars => HostInv'
<1> SUFFICES ASSUME TypeOK, Control, FixedHandles, HostInv, [Next]_vars PROVE HostInv'
  BY DEF IInv
<1> USE DEF handleVars, fsVars
<1>1. CASE USBChange
  BY <1>1 DEF USBChange, HostInv, BlobHasHost
<1>2. ASSUME NEW s \in Sticks, AttachDevice(s) PROVE HostInv'
  <2>1. CASE UNCHANGED handleVars
    BY <1>2, <2>1 DEF AttachDevice, HostInv, BlobHasHost
  <2>2. ASSUME NEW k \in First(Devices \ enabled), mounted' = mounted \ {k},
               inserted' = inserted \cup {k}, enabled' = enabled \cup {k}
        PROVE  HostInv'
    <3>1. k \notin enabled /\ k # BlobId
      BY <2>2, FirstMember DEF FixedHandles
    <3> QED
      BY <1>2, <2>2, <3>1 DEF AttachDevice, HostInv, BlobHasHost
  <2> QED
    BY <1>2, <2>1, <2>2 DEF AttachDevice
<1>3. CASE EjectHandle
  <2>1. BlobId \in inserted' => BlobId \in inserted
    BY <1>3, SampledHandles, Handles DEF EjectHandle, Control
  <2>2. CASE cur \in mounted /\ blobDev = cur
    BY <1>3, <2>2, Handles DEF EjectHandle, Ejected, HostInv, BlobHasHost
  <2>3. CASE ~(cur \in mounted /\ blobDev = cur)
    <3>1. Ejected = {cur} /\ cur # BlobId
      BY <1>3, <2>3, Handles DEF Ejected, EjectHandle, Control
    <3>2. blobDev # cur \/ blobDev = NoDevice
      BY <2>3 DEF HostInv, BlobHasHost
    <3>3. blobDev' = blobDev
      BY <1>3, <3>1 DEF EjectHandle
    <3> QED
      BY <1>3, <2>1, <3>1, <3>2, <3>3 DEF EjectHandle, HostInv, BlobHasHost
  <2> QED
    BY <2>2, <2>3
<1>4. CASE KeepHandle \/ OpenHandle
  BY <1>4, SampledHandles, Handles DEF KeepHandle, OpenHandle, NoteInserted, HostInv, BlobHasHost
<1>5. CASE MountVolume
  BY <1>5 DEF MountVolume, HostInv, BlobHasHost
<1>6. CASE BlobMountFails \/ BlobOpens
  BY <1>6, Handles DEF BlobMountFails, BlobOpens, HostInv, BlobHasHost, Control
<1>7. CASE BlobMounts
  <2>1. cur \in mounted \cap enabled /\ cur # BlobId /\ cur # NoDevice
    BY <1>7, Handles DEF BlobMounts, Control, Opening, TypeOK
  <2> QED
    BY <1>7, <2>1 DEF BlobMounts, HostInv, BlobHasHost
<1>8. ASSUME UNCHANGED <<enabled, inserted, mounted, blobDev>> PROVE HostInv'
  BY <1>8 DEF HostInv, BlobHasHost
<1> QED
  BY <1>1, <1>2, <1>3, <1>4, <1>5, <1>6, <1>7, <1>8
     DEF Next, Run, UpdateHandle, Tick, USBChangeError, Rearm, SkipHandle, Announce,
         LaunchFails, ReadDOL, LaunchDOL, NotifyLaunch, Publish, EmuAccess, EmuDone, LaunchGame,
         ReportChange, MoveMedium, vars

(* Shown: in a pass `notified` lags behind `launchError` in one way only,   *)
(* and Publish's comparison with the old state detects every such lag.      *)
LEMMA ShownStep == IInv /\ [Next]_vars => Shown'
<1> SUFFICES ASSUME TypeOK, Control, Shown, [Next]_vars PROVE Shown'
  BY DEF IInv
<1> USE DEF Shown, InPass, Opening, launchVars, threadVars, ppcVars
<1>1. CASE Tick \/ Rearm
  BY <1>1 DEF Tick, Rearm, StartPass
<1>2. CASE USBChange \/ USBChangeError
  BY <1>2 DEF USBChange, USBChangeError
<1>3. ASSUME NEW s \in Sticks, AttachDevice(s) PROVE Shown'
  BY <1>3 DEF AttachDevice
<1>4. CASE SkipHandle \/ EjectHandle
  BY <1>4 DEF SkipHandle, EjectHandle, NextHandle
<1>5. CASE KeepHandle
  BY <1>5 DEF KeepHandle, NoteInserted, NextHandle
<1>6. CASE OpenHandle
  BY <1>6 DEF OpenHandle, NoteInserted
<1>7. CASE Announce
  BY <1>7 DEF Announce, Control
<1>8. CASE MountVolume \/ BlobOpens \/ ReadDOL \/ LaunchDOL
  BY <1>8 DEF MountVolume, BlobOpens, ReadDOL, LaunchDOL
<1>9. CASE BlobMountFails \/ LaunchFails \/ NotifyLaunch
  BY <1>9 DEF BlobMountFails, LaunchFails, NotifyLaunch, NextHandle
<1>10. CASE BlobMounts
  BY <1>10 DEF BlobMounts, NextHandle
<1>11. CASE Publish
  BY <1>11 DEF Publish, Verdict
<1>12. ASSUME UNCHANGED <<pc, launchVars, notified>> PROVE Shown'
  BY <1>12
<1> QED
  BY <1>1, <1>2, <1>3, <1>4, <1>5, <1>6, <1>7, <1>8, <1>9, <1>10, <1>11, <1>12
     DEF Next, Run, UpdateHandle, EmuAccess, EmuDone, LaunchGame,
         ReportChange, MoveMedium, vars

(* NothingBehind: what a pass skips or ejects is neither inserted nor       *)
(* mounted; while NoSDCard stands, what it keeps is in error.               *)
LEMMA NextBehind ==
  ASSUME TypeOK, Control, NothingBehind, NextHandle, pc = "update",
         UNCHANGED launchError,
         \A d \in Devices : d < cur /\ ~somethingInserted' => d \notin inserted' \cup mounted',
         \A d \in Devices : d < cur /\ launchError = "NoSDCard" => d \notin inserted' \ errored',
         ~somethingInserted' => cur \notin inserted' \cup mounted',
         launchError = "NoSDCard" => cur \notin inserted' \ errored',
         mounted' \subseteq mounted, mounted' \subseteq enabled'
  PROVE  NothingBehind'
<1>1. pc' \in {"update", "publish"} /\ cur' = cur + 1 /\ cur \in Int
  BY Handles DEF NextHandle, TypeOK
<1>2. \A d \in Devices : d < cur' => d < cur \/ d = cur
  BY <1>1, Handles
<1> QED
  BY <1>1, <1>2 DEF NothingBehind, NoSDCardVerdict, Opening

LEMMA NothingBehindStep == IInv /\ [Next]_vars => NothingBehind'
<1> SUFFICES ASSUME TypeOK, Control, FixedHandles, HostInv, NothingBehind, [Next]_vars
             PROVE  NothingBehind'
  BY DEF IInv
<1> USE DEF handleVars, fsVars, launchVars, threadVars
<1>1. CASE Tick \/ Rearm
  BY <1>1, Handles DEF Tick, Rearm, StartPass, NothingBehind, NoSDCardVerdict, Opening
<1>2. CASE USBChange \/ USBChangeError
  BY <1>2 DEF USBChange, USBChangeError, NothingBehind, NoSDCardVerdict, InPass, Opening
<1>3. ASSUME NEW s \in Sticks, AttachDevice(s) PROVE NothingBehind'
  <2>1. mounted' \subseteq mounted /\ mounted' \subseteq enabled'
    BY <1>3 DEF AttachDevice, NothingBehind
  <2> QED
    BY <1>3, <2>1 DEF AttachDevice, NothingBehind, NoSDCardVerdict, InPass, Opening
<1>4. CASE SkipHandle
  <2>1. cur \notin inserted \cup mounted
    BY <1>4 DEF SkipHandle, FixedHandles, NothingBehind
  <2> QED
    BY <1>4, <2>1, NextBehind DEF SkipHandle, NothingBehind, InPass
<1>5. CASE EjectHandle
  <2>1. cur \in Devices /\ cur < BlobId
    BY <1>5 DEF EjectHandle, TypeOK, Control
  <2>2. mounted' = mounted \ Ejected /\ cur \in Ejected
    BY <1>5 DEF EjectHandle, Ejected
  <2>3. cur \notin inserted' /\ cur \notin mounted'
    BY <1>5, <2>2 DEF EjectHandle
  <2>4. mounted' \subseteq enabled'
    BY <1>5, <2>2 DEF EjectHandle, NothingBehind
  <2>5. \A d \in Devices : d < cur => (d \in inserted' => d \in inserted)
                                   /\ (d \in errored => d \in errored')
    BY <1>5, <2>1, SampledHandles, Handles DEF EjectHandle, Ejected
  <2> QED
    BY <1>5, <2>2, <2>3, <2>4, <2>5, NextBehind DEF EjectHandle, NothingBehind, InPass
<1>6. CASE KeepHandle
  <2>1. cur \in Devices /\ cur < BlobId
    BY <1>6 DEF KeepHandle, TypeOK, Control
  <2>2. launchError = "NoSDCard" => cur \in errored
    BY <1>6, <2>1, Handles DEF KeepHandle, NothingBehind
  <2>3. \A d \in Devices : d < cur => (d \in inserted' => d \in inserted)
    BY <1>6, <2>1, SampledHandles, Handles DEF KeepHandle, NoteInserted
  <2> QED
    BY <1>6, <2>2, <2>3, NextBehind DEF KeepHandle, NoteInserted, NothingBehind, InPass
<1>7. CASE OpenHandle
  BY <1>7 DEF OpenHandle, NoteInserted, NothingBehind, NoSDCardVerdict
<1>8. CASE Announce \/ BlobOpens \/ ReadDOL \/ LaunchDOL
  BY <1>8 DEF Announce, BlobOpens, ReadDOL, LaunchDOL, NothingBehind, NoSDCardVerdict, InPass, Opening
<1>9. CASE MountVolume
  BY <1>9 DEF MountVolume, NothingBehind, NoSDCardVerdict, InPass, Opening, Control
<1>10. CASE BlobMountFails \/ LaunchFails \/ NotifyLaunch
  BY <1>10 DEF BlobMountFails, LaunchFails, NotifyLaunch, NextHandle, NothingBehind,
               NoSDCardVerdict, Opening, Control
<1>11. CASE BlobMounts
  BY <1>11 DEF BlobMounts, NextHandle, NothingBehind, NoSDCardVerdict, Opening, Control,
               FixedHandles
<1>12. CASE Publish
  <2>1. cur = BlobId /\ \A d \in Devices \ {BlobId} : d < cur
    BY <1>12, Handles DEF Publish, Control
  <2>2. ASSUME ~somethingInserted PROVE mounted \subseteq {BlobId} /\ inserted = {}
    <3>1. (mounted \cup inserted) \subseteq {BlobId}
      BY <1>12, <2>1, <2>2 DEF Publish, NothingBehind, TypeOK, InPass
    <3> QED
      BY <3>1 DEF HostInv, BlobHasHost
  <2>3. ASSUME launchError = "NoSDCard" PROVE mounted \subseteq {BlobId} /\ inserted \subseteq errored
    <3>1. mounted \subseteq {BlobId} /\ inserted \ errored \subseteq {BlobId}
      BY <1>12, <2>1, <2>3 DEF Publish, NothingBehind, TypeOK, InPass
    <3> QED
      BY <3>1 DEF HostInv, BlobHasHost
  <2> QED
    BY <1>12, <2>2, <2>3 DEF Publish, Verdict, NothingBehind, NoSDCardVerdict, InPass, Opening
<1>13. CASE EmuDone
  BY <1>13 DEF EmuDone, NothingBehind, NoSDCardVerdict
<1>14. ASSUME UNCHANGED <<handleVars, launchVars, threadVars>> PROVE NothingBehind'
  BY <1>14 DEF NothingBehind, NoSDCardVerdict
<1> QED
  BY <1>1, <1>2, <1>3, <1>4, <1>5, <1>6, <1>7, <1>8, <1>9, <1>10, <1>11, <1>12, <1>13, <1>14
     DEF Next, Run, UpdateHandle, EmuAccess, LaunchGame, ReportChange,
         MoveMedium, vars

-----------------------------------------------------------------------------
(* The invariant is inductive.                                              *)
LEMMA IInvStep == IInv /\ [Next]_vars => IInv'
BY TypeStep, ControlStep, FixedHandlesStep, USBTableStep, OwnershipStep,
   FewReportedStep, HostStep, ShownStep, NothingBehindStep DEF IInv

LEMMA Inductive == Spec => []IInv
BY InitInv, IInvStep, PTL DEF Spec

(* The state of the DeviceMgr keeps its types.                              *)
THEOREM TypeCorrect == Spec => []TypeOK
<1>1. IInv => TypeOK
  BY DEF IInv
<1> QED
  BY <1>1, Inductive, PTL

(* The two device tables stay in step: an entry that owns a handle is alone *)
(* in owning it, and the handle holds the entry's device (USBChange).       *)
THEOREM HandlesOwned == Spec => []HandleOwnership
<1>1. IInv => HandleOwnership
  <2> SUFFICES ASSUME USBTable, Ownership PROVE HandleOwnership
    BY DEF IInv
  <2> QED
    BY DEF HandleOwnership, Ownership, USBTable
<1> QED
  BY <1>1, Inductive, PTL

(* The assertion of USBChange that m_usbDevices has a free entry never      *)
(* fails: a full table would list as many devices as a report can, and the  *)
(* new device would be one more.                                            *)
THEOREM SlotFound == Spec => []SlotAvailable
<1>1. IInv => SlotAvailable
  <2> SUFFICES ASSUME TypeOK, USBTable, FewReported, pc = "attach", toAttach # {},
                      inUse = Slots
               PROVE  FALSE
    BY DEF IInv, SlotAvailable
  <2>1. PICK s : s \in toAttach
    OBVIOUS
  <2>2. IsFiniteSet(report)
    BY FS_Subset, ConstantsAssumption DEF TypeOK
  <2>3. IsFiniteSet(report \ {s}) /\ Cardinality(report \ {s}) = Cardinality(report) - 1
    BY <2>1, <2>2, FS_RemoveElement DEF USBTable
  <2>4. usbId \in Injection(Slots, report \ {s})
    <3>1. usbId \in [Slots -> report \ {s}]
      BY <2>1 DEF USBTable, TypeOK
    <3>2. \A i, j \in Slots : usbId[i] = usbId[j] => i = j
      BY DEF USBTable
    <3> QED
      BY <3>1, <3>2 DEF Injection, IsInjective
  <2>5. Cardinality(Slots) <= Cardinality(report \ {s})
    BY <2>3, <2>4, FS_Injection
  <2>6. Cardinality(Slots) = MaxDevices
    BY FS_Interval, ConstantsAssumption DEF Slots
  <2>7. Cardinality(report) <= MaxDevices /\ Cardinality(report) \in Nat
    BY <2>2, FS_CardinalityType DEF FewReported
  <2> QED
    BY <2>3, <2>5, <2>6, <2>7, ConstantsAssumption
<1> QED
  BY <1>1, Inductive, PTL

(* The open blob.bin is on a mounted, enabled device, and the Blob's handle *)
(* is inserted only while the file is open (UpdateHandle, Blob::Reset).     *)
THEOREM BlobHosted == Spec => []BlobHasHost
<1>1. IInv => BlobHasHost
  BY DEF IInv, HostInv
<1> QED
  BY <1>1, Inductive, PTL

(* Between two passes the PowerPC side shows the current launch error: the  *)
(* comparison with oldLaunchState in Run misses no change.                  *)
THEOREM VerdictIsPublished == Spec => []VerdictPublished
<1>1. IInv => VerdictPublished
  BY DEF IInv, Shown, VerdictPublished
<1> QED
  BY <1>1, Inductive, PTL

(* NoSDCard is the verdict of a pass only when every inserted handle is in  *)
(* error.                                                                   *)
THEOREM NoSDCardIsRight == Spec => []NoSDCardVerdict
<1>1. IInv => NoSDCardVerdict
  BY DEF IInv, NothingBehind
<1> QED
  BY <1>1, Inductive, PTL

(* An access is the running game's, on the device that it has unless the    *)
(* next one was just given; no other error reaches a device between the end *)
(* of reading main.dol and its launch.                                      *)
GameErrors ==
  /\ emuReq # NoDevice => ppc = "game" /\ (emuReq = emuDevId \/ pc = "notify")
  /\ pc = "loaded" /\ blobDev \in errored => ppc = "game" /\ emuDevId = blobDev

LEMMA GameErrorsStep == IInv /\ GameErrors /\ [Next]_vars => GameErrors'
<1> SUFFICES ASSUME Control, GameErrors, [Next]_vars PROVE GameErrors'
  BY DEF IInv
<1> USE DEF GameErrors, handleVars, fsVars, threadVars, emuVars, ppcVars
<1>1. CASE ReadDOL
  BY <1>1 DEF ReadDOL, Readable
<1>2. CASE LaunchDOL
  BY <1>2 DEF LaunchDOL
<1>3. CASE EmuAccess
  BY <1>3 DEF EmuAccess
<1>4. CASE EmuDone
  <2>1. /\ emuReq # NoDevice /\ emuReq' = NoDevice
        /\ errored' \subseteq errored \cup {emuReq} /\ UNCHANGED <<pc, blobDev, emuDevId, ppc>>
    BY <1>4 DEF EmuDone
  <2> QED
    BY <2>1
<1>5. CASE LaunchGame
  BY <1>5 DEF LaunchGame, TakeHook
<1>6. CASE NotifyLaunch
  BY <1>6 DEF NotifyLaunch, TakeHook, NextHandle
<1>7. CASE UpdateHandle /\ ~ReadDOL /\ ~LaunchDOL /\ ~NotifyLaunch
  <2>1. UNCHANGED <<emuReq, emuDevId, ppc>> /\ pc \notin {"notify", "loaded"} /\ pc' # "loaded"
    BY <1>7 DEF UpdateHandle, SkipHandle, EjectHandle, KeepHandle, OpenHandle, Announce,
       MountVolume, BlobMountFails, BlobOpens, BlobMounts, LaunchFails, NextHandle
  <2> QED
    BY <2>1
<1>8. ASSUME NEW s \in Sticks, AttachDevice(s) PROVE GameErrors'
  BY <1>8 DEF AttachDevice
<1>9. CASE Tick \/ USBChange \/ USBChangeError \/ Rearm \/ Publish
  BY <1>9 DEF Tick, USBChange, USBChangeError, Rearm, StartPass, Publish
<1>10. ASSUME UNCHANGED <<handleVars, blobDev, pc, emuVars, ppc>> PROVE GameErrors'
  BY <1>10
<1> QED
  BY <1>1, <1>2, <1>3, <1>4, <1>5, <1>6, <1>7, <1>8, <1>9, <1>10
     DEF Next, Run, ReportChange, MoveMedium, vars

(* Where the host of blob.bin is while LaunchMainDOL works.                 *)
LEMMA HostIsReady ==
  ASSUME IInv, pc \in {"launch", "loaded"}
  PROVE  blobDev \in mounted \cap enabled \cap inserted
<1>1. blobDev = cur /\ cur \in enabled \cap inserted /\ cur \in Devices
  BY DEF IInv, Control, Opening, TypeOK
<1> QED
  BY <1>1, Handles DEF IInv, HostInv, BlobHasHost

(* LaunchMainDOL reads a mounted, enabled, inserted device without an error *)
(* to the end; it hands it over still mounted, enabled and inserted, and in *)
(* error only if the running game has this very device and met the error    *)
(* between the last DeviceRead and the assignment of g_emuDevId.            *)
THEOREM LaunchIsHealthy == Spec => LaunchedFromHealthyDevice
<1> DEFINE Healthy ==
      /\ pc = "launch" /\ pc' = "loaded" =>
           blobDev \in (mounted \cap enabled \cap inserted) \ errored
      /\ pc = "loaded" /\ pc' = "notify" =>
           /\ emuDevId' \in mounted \cap enabled \cap inserted
           /\ emuDevId' \in errored => ppc = "game" /\ emuDevId = emuDevId'
<1>1. IInv /\ GameErrors /\ [Next]_vars => [Healthy]_vars
  <2> SUFFICES ASSUME IInv, GameErrors, [Next]_vars PROVE Healthy
    OBVIOUS
  <2>1. pc = "launch" /\ pc' = "loaded" => ReadDOL
    BY DEF Next, Run, UpdateHandle, Tick, StartPass, USBChange, USBChangeError,
           AttachDevice, Rearm, SkipHandle, EjectHandle, KeepHandle, OpenHandle, Announce,
           MountVolume, BlobMountFails, BlobOpens, BlobMounts, LaunchFails, NextHandle,
           LaunchDOL, NotifyLaunch, Publish, EmuAccess, EmuDone, LaunchGame, ReportChange,
           MoveMedium, vars, threadVars
  <2>2. pc = "loaded" /\ pc' = "notify" => LaunchDOL
    BY DEF Next, Run, UpdateHandle, Tick, StartPass, USBChange, USBChangeError,
           AttachDevice, Rearm, SkipHandle, EjectHandle, KeepHandle, OpenHandle, Announce,
           MountVolume, BlobMountFails, BlobOpens, BlobMounts, LaunchFails, NextHandle,
           ReadDOL, NotifyLaunch, Publish, EmuAccess, EmuDone, LaunchGame, ReportChange,
           MoveMedium, vars, threadVars
  <2>3. ReadDOL => blobDev \in (mounted \cap enabled \cap inserted) \ errored
    BY HostIsReady DEF ReadDOL, Readable
  <2>4. LaunchDOL => /\ emuDevId' \in mounted \cap enabled \cap inserted
                     /\ emuDevId' \in errored => ppc = "game" /\ emuDevId = emuDevId'
    BY HostIsReady DEF LaunchDOL, GameErrors
  <2> QED
    BY <2>1, <2>2, <2>3, <2>4
<1>2. Init => GameErrors
  BY DEF Init, GameErrors
<1> QED
  BY <1>1, <1>2, GameErrorsStep, Inductive, PTL DEF Spec, LaunchedFromHealthyDevice
-----------------------------------------------------------------------------
(* The implementation of HandleTable.  A stick whose handle works, or is    *)
(* about to be mounted, has an entry in the USB table, so that its removal  *)
(* will be noticed: only an error takes the entry's intId away.             *)
Mounting == {"announce", "mount"}

Served ==
  \A k \in inserted \ {0, BlobId} :
    k \notin errored \/ (pc \in Mounting /\ k = cur) => \E j \in inUse : intId[j] = k

(* What the pass is about to mount is not mounted; the game's handle is no  *)
(* the Blob's.                                                              *)
Unopened ==
  /\ pc \in Mounting => cur \notin mounted
  /\ emuDevId # BlobId /\ emuReq # BlobId

LEMMA ServedStep == IInv /\ Served /\ [Next]_vars => Served'
<1> SUFFICES ASSUME TypeOK, Control, FixedHandles, Ownership, Served, [Next]_vars
             PROVE  Served'
  BY DEF IInv
<1> USE DEF handleVars, usbVars, threadVars, Mounting
<1>1. CASE Tick \/ Rearm
  BY <1>1 DEF Tick, Rearm, StartPass, Served
<1>2. CASE USBChange
  <2> SUFFICES ASSUME NEW k \in inserted' \ {0, BlobId}, k \notin errored'
               PROVE  \E j \in inUse' : intId'[j] = k
    BY <1>2 DEF USBChange, Served
  <2>1. k \in inserted /\ k \notin errored
    BY <1>2 DEF USBChange
  <2>2. PICK j \in inUse : intId[j] = k
    BY <2>1 DEF Served
  <2>3. j \notin Gone /\ j \in Slots
    BY <1>2, <2>2 DEF USBChange, TypeOK
  <2> QED
    BY <1>2, <2>1, <2>2, <2>3 DEF USBChange
<1>3. ASSUME NEW s \in Sticks, AttachDevice(s) PROVE Served'
  <2>1. PICK j \in First(Slots \ inUse) :
           /\ inUse' = inUse \cup {j}
           /\ \/ intId' = [intId EXCEPT ![j] = NoIntId] /\ UNCHANGED handleVars
              \/ \E k \in First(Devices \ enabled) :
                   /\ intId' = [intId EXCEPT ![j] = k]
                   /\ inserted' = inserted \cup {k} /\ errored' = errored \ {k}
    BY <1>3 DEF AttachDevice
  <2>2. j \in Slots /\ j \notin inUse /\ pc = "attach" /\ pc' = "attach"
    BY <1>3, <2>1, FirstMember DEF AttachDevice
  <2>3. \A i \in inUse : intId'[i] = intId[i]
    BY <2>1, <2>2 DEF TypeOK
  <2>4. CASE UNCHANGED handleVars
    BY <2>1, <2>2, <2>3, <2>4 DEF Served
  <2>5. ASSUME NEW k \in First(Devices \ enabled), intId' = [intId EXCEPT ![j] = k],
               inserted' = inserted \cup {k}, errored' = errored \ {k}
        PROVE  Served'
    <3>1. intId'[j] = k
      BY <2>2, <2>5 DEF TypeOK
    <3> QED
      BY <2>1, <2>2, <2>3, <2>5, <3>1 DEF Served
  <2> QED
    BY <2>1, <2>4, <2>5
<1>4. CASE SkipHandle
  BY <1>4 DEF SkipHandle, NextHandle, Served
<1>5. CASE EjectHandle
  <2>1. \A k \in inserted' \ {0, BlobId} : k \in inserted /\ (k \notin errored' => k \notin errored)
    BY <1>5, SampledHandles DEF EjectHandle
  <2> QED
    BY <1>5, <2>1 DEF EjectHandle, NextHandle, Served
<1>6. CASE KeepHandle \/ OpenHandle
  <2>1. \A k \in inserted' \ {0, BlobId} : k \in inserted
    BY <1>6, SampledHandles DEF KeepHandle, OpenHandle, NoteInserted
  <2> QED
    BY <1>6, <2>1 DEF KeepHandle, OpenHandle, NextHandle, Served
<1>7. CASE Announce
  BY <1>7 DEF Announce, Served
<1>8. CASE MountVolume
  BY <1>8 DEF MountVolume, Served
<1>9. CASE BlobMountFails
  BY <1>9 DEF BlobMountFails, NextHandle, Served
<1>10. CASE BlobMounts
  BY <1>10 DEF BlobMounts, NextHandle, Served
<1>11. CASE LaunchFails
  BY <1>11 DEF LaunchFails, NextHandle, Served
<1>12. CASE NotifyLaunch
  BY <1>12 DEF NotifyLaunch, NextHandle, Served
<1>13. CASE USBChangeError \/ BlobOpens \/ ReadDOL \/ LaunchDOL \/ Publish
  BY <1>13 DEF USBChangeError, BlobOpens, ReadDOL, LaunchDOL, Publish, Served
<1>14. CASE EmuDone
  BY <1>14 DEF EmuDone, Served
<1>15. ASSUME UNCHANGED <<inserted, errored, inUse, intId, threadVars>> PROVE Served'
  BY <1>15 DEF Served
<1> QED
  BY <1>1, <1>2, <1>3, <1>4, <1>5, <1>6, <1>7, <1>8, <1>9, <1>10, <1>11, <1>12, <1>13, <1>14,
     <1>15 DEF Next, Run, UpdateHandle, EmuAccess, LaunchGame, ReportChange, MoveMedium, vars

LEMMA UnopenedStep == IInv /\ Unopened /\ [Next]_vars => Unopened'
<1> SUFFICES ASSUME TypeOK, Control, HostInv, Unopened, [Next]_vars PROVE Unopened'
  BY DEF IInv
<1> USE DEF handleVars, threadVars, emuVars, Unopened, Mounting
<1>1. CASE Tick \/ Rearm \/ USBChange \/ USBChangeError
  BY <1>1 DEF Tick, Rearm, StartPass, USBChange, USBChangeError
<1>2. ASSUME NEW s \in Sticks, AttachDevice(s) PROVE Unopened'
  BY <1>2 DEF AttachDevice
<1>3. CASE SkipHandle \/ EjectHandle \/ KeepHandle
  BY <1>3 DEF SkipHandle, EjectHandle, KeepHandle, NextHandle
<1>4. CASE OpenHandle \/ Announce \/ MountVolume
  BY <1>4 DEF OpenHandle, Announce, MountVolume
<1>5. CASE BlobMountFails \/ BlobMounts \/ LaunchFails \/ NotifyLaunch
  BY <1>5 DEF BlobMountFails, BlobMounts, LaunchFails, NotifyLaunch, NextHandle
<1>6. CASE BlobOpens \/ ReadDOL \/ LaunchDOL
  BY <1>6 DEF BlobOpens, ReadDOL, LaunchDOL, HostInv
<1>7. CASE Publish
  BY <1>7 DEF Publish
<1>8. CASE EmuAccess \/ EmuDone
  BY <1>8, Handles DEF EmuAccess, EmuDone
<1>9. ASSUME UNCHANGED <<mounted, threadVars, emuVars>> PROVE Unopened'
  BY <1>9
<1> QED
  BY <1>1, <1>2, <1>3, <1>4, <1>5, <1>6, <1>7, <1>8, <1>9
     DEF Next, Run, UpdateHandle, LaunchGame, ReportChange, MoveMedium, vars
(* An enabled handle holds a device.                                        *)
Holding == \A d \in enabled \ {0, BlobId} : disk[d] \in Sticks

LEMMA HoldingStep == IInv /\ Holding /\ [Next]_vars => Holding'
<1> SUFFICES ASSUME TypeOK, Holding, [Next]_vars PROVE Holding'
  BY DEF IInv
<1> USE DEF handleVars, Holding
<1>1. ASSUME NEW s \in Sticks, AttachDevice(s) PROVE Holding'
  <2>1. CASE UNCHANGED handleVars
    BY <2>1
  <2>2. ASSUME NEW k \in First(Devices \ enabled), disk' = [disk EXCEPT ![k] = s],
               enabled' = enabled \cup {k}
        PROVE  Holding'
    <3>1. k \in Devices
      BY <2>2, FirstMember
    <3> QED
      BY <2>2, <3>1 DEF TypeOK
  <2> QED
    BY <1>1, <2>1, <2>2 DEF AttachDevice
<1>2. CASE EjectHandle
  BY <1>2 DEF EjectHandle
<1>3. ASSUME UNCHANGED <<enabled, disk>> PROVE Holding'
  BY <1>3
<1> QED
  BY <1>1, <1>2, <1>3
     DEF Next, Run, UpdateHandle, Tick, USBChange, USBChangeError, Rearm, SkipHandle,
         KeepHandle, OpenHandle, Announce, MountVolume, BlobMountFails, BlobMounts,
         LaunchFails, BlobOpens, ReadDOL, LaunchDOL, NotifyLaunch, Publish, EmuAccess, EmuDone, LaunchGame,
         ReportChange, MoveMedium, vars

TableInv == IInv /\ Served /\ Unopened /\ Holding

(* A step that leaves the handles, the file, the game and the report alone  *)
(* leaves the abstract table alone.                                         *)
LEMMA TableSame ==
  ASSUME UNCHANGED <<enabled, inserted, mounted, disk, blobDev, emuVars, report, Tested>>,
         errored' \ {BlobId} = errored \ {BlobId}
  PROVE  UNCHANGED Table!tableVars
<1>1. Leases' = Leases
  BY DEF Leases
<1>2. ((errored \cap enabled) \ {BlobId})' = (errored \cap enabled) \ {BlobId}
  OBVIOUS
<1> QED
  BY <1>1, <1>2 DEF Table!tableVars, emuVars

(* Only two steps test a handle, and the next step of the thread uses it.   *)
LEMMA Untested ==
  /\ pc \notin {"opened", "loaded"} => Tested = NoDevice
  /\ pc' \notin {"opened", "loaded"} => Tested' = NoDevice
  /\ UNCHANGED <<pc, cur, blobDev>> => Tested' = Tested
BY DEF Tested

(* What a handle with a stick holds, and who lists it.                      *)
LEMMA LeaseOf ==
  ASSUME NEW k \in DeviceHandles
  PROVE  /\ k \in enabled => Leases[k] = disk[k]
         /\ k \notin enabled => Leases[k] = NullDevice
BY DEF Leases

LEMMA ServedStick ==
  ASSUME TypeOK, FixedHandles, Ownership, Served,
         NEW k \in DeviceHandles, k \in inserted, k \notin errored, k # 0
  PROVE  \E j \in inUse : intId[j] = k /\ usbId[j] = Leases[k]
<1>1. PICK j \in inUse : intId[j] = k
  BY DEF Served, DeviceHandles
<1>2. intId[j] # NoIntId
  BY <1>1, Handles DEF DeviceHandles
<1>3. disk[k] = usbId[j] /\ k \in enabled
  BY <1>1, <1>2 DEF Ownership
<1> QED
  BY <1>1, <1>3, LeaseOf

(* A report that lists a stick no more unplugs its handle.                  *)
LEMMA ChangeUnplugs ==
  ASSUME IInv, Served, USBChange
  PROVE  \E S \in SUBSET DeviceHandles : Table!Unplug(S)
<1> USE DEF IInv, handleVars, usbVars
<1> DEFINE S == {k \in DeviceHandles \cap inserted : \E j \in Gone : intId[j] = k}
<1>1. UNCHANGED <<enabled, errored, mounted, disk, blobDev, emuDevId, emuReq, report>>
  BY DEF USBChange, fsVars, emuVars, rmVars
<1>2. Leases' = Leases
  BY <1>1 DEF Leases
<1>a. Tested = NoDevice /\ Tested' = NoDevice
  BY Untested DEF USBChange
<1>3. inserted' \ {BlobId} = (inserted \ {BlobId}) \ S
  <2>1. inserted' = inserted \ {intId[j] : j \in Gone}
    BY DEF USBChange
  <2>2. inserted \subseteq Devices
    BY DEF TypeOK
  <2> QED
    BY <2>1, <2>2 DEF DeviceHandles
<1>4. ASSUME NEW k \in S PROVE Leases[k] \in Sticks \ report
  <2>1. PICK j \in Gone : intId[j] = k
    OBVIOUS
  <2>2. j \in inUse /\ usbId[j] \notin report
    BY <2>1 DEF Gone
  <2>3. k \in enabled /\ disk[k] = usbId[j] /\ usbId[j] \in Sticks
    BY <2>1, <2>2, Handles DEF Ownership, USBTable, DeviceHandles
  <2> QED
    BY <2>2, <2>3, LeaseOf
<1>5. ASSUME NEW k \in DeviceHandles, k \in inserted, k \notin errored,
             Leases[k] \in Sticks \ report
      PROVE  k \in S
  <2>1. k # 0
    BY <1>5, LeaseOf, ConstantsAssumption DEF FixedHandles
  <2>2. PICK j \in inUse : intId[j] = k /\ usbId[j] = Leases[k]
    BY <1>5, <2>1, ServedStick
  <2> QED
    BY <1>5, <2>2 DEF Gone
<1>6. inserted \subseteq enabled
  BY DEF FixedHandles
<1>7. inserted \subseteq Devices
  BY DEF TypeOK
<1> HIDE DEF S
<1>8. S \subseteq {k \in (inserted \ {BlobId}) \ {Tested} : Leases[k] \in Sticks \ report}
  BY <1>a, <1>4, Handles DEF S, DeviceHandles
<1>9. {k \in (inserted \ {BlobId}) \ ((errored \cap enabled) \ {BlobId}) :
          Leases[k] \in Sticks \ report} \subseteq S
  BY <1>5, <1>6, <1>7 DEF DeviceHandles
<1>10. Table!Unplug(S)
  BY <1>1, <1>2, <1>3, <1>a, <1>8, <1>9 DEF Table!Unplug, Table!Healthy
<1> QED
  BY <1>10 DEF S

(* A new stick gets a free handle, and no handle that works holds it.       *)
LEMMA AttachLeases ==
  ASSUME IInv, Served, NEW s \in Sticks, AttachDevice(s)
  PROVE  UNCHANGED Table!tableVars \/ \E k \in DeviceHandles : Table!Lease(k, s)
<1> USE DEF IInv
<1>1. UNCHANGED <<blobDev, emuVars, emuDevId, emuReq, report, Tested>> /\ s \in toAttach
  BY Untested DEF AttachDevice, fsVars, threadVars, emuVars, rmVars
<1>2. CASE UNCHANGED handleVars
  BY <1>1, <1>2, TableSame DEF handleVars
<1>3. ASSUME NEW k \in First(Devices \ enabled), disk' = [disk EXCEPT ![k] = s],
             inserted' = inserted \cup {k}, enabled' = enabled \cup {k},
             errored' = errored \ {k}, mounted' = mounted \ {k}
      PROVE  \E h \in DeviceHandles : Table!Lease(h, s)
  <2>1. k \in Devices /\ k \notin enabled /\ k # BlobId
    BY <1>3, FirstMember DEF FixedHandles
  <2>2. k \in DeviceHandles
    BY <2>1 DEF DeviceHandles
  <2>3. Leases[k] = NullDevice
    BY <2>1, <2>2, LeaseOf
  <2>4. Leases' = [Leases EXCEPT ![k] = s]
    <3>1. disk'[k] = s /\ \A h \in Devices \ {k} : disk'[h] = disk[h]
      BY <1>3, <2>1 DEF TypeOK
    <3> QED
      BY <1>3, <2>1, <3>1 DEF Leases, DeviceHandles
  <2>5. s \in report /\ \A j \in inUse : usbId[j] # s
    BY <1>1 DEF USBTable
  <2>6. ASSUME NEW i \in DeviceHandles, i \in inserted, i \notin errored PROVE Leases[i] # s
    <3>1. CASE i = 0
      BY <2>6, <3>1, LeaseOf, ConstantsAssumption DEF FixedHandles
    <3>2. CASE i # 0
      BY <2>5, <2>6, <3>2, ServedStick
    <3> QED
      BY <3>1, <3>2
  <2>7. \A i \in (inserted \ {BlobId}) \ ((errored \cap enabled) \ {BlobId}) : Leases[i] # s
    BY <2>6 DEF TypeOK, FixedHandles, DeviceHandles
  <2>8. /\ inserted' \ {BlobId} = (inserted \ {BlobId}) \cup {k}
        /\ ((errored \cap enabled) \ {BlobId})' = (errored \cap enabled) \ {BlobId}
        /\ mounted' \ {BlobId} = mounted \ {BlobId}
    BY <1>3, <2>1 DEF NothingBehind
  <2>9. Table!Lease(k, s)
    BY <1>1, <2>3, <2>4, <2>5, <2>7, <2>8 DEF Table!Lease, Table!Healthy
  <2> QED
    BY <2>2, <2>9
<1> QED
  BY <1>2, <1>3 DEF AttachDevice
(* A handle is leased exactly when it is enabled.                           *)
LEMMA EnabledLeased ==
  ASSUME FixedHandles, Holding, NEW k \in DeviceHandles, k \in enabled
  PROVE  Leases[k] # NullDevice
<1>1. disk[k] # NullDevice
  BY ConstantsAssumption DEF FixedHandles, Holding, DeviceHandles
<1> QED
  BY <1>1, LeaseOf

(* An ejection gives up the lease only of a volume that was open.           *)
LEMMA EjectionEjects ==
  ASSUME TableInv, EjectHandle
  PROVE  cur \in DeviceHandles /\ Table!Eject(cur)
<1> USE DEF TableInv, IInv
<1>1. /\ pc = "update" /\ cur \in enabled /\ cur \in DeviceHandles /\ cur \notin Sampled
      /\ inserted' = Sampled \ Ejected /\ errored' = errored \ Ejected
      /\ mounted' = mounted \ Ejected /\ UNCHANGED <<disk, emuDevId, emuReq, report>>
  BY Handles DEF EjectHandle, TypeOK, Control, DeviceHandles, emuVars, rmVars
<1>2. Ejected \ {BlobId} = {cur}
  BY <1>1 DEF Ejected, DeviceHandles
<1>3. blobDev' = IF blobDev = cur THEN NoDevice ELSE blobDev
  BY <1>1, Handles DEF EjectHandle, Ejected, HostInv, BlobHasHost, DeviceHandles
<1>4. Leases[cur] = disk[cur] /\ Leases[cur] # NullDevice
  BY <1>1, LeaseOf, EnabledLeased
<1>5. Leases' = [Leases EXCEPT ![cur] = IF cur \in mounted \ {BlobId} /\ @ \in Sticks
                                        THEN NullDevice ELSE @]
  <2>1. \A k \in DeviceHandles \ {cur} : k \in enabled' <=> k \in enabled
    BY <1>1 DEF EjectHandle
  <2>2. cur \in enabled' <=> ~(cur \in mounted /\ disk[cur] \in Sticks)
    BY <1>1 DEF EjectHandle
  <2> QED
    BY <1>1, <1>4, <2>1, <2>2 DEF Leases, DeviceHandles
<1>6. inserted' \ {BlobId} = (inserted \ {BlobId}) \ {cur} /\ (cur \in inserted => cur = 0)
  <2>1. \A d \in Devices \ {cur} : d \in Sampled <=> d \in inserted
    BY <1>1, SampledHandles
  <2>2. Sampled \subseteq Devices /\ inserted \subseteq Devices
    BY SampledType DEF TypeOK
  <2>3. inserted \ {0} \subseteq Sampled
    BY <1>1, SampledHandles
  <2> QED
    BY <1>1, <1>2, <2>1, <2>2, <2>3
<1>7. mounted' \ {BlobId} = (mounted \ {BlobId}) \ {cur}
  BY <1>1, <1>2
<1>8. ((errored \cap enabled) \ {BlobId})' = ((errored \cap enabled) \ {BlobId}) \ {cur}
  BY <1>1, <1>2 DEF EjectHandle
<1>a. Tested = NoDevice /\ Tested' = NoDevice /\ cur # NoDevice
  BY <1>1, Untested, Handles DEF EjectHandle, NextHandle, DeviceHandles
<1>9. Table!Eject(cur)
  BY <1>1, <1>3, <1>4, <1>5, <1>6, <1>7, <1>8, <1>a DEF Table!Eject
<1> QED
  BY <1>1, <1>9

(* A pass that looks at a handle notices at most the card.                  *)
LEMMA PassNotices ==
  ASSUME TableInv, KeepHandle \/ OpenHandle
  PROVE  UNCHANGED Table!tableVars \/ Table!InsertCard
<1> USE DEF TableInv, IInv
<1>1. /\ pc = "update" /\ inserted' = Sampled
      /\ UNCHANGED <<enabled, errored, mounted, disk, blobDev, emuVars, emuDevId, emuReq, report,
                     Tested>>
  BY Untested DEF KeepHandle, OpenHandle, NoteInserted, NextHandle, fsVars, emuVars, rmVars
<1>2. CASE inserted' = inserted
  BY <1>1, <1>2, TableSame
<1>3. CASE inserted' # inserted
  <2>1. cur = 0 /\ inserted' = inserted \cup {0}
    BY <1>1, <1>3, SampledHandles, Handles
       DEF Sampled, KeepHandle, OpenHandle, FixedHandles, TypeOK, Control
  <2>2. inserted' \ {BlobId} = (inserted \ {BlobId}) \cup {0}
    BY <2>1, Handles
  <2>3. Leases' = Leases
    BY <1>1 DEF Leases
  <2> QED
    BY <1>1, <2>2, <2>3 DEF Table!InsertCard
<1> QED
  BY <1>2, <1>3
(* f_mount opens a handle that is plugged and not open.                     *)
LEMMA MountOpens ==
  ASSUME TableInv, MountVolume
  PROVE  cur \in DeviceHandles /\ Table!Open(cur)
<1> USE DEF TableInv, IInv
<1>1. /\ cur \in DeviceHandles /\ cur \in inserted \ mounted
      /\ mounted' = mounted \cup {cur} /\ errored' = errored \ {cur}
      /\ UNCHANGED <<enabled, disk, blobDev, emuDevId, emuReq, report, Tested>>
  BY Untested, Handles DEF MountVolume, TypeOK, Control, Opening, Unopened, Mounting, DeviceHandles,
     emuVars, rmVars
<1>2. Leases' = Leases
  BY <1>1 DEF Leases
<1>3. inserted' \ {BlobId} = inserted \ {BlobId}
  BY DEF MountVolume
<1> QED
  BY <1>1, <1>2, <1>3 DEF Table!Open, DeviceHandles

(* Blob::Mount closes the file that was open, and opens another only on the *)
(* handle that was just mounted, if that was read without an error.         *)
LEMMA BlobChanges ==
  ASSUME TableInv, BlobMountFails \/ BlobOpens \/ BlobMounts
  PROVE  \/ UNCHANGED Table!tableVars \/ Table!OpenBlob
         \/ cur \in DeviceHandles /\ (Table!CloseBlob(cur) \/ Table!FindBlob(cur))
<1> USE DEF TableInv, IInv
<1>1. /\ cur \in DeviceHandles /\ cur \in (inserted \cap mounted) \cap enabled
      /\ cur # NoDevice
      /\ UNCHANGED <<enabled, disk, emuVars, emuDevId, emuReq, report>>
  <2>1. pc \in {"blob", "opened"}
    BY DEF BlobMountFails, BlobOpens, BlobMounts
  <2>2. cur \in Devices \ {BlobId} /\ cur \in (inserted \cap mounted) \cap enabled
    BY <2>1 DEF TypeOK, Control, Opening
  <2>3. cur # NoDevice
    BY <2>2, Handles
  <2>4. UNCHANGED <<enabled, disk>>
    BY DEF BlobMountFails, BlobOpens, BlobMounts, handleVars
  <2>5. UNCHANGED <<emuVars, emuDevId, emuReq, report>>
    BY DEF BlobMountFails, BlobOpens, BlobMounts, emuVars, launchVars, rmVars
  <2> QED
    BY <2>2, <2>3, <2>4, <2>5 DEF DeviceHandles
<1>2. Leases' = Leases
  BY <1>1 DEF Leases
<1>3. CASE BlobMountFails
  <2>1. UNCHANGED <<inserted, mounted>> /\ Tested = NoDevice /\ Tested' = NoDevice
    BY <1>3, Untested DEF BlobMountFails, NextHandle
  <2>2. CASE UNCHANGED <<blobDev, errored>>
    BY <1>1, <2>1, <2>2, TableSame
  <2>3. CASE blobDev' = NoDevice /\ (errored' = errored \/ errored' = errored \cup {cur})
    <3>1. \/ ((errored \cap enabled) \ {BlobId})' = (errored \cap enabled) \ {BlobId}
          \/ ((errored \cap enabled) \ {BlobId})' = ((errored \cap enabled) \ {BlobId}) \cup {cur}
      BY <1>1, <2>3 DEF DeviceHandles
    <3> QED
      BY <1>1, <1>2, <2>1, <2>3, <3>1 DEF Table!CloseBlob, DeviceHandles
  <2> QED
    BY <1>3, <2>2, <2>3 DEF BlobMountFails
<1>4. CASE BlobOpens
  <2>1. /\ UNCHANGED <<inserted, mounted, errored>> /\ blobDev' = NoDevice /\ cur \notin errored
        /\ Tested = NoDevice /\ Tested' = cur
    BY <1>4 DEF BlobOpens, Readable, Tested, handleVars
  <2> QED
    BY <1>1, <1>2, <2>1 DEF Table!FindBlob, Table!Healthy, DeviceHandles
<1>5. CASE BlobMounts
  <2>1. /\ inserted' \ {BlobId} = inserted \ {BlobId} /\ mounted' \ {BlobId} = mounted \ {BlobId}
        /\ errored' = errored \ {BlobId} /\ blobDev' = cur /\ blobDev = NoDevice
    BY <1>5 DEF BlobMounts, Control
  <2>2. ((errored \cap enabled) \ {BlobId})' = (errored \cap enabled) \ {BlobId}
    BY <1>1, <2>1
  <2>3. Tested = cur /\ Tested' = NoDevice
    BY <1>5, Untested DEF BlobMounts, NextHandle, Tested
  <2> QED
    BY <1>1, <1>2, <2>1, <2>2, <2>3 DEF Table!OpenBlob
<1> QED
  BY <1>3, <1>4, <1>5

(* A launch that fails charges nobody but the host of blob.bin; one that    *)
(* succeeds gives the game the host whose files were read without an error. *)
LEMMA LaunchUsesHost ==
  ASSUME TableInv, LaunchFails \/ ReadDOL \/ LaunchDOL
  PROVE  UNCHANGED Table!tableVars \/ Table!HostFails \/ Table!Load \/ Table!Launch
<1> USE DEF TableInv, IInv
<1>1. /\ blobDev \in DeviceHandles /\ blobDev # NoDevice
      /\ blobDev \in (inserted \cap mounted) \cap enabled
      /\ UNCHANGED <<enabled, inserted, mounted, disk, blobDev, emuReq, report>>
  <2>1. blobDev = cur /\ cur \in Devices \ {BlobId}
    BY Handles DEF LaunchFails, ReadDOL, LaunchDOL, Control, Opening, TypeOK
  <2>2. blobDev \in mounted \cap enabled \cap inserted
    BY HostIsReady DEF LaunchFails, ReadDOL, LaunchDOL
  <2> QED
    BY <2>1, <2>2, Handles DEF LaunchFails, ReadDOL, LaunchDOL, handleVars, fsVars, emuVars,
       rmVars, DeviceHandles
<1>2. Leases' = Leases
  BY <1>1 DEF Leases
<1>3. CASE LaunchFails
  <2>1. UNCHANGED <<emuVars, emuDevId>> /\ Tested = NoDevice /\ Tested' = NoDevice
    BY <1>3, Untested DEF LaunchFails, NextHandle, emuVars
  <2>2. CASE errored' = errored \cup {BlobId}
    BY <1>1, <2>1, <2>2, TableSame
  <2>3. CASE errored' = errored \cup {BlobId, blobDev}
    <3>1. ((errored \cap enabled) \ {BlobId})' = ((errored \cap enabled) \ {BlobId}) \cup {blobDev}
      BY <1>1, <2>3 DEF DeviceHandles
    <3> QED
      BY <1>1, <1>2, <2>1, <3>1 DEF Table!HostFails
  <2> QED
    BY <1>3, <2>2, <2>3 DEF LaunchFails
<1>4. CASE ReadDOL
  <2>1. /\ UNCHANGED <<errored, emuDevId>> /\ blobDev \notin errored
        /\ Tested = NoDevice /\ Tested' = blobDev
    BY <1>1, <1>4 DEF ReadDOL, Readable, Tested, handleVars, emuVars
  <2> QED
    BY <1>1, <1>2, <2>1 DEF Table!Load, Table!Healthy, DeviceHandles
<1>5. CASE LaunchDOL
  <2>1. errored' = errored /\ emuDevId' = blobDev /\ Tested = blobDev /\ Tested' = NoDevice
    BY <1>5 DEF LaunchDOL, Tested, handleVars
  <2> QED
    BY <1>1, <1>2, <2>1 DEF Table!Launch
<1> QED
  BY <1>3, <1>4, <1>5

(* The game's accesses begin on the handle it got, while that has a lease.  *)
LEMMA GameAccesses ==
  ASSUME TableInv, EmuAccess \/ EmuDone
  PROVE  Table!Access \/ Table!AccessEnds
<1> USE DEF TableInv, IInv
<1>1. UNCHANGED <<enabled, inserted, mounted, disk, blobDev, emuDevId, report, Tested>>
  BY Untested DEF EmuAccess, EmuDone, handleVars, fsVars, threadVars, rmVars
<1>2. Leases' = Leases
  BY <1>1 DEF Leases
<1>3. CASE EmuAccess
  <2>1. /\ emuReq = NoDevice /\ emuReq' = emuDevId /\ errored' = errored
        /\ emuDevId \in enabled /\ emuDevId \notin errored
    BY <1>3 DEF EmuAccess, handleVars
  <2>2. emuDevId \in DeviceHandles /\ emuDevId # NoDevice
    BY <2>1, Handles DEF TypeOK, Unopened, DeviceHandles
  <2>3. Leases[emuDevId] # NullDevice
    BY <2>1, <2>2, EnabledLeased
  <2> QED
    BY <1>1, <1>2, <2>1, <2>2, <2>3 DEF Table!Access
<1>4. CASE EmuDone
  <2>1. /\ emuReq # NoDevice /\ emuReq' = NoDevice
        /\ errored' = errored \/ errored' = errored \cup {emuReq}
    BY <1>4 DEF EmuDone
  <2>2. emuReq \in DeviceHandles
    BY <2>1 DEF TypeOK, Unopened, DeviceHandles
  <2>3. \/ ((errored \cap enabled) \ {BlobId})' = (errored \cap enabled) \ {BlobId}
        \/ /\ emuReq \in enabled
           /\ ((errored \cap enabled) \ {BlobId})' = ((errored \cap enabled) \ {BlobId}) \cup {emuReq}
    BY <1>1, <2>1, <2>2 DEF DeviceHandles
  <2>4. emuReq \in enabled => Leases[emuReq] # NullDevice
    BY <2>2, EnabledLeased
  <2> QED
    BY <1>1, <1>2, <2>1, <2>3, <2>4 DEF Table!AccessEnds
<1> QED
  BY <1>3, <1>4

(* Every step of the DeviceMgr is a step of the table or leaves it alone.   *)
LEMMA TableStep == TableInv /\ [Next]_vars => [Table!Next]_(Table!tableVars)
<1> SUFFICES ASSUME TableInv, [Next]_vars PROVE [Table!Next]_(Table!tableVars)
  OBVIOUS
<1>1. CASE USBChange
  BY <1>1, ChangeUnplugs DEF TableInv, Table!Next
<1>2. ASSUME NEW s \in Sticks, AttachDevice(s) PROVE [Table!Next]_(Table!tableVars)
  BY <1>2, AttachLeases DEF TableInv, Table!Next
<1>3. CASE EjectHandle
  BY <1>3, EjectionEjects DEF Table!Next
<1>4. CASE KeepHandle \/ OpenHandle
  BY <1>4, PassNotices DEF Table!Next
<1>5. CASE MountVolume
  BY <1>5, MountOpens DEF Table!Next
<1>6. CASE BlobMountFails \/ BlobOpens \/ BlobMounts
  BY <1>6, BlobChanges DEF Table!Next
<1>7. CASE LaunchFails \/ ReadDOL \/ LaunchDOL
  BY <1>7, LaunchUsesHost DEF Table!Next
<1>8. CASE EmuAccess \/ EmuDone
  BY <1>8, GameAccesses DEF Table!Next
<1>9. CASE ReportChange
  <2>1. /\ UNCHANGED <<enabled, errored, inserted, mounted, disk, blobDev, emuDevId, emuReq,
                       Tested>>
        /\ report' \in SUBSET Sticks
    BY <1>9, Untested DEF ReportChange, handleVars, fsVars, threadVars, emuVars
  <2>2. Leases' = Leases
    BY <2>1 DEF Leases
  <2>3. Table!Report(report')
    BY <2>1, <2>2 DEF Table!Report
  <2> QED
    BY <2>1, <2>3 DEF Table!Next
<1>10. CASE Tick \/ USBChangeError \/ Rearm \/ SkipHandle \/ Announce \/ NotifyLaunch
            \/ Publish \/ LaunchGame \/ UNCHANGED vars
  <2>2. UNCHANGED Tested
    BY <1>10, Untested DEF Tick, USBChangeError, Rearm, StartPass, SkipHandle, Announce, NextHandle,
       NotifyLaunch, Publish, LaunchGame, vars, fsVars, threadVars
  <2>1. /\ UNCHANGED <<enabled, inserted, mounted, disk, blobDev, emuVars, report>>
        /\ errored' \ {BlobId} = errored \ {BlobId}
    BY <1>10 DEF Tick, USBChangeError, Rearm, SkipHandle, Announce, NotifyLaunch, Publish,
       LaunchGame, vars, handleVars, fsVars, rmVars
  <2> QED
    BY <2>1, <2>2, TableSame
<1>11. ASSUME NEW m \in Media, MoveMedium(m) PROVE [Table!Next]_(Table!tableVars)
  BY <1>11, Untested, TableSame DEF MoveMedium, handleVars, fsVars, threadVars, rmVars
<1> QED
  BY <1>1, <1>2, <1>3, <1>4, <1>5, <1>6, <1>7, <1>8, <1>9, <1>10, <1>11
     DEF Next, Run, UpdateHandle

LEMMA TableInit == Init => TableInv
<1> SUFFICES ASSUME Init PROVE TableInv
  OBVIOUS
<1>1. Served /\ Unopened /\ Holding
  BY Handles DEF Init, Served, Unopened, Holding, Mounting
<1> QED
  BY <1>1, InitInv DEF TableInv

LEMMA TableInductive == Spec => []TableInv
<1>1. TableInv /\ [Next]_vars => TableInv'
  BY IInvStep, ServedStep, UnopenedStep, HoldingStep DEF TableInv
<1> QED
  BY <1>1, TableInit, PTL DEF Spec

(* The DeviceMgr implements the table of handles, in whatever order media  *)
(* come and go, passes run and the game reads: USBChange, UpdateHandle and *)
(* SetError keep leases, flags, blob.bin and the game's device in step.    *)
THEOREM ImplementsHandleTable == Spec => HandleTableSpec
<1>1. Init => Table!Init
  <2> SUFFICES ASSUME Init PROVE Table!Init
    OBVIOUS
  <2>1. Leases = [k \in DeviceHandles |-> IF k = 0 THEN SDCard ELSE NullDevice]
    BY DEF Init, Leases, DeviceHandles
  <2> QED
    BY <2>1, Untested DEF Init, Table!Init
<1> QED
  BY <1>1, TableInductive, TableStep, PTL DEF Spec, HandleTableSpec, Table!Spec

(* Two handles that are inserted and work never hold the same USB stick,   *)
(* so that it is not mounted as two volumes: not after an error, a removal *)
(* that was reported late, or the re-use of a handle (the search of        *)
(* USBChange for a device that is listed already, DeviceMgr.cpp:345-371).  *)
OnePerStick ==
  \A k, l \in (inserted \ errored) \ {0, BlobId} : disk[k] = disk[l] => k = l

(* The manager never serves a stick that works by two handles at once.     *)
THEOREM StickServedOnce == Spec => []OnePerStick
<1>1. TableInv => OnePerStick
  <2> SUFFICES ASSUME TableInv,
                      NEW k \in (inserted \ errored) \ {0, BlobId},
                      NEW l \in (inserted \ errored) \ {0, BlobId}, disk[k] = disk[l]
               PROVE  k = l
    BY DEF OnePerStick
  <2>1. PICK i \in inUse : intId[i] = k
    BY DEF TableInv, Served
  <2>2. PICK j \in inUse : intId[j] = l
    BY DEF TableInv, Served
  <2>3. k # NoIntId /\ l # NoIntId
    BY Handles DEF TableInv, IInv, TypeOK
  <2>4. usbId[i] = disk[k] /\ usbId[j] = disk[l]
    BY <2>1, <2>2, <2>3 DEF TableInv, IInv, Ownership
  <2>5. i = j
    BY <2>4 DEF TableInv, IInv, USBTable
  <2> QED
    BY <2>1, <2>2, <2>5
<1> QED
  BY <1>1, TableInductive, PTL

-----------------------------------------------------------------------------
(* How far a pass is from its end: the handles, and the most steps that    *)
(* one of them takes.                                                      *)
StepsLeft ==
  [p \in PCs |-> CASE p = "update" -> 7 [] p = "announce" -> 6 [] p = "mount" -> 5
                   [] p = "blob" -> 4 [] p = "opened" -> 3 [] p = "launch" -> 2
                   [] p = "loaded" -> 1 [] OTHER -> 0]

PassLeft == 8 * (BlobId - cur) + StepsLeft[pc]

PassGetsOn ==
  pc \in InPass =>
    /\ UpdateHandle => PassLeft \in Nat /\ PassLeft' \in Nat /\ PassLeft' < PassLeft
    /\ ~UpdateHandle => PassLeft' = PassLeft \/ Publish

LEMMA StepsLeftOf ==
  /\ StepsLeft["update"] = 7 /\ StepsLeft["announce"] = 6 /\ StepsLeft["mount"] = 5
  /\ StepsLeft["blob"] = 4 /\ StepsLeft["opened"] = 3 /\ StepsLeft["launch"] = 2
  /\ StepsLeft["loaded"] = 1 /\ StepsLeft["notify"] = 0
  /\ StepsLeft["publish"] = 0 /\ StepsLeft["aborted"] = 0
  /\ StepsLeft' = StepsLeft
BY DEF StepsLeft, PCs

LEMMA UpdateGetsOn ==
  ASSUME IInv, UpdateHandle
  PROVE  PassLeft \in Nat /\ PassLeft' \in Nat /\ PassLeft' < PassLeft
<1>1. cur \in Int /\ BlobId \in Int /\ BlobId' = BlobId
  BY Handles DEF IInv, TypeOK, BlobId
<1>2. pc \in Opening \cup {"update"} /\ cur < BlobId
  <2>1. pc \in Opening \cup {"update"}
    BY DEF UpdateHandle, SkipHandle, EjectHandle, KeepHandle, OpenHandle, Announce, MountVolume,
       BlobMountFails, BlobMounts, LaunchFails, BlobOpens, ReadDOL, LaunchDOL, NotifyLaunch, Opening
  <2> QED
    BY <2>1 DEF IInv, Control
<1>3. \/ /\ cur' = cur + 1 /\ pc' \in {"update", "publish"}
      \/ /\ cur' = cur
         /\ \/ pc = "update" /\ pc' \in {"announce", "mount"}
            \/ pc = "announce" /\ pc' = "mount"
            \/ pc = "mount" /\ pc' \in {"blob", "aborted"}
            \/ pc = "blob" /\ pc' = "opened"
            \/ pc = "opened" /\ pc' = "launch"
            \/ pc = "launch" /\ pc' = "loaded"
            \/ pc = "loaded" /\ pc' = "notify"
  BY DEF UpdateHandle, SkipHandle, EjectHandle, KeepHandle, OpenHandle, Announce, MountVolume,
     BlobMountFails, BlobMounts, LaunchFails, BlobOpens, ReadDOL, LaunchDOL, NotifyLaunch, NextHandle
<1>4. StepsLeft[pc] \in 0 .. 7
  BY <1>2, StepsLeftOf DEF Opening
<1>5. PassLeft' = 8 * (BlobId - cur') + StepsLeft[pc']
  BY <1>1, StepsLeftOf DEF PassLeft
<1>6. CASE cur' = cur + 1 /\ pc' \in {"update", "publish"}
  <2>1. StepsLeft[pc'] \in {0, 7}
    BY <1>6, StepsLeftOf
  <2> QED
    BY <1>1, <1>2, <1>4, <1>5, <1>6, <2>1 DEF PassLeft
<1>7. CASE cur' = cur /\ pc' # "update" /\ StepsLeft[pc'] \in 0 .. 6 /\ StepsLeft[pc'] < StepsLeft[pc]
  BY <1>1, <1>2, <1>4, <1>5, <1>7 DEF PassLeft
<1> QED
  BY <1>3, <1>6, <1>7, StepsLeftOf

(* A pass over the handles comes to its end: every step of UpdateHandle    *)
(* gets on, whatever device comes, goes or fails meanwhile, and no other   *)
(* thread and no report of the USB devices sets it back.  What can still   *)
(* hold it up is the wait for a print hook.                                *)
THEOREM PassEnds == Spec => [][PassGetsOn]_vars
<1>1. IInv /\ [Next]_vars => [PassGetsOn]_vars
  <2> SUFFICES ASSUME IInv, [Next]_vars, pc \in InPass, ~UpdateHandle, ~Publish
               PROVE  PassLeft' = PassLeft
    BY UpdateGetsOn DEF PassGetsOn
  <2>1. UNCHANGED <<pc, cur>>
    BY DEF InPass, Opening, Next, Run, Tick, USBChange, USBChangeError, AttachDevice, Rearm,
       EmuAccess, EmuDone, LaunchGame, ReportChange, MoveMedium, vars, threadVars
  <2> QED
    BY <2>1 DEF PassLeft, StepsLeft, BlobId
<1> QED
  BY <1>1, Inductive, PTL DEF Spec
=============================================================================
