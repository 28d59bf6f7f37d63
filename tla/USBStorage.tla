----------------------------- MODULE USBStorage -----------------------------
(***************************************************************************)
(* USB mass storage: src/ios/Disk/USBStorage.cpp, over the bulk messages   *)
(* of src/ios/Disk/USB.cpp, and one storage device.                        *)
(*                                                                         *)
(* A transfer sends a command block, moves the data in chunks and reads a  *)
(* status, each in one bulk message through the buffer m_buffer.  A step   *)
(* ends where a message is issued, so that the other thread may change the *)
(* buffer before it is moved; that the message moves, and that its caller  *)
(* takes the result and issues the next one, is one step.                  *)
(*                                                                         *)
(* The DeviceMgr thread initialises the storage and does I/O on it, and    *)
(* the EmuSDIO thread does I/O.  Nothing keeps them apart.                 *)
(*                                                                         *)
(* A failed transfer is abandoned where it is: what the device still has   *)
(* to say stays in its IN pipe.  The device may keep it there when it gets *)
(* the next command, or drop it.                                           *)
(*                                                                         *)
(* m_tag does not wrap: 2^32 transfers outlast what a pipe holds.          *)
(***************************************************************************)
EXTENDS Integers, Sequences

CONSTANTS
  Tries,       \* attempts at each logical unit, 5 in the code
  MaxLuns,     \* most logical units that Init accepts, 16 in the code
  Devices,     \* the devices that may be attached
  ChunkCounts, \* numbers of data chunks (of 16 KiB) of an I/O
  MaxCalls,    \* bound on the calls of the two threads
  MaxFaults    \* bound on the messages that fail without a reason

ASSUME StorageAssumption ==
  /\ Tries \in Nat \ {0} /\ MaxLuns \in 1 .. 16
  /\ Devices \subseteq [bulk: BOOLEAN, maxLun: 0 .. 255, disks: SUBSET (0 .. 255),
                        attention: SUBSET (0 .. 255), size: Nat]
  /\ ChunkCounts \subseteq Nat /\ MaxCalls \in Nat /\ MaxFaults \in Nat

Threads == {"manager", "sdio"}
Ops == {"testUnitReady", "inquiry", "requestSense", "readCapacity", "read", "write"}

VARIABLES
  id,                 \* whether m_id and the endpoints are those of the device
  lun, blockSize,     \* m_lun, m_blockSize: garbage before Init
  valid,              \* m_valid
  tag, buffer,        \* m_tag, m_buffer
  error,              \* DeviceHandle.error
  pc, xfer,           \* the message and the transfer of each thread
  stage, try,         \* Init: the transfer it waits for, and i of FindLun
  alone,              \* whether no other call overlapped the one under way
  device,             \* the device: whether it has two bulk endpoints, its
                      \* last unit, the units that are disks, its block size
  attention,          \* its units in UNIT ATTENTION
  pipe,               \* its IN pipe
  writing, stored,    \* the write whose data it waits for, the chunks it has
  calls, faults

storageVars == <<id, lun, blockSize, valid, tag, buffer, error>>
initVars == <<stage, try>>
deviceVars == <<attention, pipe, writing, stored>>
boundVars == <<calls, faults>>
vars == <<storageVars, pc, xfer, initVars, alone, device, deviceVars, boundVars>>

-----------------------------------------------------------------------------
(* What goes over the bus: the k-th part of a command, where part 0 is the *)
(* command block, parts 1 to n are its data, and the next one its status.  *)
(* Zero is a cleared buffer, or anything else that is no part of a command. *)
Command(t, op, l, n) == [tag |-> t, op |-> op, lun |-> l, n |-> n]
NoCommand == Command(0, "none", 0, 0)
Part(c, k) == [of |-> c, k |-> k, ok |-> TRUE]
Status(c, ok) == [of |-> c, k |-> c.n + 1, ok |-> ok]
Zero == [of |-> NoCommand, k |-> 0, ok |-> FALSE]
IsCommand(p) == p.of # NoCommand /\ p.k = 0
IsStatus(p) == p.k = p.of.n + 1

Fresh(c) == [cmd |-> c, moved |-> 0, got |-> Zero, own |-> TRUE, ok |-> FALSE]
Idle == Fresh(NoCommand)

(* Before Init the members hold garbage, which may even be the values of an *)
(* earlier device.  The size of an I/O is arbitrary, whatever blockSize is. *)
Init ==
  /\ id \in BOOLEAN /\ lun \in {0, MaxLuns} /\ blockSize = 0
  /\ valid = FALSE /\ tag = 0 /\ buffer = Zero /\ error = FALSE
  /\ pc = [t \in Threads |-> "idle"] /\ xfer = [t \in Threads |-> Idle]
  /\ stage = "none" /\ try = 0 /\ alone = TRUE
  /\ device \in Devices /\ attention = device.attention
  /\ pipe = <<>> /\ writing = NoCommand /\ stored = 0
  /\ calls = 0 /\ faults = 0

-----------------------------------------------------------------------------
(* The device. *)

HasLun(l) == l <= device.maxLun

(* It answers a command at once, after what is left of earlier ones or in  *)
(* its place.  One that it refuses gets a failed status and no data.       *)
Answer(parts) == pipe' = pipe \o parts \/ pipe' = parts

Refuses(c) == \/ ~HasLun(c.lun)
              \/ c.lun \in attention /\ c.op \notin {"inquiry", "requestSense"}

Execute(c) ==
  /\ stored' = 0
  /\ attention' = IF c.op = "requestSense" THEN attention \ {c.lun} ELSE attention
  /\ \/ /\ Refuses(c)
        /\ Answer(<<Status(c, FALSE)>>)
        /\ writing' = NoCommand
     \/ /\ ~Refuses(c) /\ (c.op # "write" \/ c.n = 0)
        /\ Answer([k \in 1 .. c.n + 1 |-> Part(c, k)])
        /\ writing' = NoCommand
     \/ /\ ~Refuses(c) /\ c.op = "write" /\ c.n > 0
        /\ Answer(<<>>)
        /\ writing' = c

(* The data of a write.  A command block is too short and ends it.         *)
Store(p) ==
  /\ writing # NoCommand
  /\ IF IsCommand(p) \/ stored + 1 = writing.n
       THEN /\ pipe' = Append(pipe, Status(writing, ~IsCommand(p)))
            /\ writing' = NoCommand /\ stored' = 0
       ELSE stored' = stored + 1 /\ UNCHANGED <<pipe, writing>>
  /\ UNCHANGED attention

Receive(p) == (IsCommand(p) /\ Execute(p.of)) \/ Store(p)
Accepts(p) == IsCommand(p) \/ writing # NoCommand

Consume == pipe # <<>> /\ pipe' = Tail(pipe) /\ UNCHANGED <<attention, writing, stored>>

-----------------------------------------------------------------------------
(* SCSITransfer. *)

(* The command block is written to the buffer and the first message issued. *)
Transfer(t, op, l, n) ==
  LET c == Command(tag + 1, op, l, n) IN
  /\ tag' = tag + 1
  /\ buffer' = Part(c, 0)
  /\ xfer' = [xfer EXCEPT ![t] = Fresh(c)]
  /\ pc' = [pc EXCEPT ![t] = "command"]

Finish(t, ok) ==
  /\ pc' = [pc EXCEPT ![t] = "ended"]
  /\ xfer' = [xfer EXCEPT ![t].ok = ok]
  /\ UNCHANGED buffer

(* The next message after m chunks, and what it finds in the buffer.       *)
Proceed(t, m) ==
  LET c == xfer[t].cmd IN
  /\ pc' = [pc EXCEPT ![t] = IF m < c.n THEN "data" ELSE "status"]
  /\ buffer' = IF m < c.n /\ c.op = "write" THEN Part(c, m + 1) ELSE Zero

Sends(t) == pc[t] = "command" \/ (pc[t] = "data" /\ xfer[t].cmd.op = "write")
Reads(t) == pc[t] = "status" \/ (pc[t] = "data" /\ xfer[t].cmd.op # "write")

(* The next part in the IN pipe has the length that the message asks for.  *)
Fits(t) ==
  /\ pipe # <<>>
  /\ IF pc[t] = "status" THEN IsStatus(Head(pipe))
     ELSE ~IsStatus(Head(pipe)) /\ Head(pipe).of.op = xfer[t].cmd.op

(* A variant of Matches that does not compare the tag. *)
StatusOK(p) == p.ok

(* The checks of the status: its tag, and its residue and status byte.     *)
Matches(p) == p.of.tag = tag /\ p.ok

SendCommand(t) ==
  /\ pc[t] = "command" /\ id
  /\ Receive(buffer)
  /\ Proceed(t, 0)
  /\ UNCHANGED <<xfer, faults>>

(* One more chunk has moved, and whether it was this transfer's own.       *)
Moved(x, p, own) == [x EXCEPT !.moved = @ + 1, !.got = p, !.own = @ /\ own]

SendData(t) ==
  /\ pc[t] = "data" /\ Sends(t) /\ id
  /\ Store(buffer)
  /\ LET x == xfer[t] IN
     /\ xfer' = [xfer EXCEPT ![t] =
                    Moved(x, x.got, /\ writing = x.cmd /\ stored = x.moved
                                    /\ buffer = Part(x.cmd, x.moved + 1))]
     /\ Proceed(t, x.moved + 1)
  /\ UNCHANGED faults

ReadData(t) ==
  /\ pc[t] = "data" /\ Reads(t) /\ id /\ Fits(t)
  /\ Consume
  /\ LET x == xfer[t] IN
     /\ xfer' = [xfer EXCEPT ![t] =
                    Moved(x, Head(pipe), Head(pipe) = Part(x.cmd, x.moved + 1))]
     /\ Proceed(t, x.moved + 1)
  /\ UNCHANGED faults

ReadStatus(t) ==
  /\ pc[t] = "status" /\ id /\ Fits(t)
  /\ Consume
  /\ Finish(t, Matches(Head(pipe)))
  /\ UNCHANGED faults

(* A message fails: the device is not known or takes no data now, the pipe *)
(* has nothing or something else, or for no reason, with or without effect. *)
MessageFails(t) ==
  /\ \/ /\ Sends(t) /\ ~(id /\ Accepts(buffer))
        /\ UNCHANGED <<deviceVars, faults>>
     \/ /\ Reads(t) /\ ~(id /\ Fits(t))
        /\ (id /\ Consume) \/ UNCHANGED deviceVars
        /\ UNCHANGED faults
     \/ /\ Sends(t) \/ Reads(t)
        /\ faults < MaxFaults /\ faults' = faults + 1
        /\ \/ UNCHANGED deviceVars
           \/ Sends(t) /\ id /\ Receive(buffer)
           \/ Reads(t) /\ id /\ Consume
  /\ Finish(t, FALSE)

Message(t) ==
  /\ SendCommand(t) \/ SendData(t) \/ ReadData(t) \/ ReadStatus(t) \/ MessageFails(t)
  /\ UNCHANGED <<id, lun, blockSize, valid, tag, error, initVars, alone, device, calls>>

-----------------------------------------------------------------------------
(* The calls.  The handle is refused once it has an error.                 *)

Begin(t) ==
  /\ pc[t] = "idle" /\ ~error /\ calls < MaxCalls
  /\ calls' = calls + 1
  /\ alone' = \A u \in Threads \ {t} : pc[u] = "idle"

(* ReadSectors and WriteSectors.  FatFs initialises a volume before it     *)
(* uses it; EmuSDIO does not ask.                                          *)
BeginIO(t, op, n) ==
  /\ Begin(t) /\ (t = "manager" => valid)
  /\ Transfer(t, op, lun, n)
  /\ UNCHANGED <<lun, id, blockSize, valid, error, initVars, device, deviceVars, faults>>

EndIO(t) ==
  /\ pc[t] = "ended" /\ (t = "manager" => stage = "none")
  /\ pc' = [pc EXCEPT ![t] = "idle"]
  /\ error' = (error \/ ~xfer[t].ok)
  /\ xfer' = [xfer EXCEPT ![t] = Idle]   \* dead until the next transfer
  /\ UNCHANGED <<id, lun, blockSize, valid, tag, buffer, initVars, alone, device,
                 deviceVars, boundVars>>

(* Init looks for its endpoints and sends GET_MAX_LUN, a control message.  *)
BeginInit ==
  /\ Begin("manager") /\ ~valid
  /\ IF device.bulk
       THEN /\ id' = TRUE /\ stage' = "luns"
            /\ pc' = [pc EXCEPT !["manager"] = "control"]
            /\ UNCHANGED error
       ELSE error' = TRUE /\ UNCHANGED <<id, stage, pc>>
  /\ UNCHANGED <<lun, blockSize, valid, tag, buffer, xfer, try, device, deviceVars, faults>>

EndInit(ok) ==
  /\ pc' = [pc EXCEPT !["manager"] = "idle"]
  /\ stage' = "none" /\ try' = 0
  /\ valid' = ok /\ error' = (error \/ ~ok)
  /\ xfer' = [xfer EXCEPT !["manager"] = Idle]
  /\ UNCHANGED <<tag, buffer>>

(* The next transfer of Init. *)
InitTransfer(s, op, l, n) ==
  /\ stage' = s
  /\ Transfer("manager", op, l, n)
  /\ UNCHANGED <<valid, error>>

LunCount == (device.maxLun + 1) % 256

GetLunCount ==
  /\ pc["manager"] = "control"
  /\ \/ /\ LunCount \in 1 .. MaxLuns
        /\ lun' = 0 /\ try' = 0
        /\ InitTransfer("ready", "testUnitReady", 0, 0)
        /\ UNCHANGED faults
     \/ /\ LunCount \notin 1 .. MaxLuns
        /\ EndInit(FALSE) /\ UNCHANGED <<lun, faults>>
     \/ /\ faults < MaxFaults /\ faults' = faults + 1
        /\ EndInit(FALSE) /\ UNCHANGED lun
  /\ UNCHANGED <<id, blockSize, alone, device, deviceVars, calls>>

Ended(s) == pc["manager"] = "ended" /\ stage = s
Passed == xfer["manager"].ok
Response == xfer["manager"].got   \* what the transfer copied to its caller

initFrame == <<id, alone, device, deviceVars, boundVars>>

(* A variant of Retry that does not ask for the sense data. *)
RetryAtOnce ==
  /\ UNCHANGED lun /\ try' = IF try + 1 < Tries THEN try + 1 ELSE 0
  /\ IF try + 1 < Tries THEN InitTransfer("ready", "testUnitReady", lun, 0) ELSE EndInit(FALSE)

(* InitLun failed: RequestSense, which may clear a UNIT ATTENTION.         *)
Retry == InitTransfer("sense", "requestSense", lun, 1) /\ UNCHANGED <<lun, try>>

AfterTestUnitReady ==
  /\ Ended("ready")
  /\ \/ Passed /\ InitTransfer("inquiry", "inquiry", lun, 1) /\ UNCHANGED <<lun, try>>
     \/ ~Passed /\ Retry
  /\ UNCHANGED <<blockSize, initFrame>>

(* A variant of IsDisk that takes any unit. *)
IsUnit == HasLun(Response.of.lun)

(* The unit that the response describes is a direct access device.         *)
IsDisk == Response.of.lun \in device.disks

AfterInquiry ==
  /\ Ended("inquiry")
  /\ \/ /\ Passed /\ IsDisk
        /\ InitTransfer("capacity", "readCapacity", lun, 1) /\ UNCHANGED <<lun, try>>
     \/ ~(Passed /\ IsDisk) /\ Retry
  /\ UNCHANGED <<blockSize, initFrame>>

(* A variant of MoreTries that makes one too many. *)
OneMoreTry == try < Tries

MoreTries == try + 1 < Tries

(* The loops of FindLun, whose variable is m_lun itself.                   *)
AfterRequestSense ==
  /\ Ended("sense")
  /\ \/ /\ MoreTries
        /\ try' = try + 1 /\ UNCHANGED lun
        /\ InitTransfer("ready", "testUnitReady", lun, 0)
     \/ /\ ~MoreTries /\ lun + 1 < LunCount
        /\ lun' = lun + 1 /\ try' = 0
        /\ InitTransfer("ready", "testUnitReady", lun + 1, 0)
     \/ /\ ~MoreTries /\ lun + 1 >= LunCount
        /\ lun' = lun + 1
        /\ EndInit(FALSE)
  /\ UNCHANGED <<blockSize, initFrame>>

AfterReadCapacity ==
  /\ Ended("capacity")
  /\ UNCHANGED lun
  /\ \/ /\ Passed
        /\ blockSize' = device.size
        /\ InitTransfer("last", "testUnitReady", lun, 0) /\ UNCHANGED try
     \/ ~Passed /\ EndInit(FALSE) /\ UNCHANGED blockSize
  /\ UNCHANGED initFrame

AfterLastTest ==
  /\ Ended("last")
  /\ EndInit(Passed)
  /\ UNCHANGED <<lun, blockSize, initFrame>>

InitNext == BeginInit \/ GetLunCount \/ AfterTestUnitReady \/ AfterInquiry
            \/ AfterRequestSense \/ AfterReadCapacity \/ AfterLastTest

Next ==
  \/ InitNext
  \/ \E t \in Threads :
       \/ Message(t) \/ EndIO(t)
       \/ \E op \in {"read", "write"}, n \in ChunkCounts : BeginIO(t, op, n)

Spec == Init /\ [][Next]_vars
-----------------------------------------------------------------------------
Commands == [tag: 0 .. tag, op: Ops \cup {"none"}, lun: 0 .. MaxLuns, n: Nat]
Parts == [of: Commands, k: Nat, ok: BOOLEAN]
Transfers == [cmd: Commands, moved: Nat, got: Parts, own: BOOLEAN, ok: BOOLEAN]

(* The type invariant of the storage, its callers and its device.          *)
TypeOK ==
  /\ id \in BOOLEAN /\ lun \in 0 .. MaxLuns /\ blockSize \in Nat
  /\ valid \in BOOLEAN /\ tag \in Nat /\ buffer \in Parts /\ error \in BOOLEAN
  /\ pc \in [Threads -> {"idle", "control", "command", "data", "status", "ended"}]
  /\ xfer \in [Threads -> Transfers]
  /\ stage \in {"none", "luns", "ready", "inquiry", "sense", "capacity", "last"}
  /\ try \in 0 .. Tries - 1
  /\ alone \in BOOLEAN
  /\ device \in Devices /\ attention \subseteq device.attention
  /\ pipe \in Seq(Parts) /\ writing \in Commands /\ stored \in Nat
  /\ calls \in 0 .. MaxCalls /\ faults \in 0 .. MaxFaults

(* A transfer of a call that no other call overlapped succeeds only with   *)
(* its own data: each chunk that a read copied is the answer to this very  *)
(* command, in order, and each chunk of a write reached the device for     *)
(* this command, whatever earlier transfers left in the pipe or in the     *)
(* device (lines 67-133).                                                  *)
OwnData == \A t \in Threads : pc[t] = "ended" /\ xfer[t].ok /\ alone => xfer[t].own

(* Init chooses only a unit that is a direct access device, and reads its  *)
(* block size, when no I/O of EmuSDIO ran at the same time (lines 211-284). *)
ChoosesDisk ==
  [][~valid /\ valid' /\ alone =>
       /\ lun \in device.disks /\ HasLun(lun)
       /\ blockSize = device.size]_vars

(* Init does not refuse a device that has a disk, not even one that reports *)
(* a UNIT ATTENTION first, when nothing fails and no I/O of EmuSDIO ran at *)
(* the same time (lines 192-209).                                          *)
DiskAccepted ==
  [][stage # "none" /\ stage' = "none" /\ ~valid' /\ alone /\ faults' = 0 =>
       \/ LunCount \notin 1 .. MaxLuns
       \/ \A l \in device.disks : ~HasLun(l)]_vars

(* "Sectors are always 512 bytes" (src/ios/Disk/FatFS.cpp:67): what FatFs  *)
(* is told, and the size for which all callers of the storage have room.   *)
SectorsAre512 == valid => blockSize = 512
=============================================================================
