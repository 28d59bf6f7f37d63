------------------------------- MODULE EmuHID -------------------------------
(***************************************************************************)
(* The USB HID proxy and the reload of a title: src/ios/CTGP/EmuHID.cpp    *)
(* and the reload in src/ios/IOS/EmuES.cpp.                                *)
(*                                                                         *)
(* The game polls for changes of the HID devices with a request that stays *)
(* open until there is one.  EmuHID keeps such a request at the real HID   *)
(* manager and passes the answers on.  When the game wants to reload IOS,  *)
(* EmuES closes the game's handles instead, answers its open request, and  *)
(* has the device list reported once more to the title that runs next.     *)
(*                                                                         *)
(* The threads of EmuHID and EmuES have one priority, so that one of them  *)
(* runs until it blocks: a step ends at a receive, a synchronous call, a   *)
(* sleep, and at ioctlAsync, which lets the HID manager run.               *)
(*                                                                         *)
(* A device list stands for itself and for its length, 0 for the empty     *)
(* one.                                                                    *)
(***************************************************************************)
EXTENDS Integers, Sequences

CONSTANTS
  Lists,       \* device lists, 0 among them
  MaxTitles    \* bound on the titles that run one after the other

ASSUME HIDAssumption == Lists \subseteq Nat /\ 0 \in Lists /\ MaxTitles \in Nat \ {0}

Titles == 1 .. MaxTitles
None == 0
Error == -1
Calls == {"open", "close", "finish", "shutdown", "other"}

VARIABLES
  hidPc,             \* EmuHID thread: "receive", "busy", "attach", "answer"
  hidQueue,
  deviceChangeReq,   \* s_deviceChangeReq: whose request it is, or None
  available,         \* s_deviceChangeAvailable
  devices, deviceCount,    \* s_devices, s_deviceCount
  result,            \* s_cbReq.result, which the manager writes
  esPc,              \* EmuES thread: "idle", "closing", "closed", "suspend"
  armed, reported,   \* HID manager: has a request; the list it gave last
  plugged,           \* the HID devices
  title,             \* the title that runs
  fd,                \* its handle: "closed", "open", "off" (shut down)
  call,              \* its synchronous call under way, or "none"
  unanswered,        \* the titles whose device change request is open
  told,              \* the last list and length that the title was given
  shut               \* whether the title has shut the device down

hidVars == <<hidPc, hidQueue, deviceChangeReq, available, devices, deviceCount, result>>
managerVars == <<armed, reported, plugged>>
gameVars == <<title, fd, call, unanswered, told, shut>>
emuHIDVars == <<hidVars, esPc, managerVars, gameVars>>

HIDInit ==
  /\ hidPc = "receive" /\ hidQueue = <<>>
  /\ deviceChangeReq = None /\ available = FALSE
  /\ devices = 0 /\ deviceCount = 0 /\ result = 0
  /\ esPc = "idle"
  /\ armed = TRUE /\ reported = Error /\ plugged \in Lists
  /\ title = 1 /\ fd = "closed" /\ call = "none" /\ unanswered = {} /\ told = <<>>
  /\ shut = FALSE

-----------------------------------------------------------------------------
(* The thread of EmuHID. *)

Receive(kind) ==
  /\ hidPc = "receive" /\ hidQueue # <<>> /\ Head(hidQueue)[1] = kind
  /\ hidQueue' = Tail(hidQueue)

(* A reply to a device change request: the title learns of the first n     *)
(* devices of list d.                                                      *)
Reply(t, d, n) ==
  /\ unanswered' = unanswered \ {t}
  /\ told' = IF t # title THEN told ELSE IF n <= 0 THEN <<n, n>> ELSE <<d, n>>

(* A variant of OpenClose that keeps a close while a request is open. *)
CloseAfterChange ==
  /\ Receive("open") \/ Receive("close")
  /\ IF Head(hidQueue)[1] = "close" /\ esPc = "closing"
       THEN /\ esPc' = IF deviceChangeReq = None THEN "closed" ELSE esPc
            /\ UNCHANGED call
       ELSE call' = "none" /\ UNCHANGED esPc
  /\ UNCHANGED <<hidPc, deviceChangeReq, available, devices, deviceCount, result,
                 managerVars, title, fd, unanswered, told, shut>>

(* Open and Close are answered at once.  A close may be the game's or be   *)
(* made for it by the reload.                                              *)
OpenClose ==
  /\ Receive("open") \/ Receive("close")
  /\ IF Head(hidQueue)[1] = "close" /\ esPc = "closing"
       THEN esPc' = "closed" /\ UNCHANGED call
       ELSE call' = "none" /\ UNCHANGED esPc
  /\ UNCHANGED <<hidPc, deviceChangeReq, available, devices, deviceCount, result,
                 managerVars, title, fd, unanswered, told, shut>>

(* A variant of GetDeviceChange that keeps a request that it has answered. *)
AnswerAndEnqueue ==
  /\ Receive("change")
  /\ LET t == Head(hidQueue)[2] IN
     /\ deviceChangeReq' = t
     /\ IF available
          THEN available' = FALSE /\ Reply(t, devices, deviceCount)
          ELSE UNCHANGED <<available, unanswered, told>>
  /\ UNCHANGED <<hidPc, devices, deviceCount, result, esPc, managerVars, title, fd, call,
                 shut>>

(* A list that nobody has asked for yet answers at once. *)
GetDeviceChange ==
  /\ Receive("change")
  /\ LET t == Head(hidQueue)[2] IN
     \/ /\ available
        /\ available' = FALSE
        /\ Reply(t, devices, deviceCount)
        /\ deviceChangeReq' = None
     \/ /\ ~available
        /\ deviceChangeReq' = t
        /\ UNCHANGED <<available, unanswered, told>>
  /\ UNCHANGED <<hidPc, devices, deviceCount, result, esPc, managerVars, title, fd, call,
                 shut>>

ReplyPending ==
  IF deviceChangeReq = None
    THEN UNCHANGED <<deviceChangeReq, unanswered, told>>
    ELSE deviceChangeReq' = None /\ Reply(deviceChangeReq, devices, 0)

Shutdown ==
  /\ Receive("shutdown")
  /\ ReplyPending
  /\ call' = "none"
  /\ UNCHANGED <<hidPc, available, devices, deviceCount, result, esPc, managerVars, title,
                 fd, shut>>

(* AttachFinish sleeps 30 ms, other calls are forwarded. *)
Forward ==
  /\ Receive("finish") \/ Receive("other")
  /\ hidPc' = "busy"
  /\ UNCHANGED <<deviceChangeReq, available, devices, deviceCount, result,
                 esPc, managerVars, gameVars>>

Forwarded ==
  /\ hidPc = "busy"
  /\ hidPc' = "receive" /\ call' = "none"
  /\ UNCHANGED <<hidQueue, deviceChangeReq, available, devices, deviceCount, result,
                 esPc, managerVars, title, fd, unanswered, told, shut>>

(* A variant of DeviceChange that takes an error for a count. *)
UncheckedChange ==
  /\ Receive("reply")
  /\ deviceCount' = result /\ hidPc' = "attach"
  /\ UNCHANGED <<deviceChangeReq, available, devices, result, esPc, managerVars, gameVars>>

(* The answer of the HID manager.  A failure ends the polling. *)
DeviceChange ==
  /\ Receive("reply")
  /\ IF result >= 0
       THEN deviceCount' = result /\ hidPc' = "attach"
       ELSE deviceCount' = 0 /\ hidPc' = "answer"
  /\ UNCHANGED <<deviceChangeReq, available, devices, result, esPc, managerVars, gameVars>>

(* The devices are attached, and the next change is asked for. *)
Rearm ==
  /\ hidPc = "attach"
  /\ hidPc' = "answer" /\ armed' = TRUE
  /\ UNCHANGED <<hidQueue, deviceChangeReq, available, devices, deviceCount, result,
                 esPc, reported, plugged, gameVars>>

(* A change after Rearm is in s_devices and in req->result already.        *)
AnswerChange ==
  /\ hidPc = "answer"
  /\ hidPc' = "receive"
  /\ IF deviceChangeReq # None
       THEN /\ Reply(deviceChangeReq, devices, result)
            /\ available' = FALSE /\ deviceChangeReq' = None
       ELSE /\ available' = TRUE
            /\ UNCHANGED <<deviceChangeReq, unanswered, told>>
  /\ UNCHANGED <<hidQueue, devices, deviceCount, result, esPc, managerVars, title, fd,
                 call, shut>>

HIDThread ==
  OpenClose \/ GetDeviceChange \/ Shutdown \/ Forward \/ Forwarded
  \/ DeviceChange \/ Rearm \/ AnswerChange

-----------------------------------------------------------------------------
(* A variant of CloseAllPPC that does not wait for the handles. *)
CloseWithoutWait ==
  /\ esPc = "idle" /\ call = "none" /\ title < MaxTitles
  /\ fd' = "closed" /\ esPc' = "closed" /\ UNCHANGED hidQueue
  /\ UNCHANGED <<hidPc, deviceChangeReq, available, devices, deviceCount, result,
                 managerVars, title, call, unanswered, told, shut>>

(* The thread of EmuES.  LaunchTitle of an IOS, or GetNumTicketViews of    *)
(* one: a thread of the PowerPC's process closes its handles, while EmuES  *)
(* waits.                                                                  *)
CloseAllPPC ==
  /\ esPc = "idle" /\ call = "none" /\ title < MaxTitles
  /\ fd' = "closed"
  /\ IF fd = "closed"
       THEN esPc' = "closed" /\ UNCHANGED hidQueue
       ELSE esPc' = "closing" /\ hidQueue' = Append(hidQueue, <<"close", None>>)
  /\ UNCHANGED <<hidPc, deviceChangeReq, available, devices, deviceCount, result,
                 managerVars, title, call, unanswered, told, shut>>

(* EmuHID::Reload up to the calls that suspend the devices. *)
Reload ==
  /\ esPc = "closed"
  /\ ReplyPending
  /\ esPc' = "suspend"
  /\ UNCHANGED <<hidPc, hidQueue, available, devices, deviceCount, result,
                 managerVars, title, fd, call, shut>>

(* A variant of Reloaded that leaves the list to the next change. *)
ReloadedQuietly ==
  /\ esPc = "suspend"
  /\ esPc' = "idle"
  /\ title' = title + 1 /\ told' = <<>> /\ shut' = FALSE
  /\ UNCHANGED <<hidVars, managerVars, fd, call, unanswered>>

(* The device change is made available; the next title starts. *)
Reloaded ==
  /\ esPc = "suspend"
  /\ available' = TRUE
  /\ esPc' = "idle"
  /\ title' = title + 1 /\ told' = <<>> /\ shut' = FALSE
  /\ UNCHANGED <<hidPc, hidQueue, deviceChangeReq, devices, deviceCount, result,
                 managerVars, fd, call, unanswered>>

ESThread == Reload \/ Reloaded

-----------------------------------------------------------------------------
(* The game: external.  It has one synchronous call and one request for a  *)
(* device change under way at a time, and stops asking when it shuts down. *)
Call(kind) ==
  /\ esPc = "idle" /\ call = "none"
  /\ call' = kind
  /\ hidQueue' = Append(hidQueue, <<kind, None>>)
  /\ UNCHANGED <<hidPc, deviceChangeReq, available, devices, deviceCount, result,
                 esPc, managerVars, title, unanswered, told>>

OpenHID == fd = "closed" /\ fd' = "open" /\ UNCHANGED shut /\ Call("open")
CloseHID ==
  fd # "closed" /\ title \notin unanswered /\ fd' = "closed" /\ UNCHANGED shut /\ Call("close")
ShutdownHID == fd = "open" /\ fd' = "off" /\ shut' = TRUE /\ Call("shutdown")
OtherCall == fd = "open" /\ UNCHANGED <<fd, shut>> /\ (Call("finish") \/ Call("other"))

Ask ==
  /\ fd = "open" /\ call # "open" /\ title \notin unanswered
  /\ unanswered' = unanswered \cup {title}
  /\ hidQueue' = Append(hidQueue, <<"change", title>>)
  /\ UNCHANGED <<hidPc, deviceChangeReq, available, devices, deviceCount, result,
                 esPc, managerVars, title, fd, call, told, shut>>

Game == OpenHID \/ CloseHID \/ ShutdownHID \/ OtherCall \/ Ask \/ CloseAllPPC

(* The HID manager answers its request when the devices are not the ones   *)
(* it reported, or fails.  It writes the list and the result of the one    *)
(* request, s_cbReq, before the thread reads the message.                  *)
ReportChange ==
  /\ armed /\ plugged # reported
  /\ armed' = FALSE /\ reported' = plugged
  /\ devices' = plugged /\ result' = plugged
  /\ hidQueue' = Append(hidQueue, <<"reply", None>>)
  /\ UNCHANGED <<hidPc, deviceChangeReq, available, deviceCount, esPc, plugged, gameVars>>

ReportError ==
  /\ armed /\ armed' = FALSE
  /\ result' = Error
  /\ hidQueue' = Append(hidQueue, <<"reply", None>>)
  /\ UNCHANGED <<hidPc, deviceChangeReq, available, devices, deviceCount,
                 esPc, reported, plugged, gameVars>>

(* The user plugs devices in and out. *)
PlugDevice(d) ==
  /\ plugged' = d
  /\ UNCHANGED <<hidVars, esPc, armed, reported, gameVars>>

HIDNext ==
  \/ HIDThread \/ ESThread \/ Game
  \/ ReportChange \/ ReportError
  \/ \E d \in Lists : PlugDevice(d)

(* The threads and the manager run; the game goes on asking.  It need not  *)
(* open the device, shut down or reload.                                   *)
HIDSpec ==
  /\ HIDInit /\ [][HIDNext]_emuHIDVars
  /\ WF_emuHIDVars(HIDThread) /\ WF_emuHIDVars(ESThread)
  /\ WF_emuHIDVars(ReportChange) /\ WF_emuHIDVars(Ask)

-----------------------------------------------------------------------------
Messages ==
  ((Calls \cup {"reply"}) \X {None}) \cup ({"change"} \X Titles)

(* The type invariant.  The queue of 8 never fills (EmuHID.cpp:21).        *)
HIDTypeOK ==
  /\ hidPc \in {"receive", "busy", "attach", "answer"}
  /\ hidQueue \in Seq(Messages) /\ Len(hidQueue) <= 8
  /\ deviceChangeReq \in Titles \cup {None} /\ available \in BOOLEAN
  /\ devices \in Lists /\ deviceCount \in Lists /\ result \in Lists \cup {Error}
  /\ esPc \in {"idle", "closing", "closed", "suspend"}
  /\ armed \in BOOLEAN /\ reported \in Lists \cup {Error} /\ plugged \in Lists
  /\ title \in Titles /\ fd \in {"closed", "open", "off"}
  /\ call \in Calls \cup {"none"} /\ unanswered \subseteq Titles
  /\ told \in {<<>>} \cup ((Lists \cup {Error}) \X (Lists \cup {Error}))
  /\ shut \in BOOLEAN

Queued(t) == {i \in DOMAIN hidQueue : hidQueue[i] = <<"change", t>>}

(* An open request of the game is held in exactly one place, the queue or  *)
(* s_deviceChangeReq, and nothing that was answered is held: none is       *)
(* overwritten, lost or answered twice, whatever the reload, a shutdown    *)
(* and an answer of the HID manager do at the same time.                   *)
HeldOnce ==
  \A t \in Titles :
    /\ t \in unanswered <=> Queued(t) # {} \/ deviceChangeReq = t
    /\ \A i, j \in Queued(t) : i = j
    /\ Queued(t) # {} => deviceChangeReq # t

(* When the reload is over, no request of an earlier title is open: its    *)
(* memory belongs to the next one (EmuES closes the handles before         *)
(* EmuHID::Reload answers what is pending).                                *)
NoOldRequest == esPc = "idle" => unanswered \subseteq {title}

(* A title that keeps the device open, and never shut it down, learns of   *)
(* the devices that are plugged once they do not change any more; also one *)
(* that starts after a reload when nothing has changed ("Force the device  *)
(* change to be available", EmuHID.cpp:178).  A failure of the HID manager *)
(* ends the polling.                                                       *)
Failed == ~armed /\ result = Error

GameLearns ==
  \A t \in Titles, d \in Lists :
    (title = t /\ fd = "open" /\ plugged = d) ~>
      (told = <<d, d>> \/ title # t \/ fd # "open" \/ shut \/ plugged # d \/ Failed)

(* A reload ends: the thread that closes the handles is served.            *)
ReloadEnds == esPc = "closing" ~> esPc = "idle"
=============================================================================
