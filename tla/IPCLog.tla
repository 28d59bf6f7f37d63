------------------------------- MODULE IPCLog -------------------------------
(***************************************************************************)
(* The channel between the IOS module and the PowerPC side, and the start  *)
(* of the game that it synchronises: ios/IOS/IPCLog.cpp, the IPCLog class  *)
(* of channel/Main/IOSBoot.cpp, and the threads that use them.             *)
(*                                                                         *)
(* A thread of the PowerPC side keeps one request, the print hook, at the  *)
(* IPCLog resource manager.  An IOS thread that has something to say takes *)
(* the hook from a queue of capacity 1, waiting for it if need be, writes  *)
(* to the buffer that came with it and replies to it; the PowerPC thread   *)
(* handles the reply and registers the hook again.  The main thread of the *)
(* PowerPC side opens the channel, asks for the game to start, waits until *)
(* it has counted five notices, and closes the channel.                    *)
(*                                                                         *)
(* The hook thread has a higher priority than the main thread, so handling *)
(* a reply and registering the hook again is one step of the PowerPC side. *)
(* Prints are compiled out of the release build.  The checks of the path,  *)
(* of buffer sizes and of alignment always pass, the PowerPC side being    *)
(* the only client, and ipcLogEnabled is set before Run handles an Open.   *)
(***************************************************************************)
EXTENDS Integers, Sequences

CONSTANTS
  States,       \* the launch states that DeviceMgr sends
  Notice,       \* the other kind of message
  Nothing,      \* no message
  MaxTries,     \* how often the PowerPC side tries to open (1000 in the code)
  MaxLaunches,  \* bound on Notify(0), sent for every launch of a main.dol
  MaxStates     \* bound on SetLaunchState

(* The notifying threads, named by the id they give to Notify.             *)
DeviceMgr == 0
EmuHID    == 1
EmuES     == 2
EmuSDIO   == 3
System    == 4
Senders   == 0 .. 4
Messages  == States \cup {Notice}
CloseReply == [from |-> -1, msg |-> Nothing]
NoReply    == [from |-> -2, msg |-> Nothing]
Nobody     == -1

ASSUME ChannelAssumption ==
  /\ "OK" \in States
  /\ Notice \notin States /\ Nothing \notin Messages
  /\ MaxTries \in Nat \ {0} /\ MaxLaunches \in Nat /\ MaxStates \in Nat

VARIABLES
  \* IPCLog thread: where it is, m_ipcQueue, and the number of requests in
  \* m_responseQueue and in m_startRequestQueue
  logPc, ipcQueue, response, startQueue,
  \* the message each thread is waiting to send; the threads that sent their
  \* only notice; whether the System thread started the game's services
  pending, notified, started,
  \* the thread that has received the hook and not replied yet, and what it
  \* wrote to the hook's buffer (logBuffer of the PowerPC side)
  holder, buffer,
  \* bounded counts: launches (and so g_emuDevId # -1), launch states
  launches, states,
  \* the reply to the hook that the PowerPC side has not handled yet
  reply,
  \* PowerPC side: main thread, attempts to open, m_eventCount,
  \* m_triggerEventCount, messages in eventWaitQueue, LaunchState.Error
  ppc, tries, eventCount, trigger, eventQueue, shown

logVars  == <<logPc, ipcQueue, response, startQueue>>
iosVars  == <<pending, notified, started, holder, buffer, launches, states>>
ppcVars  == <<ppc, tries, eventCount, trigger, eventQueue, shown>>
vars == <<logVars, iosVars, reply, ppcVars>>

Init ==
  /\ logPc = "off" /\ ipcQueue = <<>> /\ response = 0 /\ startQueue = 0
  /\ pending = [s \in Senders |-> Nothing] /\ notified = {} /\ started = FALSE
  /\ holder = Nobody /\ buffer = Nothing
  /\ launches = 0 /\ states = 0
  /\ reply = NoReply
  /\ ppc = "open" /\ tries = 0 /\ eventCount = 0 /\ trigger = -1
  /\ eventQueue = 0 /\ shown = "OK"

-----------------------------------------------------------------------------
(* IOS, IPCLog thread.  Entry registers the resource manager and runs it.   *)
Entry ==
  /\ logPc = "off" /\ logPc' = "receive"
  /\ UNCHANGED <<ipcQueue, response, startQueue, iosVars, reply, ppcVars>>

(* HandleRequest receives request r.                                        *)
Receive(r) ==
  /\ logPc = "receive" /\ ipcQueue # <<>> /\ Head(ipcQueue) = r
  /\ ipcQueue' = Tail(ipcQueue)

(* The reply to a request of the main thread lets it go on.                 *)
Answer(from, to) ==
  /\ ppc = from /\ ppc' = to
  /\ UNCHANGED <<tries, eventCount, trigger, eventQueue, shown>>

HandleOpen ==
  /\ Receive("open") /\ Answer("opening", "opened")
  /\ UNCHANGED <<logPc, response, startQueue, iosVars, reply>>

HandleSetTime ==
  /\ Receive("time") /\ Answer("timing", "timed")
  /\ UNCHANGED <<logPc, response, startQueue, iosVars, reply>>

(* RegisterPrintHook: queued for the next message; no reply yet.            *)
HandleHook ==
  /\ Receive("hook")
  /\ response = 0 /\ response' = 1
  /\ UNCHANGED <<logPc, startQueue, iosVars, reply, ppcVars>>

HandleStart ==
  /\ Receive("start") /\ Answer("starting", "waiting")
  /\ startQueue = 0 /\ startQueue' = 1
  /\ UNCHANGED <<logPc, response, iosVars, reply>>

(* Close sleeps, so that requests under way finish; it then takes the hook  *)
(* itself, and only then replies.                                           *)
HandleClose ==
  /\ Receive("close") /\ logPc' = "sleep"
  /\ UNCHANGED <<response, startQueue, iosVars, reply, ppcVars>>

WakeClose ==
  /\ logPc = "sleep" /\ logPc' = "close"
  /\ UNCHANGED <<ipcQueue, response, startQueue, iosVars, reply, ppcVars>>

(* A mutant: Close does not wait for the hook.                              *)
CloseAtOnce ==
  /\ logPc = "close" /\ logPc' = "receive"
  /\ Answer("closing", "game")
  /\ UNCHANGED <<ipcQueue, response, startQueue, iosVars, reply>>

CloseHook ==
  /\ logPc = "close" /\ logPc' = "receive"
  /\ response = 1 /\ response' = 0
  /\ reply' = CloseReply
  /\ Answer("closing", "game")
  /\ UNCHANGED <<ipcQueue, startQueue, iosVars>>

Run == Entry \/ HandleOpen \/ HandleSetTime \/ HandleHook \/ HandleStart
       \/ HandleClose \/ WakeClose \/ CloseHook

-----------------------------------------------------------------------------
(* IOS, the other threads.  A thread that calls Notify or SetLaunchState    *)
(* waits until it has the hook.                                             *)
Wait(s, m) ==
  /\ logPc # "off" /\ pending[s] = Nothing
  /\ pending' = [pending EXCEPT ![s] = m]

(* DeviceMgr sets g_emuDevId and notifies for every launch.                 *)
NotifyLaunch ==
  /\ Wait(DeviceMgr, Notice)
  /\ launches < MaxLaunches /\ launches' = launches + 1
  /\ UNCHANGED <<logVars, notified, started, holder, buffer, states, reply, ppcVars>>

SetLaunchState(e) ==
  /\ Wait(DeviceMgr, e)
  /\ states < MaxStates /\ states' = states + 1
  /\ UNCHANGED <<logVars, notified, started, holder, buffer, launches, reply, ppcVars>>

(* System starts EmuHID and EmuES before, EmuSDIO after the start request;  *)
(* EmuSDIO waits for g_emuDevId.  Each of the four notifies once.           *)
Notify(s) ==
  /\ s \notin notified
  /\ s \in {System, EmuSDIO} => started
  /\ s = EmuSDIO => launches > 0
  /\ Wait(s, Notice)
  /\ notified' = notified \cup {s}
  /\ UNCHANGED <<logVars, started, holder, buffer, launches, states, reply, ppcVars>>

WaitForStartRequest ==
  /\ startQueue = 1 /\ startQueue' = 0
  /\ started' = TRUE
  /\ UNCHANGED <<logPc, ipcQueue, response, pending, notified, holder, buffer,
                 launches, states, reply, ppcVars>>

(* A mutant: the hook stays in the queue after it was received.            *)
PeekHook == response = 1 /\ UNCHANGED response

ReceiveHook == response = 1 /\ response' = 0

(* Notify, SetLaunchState: a waiting thread receives the hook ...           *)
TakeHook(s) ==
  /\ pending[s] # Nothing /\ holder # s
  /\ ReceiveHook
  /\ holder' = s
  /\ UNCHANGED <<logPc, ipcQueue, startQueue, pending, notified, started, buffer,
                 launches, states, reply, ppcVars>>

(* ... writes its message to the buffer of the hook ...                     *)
Write(s) ==
  /\ holder = s /\ buffer = Nothing
  /\ buffer' = pending[s]
  /\ UNCHANGED <<logVars, pending, notified, started, holder, launches, states, reply,
                 ppcVars>>

(* ... and replies.                                                         *)
Send(s) ==
  /\ holder = s /\ buffer # Nothing
  /\ reply' = [from |-> s, msg |-> buffer]
  /\ holder' = Nobody /\ buffer' = Nothing
  /\ pending' = [pending EXCEPT ![s] = Nothing]
  /\ UNCHANGED <<logVars, notified, started, launches, states, ppcVars>>

-----------------------------------------------------------------------------
(* PowerPC, hook thread.  A mutant: the count is compared before this one.  *)
FiresLate == eventCount = trigger

(* handleEvent: this notice makes the count reach the trigger.              *)
Fires == eventCount + 1 = trigger

HandleNotice ==
  /\ reply.msg = Notice
  /\ eventCount' = eventCount + 1
  /\ \/ Fires /\ trigger' = -1 /\ eventQueue = 0 /\ eventQueue' = 1
     \/ ~Fires /\ UNCHANGED <<trigger, eventQueue>>
  /\ UNCHANGED shown

(* A mutant: the launch state is read but not stored.                       *)
IgnoreLaunchState ==
  /\ reply.msg \in States
  /\ UNCHANGED <<shown, eventCount, trigger, eventQueue>>

HandleLaunchState ==
  /\ reply.msg \in States
  /\ shown' = reply.msg
  /\ UNCHANGED <<eventCount, trigger, eventQueue>>

(* A mutant: handleEvent ends the loop after a launch state.                *)
RegisterAfterNotice ==
  ipcQueue' = IF reply.msg = Notice THEN Append(ipcQueue, "hook") ELSE ipcQueue

RegisterHook == ipcQueue' = Append(ipcQueue, "hook")

HandleEvent ==
  /\ reply # NoReply /\ reply # CloseReply
  /\ HandleNotice \/ HandleLaunchState
  /\ reply' = NoReply
  /\ RegisterHook
  /\ UNCHANGED <<logPc, response, startQueue, iosVars, ppc, tries>>

(* PowerPC, main thread.  IOSBoot::IPCLog::IPCLog: the open is retried while *)
(* the resource manager is not there.  A mutant: one attempt too many.      *)
RetryInclusive == tries <= MaxTries /\ tries' = tries + 1 /\ UNCHANGED ppc

Retry ==
  \/ /\ tries < MaxTries - 1
     /\ tries' = tries + 1 /\ UNCHANGED ppc
  \/ /\ tries = MaxTries - 1
     /\ tries' = tries + 1 /\ ppc' = "aborted"

OpenFails ==
  /\ ppc = "open" /\ logPc = "off"
  /\ Retry
  /\ UNCHANGED <<logVars, iosVars, reply, eventCount, trigger, eventQueue, shown>>

(* A synchronous request r of the main thread.                              *)
Call(from, r, to) ==
  /\ ppc = from /\ ppc' = to
  /\ ipcQueue' = Append(ipcQueue, r)
  /\ UNCHANGED <<logPc, response, startQueue, iosVars, reply, tries, eventCount,
                 eventQueue, shown>>

Open == logPc # "off" /\ Call("open", "open", "opening") /\ UNCHANGED trigger

SetTime == Call("opened", "time", "timing") /\ UNCHANGED trigger

(* The hook thread is created, and registers its first hook at once.        *)
CreateThread == Call("timed", "hook", "ready") /\ UNCHANGED trigger

(* A mutant: one event less.                                                *)
FourEvents == 4

(* The number of notices that startGameIOS waits for.                       *)
EventCount == 5

(* startGameIOS: the trigger is set before the start request is sent.       *)
SetEventWaitingQueue ==
  /\ ppc = "ready" /\ ppc' = "armed"
  /\ trigger' = EventCount
  /\ UNCHANGED <<logVars, iosVars, reply, tries, eventCount, eventQueue, shown>>

StartGame == Call("armed", "start", "starting") /\ UNCHANGED trigger

ReceiveEvent ==
  /\ ppc = "waiting" /\ eventQueue = 1
  /\ ppc' = "event" /\ eventQueue' = 0
  /\ UNCHANGED <<logVars, iosVars, reply, tries, eventCount, trigger, shown>>

(* LaunchGame deletes the IPCLog, which closes the channel; once it has its *)
(* reply the main thread goes on to the game, which owns the memory.        *)
CloseChannel == Call("event", "close", "closing") /\ UNCHANGED trigger

Main == OpenFails \/ Open \/ SetTime \/ CreateThread \/ SetEventWaitingQueue
        \/ StartGame \/ ReceiveEvent \/ CloseChannel

Next == Run \/ NotifyLaunch \/ (\E e \in States : SetLaunchState(e))
        \/ (\E s \in Senders \ {DeviceMgr} : Notify(s)) \/ WaitForStartRequest
        \/ (\E s \in Senders : TakeHook(s) \/ Write(s) \/ Send(s)) \/ HandleEvent \/ Main

Spec == Init /\ [][Next]_vars

(* Every thread runs on; a thread that waits for the hook gets it in the    *)
(* end if it comes again and again (the other four send once each, at a     *)
(* higher priority than DeviceMgr, so nobody is overtaken for ever).  Only  *)
(* DeviceMgr, which the user drives, need not have anything to say.         *)
Fairness ==
  /\ WF_vars(Run) /\ WF_vars(HandleEvent) /\ WF_vars(Main)
  /\ WF_vars(WaitForStartRequest)
  /\ \A s \in Senders \ {DeviceMgr} : WF_vars(Notify(s))
  /\ \A s \in Senders : SF_vars(TakeHook(s)) /\ WF_vars(Write(s) \/ Send(s))

FairSpec == Spec /\ Fairness
-----------------------------------------------------------------------------
Requests == {"open", "time", "hook", "start", "close"}
LogPCs == {"off", "receive", "sleep", "close"}
PPCs == {"open", "opening", "opened", "timing", "timed", "ready", "armed", "starting",
         "waiting", "event", "closing", "game", "aborted"}

(* The type invariant of the channel.                                       *)
TypeOK ==
  /\ logPc \in LogPCs /\ ipcQueue \in Seq(Requests)
  /\ response \in 0 .. 1 /\ startQueue \in 0 .. 1
  /\ pending \in [Senders -> Messages \cup {Nothing}]
  /\ notified \subseteq Senders /\ started \in BOOLEAN
  /\ holder \in Senders \cup {Nobody} /\ buffer \in Messages \cup {Nothing}
  /\ launches \in 0 .. MaxLaunches /\ states \in 0 .. MaxStates
  /\ reply \in [from : Senders, msg : Messages] \cup {NoReply, CloseReply}
  /\ ppc \in PPCs /\ tries \in 0 .. MaxTries
  /\ eventCount \in Nat /\ trigger \in {-1, EventCount}
  /\ eventQueue \in 0 .. 1 /\ shown \in States

Queued(r) == {i \in DOMAIN ipcQueue : ipcQueue[i] = r}

(* There is one print hook: it is in m_ipcQueue, in m_responseQueue, with a *)
(* thread that writes to its buffer or on its way back, and nowhere twice,  *)
(* so that HandleRequest (line 82) never blocks in a full m_responseQueue   *)
(* while requests wait behind it, and no two threads write to one buffer.   *)
OneHook ==
  /\ \A i, j \in Queued("hook") : i = j
  /\ Queued("hook") # {} => response = 0 /\ holder = Nobody /\ reply = NoReply
  /\ response = 1 => holder = Nobody /\ reply = NoReply
  /\ holder # Nobody => reply = NoReply

(* Once the channel is closed and the memory belongs to the game, IOS has   *)
(* no hook, nor is a thread between receiving it and replying to it: no     *)
(* late Notify or SetLaunchState (lines 31 and 39) writes into logBuffer.   *)
NoLateWrite ==
  ppc = "game" => /\ response = 0 /\ Queued("hook") = {} /\ holder = Nobody
                  /\ reply \in {NoReply, CloseReply}

(* The game starts only after every resource manager it needs has reported, *)
(* unless a second launch was counted in the place of one of them.          *)
GameAfterAllReady ==
  ppc \in {"event", "closing", "game"} =>
    launches > 1 \/ (launches = 1 /\ Senders \ {DeviceMgr} \subseteq notified)

(* The protocol implements the mailbox: a message that a thread handed over *)
(* arrives once, a thread's messages in order, and none after the close.    *)
InTransit(s) ==
  (IF reply.from = s THEN <<reply.msg>> ELSE <<>>) \o
  (IF pending[s] # Nothing THEN <<pending[s]>> ELSE <<>>)

Abstract == INSTANCE Mailbox
  WITH waiting <- [s \in Senders |-> InTransit(s)], count <- eventCount,
       open <- (ppc # "game")

MailboxSpec == Abstract!Spec

(* As long as the channel stays open, a waiting thread gets to deliver.     *)
Delivered ==
  \A s \in Senders :
    (pending[s] # Nothing) ~>
      (pending[s] = Nothing \/ ppc \in {"event", "closing", "game", "aborted"})

(* The game starts once main.dol was launched and DeviceMgr has nothing     *)
(* more to say, nor a message on its way, unless it launches again.         *)
DeviceMgrQuiet ==
  launches = 1 /\ states = MaxStates /\ pending[DeviceMgr] = Nothing /\ reply.from # DeviceMgr

GameStarts ==
  (DeviceMgrQuiet /\ ppc # "closing") ~> (ppc \in {"game", "aborted"} \/ launches > 1)

(* The same whatever DeviceMgr says: closing the channel always completes.  *)
(* Lines 65-67 of ios/IOS/IPCLog.cpp mean the sleep to ensure it.           *)
CloseCompletes == (ppc = "closing") ~> (ppc = "game")
=============================================================================
