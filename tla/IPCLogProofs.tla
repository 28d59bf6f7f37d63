---------------------------- MODULE IPCLogProofs ----------------------------
(***************************************************************************)
(* What holds of the channel for every set of launch states and every      *)
(* bound.  The inductive invariant follows the one print hook and counts   *)
(* the notices under way.  Step facts are proved one part at a time.       *)
(***************************************************************************)
EXTENDS IPCLog, FiniteSetTheorems, SequenceTheorems, TLAPS

(* Before the hook thread exists there is no hook.                          *)
NoHookYet ==
  ppc \in {"open", "opening", "opened", "timing", "timed", "aborted"} =>
    Queued("hook") = {} /\ response = 0 /\ holder = Nobody /\ reply = NoReply

(* After the close there is none any more: NoLateWrite, and the reply that  *)
(* ended the hook thread.                                                   *)
Closed ==
  /\ ppc = "game" => /\ Queued("hook") = {} /\ response = 0 /\ holder = Nobody
                     /\ reply = CloseReply
  /\ reply = CloseReply => ppc = "game"

(* The thread that has the hook is still to send its message, and the       *)
(* buffer holds that message or nothing yet.                                *)
Written ==
  /\ holder # Nobody => pending[holder] # Nothing
  /\ buffer # Nothing => holder # Nobody /\ buffer = pending[holder]

Announcing == {s \in Senders : pending[s] = Notice}
Arriving == IF reply.msg = Notice THEN 1 ELSE 0

(* Every notice is waiting, arriving or counted.                            *)
Counted ==
  /\ notified \subseteq Senders \ {DeviceMgr}
  /\ eventCount + Arriving + Cardinality(Announcing) = launches + Cardinality(notified)

(* The event is sent to the main thread when all have reported.             *)
AllReady == launches > 1 \/ (launches = 1 /\ Senders \ {DeviceMgr} \subseteq notified)

Ready == eventQueue = 1 \/ ppc \in {"event", "closing", "game"} => AllReady

IInv == TypeOK /\ OneHook /\ NoHookYet /\ Closed /\ Written /\ Counted /\ Ready

-----------------------------------------------------------------------------
(* The messages and the two special replies are apart.                      *)
LEMMA Kinds ==
  /\ \A s \in Senders : s # -1 /\ s # -2
  /\ NoReply # CloseReply /\ \A s \in Senders : s # Nobody
  /\ NoReply.msg # Notice /\ CloseReply.msg # Notice
  /\ NoReply.msg \notin States /\ CloseReply.msg \notin States
BY ChannelAssumption DEF Senders, NoReply, CloseReply, Nobody, Messages

(* Sending a request adds it at the end of the queue.                       *)
LEMMA AppendRequest ==
  ASSUME TypeOK, NEW r \in Requests, ipcQueue' = Append(ipcQueue, r)
  PROVE  /\ ipcQueue' \in Seq(Requests)
         /\ r # "hook" => Queued("hook")' = Queued("hook")
         /\ Queued("hook") = {} => \A i, j \in Queued("hook")' : i = j
BY DEF TypeOK, Queued

(* Receiving one takes it from the front: a hook there was the only one.    *)
LEMMA ReceiveRequest ==
  ASSUME TypeOK, NEW r \in Requests, Receive(r)
  PROVE  /\ ipcQueue' \in Seq(Requests)
         /\ \A i \in Queued("hook")' : i + 1 \in Queued("hook")
         /\ r = "hook" => 1 \in Queued("hook")
<1> SUFFICES /\ Tail(ipcQueue) \in Seq(Requests)
             /\ \A i \in DOMAIN Tail(ipcQueue) :
                  /\ i + 1 \in DOMAIN ipcQueue
                  /\ Tail(ipcQueue)[i] = ipcQueue[i + 1]
             /\ 1 \in DOMAIN ipcQueue /\ ipcQueue[1] = r
  BY DEF Receive, Queued
<1>1. ipcQueue \in Seq(Requests) /\ ipcQueue # <<>> /\ Head(ipcQueue) = r
  BY DEF TypeOK, Receive
<1> QED
  BY <1>1

-----------------------------------------------------------------------------
(* The initial state satisfies the invariant.                               *)
LEMMA InitInv == Init => IInv
<1> SUFFICES ASSUME Init PROVE IInv
  OBVIOUS
<1>1. TypeOK
  <2>1. ipcQueue \in Seq(Requests)
    BY DEF Init
  <2>2. pending \in [Senders -> Messages \cup {Nothing}]
    BY DEF Init
  <2>3. /\ response \in 0 .. 1 /\ startQueue \in 0 .. 1 /\ eventQueue \in 0 .. 1
        /\ launches \in 0 .. MaxLaunches /\ states \in 0 .. MaxStates
        /\ tries \in 0 .. MaxTries /\ eventCount \in Nat
    BY ChannelAssumption DEF Init
  <2>4. logPc \in LogPCs /\ ppc \in PPCs /\ shown \in States
    BY ChannelAssumption DEF Init, LogPCs, PPCs
  <2>5. started \in BOOLEAN /\ notified \subseteq Senders /\ trigger \in {-1, EventCount}
    BY DEF Init
  <2>6. reply \in [from : Senders, msg : Messages] \cup {NoReply, CloseReply}
    BY DEF Init
  <2>7. holder \in Senders \cup {Nobody} /\ buffer \in Messages \cup {Nothing}
    BY DEF Init
  <2> QED
    BY <2>1, <2>2, <2>3, <2>4, <2>5, <2>6, <2>7 DEF TypeOK
<1>2. /\ Queued("hook") = {} /\ response = 0 /\ holder = Nobody /\ reply = NoReply
      /\ ppc = "open"
  BY DEF Init, Queued
<1>3. OneHook /\ NoHookYet /\ Closed
  BY <1>2, Kinds DEF OneHook, NoHookYet, Closed
<1>4. Counted
  <2>1. Announcing = {} /\ Arriving = 0 /\ notified = {}
    BY <1>2, ChannelAssumption, Kinds DEF Init, Announcing, Arriving, Messages
  <2> QED
    BY <2>1, FS_EmptySet DEF Init, Counted
<1>5. Ready /\ Written
  BY DEF Init, Ready, Written
<1> QED
  BY <1>1, <1>3, <1>4, <1>5 DEF IInv

(* Every step preserves the types.                                          *)
LEMMA TypeStep == IInv /\ [Next]_vars => TypeOK'
<1> SUFFICES ASSUME TypeOK, [Next]_vars PROVE TypeOK'
  BY DEF IInv
<1> USE DEF TypeOK, logVars, iosVars, ppcVars
<1>1. CASE Entry \/ WakeClose \/ WaitForStartRequest
  <2>1. CASE Entry \/ WakeClose
    BY <2>1 DEF Entry, WakeClose, LogPCs
  <2>2. CASE WaitForStartRequest
    BY <2>2 DEF WaitForStartRequest
  <2> QED
    BY <1>1, <2>1, <2>2
<1>2. CASE HandleOpen \/ HandleSetTime \/ HandleHook \/ HandleStart \/ HandleClose
  <2>1. ipcQueue' \in Seq(Requests)
    BY <1>2, ReceiveRequest DEF HandleOpen, HandleSetTime, HandleHook, HandleStart,
       HandleClose, Requests
  <2> QED
    BY <1>2, <2>1, SMTT(30) DEF HandleOpen, HandleSetTime, HandleHook, HandleStart, HandleClose,
       Receive, Answer, LogPCs, PPCs
<1>3. CASE CloseHook
  BY <1>3 DEF CloseHook, Answer, LogPCs, PPCs
<1>4. CASE NotifyLaunch \/ (\E e \in States : SetLaunchState(e))
           \/ (\E s \in Senders \ {DeviceMgr} : Notify(s))
  BY <1>4, ChannelAssumption, SMTT(30) DEF NotifyLaunch, SetLaunchState, Notify, Wait, Messages
<1>5. ASSUME NEW s \in Senders, TakeHook(s) \/ Write(s) \/ Send(s) PROVE TypeOK'
  <2>1. CASE TakeHook(s)
    BY <2>1 DEF TakeHook, ReceiveHook
  <2>2. CASE Write(s)
    BY <2>2 DEF Write
  <2>3. CASE Send(s)
    BY <2>3 DEF Send
  <2> QED
    BY <1>5, <2>1, <2>2, <2>3
<1>6. CASE HandleEvent
  <2>1. ipcQueue' \in Seq(Requests)
    BY <1>6, AppendRequest DEF HandleEvent, RegisterHook, Requests
  <2> QED
    BY <1>6, <2>1 DEF HandleEvent, HandleNotice, HandleLaunchState
<1>7. CASE OpenFails
  BY <1>7, ChannelAssumption DEF OpenFails, Retry, PPCs
<1>8. CASE Open \/ SetTime \/ CreateThread \/ StartGame \/ CloseChannel
  <2>1. ipcQueue' \in Seq(Requests)
    BY <1>8, AppendRequest DEF Open, SetTime, CreateThread, StartGame, CloseChannel, Call,
       Requests
  <2> QED
    BY <1>8, <2>1 DEF Open, SetTime, CreateThread, StartGame, CloseChannel, Call, PPCs
<1>9. CASE SetEventWaitingQueue \/ ReceiveEvent
  BY <1>9 DEF SetEventWaitingQueue, ReceiveEvent, PPCs
<1>10. CASE UNCHANGED vars
  BY <1>10 DEF vars
<1> QED
  BY <1>1, <1>2, <1>3, <1>4, <1>5, <1>6, <1>7, <1>8, <1>9, <1>10 DEF Next, Run, Main

(* The hook moves: out of m_ipcQueue, into m_responseQueue, to a thread,    *)
(* back with its reply, and into m_ipcQueue again; the first one comes with *)
(* the hook thread.                                                         *)
HookInv == OneHook /\ NoHookYet /\ Closed

LEMMA HookStep == IInv /\ [Next]_vars => HookInv'
<1> SUFFICES ASSUME TypeOK, HookInv, [Next]_vars PROVE HookInv'
  BY DEF IInv, HookInv
<1> USE DEF HookInv, OneHook, NoHookYet, Closed
<1>1. CASE HandleHook
  <2>1. /\ \A i \in Queued("hook")' : i + 1 \in Queued("hook")
        /\ 1 \in Queued("hook")
    BY <1>1, ReceiveRequest DEF HandleHook, Requests
  <2>2. Queued("hook")' = {}
    <3>1. \A i \in Queued("hook")' : i \in Nat /\ i + 1 = 1 /\ i # 0
      BY <1>1, <2>1, ReceiveRequest DEF TypeOK, Queued, HandleHook, Requests
    <3> QED
      BY <3>1
  <2> QED
    BY <1>1, <2>1, <2>2 DEF HandleHook, iosVars, ppcVars
<1>2. CASE HandleOpen \/ HandleSetTime \/ HandleStart \/ HandleClose
  <2>1. \A i \in Queued("hook")' : i + 1 \in Queued("hook")
    BY <1>2, ReceiveRequest DEF HandleOpen, HandleSetTime, HandleStart, HandleClose, Requests
  <2>2. \A i \in Queued("hook")' : i \in Nat
    BY <1>2, ReceiveRequest DEF HandleOpen, HandleSetTime, HandleStart, HandleClose, Requests,
       Queued
  <2>3. /\ Queued("hook") = {} => Queued("hook")' = {}
        /\ \A i, j \in Queued("hook")' : i = j
    BY <2>1, <2>2
  <2> QED
    BY <1>2, <2>3 DEF HandleOpen, HandleSetTime, HandleStart, HandleClose, Answer, iosVars,
       ppcVars
<1>3. CASE CloseHook
  <2>1. Queued("hook")' = {}
    BY <1>3 DEF CloseHook, Queued
  <2> QED
    BY <1>3, <2>1, Kinds DEF CloseHook, Answer, iosVars
<1>4. ASSUME NEW s \in Senders, TakeHook(s) \/ Write(s) \/ Send(s) PROVE HookInv'
  <2>1. CASE TakeHook(s)
    <3>1. /\ Queued("hook")' = Queued("hook") /\ response = 1 /\ response' = 0
          /\ UNCHANGED <<ppc, reply>>
      BY <2>1 DEF TakeHook, ReceiveHook, Queued, ppcVars
    <3> QED
      BY <3>1
  <2>2. CASE Write(s)
    <3>1. Queued("hook")' = Queued("hook") /\ UNCHANGED <<response, holder, ppc, reply>>
      BY <2>2 DEF Write, Queued, logVars, ppcVars
    <3> QED
      BY <3>1
  <2>3. CASE Send(s)
    <3>1. /\ Queued("hook")' = Queued("hook") /\ UNCHANGED <<response, ppc>>
          /\ holder # Nobody /\ holder' = Nobody
      BY <2>3, Kinds DEF Send, Queued, logVars, ppcVars
    <3>2. Queued("hook") = {} /\ response = 0
      BY <3>1 DEF TypeOK
    <3>3. reply' # CloseReply /\ reply' # NoReply
      BY <2>3, Kinds DEF Send, CloseReply, NoReply
    <3> QED
      BY <3>1, <3>2, <3>3
  <2> QED
    BY <1>4, <2>1, <2>2, <2>3
<1>5. CASE HandleEvent
  <2>1. Queued("hook") = {} /\ response = 0 /\ holder = Nobody
    BY <1>5 DEF HandleEvent, TypeOK
  <2>2. \A i, j \in Queued("hook")' : i = j
    BY <1>5, <2>1, AppendRequest DEF HandleEvent, RegisterHook, Requests
  <2> QED
    BY <1>5, <2>1, <2>2, Kinds DEF HandleEvent, iosVars
<1>6. CASE CreateThread
  <2>1. \A i, j \in Queued("hook")' : i = j
    BY <1>6, AppendRequest DEF CreateThread, Call, Requests
  <2> QED
    BY <1>6, <2>1, Kinds DEF CreateThread, Call, iosVars
<1>7. CASE Open \/ SetTime \/ StartGame \/ CloseChannel
  <2>1. Queued("hook")' = Queued("hook")
    BY <1>7, AppendRequest DEF Open, SetTime, StartGame, CloseChannel, Call, Requests
  <2> QED
    BY <1>7, <2>1 DEF Open, SetTime, StartGame, CloseChannel, Call, iosVars
<1>8. CASE Entry \/ WakeClose \/ WaitForStartRequest \/ NotifyLaunch
           \/ (\E e \in States : SetLaunchState(e))
           \/ (\E s \in Senders \ {DeviceMgr} : Notify(s))
           \/ OpenFails \/ SetEventWaitingQueue \/ ReceiveEvent \/ UNCHANGED vars
  <2>1. UNCHANGED <<ipcQueue, response, holder, reply>>
    BY <1>8 DEF Entry, WakeClose, WaitForStartRequest, NotifyLaunch, SetLaunchState, Notify,
       OpenFails, SetEventWaitingQueue, ReceiveEvent, logVars, iosVars, vars
  <2>2. Queued("hook")' = Queued("hook")
    BY <2>1 DEF Queued
  <2>3. \/ UNCHANGED ppc
        \/ ppc = "open" /\ ppc' = "aborted"
        \/ ppc = "ready" /\ ppc' = "armed"
        \/ ppc = "waiting" /\ ppc' = "event"
    BY <1>8 DEF Entry, WakeClose, WaitForStartRequest, NotifyLaunch, SetLaunchState, Notify,
       OpenFails, Retry, SetEventWaitingQueue, ReceiveEvent, ppcVars, vars
  <2> QED
    BY <2>1, <2>2, <2>3
<1> QED
  BY <1>1, <1>2, <1>3, <1>4, <1>5, <1>6, <1>7, <1>8 DEF Next, Run, Main

(* Only the thread that holds the hook writes, and it forgets its message   *)
(* with the reply; a thread that begins to wait is not the holder.          *)
LEMMA WrittenStep == IInv /\ [Next]_vars => Written'
<1> SUFFICES ASSUME TypeOK, HookInv, Written, [Next]_vars PROVE Written'
  BY DEF IInv, HookInv
<1> USE DEF Written
<1>1. ASSUME NEW s \in Senders, NEW m \in Messages, Wait(s, m), UNCHANGED <<holder, buffer>>
      PROVE  Written'
  <2>1. m # Nothing /\ pending' = [pending EXCEPT ![s] = m] /\ pending[s] = Nothing
    BY <1>1, ChannelAssumption DEF Wait
  <2>2. ASSUME holder # Nobody PROVE pending'[holder] = pending[holder]
    BY <2>1, <2>2 DEF TypeOK
  <2> QED
    BY <1>1, <2>2
<1>2. CASE NotifyLaunch
  BY <1>1, <1>2 DEF NotifyLaunch, DeviceMgr, Senders, Messages
<1>3. ASSUME NEW e \in States, SetLaunchState(e) PROVE Written'
  BY <1>1, <1>3 DEF SetLaunchState, DeviceMgr, Senders, Messages
<1>4. ASSUME NEW s \in Senders \ {DeviceMgr}, Notify(s) PROVE Written'
  BY <1>1, <1>4 DEF Notify, Messages
<1>5. ASSUME NEW s \in Senders, TakeHook(s) PROVE Written'
  <2>1. /\ pending[s] # Nothing /\ holder' = s /\ UNCHANGED <<pending, buffer>>
        /\ response = 1
    BY <1>5 DEF TakeHook, ReceiveHook
  <2>2. buffer = Nothing
    BY <2>1 DEF HookInv, OneHook
  <2> QED
    BY <2>1, <2>2
<1>6. ASSUME NEW s \in Senders, Write(s) \/ Send(s) PROVE Written'
  BY <1>6, Kinds DEF Write, Send
<1>7. CASE Run \/ WaitForStartRequest \/ HandleEvent \/ Main \/ UNCHANGED vars
  <2>1. UNCHANGED <<pending, holder, buffer>>
    BY <1>7 DEF Run, Entry, HandleOpen, HandleSetTime, HandleHook, HandleStart, HandleClose,
       WakeClose, CloseHook, WaitForStartRequest, HandleEvent, Main, OpenFails, Open, SetTime,
       CreateThread, SetEventWaitingQueue, StartGame, ReceiveEvent, CloseChannel, Call,
       iosVars, vars
  <2> QED
    BY <2>1
<1> QED
  BY <1>2, <1>3, <1>4, <1>5, <1>6, <1>7 DEF Next

-----------------------------------------------------------------------------
(* How many numbers there are from 1 to b.                                  *)
LEMMA FirstNumbers ==
  \A b \in Int : 1 <= b => IsFiniteSet(1 .. b) /\ Cardinality(1 .. b) = b
<1>1. ASSUME NEW b \in Int, 1 <= b PROVE IsFiniteSet(1 .. b) /\ Cardinality(1 .. b) = b
  <2>1. IsFiniteSet(1 .. b) /\ Cardinality(1 .. b) = IF 1 > b THEN 0 ELSE b - 1 + 1
    BY FS_Interval
  <2> QED
    BY <1>1, <2>1
<1> QED
  BY <1>1

(* Sets of senders are finite.                                              *)
LEMMA SendersFinite ==
  /\ \A S \in SUBSET Senders : IsFiniteSet(S) /\ Cardinality(S) \in Nat
  /\ Cardinality(Senders \ {DeviceMgr}) = 4
<1>1. IsFiniteSet(Senders)
  <2>1. 0 \in Int /\ 4 \in Int
    OBVIOUS
  <2> QED
    BY <2>1, FS_Interval DEF Senders
<1>2. \A S \in SUBSET Senders : IsFiniteSet(S) /\ Cardinality(S) \in Nat
  BY <1>1, FS_Subset, FS_CardinalityType
<1>3. Senders \ {DeviceMgr} = 1 .. 4
  BY DEF Senders, DeviceMgr
<1>4. Cardinality(1 .. 4) = 4
  <2>1. 4 \in Int /\ 1 <= 4
    OBVIOUS
  <2> QED
    BY <2>1, FirstNumbers, Zenon
<1> QED
  BY <1>2, <1>3, <1>4

(* A thread that starts to wait with a notice is one more, one that is      *)
(* served with a notice is one less.                                        *)
LEMMA AnnouncingStep ==
  ASSUME TypeOK, NEW s \in Senders, NEW m \in Messages \cup {Nothing},
         pending' = [pending EXCEPT ![s] = m]
  PROVE  /\ pending[s] # Notice /\ m = Notice =>
              Cardinality(Announcing') = Cardinality(Announcing) + 1
         /\ pending[s] = Notice /\ m # Notice =>
              Cardinality(Announcing') = Cardinality(Announcing) - 1
         /\ pending[s] # Notice /\ m # Notice => Announcing' = Announcing
         /\ Cardinality(Announcing) \in Nat
<1>1. Announcing \in SUBSET Senders /\ Announcing' \in SUBSET Senders
  BY DEF Announcing
<1>2. IsFiniteSet(Announcing) /\ Cardinality(Announcing) \in Nat
  BY <1>1, SendersFinite
<1>3. ASSUME pending[s] # Notice, m = Notice
      PROVE  Cardinality(Announcing') = Cardinality(Announcing) + 1
  <2>1. Announcing' = Announcing \cup {s} /\ s \notin Announcing
    BY <1>3 DEF Announcing, TypeOK
  <2> QED
    BY <1>2, <2>1, FS_AddElement
<1>4. ASSUME pending[s] = Notice, m # Notice
      PROVE  Cardinality(Announcing') = Cardinality(Announcing) - 1
  <2>1. Announcing' = Announcing \ {s} /\ s \in Announcing
    BY <1>4 DEF Announcing, TypeOK
  <2> QED
    BY <1>2, <2>1, FS_RemoveElement
<1>5. pending[s] # Notice /\ m # Notice => Announcing' = Announcing
  BY DEF Announcing, TypeOK
<1> QED
  BY <1>2, <1>3, <1>4, <1>5

(* When the fifth notice is counted, all five are: with one launch, none of *)
(* the other four services is missing.                                      *)
LEMMA FiveIsAll ==
  ASSUME TypeOK, Counted, eventCount + Arriving >= EventCount
  PROVE  AllReady
<1>1. notified \in SUBSET Senders /\ Announcing \in SUBSET Senders
  BY DEF Counted, Announcing
<1>2. Cardinality(notified) \in Nat /\ Cardinality(Announcing) \in Nat
  BY <1>1, SendersFinite
<1>3. eventCount \in Nat /\ Arriving \in {0, 1} /\ launches \in Nat
  BY ChannelAssumption DEF TypeOK, Arriving
<1>4. launches + Cardinality(notified) >= 5
  BY <1>2, <1>3 DEF Counted, EventCount
<1>5. IsFiniteSet(Senders \ {DeviceMgr})
  BY SendersFinite
<1>6. Cardinality(notified) <= 4
  BY <1>5, SendersFinite, FS_Subset DEF Counted
<1>7. CASE launches = 1
  <2>1. Cardinality(notified) = Cardinality(Senders \ {DeviceMgr})
    BY <1>2, <1>4, <1>6, <1>7, SendersFinite
  <2>2. notified = Senders \ {DeviceMgr}
    BY <1>5, <2>1, FS_Subset DEF Counted
  <2> QED
    BY <1>7, <2>2 DEF AllReady
<1>8. CASE launches > 1
  BY <1>8 DEF AllReady
<1> QED
  BY <1>2, <1>3, <1>4, <1>6, <1>7, <1>8

(* A notice moves from waiting to arriving to counted; only the start of a  *)
(* Notify adds one.                                                         *)
LEMMA CountedStep == IInv /\ [Next]_vars => Counted'
<1> SUFFICES ASSUME TypeOK, HookInv, Written, Counted, [Next]_vars PROVE Counted'
  BY DEF IInv, HookInv
<1> DEFINE N == Cardinality(Announcing)
           K == Cardinality(notified)
<1>a. N \in Nat /\ K \in Nat /\ eventCount \in Nat /\ launches \in Nat /\ Arriving \in {0, 1}
  <2>1. Announcing \in SUBSET Senders /\ notified \in SUBSET Senders
    BY DEF Announcing, TypeOK
  <2> QED
    BY <2>1, SendersFinite, ChannelAssumption DEF TypeOK, Arriving
<1>1. CASE NotifyLaunch
  <2>1. Cardinality(Announcing)' = Cardinality(Announcing) + 1
    <3>1. /\ DeviceMgr \in Senders /\ Notice \in Messages \cup {Nothing} /\ Nothing # Notice
          /\ pending[DeviceMgr] = Nothing
          /\ pending' = [pending EXCEPT ![DeviceMgr] = Notice]
      BY <1>1, ChannelAssumption DEF NotifyLaunch, Wait, DeviceMgr, Senders, Messages
    <3> QED
      BY <3>1, AnnouncingStep
  <2>2. UNCHANGED <<reply, eventCount, notified>> /\ launches' = launches + 1
    BY <1>1 DEF NotifyLaunch, ppcVars
  <2> QED
    BY <1>a, <2>1, <2>2 DEF Counted, Arriving
<1>2. ASSUME NEW e \in States, SetLaunchState(e) PROVE Counted'
  <2>1. Announcing' = Announcing
    <3>1. /\ DeviceMgr \in Senders /\ e \in Messages \cup {Nothing} /\ e # Notice
          /\ pending[DeviceMgr] = Nothing /\ Nothing # Notice
          /\ pending' = [pending EXCEPT ![DeviceMgr] = e]
      BY <1>2, ChannelAssumption DEF SetLaunchState, Wait, DeviceMgr, Senders, Messages
    <3> QED
      BY <3>1, AnnouncingStep
  <2>2. UNCHANGED <<reply, eventCount, notified, launches>>
    BY <1>2 DEF SetLaunchState, ppcVars
  <2> QED
    BY <2>1, <2>2 DEF Counted, Arriving
<1>3. ASSUME NEW s \in Senders \ {DeviceMgr}, Notify(s) PROVE Counted'
  <2>1. Cardinality(Announcing)' = Cardinality(Announcing) + 1
    BY <1>3, AnnouncingStep, ChannelAssumption DEF Notify, Wait, Messages
  <2>2. Cardinality(notified)' = Cardinality(notified) + 1
    <3>1. s \notin notified /\ notified' = notified \cup {s} /\ IsFiniteSet(notified)
      BY <1>3, SendersFinite DEF Notify, TypeOK
    <3> QED
      BY <3>1, FS_AddElement
  <2>3. UNCHANGED <<reply, eventCount, launches>> /\ notified' = notified \cup {s}
    BY <1>3 DEF Notify, ppcVars
  <2> QED
    BY <1>a, <2>1, <2>2, <2>3 DEF Counted, Arriving
<1>4. ASSUME NEW s \in Senders, Send(s) PROVE Counted'
  <2>1. /\ reply = NoReply /\ reply'.msg = pending[s]
        /\ UNCHANGED <<eventCount, launches, notified>>
    BY <1>4, Kinds DEF Send, HookInv, OneHook, Written, ppcVars
  <2>2. Arriving = 0 /\ Arriving' = IF pending[s] = Notice THEN 1 ELSE 0
    BY <2>1, Kinds DEF Arriving
  <2>3. CASE pending[s] = Notice
    <3>1. Cardinality(Announcing)' = Cardinality(Announcing) - 1
      BY <1>4, <2>3, AnnouncingStep, ChannelAssumption DEF Send, Messages
    <3> QED
      BY <1>a, <2>1, <2>2, <2>3, <3>1 DEF Counted
  <2>4. CASE pending[s] # Notice
    <3>1. Announcing' = Announcing
      BY <1>4, <2>4, AnnouncingStep, ChannelAssumption DEF Send, Messages
    <3> QED
      BY <1>a, <2>1, <2>2, <2>4, <3>1 DEF Counted
  <2> QED
    BY <2>3, <2>4
<1>5. CASE HandleEvent
  <2>1. UNCHANGED <<pending, launches, notified>> /\ reply' = NoReply
    BY <1>5 DEF HandleEvent, iosVars
  <2>2. Arriving' = 0 /\ Announcing' = Announcing
    BY <2>1, Kinds DEF Arriving, Announcing
  <2>3. eventCount' = eventCount + Arriving
    BY <1>5, <1>a, ChannelAssumption DEF HandleEvent, HandleNotice, HandleLaunchState, Arriving
  <2> QED
    BY <1>a, <2>1, <2>2, <2>3 DEF Counted
<1>6. CASE CloseHook
  <2>1. UNCHANGED <<pending, launches, notified, eventCount>>
    BY <1>6 DEF CloseHook, Answer, iosVars
  <2>2. Arriving' = 0 /\ Arriving = 0 /\ Announcing' = Announcing
    BY <1>6, <2>1, Kinds DEF CloseHook, Arriving, Announcing, HookInv, OneHook
  <2> QED
    BY <2>1, <2>2 DEF Counted
<1>7. CASE Entry \/ HandleOpen \/ HandleSetTime \/ HandleHook \/ HandleStart \/ HandleClose
           \/ WakeClose \/ WaitForStartRequest \/ Main \/ UNCHANGED vars
           \/ (\E s \in Senders : TakeHook(s) \/ Write(s))
  <2>1. UNCHANGED <<pending, launches, notified, eventCount, reply>>
    BY <1>7 DEF TakeHook, Write, Entry, HandleOpen, HandleSetTime, HandleHook, HandleStart, HandleClose,
       WakeClose, WaitForStartRequest, Main, OpenFails, Open, SetTime, CreateThread,
       SetEventWaitingQueue, StartGame, ReceiveEvent, CloseChannel, Call, Answer, iosVars,
       ppcVars, vars
  <2> QED
    BY <2>1 DEF Counted, Arriving, Announcing
<1> QED
  BY <1>1, <1>2, <1>3, <1>4, <1>5, <1>6, <1>7 DEF Next, Run

(* The event is sent with the fifth notice, and nothing takes readiness     *)
(* back: a further launch is the exception the property names.              *)
LEMMA ReadyStep == IInv /\ [Next]_vars => Ready'
<1> SUFFICES ASSUME IInv, [Next]_vars PROVE Ready'
  OBVIOUS
<1>1. AllReady => AllReady'
  <2>1. launches \in Nat
    BY ChannelAssumption DEF IInv, TypeOK
  <2>2. launches' \in {launches, launches + 1} /\ notified \subseteq notified'
    BY <2>1 DEF Next, Run, Entry, HandleOpen, HandleSetTime, HandleHook, HandleStart, HandleClose,
       WakeClose, CloseHook, NotifyLaunch, SetLaunchState, Notify, WaitForStartRequest,
       TakeHook, Write, Send, HandleEvent, Main, OpenFails, Open, SetTime, CreateThread, SetEventWaitingQueue,
       StartGame, ReceiveEvent, CloseChannel, Call, iosVars, vars
  <2> QED
    BY <2>1, <2>2 DEF AllReady
<1>2. CASE HandleEvent /\ eventQueue' # eventQueue
  <2>1. eventCount + 1 = trigger /\ reply.msg = Notice
    BY <1>2 DEF HandleEvent, HandleNotice, HandleLaunchState, Fires
  <2>2. eventCount + Arriving >= EventCount
    BY <2>1 DEF Arriving, IInv, TypeOK, EventCount
  <2> QED
    BY <1>1, <2>2, FiveIsAll DEF IInv, Ready
<1>3. CASE ~(HandleEvent /\ eventQueue' # eventQueue)
  <2>1. (eventQueue = 1)' \/ ppc' \in {"event", "closing", "game"}
          => eventQueue = 1 \/ ppc \in {"event", "closing", "game"}
    BY <1>3 DEF Next, Run, Entry, HandleOpen, HandleSetTime, HandleHook, HandleStart, HandleClose,
       WakeClose, CloseHook, NotifyLaunch, SetLaunchState, Notify, WaitForStartRequest,
       TakeHook, Write, Send, HandleEvent, Main, OpenFails, Retry, Open, SetTime, CreateThread, SetEventWaitingQueue,
       StartGame, ReceiveEvent, CloseChannel, Call, Answer, ppcVars, vars
  <2> QED
    BY <1>1, <2>1 DEF IInv, Ready
<1> QED
  BY <1>2, <1>3

-----------------------------------------------------------------------------
(* The invariant is inductive.                                              *)
LEMMA Inductive == Spec => []IInv
<1>1. IInv /\ [Next]_vars => IInv'
  BY TypeStep, HookStep, WrittenStep, CountedStep, ReadyStep DEF IInv, HookInv
<1> QED
  BY InitInv, <1>1, PTL DEF Spec

(* The channel's state keeps its types.                                     *)
THEOREM TypeCorrect == Spec => []TypeOK
<1>1. IInv => TypeOK
  BY DEF IInv
<1> QED
  BY Inductive, <1>1, PTL

(* There is one hook, so the send of HandleRequest never blocks.            *)
THEOREM OneHookHolds == Spec => []OneHook
<1>1. IInv => OneHook
  BY DEF IInv
<1> QED
  BY Inductive, <1>1, PTL

(* After Close was answered, IOS holds no request of the PowerPC side, and  *)
(* no thread is about to write to its buffer.                               *)
THEOREM NothingAfterClose == Spec => []NoLateWrite
<1>1. IInv => NoLateWrite
  BY DEF IInv, Closed, NoLateWrite
<1> QED
  BY Inductive, <1>1, PTL

(* The game starts only when every service has reported, or a second launch *)
(* was counted in the place of one (startGameIOS waits for five notices).   *)
THEOREM GameWhenReady == Spec => []GameAfterAllReady
<1>1. IInv => GameAfterAllReady
  BY DEF IInv, Ready, AllReady, GameAfterAllReady
<1> QED
  BY Inductive, <1>1, PTL

-----------------------------------------------------------------------------
(* Short sequences.                                                         *)
LEMMA ShortSequences ==
  ASSUME NEW x, NEW y
  PROVE  /\ <<>> \o <<>> = <<>> /\ <<x>> \o <<>> = <<x>>
         /\ <<>> \o <<y>> = <<y>> /\ <<x>> \o <<y>> = <<x, y>>
         /\ Append(<<>>, y) = <<y>> /\ Append(<<x>>, y) = <<x, y>>
         /\ Head(<<x>>) = x /\ Tail(<<x>>) = <<>>
         /\ Head(<<x, y>>) = x /\ Tail(<<x, y>>) = <<y>>
<1>1. <<>> \in Seq({x, y}) /\ <<x>> \in Seq({x, y}) /\ <<y>> \in Seq({x, y})
  OBVIOUS
<1>2. <<>> \o <<>> = <<>> /\ <<x>> \o <<>> = <<x>> /\ <<>> \o <<y>> = <<y>>
  BY <1>1
<1>3. <<x>> \o <<y>> = <<x, y>>
  <2>1. <<x>> \o <<y>> \in Seq({x, y}) /\ <<x, y>> \in Seq({x, y})
    BY <1>1
  <2>2. Len(<<x>> \o <<y>>) = 2 /\ Len(<<x, y>>) = 2
    BY <1>1
  <2>3. \A i \in 1 .. 2 : (<<x>> \o <<y>>)[i] = <<x, y>>[i]
    BY <1>1
  <2> QED
    BY <2>1, <2>2, <2>3, SeqEqual
<1>4. Append(<<>>, y) = <<y>> /\ Append(<<x>>, y) = <<x, y>>
  <2>1. /\ Append(<<>>, y) \in Seq({x, y}) /\ Append(<<x>>, y) \in Seq({x, y})
        /\ <<x, y>> \in Seq({x, y})
    BY <1>1
  <2>2. /\ Len(Append(<<>>, y)) = 1 /\ Append(<<>>, y)[1] = y
        /\ Len(Append(<<x>>, y)) = 2 /\ Append(<<x>>, y)[1] = x /\ Append(<<x>>, y)[2] = y
    BY <1>1
  <2>3. Append(<<>>, y) = <<y>>
    BY <1>1, <2>1, <2>2, SeqEqual
  <2>4. Append(<<x>>, y) = <<x, y>>
    <3>1. Len(<<x, y>>) = 2 /\ \A i \in 1 .. 2 : Append(<<x>>, y)[i] = <<x, y>>[i]
      BY <2>2
    <3> QED
      BY <2>1, <2>2, <3>1, SeqEqual
  <2> QED
    BY <2>3, <2>4
<1>5. /\ Head(<<x>>) = x /\ Tail(<<x>>) = <<>>
      /\ Head(<<x, y>>) = x /\ Tail(<<x, y>>) = <<y>>
  BY <1>1
<1> QED
  BY <1>2, <1>3, <1>4, <1>5

(* A thread's messages in transit are at most two: the one that has the     *)
(* hook, and the one that waits for it.                                     *)
LEMMA TransitCases ==
  ASSUME NEW s \in Senders
  PROVE  /\ reply.from # s /\ pending[s] = Nothing => InTransit(s) = <<>>
         /\ reply.from # s /\ pending[s] # Nothing => InTransit(s) = <<pending[s]>>
         /\ reply.from = s /\ pending[s] = Nothing => InTransit(s) = <<reply.msg>>
         /\ reply.from = s /\ pending[s] # Nothing => InTransit(s) = <<reply.msg, pending[s]>>
BY ShortSequences DEF InTransit

(* The same of the next state.                                              *)
LEMMA TransitCasesNext ==
  ASSUME NEW s \in Senders
  PROVE  /\ reply.from' # s /\ pending'[s] = Nothing => InTransit(s)' = <<>>
         /\ reply.from' # s /\ pending'[s] # Nothing => InTransit(s)' = <<pending'[s]>>
         /\ reply.from' = s /\ pending'[s] = Nothing => InTransit(s)' = <<reply'.msg>>
         /\ reply.from' = s /\ pending'[s] # Nothing
              => InTransit(s)' = <<reply'.msg, pending'[s]>>
BY ShortSequences DEF InTransit

(* A thread that starts to wait hands over its message.                     *)
LEMMA WaitPosts ==
  ASSUME TypeOK, NEW s \in Senders, NEW m \in Messages, Wait(s, m),
         UNCHANGED <<reply, shown, eventCount, ppc>>
  PROVE  Abstract!Post(s, m)
<1> DEFINE W == [t \in Senders |-> InTransit(t)]
<1>1. m # Nothing /\ pending[s] = Nothing /\ pending' = [pending EXCEPT ![s] = m]
  BY ChannelAssumption DEF Wait
<1>2. pending'[s] = m /\ \A t \in Senders \ {s} : pending'[t] = pending[t]
  BY <1>1 DEF TypeOK
<1>3. InTransit(s)' = Append(InTransit(s), m)
  <2>1. CASE reply.from = s
    <3>1. InTransit(s) = <<reply.msg>>
      BY <1>1, <2>1, TransitCases
    <3>2. InTransit(s)' = <<reply.msg, m>>
      BY <1>1, <1>2, <2>1, TransitCasesNext
    <3> QED
      BY <3>1, <3>2, ShortSequences
  <2>2. CASE reply.from # s
    <3>1. InTransit(s) = <<>>
      BY <1>1, <2>2, TransitCases
    <3>2. InTransit(s)' = <<m>>
      BY <1>1, <1>2, <2>2, TransitCasesNext
    <3> QED
      BY <3>1, <3>2, ShortSequences
  <2> QED
    BY <2>1, <2>2
<1>4. ASSUME NEW t \in Senders \ {s} PROVE InTransit(t)' = InTransit(t)
  BY <1>2, <1>4 DEF InTransit
<1>5. W' = [W EXCEPT ![s] = Append(@, m)]
  BY <1>3, <1>4
<1> QED
  BY <1>5 DEF Abstract!Post

(* Handling a reply delivers the message of the thread that sent it.        *)
LEMMA EventDelivers ==
  ASSUME TypeOK, HookInv, HandleEvent
  PROVE  \E s \in Senders : Abstract!Deliver(s)
<1> DEFINE W == [t \in Senders |-> InTransit(t)]
<1>1. PICK s \in Senders : reply.from = s
  BY DEF HandleEvent, TypeOK
<1>2. UNCHANGED <<pending, ppc>> /\ reply' = NoReply /\ ppc # "game"
  BY DEF HandleEvent, iosVars, HookInv, Closed
<1>3. \A t \in Senders : reply.from' # t
  BY <1>2, Kinds DEF NoReply
<1>4. Head(InTransit(s)) = reply.msg /\ InTransit(s) # <<>> /\ InTransit(s)' = Tail(InTransit(s))
  <2>1. CASE pending[s] = Nothing
    <3>1. InTransit(s) = <<reply.msg>> /\ InTransit(s)' = <<>>
      BY <1>1, <1>2, <1>3, <2>1, TransitCases, TransitCasesNext
    <3> QED
      BY <3>1, ShortSequences
  <2>2. CASE pending[s] # Nothing
    <3>1. InTransit(s) = <<reply.msg, pending[s]>> /\ InTransit(s)' = <<pending[s]>>
      BY <1>1, <1>2, <1>3, <2>2, TransitCases, TransitCasesNext
    <3> QED
      BY <3>1, ShortSequences
  <2> QED
    BY <2>1, <2>2
<1>5. ASSUME NEW t \in Senders \ {s} PROVE InTransit(t)' = InTransit(t)
  BY <1>1, <1>2, <1>3, <1>5, TransitCases, TransitCasesNext
<1>6. W' = [W EXCEPT ![s] = Tail(@)]
  BY <1>1, <1>4, <1>5
<1>7. W[s] # <<>> /\ Head(W[s]) = reply.msg
  BY <1>1, <1>4
<1>8. \/ reply.msg = Notice /\ eventCount' = eventCount + 1 /\ UNCHANGED shown
      \/ reply.msg \in States /\ shown' = reply.msg /\ UNCHANGED eventCount
  BY DEF HandleEvent, HandleNotice, HandleLaunchState
<1>9. Abstract!Deliver(s)
  BY <1>1, <1>2, <1>6, <1>7, <1>8 DEF Abstract!Deliver
<1> QED
  BY <1>1, <1>9

(* Every step of the protocol is a step of the mailbox or leaves it alone.  *)
LEMMA MailboxStep ==
  IInv /\ [Next]_vars => [Abstract!Next]_(Abstract!mailboxVars)
<1> SUFFICES ASSUME TypeOK, HookInv, Written, [Next]_vars
             PROVE  [Abstract!Next]_(Abstract!mailboxVars)
  BY DEF IInv, HookInv
<1> DEFINE W == [t \in Senders |-> InTransit(t)]
<1>1. CASE NotifyLaunch
  <2>1. Abstract!Post(DeviceMgr, Notice) /\ DeviceMgr \in Senders
    BY <1>1, WaitPosts DEF NotifyLaunch, ppcVars, DeviceMgr, Senders, Messages
  <2> QED
    BY <2>1 DEF Abstract!Next
<1>2. ASSUME NEW e \in States, SetLaunchState(e) PROVE Abstract!Next
  <2>1. Abstract!Post(DeviceMgr, e) /\ DeviceMgr \in Senders
    BY <1>2, WaitPosts DEF SetLaunchState, ppcVars, DeviceMgr, Senders, Messages
  <2> QED
    BY <2>1 DEF Abstract!Next
<1>3. ASSUME NEW s \in Senders \ {DeviceMgr}, Notify(s) PROVE Abstract!Next
  <2>1. Abstract!Post(s, Notice)
    BY <1>3, WaitPosts DEF Notify, ppcVars, Messages
  <2> QED
    BY <2>1 DEF Abstract!Next
<1>4. ASSUME NEW s \in Senders, Send(s) PROVE UNCHANGED Abstract!mailboxVars
  <2>1. /\ reply = NoReply /\ reply' = [from |-> s, msg |-> pending[s]]
        /\ pending[s] # Nothing /\ pending' = [pending EXCEPT ![s] = Nothing]
        /\ UNCHANGED <<shown, eventCount, ppc>>
    BY <1>4, Kinds DEF Send, HookInv, OneHook, Written, ppcVars
  <2>2. \A t \in Senders : reply.from # t
    BY <2>1, Kinds DEF NoReply
  <2>3. pending'[s] = Nothing /\ \A t \in Senders \ {s} : pending'[t] = pending[t]
    BY <2>1 DEF TypeOK
  <2>4. ASSUME NEW t \in Senders PROVE InTransit(t)' = InTransit(t)
    <3>1. CASE t = s
      BY <2>1, <2>2, <2>3, <3>1, TransitCases, TransitCasesNext
    <3>2. CASE t # s
      BY <2>1, <2>2, <2>3, <3>2 DEF InTransit
    <3> QED
      BY <3>1, <3>2
  <2>5. W' = W
    BY <2>4
  <2> QED
    BY <2>1, <2>5 DEF Abstract!mailboxVars
<1>5. CASE HandleEvent
  BY <1>5, EventDelivers DEF Abstract!Next
<1>6. CASE CloseHook
  <2>1. /\ reply = NoReply /\ reply' = CloseReply /\ ppc = "closing" /\ ppc' = "game"
        /\ UNCHANGED <<shown, eventCount, pending>>
    BY <1>6 DEF CloseHook, HookInv, OneHook, Answer, iosVars
  <2>2. \A t \in Senders : reply.from # t /\ reply.from' # t
    BY <2>1, Kinds DEF NoReply, CloseReply
  <2>3. W' = W
    BY <2>1, <2>2 DEF InTransit
  <2> QED
    BY <2>1, <2>3 DEF Abstract!Next, Abstract!Close
<1>7. CASE Entry \/ HandleOpen \/ HandleSetTime \/ HandleHook \/ HandleStart \/ HandleClose
           \/ WakeClose \/ WaitForStartRequest \/ Main \/ UNCHANGED vars
           \/ (\E s \in Senders : TakeHook(s) \/ Write(s))
  <2>1. UNCHANGED <<pending, eventCount, reply, shown>> /\ (ppc' = "game" <=> ppc = "game")
    BY <1>7 DEF TakeHook, Write, Entry, HandleOpen, HandleSetTime, HandleHook, HandleStart, HandleClose,
       WakeClose, WaitForStartRequest, Main, OpenFails, Retry, Open, SetTime, CreateThread,
       SetEventWaitingQueue, StartGame, ReceiveEvent, CloseChannel, Call, Answer, iosVars,
       ppcVars, vars
  <2>2. W' = W
    BY <2>1 DEF InTransit
  <2> QED
    BY <2>1, <2>2 DEF Abstract!mailboxVars
<1> QED
  BY <1>1, <1>2, <1>3, <1>4, <1>5, <1>6, <1>7 DEF Next, Run

(* The protocol of the print hook implements the mailbox: no message of     *)
(* Notify or SetLaunchState is lost, doubled or overtaken by another of the *)
(* same thread, and none arrives after the channel was closed.              *)
THEOREM ImplementsMailbox == Spec => MailboxSpec
<1>1. Init => Abstract!Init
  <2> SUFFICES ASSUME Init PROVE Abstract!Init
    OBVIOUS
  <2>1. \A t \in Senders : InTransit(t) = <<>>
    BY Kinds DEF Init, InTransit, NoReply
  <2>2. [t \in Senders |-> InTransit(t)] = [t \in Senders |-> <<>>]
    BY <2>1
  <2> QED
    BY <2>2 DEF Init, Abstract!Init
<1> QED
  BY <1>1, Inductive, MailboxStep, PTL DEF Spec, MailboxSpec, Abstract!Spec

-----------------------------------------------------------------------------
(* While the hook thread runs, there is a hook for the thread that waits.   *)
HookExists ==
  ppc \in {"ready", "armed", "starting", "waiting", "event", "closing"} =>
    \/ Queued("hook") # {} \/ response = 1 \/ holder # Nobody
    \/ reply \notin {NoReply, CloseReply}

(* Another request that is received, or sent, leaves the hook in the queue. *)
LEMMA HookStays ==
  ASSUME TypeOK, NEW r \in Requests \ {"hook"},
         Receive(r) \/ ipcQueue' = Append(ipcQueue, r)
  PROVE  Queued("hook") # {} => Queued("hook")' # {}
<1>1. CASE ipcQueue' = Append(ipcQueue, r)
  BY <1>1, AppendRequest
<1>2. CASE Receive(r)
  <2>1. /\ ipcQueue \in Seq(Requests) /\ ipcQueue # <<>> /\ Head(ipcQueue) = r
        /\ ipcQueue' = Tail(ipcQueue)
    BY <1>2 DEF TypeOK, Receive
  <2>2. \A i \in DOMAIN ipcQueue : ipcQueue[i] = "hook" =>
           i - 1 \in DOMAIN Tail(ipcQueue) /\ Tail(ipcQueue)[i - 1] = ipcQueue[i]
    BY <2>1
  <2>3. \A i \in Queued("hook") : i - 1 \in Queued("hook")'
    BY <2>1, <2>2 DEF Queued
  <2> QED
    BY <2>3
<1> QED
  BY <1>1, <1>2

(* The hook that comes into the queue is there.                             *)
LEMMA HookSent ==
  ASSUME TypeOK, ipcQueue' = Append(ipcQueue, "hook")
  PROVE  Queued("hook")' # {}
<1>1. /\ Len(ipcQueue) + 1 \in DOMAIN Append(ipcQueue, "hook")
      /\ Append(ipcQueue, "hook")[Len(ipcQueue) + 1] = "hook"
  BY DEF TypeOK
<1>2. Len(ipcQueue) + 1 \in Queued("hook")'
  BY <1>1 DEF Queued
<1> QED
  BY <1>2

LEMMA HookExistsStep == IInv /\ HookExists /\ [Next]_vars => HookExists'
<1> SUFFICES ASSUME TypeOK, HookInv, HookExists, [Next]_vars PROVE HookExists'
  BY DEF IInv, HookInv
<1> USE DEF HookExists
<1>1. CASE HandleHook \/ CloseHook
  BY <1>1 DEF HandleHook, CloseHook, Answer, iosVars, ppcVars
<1>2. CASE HandleOpen \/ HandleSetTime \/ HandleStart \/ HandleClose
  <2>1. Queued("hook") # {} => Queued("hook")' # {}
    BY <1>2, HookStays DEF HandleOpen, HandleSetTime, HandleStart, HandleClose, Requests
  <2> QED
    BY <1>2, <2>1 DEF HandleOpen, HandleSetTime, HandleStart, HandleClose, Answer, iosVars,
       ppcVars
<1>3. ASSUME NEW s \in Senders, TakeHook(s) \/ Write(s) \/ Send(s) PROVE HookExists'
  <2>1. CASE TakeHook(s) \/ Write(s)
    BY <2>1, Kinds DEF TakeHook, Write
  <2>2. CASE Send(s)
    <3>1. reply' # CloseReply /\ reply' # NoReply
      BY <2>2, Kinds DEF Send, CloseReply, NoReply
    <3> QED
      BY <3>1
  <2> QED
    BY <1>3, <2>1, <2>2
<1>4. CASE HandleEvent \/ CreateThread
  BY <1>4, HookSent DEF HandleEvent, RegisterHook, CreateThread, Call
<1>5. CASE Open \/ SetTime \/ StartGame \/ CloseChannel
  <2>1. Queued("hook") # {} => Queued("hook")' # {}
    BY <1>5, HookStays DEF Open, SetTime, StartGame, CloseChannel, Call, Requests
  <2> QED
    BY <1>5, <2>1 DEF Open, SetTime, StartGame, CloseChannel, Call, iosVars
<1>6. CASE Entry \/ WakeClose \/ WaitForStartRequest \/ NotifyLaunch
           \/ (\E e \in States : SetLaunchState(e))
           \/ (\E s \in Senders \ {DeviceMgr} : Notify(s))
           \/ OpenFails \/ SetEventWaitingQueue \/ ReceiveEvent \/ UNCHANGED vars
  <2>1. UNCHANGED <<ipcQueue, response, holder, reply>>
    BY <1>6 DEF Entry, WakeClose, WaitForStartRequest, NotifyLaunch, SetLaunchState, Notify,
       OpenFails, SetEventWaitingQueue, ReceiveEvent, logVars, iosVars, vars
  <2>2. Queued("hook")' = Queued("hook")
    BY <2>1 DEF Queued
  <2>3. \/ UNCHANGED ppc
        \/ ppc' = "aborted"
        \/ ppc = "ready" /\ ppc' = "armed"
        \/ ppc = "waiting" /\ ppc' = "event"
    BY <1>6 DEF Entry, WakeClose, WaitForStartRequest, NotifyLaunch, SetLaunchState, Notify,
       OpenFails, Retry, SetEventWaitingQueue, ReceiveEvent, ppcVars, vars
  <2> QED
    BY <2>1, <2>2, <2>3
<1> QED
  BY <1>1, <1>2, <1>3, <1>4, <1>5, <1>6 DEF Next, Run, Main

(* The one print hook is never lost between the two sides: from the start   *)
(* of its thread to the close it is on its way to a thread that waits, or   *)
(* on its way back (RegisterPrintHook, Notify, handleEvent, Close).  With   *)
(* OneHook there is exactly one.                                            *)
THEOREM HookNeverLost == Spec => []HookExists
<1>1. Init => HookExists
  BY DEF Init, HookExists
<1> QED
  BY <1>1, HookExistsStep, Inductive, PTL DEF Spec

-----------------------------------------------------------------------------
(* startGameIOS waits for a count that is still to come, or its event is    *)
(* there: with two launches at most, the count does not reach five before   *)
(* the trigger is set, and does not step over it.  A third launch before    *)
(* startGameIOS would.                                                      *)
EventComes ==
  launches <= 2 /\ ppc \in {"armed", "starting", "waiting"} =>
    (trigger = EventCount /\ eventCount < EventCount) \/ eventQueue = 1

Early == {"open", "opening", "opened", "timing", "timed", "ready", "aborted"}

(* The trigger is set before the services that wait for the start request   *)
(* can report.                                                              *)
EventInv ==
  /\ ppc \in Early => trigger = -1 /\ eventQueue = 0
  /\ ppc \in Early \cup {"armed"} => ~started /\ startQueue = 0
  /\ ~started => notified \subseteq {EmuHID, EmuES}
  /\ trigger # -1 => eventQueue = 0
  /\ EventComes

LEMMA FewEarly ==
  ASSUME TypeOK, Counted, ~started => notified \subseteq {EmuHID, EmuES}, ~started, launches <= 2
  PROVE  eventCount < EventCount
<1>1. notified \in SUBSET Senders /\ Announcing \in SUBSET Senders
  BY DEF Counted, Announcing
<1>2. Cardinality(notified) \in Nat /\ Cardinality(Announcing) \in Nat
  BY <1>1, SendersFinite
<1>3. eventCount \in Nat /\ Arriving \in {0, 1} /\ launches \in Nat
  BY ChannelAssumption DEF TypeOK, Arriving
<1>4. Cardinality(notified) <= 2
  <2>1. notified \subseteq 1 .. 2
    BY DEF EmuHID, EmuES
  <2>2. 2 \in Int /\ 1 <= 2
    OBVIOUS
  <2>3. IsFiniteSet(1 .. 2) /\ Cardinality(1 .. 2) = 2
    BY <2>2, FirstNumbers, Zenon
  <2>4. Cardinality(notified) <= Cardinality(1 .. 2)
    BY <2>1, <2>3, FS_Subset, Zenon
  <2> QED
    BY <2>3, <2>4
<1> QED
  BY <1>2, <1>3, <1>4 DEF Counted, EventCount

LEMMA EventStep == IInv /\ EventInv /\ [Next]_vars => EventInv'
<1> SUFFICES ASSUME TypeOK, Counted, EventInv, [Next]_vars PROVE EventInv'
  BY DEF IInv
<1> USE DEF EventInv, EventComes, Early
<1>1. CASE HandleEvent
  <2>1. UNCHANGED <<ppc, started, startQueue, notified, launches>>
    BY <1>1 DEF HandleEvent, iosVars
  <2>2. eventCount \in Nat /\ trigger \in {-1, EventCount} /\ EventCount = 5
    BY DEF TypeOK, EventCount
  <2>3. \/ eventCount + 1 = trigger /\ trigger' = -1 /\ eventQueue' = 1
        \/ /\ eventCount + 1 # trigger /\ eventCount' = eventCount + 1
           /\ UNCHANGED <<trigger, eventQueue>>
        \/ UNCHANGED <<eventCount, trigger, eventQueue>>
    BY <1>1 DEF HandleEvent, HandleNotice, HandleLaunchState, Fires
  <2> QED
    BY <2>1, <2>2, <2>3
<1>2. CASE SetEventWaitingQueue
  <2>1. /\ ppc = "ready" /\ ppc' = "armed" /\ trigger' = EventCount
        /\ UNCHANGED <<started, startQueue, notified, launches, eventCount, eventQueue>>
    BY <1>2 DEF SetEventWaitingQueue, logVars, iosVars
  <2>2. launches <= 2 => eventCount < EventCount
    BY <2>1, FewEarly
  <2> QED
    BY <2>1, <2>2
<1>3. CASE ReceiveEvent
  BY <1>3 DEF ReceiveEvent, logVars, iosVars
<1>4. CASE NotifyLaunch
  <2>1. launches \in Nat /\ launches' = launches + 1
    BY <1>4, ChannelAssumption DEF NotifyLaunch, TypeOK
  <2> QED
    BY <1>4, <2>1 DEF NotifyLaunch, logVars, ppcVars
<1>5. ASSUME NEW s \in Senders \ {DeviceMgr}, Notify(s) PROVE EventInv'
  <2>1. ~started => s \in {EmuHID, EmuES}
    BY <1>5 DEF Notify, Senders, DeviceMgr, EmuHID, EmuES, EmuSDIO, System
  <2> QED
    BY <1>5, <2>1 DEF Notify, logVars, ppcVars
<1>6. CASE HandleStart
  BY <1>6 DEF HandleStart, Answer, iosVars
<1>7. CASE WaitForStartRequest
  BY <1>7 DEF WaitForStartRequest, ppcVars
<1>8. CASE Entry \/ HandleOpen \/ HandleSetTime \/ HandleHook \/ HandleClose \/ WakeClose
           \/ CloseHook \/ (\E e \in States : SetLaunchState(e))
           \/ (\E s \in Senders : TakeHook(s) \/ Write(s) \/ Send(s))
           \/ OpenFails \/ Open \/ SetTime \/ CreateThread \/ StartGame \/ CloseChannel
           \/ UNCHANGED vars
  <2>1. UNCHANGED <<started, startQueue, notified, launches, eventCount, trigger, eventQueue>>
    BY <1>8 DEF Entry, HandleOpen, HandleSetTime, HandleHook, HandleClose, WakeClose, CloseHook,
       SetLaunchState, TakeHook, Write, Send, OpenFails, Open, SetTime, CreateThread, StartGame, CloseChannel,
       Call, Answer, logVars, iosVars, ppcVars, vars
  <2>2. \/ ppc' = ppc
        \/ ppc \in Early /\ ppc' \in Early
        \/ ppc = "armed" /\ ppc' = "starting"
        \/ ppc' \in {"closing", "game"}
    BY <1>8 DEF Entry, HandleOpen, HandleSetTime, HandleHook, HandleClose, WakeClose, CloseHook,
       SetLaunchState, TakeHook, Write, Send, OpenFails, Retry, Open, SetTime, CreateThread, StartGame,
       CloseChannel, Call, Answer, logVars, iosVars, ppcVars, vars
  <2> QED
    BY <2>1, <2>2
<1> QED
  BY <1>1, <1>2, <1>3, <1>4, <1>5, <1>6, <1>7, <1>8 DEF Next, Run, Main

(* The comparison of m_eventCount with m_triggerEventCount for equality     *)
(* (IOSBoot.cpp:387) misses nothing: the trigger is set before the start    *)
(* request is sent, and two of the services report only after it.  It is    *)
(* the safety core of GameStarts.                                           *)
THEOREM EventNotMissed == Spec => []EventComes
<1>1. Init => EventInv
  BY DEF Init, EventInv, EventComes, Early
<1>2. EventInv => EventComes
  BY DEF EventInv
<1> QED
  BY <1>1, <1>2, EventStep, Inductive, PTL DEF Spec
=============================================================================
