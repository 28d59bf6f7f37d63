---------------------------- MODULE EmuHIDProofs ----------------------------
(***************************************************************************)
(* What holds of EmuHID and the reload for all device lists and any number *)
(* of titles.  The inductive invariant says which messages the queue can   *)
(* hold: a call, a device change request and an answer of the HID manager, *)
(* one of each at most, and nothing of the game behind the close that      *)
(* starts a reload.                                                        *)
(***************************************************************************)
EXTENDS EmuHID, SequenceTheorems, TLAPS

Calling == {i \in DOMAIN hidQueue : hidQueue[i][1] \in Calls}
Answers == {i \in DOMAIN hidQueue : hidQueue[i][1] = "reply"}

(* All open requests are of the title that runs; none is open when its     *)
(* handle is closed, or when a reload has answered what was pending.       *)
OwnRequest ==
  /\ unanswered \subseteq {title}
  /\ esPc = "idle" /\ fd = "closed" => unanswered = {}
  /\ esPc = "suspend" => unanswered = {}

(* The game makes one call at a time, and none during a reload, which      *)
(* starts with a next title to go to.                                      *)
OneCall ==
  /\ \A i, j \in Calling : i = j
  /\ esPc = "idle" /\ Calling # {} => call # "none"
  /\ esPc # "idle" => call = "none" /\ fd = "closed" /\ title < MaxTitles
  /\ hidPc = "busy" => Calling = {} /\ call # "none"

(* The close of a reload is behind every request, and takes them all out   *)
(* of the queue.                                                           *)
Closing ==
  /\ esPc = "closing" =>
       \E c \in Calling : /\ hidQueue[c] = <<"close", None>>
                          /\ \A t \in Titles : \A i \in Queued(t) : i < c
  /\ esPc \in {"closed", "suspend"} => Calling = {} /\ \A t \in Titles : Queued(t) = {}

(* The HID manager has one request to answer.                              *)
OneAnswer ==
  /\ \A i, j \in Answers : i = j
  /\ Answers # {} => ~armed
  /\ hidPc = "attach" => ~armed /\ Answers = {}

IInv == HIDTypeOK /\ HeldOnce /\ OwnRequest /\ OneCall /\ Closing /\ OneAnswer

-----------------------------------------------------------------------------
(* Taking the first message moves the others up. *)
LEMMA Pop ==
  ASSUME HIDTypeOK, hidQueue # <<>>, hidQueue' = Tail(hidQueue)
  PROVE  /\ 1 \in DOMAIN hidQueue /\ Head(hidQueue) = hidQueue[1]
         /\ Head(hidQueue) \in Messages
         /\ hidQueue' \in Seq(Messages) /\ Len(hidQueue') <= 8
         /\ \A i \in DOMAIN hidQueue' :
              i \in Nat /\ i + 1 \in DOMAIN hidQueue /\ hidQueue'[i] = hidQueue[i + 1]
         /\ \A i \in DOMAIN hidQueue :
              i \in Nat /\ (i # 1 => i > 1 /\ i - 1 \in DOMAIN hidQueue' /\ hidQueue'[i - 1] = hidQueue[i])
BY DEF HIDTypeOK

(* A new message goes to the end. *)
LEMMA Push ==
  ASSUME HIDTypeOK, NEW m \in Messages, hidQueue' = Append(hidQueue, m)
  PROVE  /\ hidQueue' \in Seq(Messages) /\ Len(hidQueue') = Len(hidQueue) + 1
         /\ Len(hidQueue) + 1 \in DOMAIN hidQueue' /\ hidQueue'[Len(hidQueue) + 1] = m
         /\ \A i \in DOMAIN hidQueue :
              i \in DOMAIN hidQueue' /\ hidQueue'[i] = hidQueue[i] /\ i \in Nat /\ i < Len(hidQueue) + 1
         /\ \A i \in DOMAIN hidQueue' : i \in DOMAIN hidQueue \/ i = Len(hidQueue) + 1
BY DEF HIDTypeOK

(* What a message can be. *)
LEMMA Kinds ==
  ASSUME NEW m \in Messages
  PROVE  /\ m[1] \in Calls \/ (\E t \in Titles : m = <<"change", t>>) \/ m[1] = "reply"
         /\ m[1] \in Calls => m[1] # "change" /\ m[1] # "reply"
         /\ m[1] = "change" => m[2] \in Titles /\ m = <<"change", m[2]>>
         /\ \A t : m = <<"change", t>> => m[1] = "change" /\ m[2] = t
BY DEF Messages, Calls, None

(* With one message of each kind the queue is far from full. *)
LEMMA ShortQueue ==
  ASSUME IInv
  PROVE  Len(hidQueue) <= 3
<1>1. DOMAIN hidQueue = 1 .. Len(hidQueue) /\ Len(hidQueue) \in Nat
  BY DEF IInv, HIDTypeOK
<1>2. \A i \in DOMAIN hidQueue : i \in Calling \/ i \in Queued(title) \/ i \in Answers
  <2> SUFFICES ASSUME NEW i \in DOMAIN hidQueue
               PROVE  i \in Calling \/ i \in Queued(title) \/ i \in Answers
    OBVIOUS
  <2>1. hidQueue[i] \in Messages
    BY DEF IInv, HIDTypeOK
  <2>2. ASSUME NEW t \in Titles, hidQueue[i] = <<"change", t>>
        PROVE  i \in Queued(title)
    <3>1. i \in Queued(t)
      BY <2>2 DEF Queued
    <3>2. t \in unanswered
      BY <3>1 DEF IInv, HeldOnce
    <3> QED
      BY <3>1, <3>2 DEF IInv, OwnRequest
  <2> QED
    BY <2>1, <2>2, Kinds DEF Calling, Answers
<1>3. /\ \A i, j \in Calling : i = j
      /\ \A i, j \in Queued(title) : i = j
      /\ \A i, j \in Answers : i = j
  BY DEF IInv, HIDTypeOK, HeldOnce, OneCall, OneAnswer
<1> SUFFICES ASSUME Len(hidQueue) > 3
             PROVE  FALSE
  BY <1>1
<1>4. {1, 2, 3, 4} \subseteq DOMAIN hidQueue
  BY <1>1
<1> QED
  BY <1>2, <1>3, <1>4

(* What is left of each kind when the first message is taken. *)
LEMMA PopCall ==
  ASSUME IInv, hidQueue # <<>>, hidQueue' = Tail(hidQueue)
  PROVE  /\ \A i, j \in Calling' : i = j
         /\ Head(hidQueue)[1] \in Calls => Calling' = {}
         /\ Calling = {} => Calling' = {}
<1>1. HIDTypeOK /\ \A i, j \in Calling : i = j
  BY DEF IInv, OneCall
<1>2. \A i \in Calling' : i \in Nat /\ i >= 1 /\ i + 1 \in Calling
  BY <1>1, Pop DEF Calling, HIDTypeOK
<1>3. Head(hidQueue)[1] \in Calls => 1 \in Calling
  BY <1>1, Pop DEF Calling
<1> QED
  BY <1>1, <1>2, <1>3

(* The same for the answer of the HID manager. *)
LEMMA PopAnswer ==
  ASSUME IInv, hidQueue # <<>>, hidQueue' = Tail(hidQueue)
  PROVE  /\ \A i, j \in Answers' : i = j
         /\ Head(hidQueue)[1] = "reply" => Answers' = {} /\ Answers # {}
         /\ Answers = {} => Answers' = {}
<1>1. HIDTypeOK /\ \A i, j \in Answers : i = j
  BY DEF IInv, OneAnswer
<1>2. \A i \in Answers' : i \in Nat /\ i >= 1 /\ i + 1 \in Answers
  BY <1>1, Pop DEF Answers, HIDTypeOK
<1>3. Head(hidQueue)[1] = "reply" => 1 \in Answers
  BY <1>1, Pop DEF Answers
<1> QED
  BY <1>1, <1>2, <1>3

(* The same for the request of one title. *)
LEMMA PopChange ==
  ASSUME IInv, hidQueue # <<>>, hidQueue' = Tail(hidQueue), NEW t \in Titles
  PROVE  /\ \A i, j \in Queued(t)' : i = j
         /\ Head(hidQueue) = <<"change", t>> => Queued(t)' = {} /\ Queued(t) # {}
         /\ Head(hidQueue) # <<"change", t>> => (Queued(t)' = {} <=> Queued(t) = {})
         /\ \A i \in Queued(t)' : i \in Nat /\ i + 1 \in Queued(t)
<1>1. HIDTypeOK /\ \A i, j \in Queued(t) : i = j
  BY DEF IInv, HeldOnce
<1>2. \A i \in Queued(t)' : i \in Nat /\ i >= 1 /\ i + 1 \in Queued(t)
  BY <1>1, Pop DEF Queued, HIDTypeOK
<1>3. Head(hidQueue) = <<"change", t>> => 1 \in Queued(t)
  BY <1>1, Pop DEF Queued
<1>4. Head(hidQueue) # <<"change", t>> => \A i \in Queued(t) : i - 1 \in Queued(t)'
  BY <1>1, Pop DEF Queued
<1> QED
  BY <1>1, <1>2, <1>3, <1>4

(* An answer closes the request of one title. *)
LEMMA ReplyEffect ==
  ASSUME HIDTypeOK, NEW t, NEW d \in Lists, NEW n \in Lists \cup {Error}, Reply(t, d, n)
  PROVE  /\ unanswered' = unanswered \ {t}
         /\ told' \in {<<>>} \cup ((Lists \cup {Error}) \X (Lists \cup {Error}))
BY DEF Reply, HIDTypeOK

(* ReplyPending closes the request that is kept, if there is one. *)
LEMMA PendingEffect ==
  ASSUME HIDTypeOK, ReplyPending
  PROVE  /\ deviceChangeReq' = None
         /\ unanswered' = unanswered \ {deviceChangeReq}
         /\ told' \in {<<>>} \cup ((Lists \cup {Error}) \X (Lists \cup {Error}))
<1>1. 0 \in Lists /\ None \notin Titles
  BY HIDAssumption DEF Titles, None
<1>2. CASE deviceChangeReq = None
  BY <1>1, <1>2 DEF ReplyPending, HIDTypeOK
<1>3. CASE deviceChangeReq # None
  BY <1>1, <1>3, ReplyEffect DEF ReplyPending, HIDTypeOK
<1> QED
  BY <1>2, <1>3

(* Requests stay held once when the pending one is answered, or none, and  *)
(* the queue keeps its own.                                                *)
LEMMA HeldStep ==
  ASSUME IInv,
         \A t \in Titles : /\ Queued(t)' = {} <=> Queued(t) = {}
                           /\ \A i, j \in Queued(t)' : i = j,
         \/ deviceChangeReq' = deviceChangeReq /\ unanswered' = unanswered
         \/ deviceChangeReq' = None /\ unanswered' = unanswered \ {deviceChangeReq}
  PROVE  HeldOnce' /\ unanswered' \subseteq unanswered
<1>1. None \notin Titles
  BY DEF Titles, None
<1>2. \A t \in Titles :
        /\ t \in unanswered <=> Queued(t) # {} \/ deviceChangeReq = t
        /\ Queued(t) # {} => deviceChangeReq # t
  BY DEF IInv, HeldOnce
<1> SUFFICES ASSUME NEW t \in Titles
             PROVE  /\ t \in unanswered' <=> Queued(t)' # {} \/ deviceChangeReq' = t
                    /\ \A i, j \in Queued(t)' : i = j
                    /\ Queued(t)' # {} => deviceChangeReq' # t
  BY DEF HeldOnce
<1> QED
  BY <1>1, <1>2

(* A message that is not a request leaves the requests where they are. *)
LEMMA PopOther ==
  ASSUME IInv, hidQueue # <<>>, hidQueue' = Tail(hidQueue), Head(hidQueue)[1] # "change"
  PROVE  \A t \in Titles : /\ Queued(t)' = {} <=> Queued(t) = {}
                           /\ \A i, j \in Queued(t)' : i = j
                           /\ \A i \in Queued(t)' : i \in Nat /\ i + 1 \in Queued(t)
<1> SUFFICES ASSUME NEW t \in Titles
             PROVE  /\ Queued(t)' = {} <=> Queued(t) = {}
                    /\ \A i, j \in Queued(t)' : i = j
                    /\ \A i \in Queued(t)' : i \in Nat /\ i + 1 \in Queued(t)
  OBVIOUS
<1>1. Head(hidQueue) # <<"change", t>>
  OBVIOUS
<1> QED
  BY <1>1, PopChange

(* The close of a reload keeps its place behind the requests. *)
LEMMA ClosingStays ==
  ASSUME IInv, hidQueue # <<>>, hidQueue' = Tail(hidQueue), esPc' = esPc,
         Head(hidQueue) # <<"close", None>> \/ esPc # "closing"
  PROVE  Closing'
<1>1. HIDTypeOK /\ Closing
  BY DEF IInv
<1>2. CASE esPc = "closing"
  <2>1. PICK c \in Calling : /\ hidQueue[c] = <<"close", None>>
                             /\ \A t \in Titles : \A i \in Queued(t) : i < c
    BY <1>1, <1>2 DEF Closing
  <2>2. c # 1 /\ c \in DOMAIN hidQueue /\ c \in Nat
    BY <1>1, <1>2, <2>1, Pop DEF Calling
  <2>3. c - 1 \in Calling' /\ hidQueue'[c - 1] = <<"close", None>>
    BY <1>1, <2>1, <2>2, Pop DEF Calling
  <2>4. \A t \in Titles : \A i \in Queued(t)' : i < c - 1
    BY <1>1, <2>1, <2>2, PopChange
  <2> QED
    BY <1>2, <2>3, <2>4 DEF Closing
<1>3. CASE esPc # "closing"
  <2>1. Calling = {} => Calling' = {}
    BY PopCall
  <2>2. \A t \in Titles : Queued(t) = {} => Queued(t)' = {}
    BY PopChange
  <2> QED
    BY <1>1, <1>3, <2>1, <2>2 DEF Closing
<1> QED
  BY <1>2, <1>3

-----------------------------------------------------------------------------
(* At the start the queue is empty and the HID manager has its request. *)
LEMMA InitIInv == HIDInit => IInv
<1> SUFFICES ASSUME HIDInit
             PROVE  IInv
  OBVIOUS
<1>1. DOMAIN hidQueue = {} /\ hidQueue \in Seq(Messages) /\ Len(hidQueue) = 0
  BY DEF HIDInit
<1>2. HIDTypeOK
  <2>1. 0 \in Lists /\ 1 \in Titles
    BY HIDAssumption DEF Titles
  <2>2. hidQueue \in Seq(Messages) /\ Len(hidQueue) <= 8
    BY <1>1
  <2> QED
    BY <2>1, <2>2 DEF HIDInit, HIDTypeOK, None, Error
<1>3. HeldOnce /\ OwnRequest /\ OneCall /\ Closing /\ OneAnswer
  BY <1>1 DEF HIDInit, HeldOnce, OwnRequest, OneCall, Closing, OneAnswer, Queued, Calling,
     Answers, Titles, None
<1> QED
  BY <1>2, <1>3 DEF IInv

(* A close of the reload is the first message only when the requests that  *)
(* were before it are taken.                                               *)
LEMMA OpenCloseStep ==
  ASSUME IInv, OpenClose
  PROVE  IInv'
<1>1. /\ hidPc = "receive" /\ hidQueue # <<>> /\ hidQueue' = Tail(hidQueue)
      /\ Head(hidQueue)[1] \in {"open", "close"}
      /\ UNCHANGED <<hidPc, deviceChangeReq, available, devices, deviceCount, result,
                     armed, reported, plugged, title, fd, unanswered, told, shut>>
      /\ \/ Head(hidQueue)[1] = "close" /\ esPc = "closing" /\ esPc' = "closed" /\ call' = call
         \/ ~(Head(hidQueue)[1] = "close" /\ esPc = "closing") /\ call' = "none" /\ esPc' = esPc
  BY DEF OpenClose, Receive, managerVars
<1>2. HIDTypeOK
  BY DEF IInv
<1>3. Head(hidQueue) \in Messages /\ Head(hidQueue)[1] \in Calls
  BY <1>1, <1>2, Pop DEF Calls
<1>4. Calling' = {} /\ 1 \in Calling
  BY <1>1, <1>2, <1>3, Pop, PopCall DEF Calling
<1>5. Head(hidQueue)[1] # "change"
  BY <1>1
<1>6. HIDTypeOK'
  BY <1>1, <1>2, Pop DEF HIDTypeOK
<1>7. HeldOnce' /\ OwnRequest'
  BY <1>1, <1>5, PopOther, HeldStep DEF IInv, OwnRequest
<1>8. OneCall'
  BY <1>1, <1>4 DEF IInv, OneCall
<1>9. Closing'
  <2>1. CASE esPc = "closing"
    <3>1. PICK c \in Calling : /\ hidQueue[c] = <<"close", None>>
                               /\ \A t \in Titles : \A i \in Queued(t) : i < c
      BY <2>1 DEF IInv, Closing
    <3>2. c = 1
      BY <1>4, <3>1 DEF IInv, OneCall
    <3>3. esPc' = "closed"
      BY <1>1, <1>2, <2>1, <3>1, <3>2, Pop
    <3>4. \A t \in Titles : Queued(t)' = {}
      BY <1>1, <1>2, <1>5, <3>1, <3>2, PopOther
    <3> QED
      BY <1>4, <3>3, <3>4 DEF Closing
  <2>2. CASE esPc # "closing"
    BY <1>1, <2>2, ClosingStays
  <2> QED
    BY <2>1, <2>2
<1>10. OneAnswer'
  BY <1>1, PopAnswer DEF IInv, OneAnswer
<1> QED
  BY <1>6, <1>7, <1>8, <1>9, <1>10 DEF IInv

(* A request is answered at once or kept; none was kept before. *)
LEMMA GetDeviceChangeStep ==
  ASSUME IInv, GetDeviceChange
  PROVE  IInv'
<1>1. /\ hidPc = "receive" /\ hidQueue # <<>> /\ hidQueue' = Tail(hidQueue)
      /\ Head(hidQueue)[1] = "change"
      /\ UNCHANGED <<hidPc, devices, deviceCount, result, esPc, armed, reported, plugged,
                     title, fd, call, shut>>
  BY DEF GetDeviceChange, Receive, managerVars
<1>2. HIDTypeOK
  BY DEF IInv
<1>3. Head(hidQueue) \in Messages
  BY <1>1, <1>2, Pop
<1>4. PICK s \in Titles : Head(hidQueue) = <<"change", s>> /\ Head(hidQueue)[2] = s
  BY <1>1, <1>3, Kinds
<1>5. Queued(s)' = {} /\ Queued(s) # {}
  BY <1>1, <1>4, PopChange
<1>6. ASSUME NEW t \in Titles, t # s
      PROVE  Queued(t)' = {} <=> Queued(t) = {}
  <2>1. Head(hidQueue) # <<"change", t>>
    BY <1>4, <1>6
  <2> QED
    BY <1>1, <2>1, PopChange
<1>7. s \in unanswered /\ s = title /\ deviceChangeReq # s
  BY <1>4, <1>5 DEF IInv, HeldOnce, OwnRequest
<1>8. None \notin Titles
  BY DEF Titles, None
<1>9. deviceChangeReq = None
  BY <1>2, <1>7, <1>8 DEF IInv, HeldOnce, OwnRequest, HIDTypeOK
<1>10. \/ /\ unanswered' = unanswered \ {s} /\ deviceChangeReq' = None
          /\ available' = FALSE
          /\ told' \in {<<>>} \cup ((Lists \cup {Error}) \X (Lists \cup {Error}))
       \/ unanswered' = unanswered /\ deviceChangeReq' = s /\ available' = available /\ told' = told
  <2>1. devices \in Lists /\ deviceCount \in Lists \cup {Error}
    BY <1>2 DEF HIDTypeOK
  <2> QED
    BY <1>2, <1>4, <2>1, ReplyEffect DEF GetDeviceChange
<1>11. HIDTypeOK'
  <2>1. hidQueue' \in Seq(Messages) /\ Len(hidQueue') <= 8
    BY <1>1, <1>2, Pop
  <2> QED
    BY <1>1, <1>2, <1>4, <1>10, <2>1, ZenonT(30) DEF HIDTypeOK
<1>12. HeldOnce'
  <2> SUFFICES ASSUME NEW t \in Titles
               PROVE  /\ t \in unanswered' <=> Queued(t)' # {} \/ deviceChangeReq' = t
                      /\ \A i, j \in Queued(t)' : i = j
                      /\ Queued(t)' # {} => deviceChangeReq' # t
    BY DEF HeldOnce
  <2>1. \A i, j \in Queued(t)' : i = j
    BY <1>1, PopChange
  <2>2. t \in unanswered <=> Queued(t) # {} \/ deviceChangeReq = t
    BY DEF IInv, HeldOnce
  <2>3. CASE t = s
    BY <1>5, <1>7, <1>8, <1>10, <2>1, <2>3
  <2>4. CASE t # s
    BY <1>6, <1>8, <1>9, <1>10, <2>1, <2>2, <2>4
  <2> QED
    BY <2>3, <2>4
<1>13. OwnRequest'
  BY <1>1, <1>7, <1>10 DEF IInv, OwnRequest
<1>14. OneCall'
  BY <1>1, PopCall DEF IInv, OneCall
<1>15. Closing'
  BY <1>1, <1>4, ClosingStays
<1>16. OneAnswer'
  BY <1>1, PopAnswer DEF IInv, OneAnswer
<1> QED
  BY <1>11, <1>12, <1>13, <1>14, <1>15, <1>16 DEF IInv

(* A shutdown answers the request that is kept. *)
LEMMA ShutdownStep ==
  ASSUME IInv, Shutdown
  PROVE  IInv'
<1>1. /\ hidPc = "receive" /\ hidQueue # <<>> /\ hidQueue' = Tail(hidQueue)
      /\ Head(hidQueue)[1] = "shutdown" /\ call' = "none" /\ ReplyPending
      /\ UNCHANGED <<hidPc, available, devices, deviceCount, result, esPc, armed, reported,
                     plugged, title, fd, shut>>
  BY DEF Shutdown, Receive, managerVars
<1>2. HIDTypeOK
  BY DEF IInv
<1>3. Calling' = {}
  BY <1>1, PopCall DEF Calls
<1>4. /\ deviceChangeReq' = None
      /\ unanswered' = unanswered \ {deviceChangeReq}
      /\ told' \in {<<>>} \cup ((Lists \cup {Error}) \X (Lists \cup {Error}))
  BY <1>1, <1>2, PendingEffect
<1>5. Head(hidQueue)[1] # "change" /\ Head(hidQueue) # <<"close", None>>
  BY <1>1
<1>6. HIDTypeOK'
  <2>1. hidQueue' \in Seq(Messages) /\ Len(hidQueue') <= 8
    BY <1>1, <1>2, Pop
  <2> QED
    BY <1>1, <1>2, <1>4, <2>1 DEF HIDTypeOK
<1>7. HeldOnce' /\ unanswered' \subseteq unanswered
  BY <1>1, <1>4, <1>5, PopOther, HeldStep
<1>8. OwnRequest'
  BY <1>1, <1>7 DEF IInv, OwnRequest
<1>9. OneCall'
  BY <1>1, <1>3 DEF IInv, OneCall
<1>10. Closing'
  BY <1>1, <1>5, ClosingStays
<1>11. OneAnswer'
  BY <1>1, PopAnswer DEF IInv, OneAnswer
<1> QED
  BY <1>6, <1>7, <1>8, <1>9, <1>10, <1>11 DEF IInv

(* A call that makes the thread wait is out of the queue meanwhile. *)
LEMMA ForwardStep ==
  ASSUME IInv, Forward
  PROVE  IInv'
<1>1. /\ hidPc = "receive" /\ hidQueue # <<>> /\ hidQueue' = Tail(hidQueue)
      /\ Head(hidQueue)[1] \in {"finish", "other"} /\ hidPc' = "busy"
      /\ UNCHANGED <<deviceChangeReq, available, devices, deviceCount, result, esPc, armed,
                     reported, plugged, title, fd, call, unanswered, told, shut>>
  BY DEF Forward, Receive, managerVars, gameVars
<1>2. HIDTypeOK
  BY DEF IInv
<1>3. Calling' = {} /\ 1 \in Calling
  BY <1>1, <1>2, Pop, PopCall DEF Calls, Calling
<1>4. Head(hidQueue)[1] # "change" /\ Head(hidQueue) # <<"close", None>>
  BY <1>1
<1>5. HIDTypeOK'
  <2>1. hidQueue' \in Seq(Messages) /\ Len(hidQueue') <= 8
    BY <1>1, <1>2, Pop
  <2> QED
    BY <1>1, <1>2, <2>1 DEF HIDTypeOK
<1>6. HeldOnce' /\ OwnRequest'
  BY <1>1, <1>4, PopOther, HeldStep DEF IInv, OwnRequest
<1>7. OneCall'
  <2>1. call # "none"
    <3>1. CASE esPc = "idle"
      BY <1>3, <3>1 DEF IInv, OneCall
    <3>2. CASE esPc = "closing"
      <4>1. PICK c \in Calling : hidQueue[c] = <<"close", None>>
        BY <3>2 DEF IInv, Closing
      <4>2. c = 1
        BY <1>3, <4>1 DEF IInv, OneCall
      <4> QED
        BY <1>1, <1>2, <1>4, <4>1, <4>2, Pop
    <3>3. CASE esPc \in {"closed", "suspend"}
      BY <1>3, <3>3 DEF IInv, Closing
    <3> QED
      BY <1>2, <3>1, <3>2, <3>3 DEF HIDTypeOK
  <2> QED
    BY <1>1, <1>3, <2>1 DEF IInv, OneCall
<1>8. Closing'
  BY <1>1, <1>4, ClosingStays
<1>9. OneAnswer'
  BY <1>1, PopAnswer DEF IInv, OneAnswer
<1> QED
  BY <1>5, <1>6, <1>7, <1>8, <1>9 DEF IInv

(* What is in the queue when nothing is sent or received. *)
LEMMA SameQueue ==
  ASSUME hidQueue' = hidQueue
  PROVE  Calling' = Calling /\ Answers' = Answers /\ \A t \in Titles : Queued(t)' = Queued(t)
BY DEF Calling, Answers, Queued

(* A forwarded call was the only one. *)
LEMMA ForwardedStep ==
  ASSUME IInv, Forwarded
  PROVE  IInv'
<1>1. /\ hidPc = "busy" /\ hidPc' = "receive" /\ call' = "none" /\ hidQueue' = hidQueue
      /\ UNCHANGED <<deviceChangeReq, available, devices, deviceCount, result, esPc, armed,
                     reported, plugged, title, fd, unanswered, told, shut>>
  BY DEF Forwarded, managerVars
<1>2. HIDTypeOK'
  BY <1>1 DEF IInv, HIDTypeOK
<1>3. HeldOnce' /\ OwnRequest' /\ OneCall' /\ Closing' /\ OneAnswer'
  BY <1>1, SameQueue DEF IInv, HeldOnce, OwnRequest, OneCall, Closing, OneAnswer
<1> QED
  BY <1>2, <1>3 DEF IInv

(* The answer of the HID manager leaves the queue. *)
LEMMA DeviceChangeStep ==
  ASSUME IInv, DeviceChange
  PROVE  IInv'
<1>1. /\ hidPc = "receive" /\ hidQueue # <<>> /\ hidQueue' = Tail(hidQueue)
      /\ Head(hidQueue)[1] = "reply"
      /\ UNCHANGED <<deviceChangeReq, available, devices, result, esPc, armed, reported,
                     plugged, title, fd, call, unanswered, told, shut>>
  BY DEF DeviceChange, Receive, managerVars, gameVars
<1>2. HIDTypeOK
  BY DEF IInv
<1>3. deviceCount' \in Lists /\ hidPc' \in {"attach", "answer"}
  BY <1>2, HIDAssumption DEF DeviceChange, HIDTypeOK, Error
<1>4. Head(hidQueue)[1] # "change" /\ Head(hidQueue) # <<"close", None>>
  BY <1>1
<1>5. HIDTypeOK'
  <2>1. hidQueue' \in Seq(Messages) /\ Len(hidQueue') <= 8
    BY <1>1, <1>2, Pop
  <2> QED
    BY <1>1, <1>2, <1>3, <2>1 DEF HIDTypeOK
<1>6. HeldOnce' /\ OwnRequest'
  BY <1>1, <1>4, PopOther, HeldStep DEF IInv, OwnRequest
<1>7. OneCall'
  BY <1>1, <1>3, PopCall DEF IInv, OneCall
<1>8. Closing'
  BY <1>1, <1>4, ClosingStays
<1>9. OneAnswer'
  BY <1>1, PopAnswer DEF IInv, OneAnswer
<1> QED
  BY <1>5, <1>6, <1>7, <1>8, <1>9 DEF IInv

(* The HID manager gets its next request when the answer to the last one   *)
(* is out of the queue.                                                    *)
LEMMA RearmStep ==
  ASSUME IInv, Rearm
  PROVE  IInv'
<1>1. /\ hidPc = "attach" /\ hidPc' = "answer" /\ armed' = TRUE /\ hidQueue' = hidQueue
      /\ UNCHANGED <<deviceChangeReq, available, devices, deviceCount, result, esPc,
                     reported, plugged, title, fd, call, unanswered, told, shut>>
  BY DEF Rearm, gameVars
<1>2. HIDTypeOK'
  BY <1>1 DEF IInv, HIDTypeOK
<1>3. HeldOnce' /\ OwnRequest' /\ OneCall' /\ Closing' /\ OneAnswer'
  BY <1>1, SameQueue DEF IInv, HeldOnce, OwnRequest, OneCall, Closing, OneAnswer
<1> QED
  BY <1>2, <1>3 DEF IInv

(* The request that is kept is answered, or the list is kept. *)
LEMMA AnswerChangeStep ==
  ASSUME IInv, AnswerChange
  PROVE  IInv'
<1>1. /\ hidPc = "answer" /\ hidPc' = "receive" /\ hidQueue' = hidQueue
      /\ UNCHANGED <<devices, deviceCount, result, esPc, armed, reported, plugged, title,
                     fd,
                     call, shut>>
  BY DEF AnswerChange, managerVars
<1>2. HIDTypeOK
  BY DEF IInv
<1>3. /\ \/ deviceChangeReq' = deviceChangeReq /\ unanswered' = unanswered /\ told' = told
         \/ /\ deviceChangeReq' = None /\ unanswered' = unanswered \ {deviceChangeReq}
            /\ told' \in {<<>>} \cup ((Lists \cup {Error}) \X (Lists \cup {Error}))
      /\ available' \in BOOLEAN
  BY <1>2, ReplyEffect DEF AnswerChange, HIDTypeOK
<1>4. HIDTypeOK'
  BY <1>1, <1>2, <1>3 DEF HIDTypeOK
<1>5. HeldOnce' /\ unanswered' \subseteq unanswered
  <2>1. \A t \in Titles : /\ Queued(t)' = {} <=> Queued(t) = {}
                          /\ \A i, j \in Queued(t)' : i = j
    BY <1>1, SameQueue DEF IInv, HeldOnce
  <2> QED
    BY <1>3, <2>1, HeldStep
<1>6. OwnRequest'
  BY <1>1, <1>5 DEF IInv, OwnRequest
<1>7. OneCall' /\ Closing' /\ OneAnswer'
  BY <1>1, SameQueue DEF IInv, OneCall, Closing, OneAnswer
<1> QED
  BY <1>4, <1>5, <1>6, <1>7 DEF IInv

(* The handles are closed, so the queue holds no request, and the one that *)
(* is pending is the last.                                                 *)
LEMMA ReloadStep ==
  ASSUME IInv, Reload
  PROVE  IInv'
<1>1. /\ esPc = "closed" /\ esPc' = "suspend" /\ hidQueue' = hidQueue /\ ReplyPending
      /\ UNCHANGED <<hidPc, available, devices, deviceCount, result, armed, reported,
                     plugged,
                     title, fd, call, shut>>
  BY DEF Reload, managerVars
<1>2. HIDTypeOK
  BY DEF IInv
<1>3. /\ deviceChangeReq' = None
      /\ unanswered' = unanswered \ {deviceChangeReq}
      /\ told' \in {<<>>} \cup ((Lists \cup {Error}) \X (Lists \cup {Error}))
  BY <1>1, <1>2, PendingEffect
<1>4. HIDTypeOK'
  BY <1>1, <1>2, <1>3 DEF HIDTypeOK
<1>5. HeldOnce' /\ unanswered' \subseteq unanswered
  <2>1. \A t \in Titles : /\ Queued(t)' = {} <=> Queued(t) = {}
                          /\ \A i, j \in Queued(t)' : i = j
    BY <1>1, SameQueue DEF IInv, HeldOnce
  <2> QED
    BY <1>3, <2>1, HeldStep
<1>6. unanswered' = {}
  <2>1. \A t \in unanswered : t = deviceChangeReq
    BY <1>1, <1>2 DEF IInv, HeldOnce, Closing, HIDTypeOK
  <2> QED
    BY <1>3, <2>1
<1>7. OwnRequest'
  BY <1>6 DEF OwnRequest
<1>8. OneCall' /\ Closing' /\ OneAnswer'
  BY <1>1, SameQueue DEF IInv, OneCall, Closing, OneAnswer
<1> QED
  BY <1>4, <1>5, <1>7, <1>8 DEF IInv

(* The next title starts without a request. *)
LEMMA ReloadedStep ==
  ASSUME IInv, Reloaded
  PROVE  IInv'
<1>1. /\ esPc = "suspend" /\ esPc' = "idle" /\ available' = TRUE /\ hidQueue' = hidQueue
      /\ title' = title + 1 /\ told' = <<>> /\ shut' = FALSE
      /\ UNCHANGED <<hidPc, deviceChangeReq, devices, deviceCount, result, armed, reported,
                     plugged, fd, call, unanswered>>
  BY DEF Reloaded, managerVars
<1>2. title + 1 \in Titles
  BY <1>1, HIDAssumption DEF IInv, OneCall, HIDTypeOK, Titles
<1>3. HIDTypeOK'
  BY <1>1, <1>2 DEF IInv, HIDTypeOK
<1>4. HeldOnce'
  BY <1>1, SameQueue DEF IInv, HeldOnce
<1>5. OwnRequest'
  BY <1>1 DEF IInv, OwnRequest
<1>6. OneCall' /\ Closing' /\ OneAnswer'
  BY <1>1, SameQueue DEF IInv, OneCall, Closing, OneAnswer
<1> QED
  BY <1>3, <1>4, <1>5, <1>6 DEF IInv

-----------------------------------------------------------------------------
(* What a new message adds to each kind. *)
LEMMA PushKinds ==
  ASSUME HIDTypeOK, NEW m \in Messages, hidQueue' = Append(hidQueue, m)
  PROVE  /\ Calling' = IF m[1] \in Calls THEN Calling \cup {Len(hidQueue) + 1} ELSE Calling
         /\ Answers' = IF m[1] = "reply" THEN Answers \cup {Len(hidQueue) + 1} ELSE Answers
         /\ \A t \in Titles :
              /\ Queued(t) \subseteq 1 .. Len(hidQueue)
              /\ Queued(t)' = IF m = <<"change", t>> THEN Queued(t) \cup {Len(hidQueue) + 1}
                              ELSE Queued(t)
         /\ \A i \in DOMAIN hidQueue : hidQueue'[i] = hidQueue[i]
         /\ hidQueue'[Len(hidQueue) + 1] = m
<1>1. Calling' = IF m[1] \in Calls THEN Calling \cup {Len(hidQueue) + 1} ELSE Calling
  BY Push DEF Calling
<1>2. Answers' = IF m[1] = "reply" THEN Answers \cup {Len(hidQueue) + 1} ELSE Answers
  BY Push DEF Answers
<1>3. ASSUME NEW t \in Titles
      PROVE  /\ Queued(t) \subseteq 1 .. Len(hidQueue)
             /\ Queued(t)' = IF m = <<"change", t>> THEN Queued(t) \cup {Len(hidQueue) + 1}
                             ELSE Queued(t)
  <2>1. Queued(t) \subseteq 1 .. Len(hidQueue)
    BY DEF Queued, HIDTypeOK
  <2>2. Queued(t)' = IF m = <<"change", t>> THEN Queued(t) \cup {Len(hidQueue) + 1} ELSE Queued(t)
    BY Push DEF Queued
  <2> QED
    BY <2>1, <2>2
<1> QED
  BY <1>1, <1>2, <1>3, Push

(* The queue has room for a message whenever one is sent. *)
LEMMA PushType ==
  ASSUME IInv, NEW m \in Messages, hidQueue' = Append(hidQueue, m)
  PROVE  hidQueue' \in Seq(Messages) /\ Len(hidQueue') <= 8
<1>1. HIDTypeOK /\ Len(hidQueue) \in Nat
  BY DEF IInv, HIDTypeOK
<1> QED
  BY <1>1, Push, ShortQueue

(* A call of the game: there is no other in the queue. *)
LEMMA CallStep ==
  ASSUME IInv, NEW kind \in Calls, Call(kind), fd' \in {"closed", "open", "off"},
         shut' \in BOOLEAN, fd' = "closed" => unanswered = {}
  PROVE  IInv'
<1>1. /\ esPc = "idle" /\ call = "none" /\ call' = kind
      /\ hidQueue' = Append(hidQueue, <<kind, None>>)
      /\ UNCHANGED <<hidPc, deviceChangeReq, available, devices, deviceCount, result, esPc,
                     armed, reported, plugged, title, unanswered, told>>
  BY DEF Call, managerVars
<1>2. HIDTypeOK
  BY DEF IInv
<1> DEFINE m == <<kind, None>>
<1>3. m \in Messages /\ m[1] \in Calls /\ m[1] # "reply" /\ \A t \in Titles : m # <<"change", t>>
  BY Kinds DEF Messages, Calls
<1>4. /\ Calling' = Calling \cup {Len(hidQueue) + 1} /\ Answers' = Answers
      /\ \A t \in Titles : Queued(t)' = Queued(t)
  BY <1>1, <1>2, <1>3, PushKinds
<1>5. Calling = {} /\ kind # "none"
  BY <1>1 DEF IInv, OneCall, Calls
<1>6. HIDTypeOK'
  <2>1. hidQueue' \in Seq(Messages) /\ Len(hidQueue') <= 8
    BY <1>1, <1>3, PushType
  <2> QED
    BY <1>1, <1>2, <2>1 DEF HIDTypeOK
<1>7. HeldOnce'
  BY <1>1, <1>4 DEF IInv, HeldOnce
<1>8. OwnRequest'
  BY <1>1 DEF IInv, OwnRequest
<1>9. OneCall'
  BY <1>1, <1>4, <1>5 DEF IInv, OneCall
<1>10. Closing' /\ OneAnswer'
  BY <1>1, <1>4 DEF IInv, Closing, OneAnswer
<1> QED
  BY <1>6, <1>7, <1>8, <1>9, <1>10 DEF IInv

(* The game asks for changes when it has no request open. *)
LEMMA AskStep ==
  ASSUME IInv, Ask
  PROVE  IInv'
<1>1. /\ fd = "open" /\ title \notin unanswered
      /\ unanswered' = unanswered \cup {title}
      /\ hidQueue' = Append(hidQueue, <<"change", title>>)
      /\ UNCHANGED <<hidPc, deviceChangeReq, available, devices, deviceCount, result, esPc,
                     armed, reported, plugged, title, fd, call, told, shut>>
  BY DEF Ask, managerVars
<1>2. HIDTypeOK /\ title \in Titles /\ esPc = "idle"
  BY <1>1 DEF IInv, HIDTypeOK, OneCall
<1> DEFINE m == <<"change", title>>
<1>3. m \in Messages /\ m[1] \notin Calls /\ m[1] # "reply"
  BY <1>2 DEF Messages, Calls
<1>4. /\ Calling' = Calling /\ Answers' = Answers
      /\ Queued(title)' = Queued(title) \cup {Len(hidQueue) + 1}
      /\ \A t \in Titles : t # title => Queued(t)' = Queued(t)
  BY <1>1, <1>2, <1>3, PushKinds
<1>5. HIDTypeOK'
  <2>1. hidQueue' \in Seq(Messages) /\ Len(hidQueue') <= 8
    BY <1>1, <1>3, PushType
  <2> QED
    BY <1>1, <1>2, <2>1 DEF HIDTypeOK
<1>6. HeldOnce'
  <2> SUFFICES ASSUME NEW t \in Titles
               PROVE  /\ t \in unanswered' <=> Queued(t)' # {} \/ deviceChangeReq' = t
                      /\ \A i, j \in Queued(t)' : i = j
                      /\ Queued(t)' # {} => deviceChangeReq' # t
    BY DEF HeldOnce
  <2>1. /\ t \in unanswered <=> Queued(t) # {} \/ deviceChangeReq = t
        /\ \A i, j \in Queued(t) : i = j
        /\ Queued(t) # {} => deviceChangeReq # t
    BY DEF IInv, HeldOnce
  <2>2. CASE t = title
    BY <1>1, <1>4, <2>1, <2>2
  <2>3. CASE t # title
    BY <1>1, <1>4, <2>1, <2>3
  <2> QED
    BY <2>2, <2>3
<1>7. OwnRequest'
  BY <1>1, <1>2 DEF IInv, OwnRequest
<1>8. OneCall' /\ OneAnswer'
  BY <1>1, <1>2, <1>4 DEF IInv, OneCall, OneAnswer
<1>9. Closing'
  BY <1>1, <1>2 DEF Closing
<1> QED
  BY <1>5, <1>6, <1>7, <1>8, <1>9 DEF IInv

(* The close of the reload is sent behind the request of the game. *)
LEMMA CloseAllPPCStep ==
  ASSUME IInv, CloseAllPPC
  PROVE  IInv'
<1>1. /\ esPc = "idle" /\ call = "none" /\ title < MaxTitles /\ fd' = "closed"
      /\ UNCHANGED <<hidPc, deviceChangeReq, available, devices, deviceCount, result, armed,
                     reported, plugged, title, call, unanswered, told, shut>>
      /\ \/ fd = "closed" /\ esPc' = "closed" /\ hidQueue' = hidQueue
         \/ esPc' = "closing" /\ hidQueue' = Append(hidQueue, <<"close", None>>)
  BY DEF CloseAllPPC, managerVars
<1>2. HIDTypeOK
  BY DEF IInv
<1>3. Calling = {} /\ hidPc # "busy"
  BY <1>1 DEF IInv, OneCall
<1>4. CASE fd = "closed" /\ esPc' = "closed" /\ hidQueue' = hidQueue
  <2>1. HIDTypeOK'
    BY <1>1, <1>2, <1>4 DEF HIDTypeOK
  <2>2. HeldOnce' /\ OwnRequest' /\ OneCall' /\ OneAnswer'
    BY <1>1, <1>3, <1>4, SameQueue DEF IInv, HeldOnce, OwnRequest, OneCall, OneAnswer
  <2>3. Closing'
    BY <1>1, <1>3, <1>4, SameQueue DEF IInv, HeldOnce, OwnRequest, Closing
  <2> QED
    BY <2>1, <2>2, <2>3 DEF IInv
<1>5. CASE esPc' = "closing" /\ hidQueue' = Append(hidQueue, <<"close", None>>)
  <2> DEFINE m == <<"close", None>>
  <2>1. m \in Messages /\ m[1] \in Calls /\ m[1] # "reply" /\ \A t \in Titles : m # <<"change", t>>
    BY Kinds DEF Messages, Calls
  <2>2. /\ Calling' = Calling \cup {Len(hidQueue) + 1} /\ Answers' = Answers
        /\ \A t \in Titles : Queued(t)' = Queued(t) /\ Queued(t) \subseteq 1 .. Len(hidQueue)
        /\ hidQueue'[Len(hidQueue) + 1] = m
    BY <1>2, <1>5, <2>1, PushKinds
  <2>3. HIDTypeOK'
    <3>1. hidQueue' \in Seq(Messages) /\ Len(hidQueue') <= 8
      BY <1>5, <2>1, PushType
    <3> QED
      BY <1>1, <1>2, <1>5, <3>1 DEF HIDTypeOK
  <2>4. HeldOnce' /\ OwnRequest' /\ OneAnswer'
    BY <1>1, <1>5, <2>2 DEF IInv, HeldOnce, OwnRequest, OneAnswer
  <2>5. OneCall'
    BY <1>1, <1>3, <1>5, <2>2 DEF IInv, OneCall
  <2>6. Closing'
    <3>1. Len(hidQueue) \in Nat
      BY <1>2 DEF HIDTypeOK
    <3>2. \A t \in Titles : \A i \in Queued(t)' : i < Len(hidQueue) + 1
      BY <2>2, <3>1
    <3>3. Len(hidQueue) + 1 \in Calling'
      BY <2>2
    <3> QED
      BY <1>5, <2>2, <3>2, <3>3 DEF Closing
  <2> QED
    BY <2>3, <2>4, <2>5, <2>6 DEF IInv
<1> QED
  BY <1>1, <1>4, <1>5

(* An answer of the HID manager: it had its request, so none is queued. *)
LEMMA ReportStep ==
  ASSUME IInv, ReportChange \/ ReportError
  PROVE  IInv'
<1>1. /\ armed /\ armed' = FALSE /\ hidQueue' = Append(hidQueue, <<"reply", None>>)
      /\ devices' \in Lists /\ result' \in Lists \cup {Error} /\ reported' \in Lists \cup {Error}
      /\ UNCHANGED <<hidPc, deviceChangeReq, available, deviceCount, esPc, plugged, title,
                     fd,
                     call, unanswered, told, shut>>
  BY DEF ReportChange, ReportError, gameVars, IInv, HIDTypeOK
<1>2. HIDTypeOK
  BY DEF IInv
<1> DEFINE m == <<"reply", None>>
<1>3. m \in Messages /\ m[1] \notin Calls /\ m[1] = "reply" /\ \A t \in Titles : m # <<"change", t>>
  BY Kinds DEF Messages, Calls
<1>4. /\ Calling' = Calling /\ Answers' = Answers \cup {Len(hidQueue) + 1}
      /\ \A t \in Titles : Queued(t)' = Queued(t)
      /\ \A i \in DOMAIN hidQueue : hidQueue'[i] = hidQueue[i]
  BY <1>1, <1>2, <1>3, PushKinds
<1>5. HIDTypeOK'
  <2>1. hidQueue' \in Seq(Messages) /\ Len(hidQueue') <= 8
    BY <1>1, <1>3, PushType
  <2> QED
    BY <1>1, <1>2, <2>1, ZenonT(30) DEF HIDTypeOK
<1>6. HeldOnce' /\ OwnRequest' /\ OneCall'
  BY <1>1, <1>4 DEF IInv, HeldOnce, OwnRequest, OneCall
<1>7. Closing'
  <2>1. \A c \in Calling : hidQueue'[c] = hidQueue[c]
    BY <1>4 DEF Calling
  <2> QED
    BY <1>1, <1>4, <2>1 DEF IInv, Closing
<1>8. OneAnswer'
  BY <1>1, <1>4 DEF IInv, OneAnswer
<1> QED
  BY <1>5, <1>6, <1>7, <1>8 DEF IInv

(* The devices themselves are in no part of the invariant. *)
LEMMA PlugDeviceStep ==
  ASSUME IInv, NEW d \in Lists, PlugDevice(d)
  PROVE  IInv'
<1>1. /\ plugged' = d
      /\ UNCHANGED <<hidPc, hidQueue, deviceChangeReq, available, devices, deviceCount,
                     result,
                     esPc, armed, reported, title, fd, call, unanswered, told, shut>>
  BY DEF PlugDevice, hidVars, gameVars
<1>2. HIDTypeOK'
  BY <1>1 DEF IInv, HIDTypeOK
<1>3. HeldOnce' /\ OwnRequest' /\ OneCall' /\ Closing' /\ OneAnswer'
  BY <1>1, SameQueue DEF IInv, HeldOnce, OwnRequest, OneCall, Closing, OneAnswer
<1> QED
  BY <1>2, <1>3 DEF IInv

-----------------------------------------------------------------------------
(* A call of the game of any kind. *)
LEMMA CallsStep ==
  ASSUME IInv, OpenHID \/ CloseHID \/ ShutdownHID \/ OtherCall
  PROVE  IInv'
<1>1. HIDTypeOK
  BY DEF IInv
<1>2. CASE OpenHID
  BY <1>1, <1>2, CallStep DEF OpenHID, Calls, HIDTypeOK
<1>3. CASE CloseHID
  <2>1. unanswered = {}
    BY <1>3 DEF CloseHID, IInv, OwnRequest
  <2> QED
    BY <1>1, <1>3, <2>1, CallStep DEF CloseHID, Calls, HIDTypeOK
<1>4. CASE ShutdownHID
  BY <1>1, <1>4, CallStep DEF ShutdownHID, Calls, HIDTypeOK
<1>5. CASE OtherCall
  BY <1>1, <1>5, CallStep DEF OtherCall, Calls, HIDTypeOK
<1> QED
  BY <1>2, <1>3, <1>4, <1>5

(* The invariant is inductive. *)
LEMMA Invariance == HIDSpec => []IInv
<1>1. IInv /\ [HIDNext]_emuHIDVars => IInv'
  <2> SUFFICES ASSUME IInv, [HIDNext]_emuHIDVars
               PROVE  IInv'
    OBVIOUS
  <2>1. CASE HIDThread
    BY <2>1, OpenCloseStep, GetDeviceChangeStep, ShutdownStep, ForwardStep, ForwardedStep,
       DeviceChangeStep, RearmStep, AnswerChangeStep DEF HIDThread
  <2>2. CASE ESThread
    BY <2>2, ReloadStep, ReloadedStep DEF ESThread
  <2>3. CASE Game
    BY <2>3, CallsStep, AskStep, CloseAllPPCStep DEF Game
  <2>4. CASE ReportChange \/ ReportError
    BY <2>4, ReportStep
  <2>5. CASE \E d \in Lists : PlugDevice(d)
    BY <2>5, PlugDeviceStep
  <2>6. CASE UNCHANGED emuHIDVars
    <3>1. UNCHANGED <<hidPc, hidQueue, deviceChangeReq, available, devices, deviceCount,
                      result,
                      esPc, armed, reported, plugged, title, fd, call, unanswered, told, shut>>
      BY <2>6 DEF emuHIDVars, hidVars, managerVars, gameVars
    <3>2. HIDTypeOK'
      BY <3>1 DEF IInv, HIDTypeOK
    <3>3. HeldOnce' /\ OwnRequest' /\ OneCall' /\ Closing' /\ OneAnswer'
      BY <3>1, SameQueue DEF IInv, HeldOnce, OwnRequest, OneCall, Closing, OneAnswer
    <3> QED
      BY <3>2, <3>3 DEF IInv
  <2> QED
    BY <2>1, <2>2, <2>3, <2>4, <2>5, <2>6 DEF HIDNext
<1> QED
  BY InitIInv, <1>1, PTL DEF HIDSpec

(* Every variable keeps its type, whatever lists the manager reports; the  *)
(* queue of 8 (EmuHID.cpp:21) has room for every message that is sent.     *)
THEOREM TypeCorrect == HIDSpec => []HIDTypeOK
<1>1. IInv => HIDTypeOK
  BY DEF IInv
<1> QED
  BY <1>1, Invariance, PTL

(* The open request of a title is in the queue or in s_deviceChangeReq,    *)
(* never in both and never twice, and none that was answered is in either. *)
THEOREM RequestsHeldOnce == HIDSpec => []HeldOnce
<1>1. IInv => HeldOnce
  BY DEF IInv
<1> QED
  BY <1>1, Invariance, PTL

(* No request of a title is open when the next one runs: CloseAllPPC sends *)
(* the close behind the requests, and EmuHID::Reload answers what is kept. *)
THEOREM NoOldRequestLeft == HIDSpec => []NoOldRequest
<1>1. IInv => NoOldRequest
  BY DEF IInv, OwnRequest, NoOldRequest
<1> QED
  BY <1>1, Invariance, PTL

-----------------------------------------------------------------------------
(* What EmuHID keeps of the devices.  The manager writes s_devices and     *)
(* req->result together; s_deviceCount follows when the thread reads the   *)
(* answer, and is the length of another list until then.                   *)
ListKept ==
  /\ result \in {devices, Error}
  /\ reported # Error => devices = reported
  /\ hidPc = "attach" => deviceCount = devices /\ result = devices
  /\ Answers = {} => deviceCount \in {devices, 0} /\ (result # Error => deviceCount = devices)

(* A shutdown in the queue is one of the title that runs. *)
ShutSent == \A i \in DOMAIN hidQueue : hidQueue[i][1] = "shutdown" => shut

(* The title is going to be told something that it has not been told yet. *)
OnTheWay == Answers # {} \/ hidPc \in {"attach", "answer"} \/ available

(* A title can be told of a list with the length of another one, when the  *)
(* manager writes s_devices again before the thread has read the answer.   *)
(* It is never the last word.                                              *)
WholeList == told # <<>> /\ told[1] # told[2] => OnTheWay

(* As long as the manager has not failed, what it reported last is what    *)
(* the title was told last, or still on the way to it.  A title that has   *)
(* shut the device down, and one that ends, is told of no devices.         *)
NoLostChange ==
  result # Error /\ reported # Error /\ ~shut /\ esPc # "suspend"
    => told = <<reported, reported>> \/ OnTheWay

ListInv == ListKept /\ ShutSent /\ WholeList /\ NoLostChange

(* The answer of the manager stays in the queue when something else is     *)
(* taken out, and the shutdowns that are left were there.                  *)
LEMMA PopOthers ==
  ASSUME IInv, hidQueue # <<>>, hidQueue' = Tail(hidQueue)
  PROVE  /\ Head(hidQueue)[1] # "reply" => (Answers' = {} <=> Answers = {})
         /\ ShutSent /\ shut' = shut => ShutSent'
         /\ Head(hidQueue)[1] = "shutdown" /\ ShutSent => shut
<1>1. HIDTypeOK
  BY DEF IInv
<1>2. Head(hidQueue)[1] # "reply" => \A i \in Answers : i - 1 \in Answers'
  BY <1>1, Pop DEF Answers
<1>3. Answers = {} => Answers' = {}
  BY PopAnswer
<1>4. ShutSent /\ shut' = shut => ShutSent'
  BY <1>1, Pop DEF ShutSent
<1>5. Head(hidQueue)[1] = "shutdown" /\ ShutSent => shut
  BY <1>1, Pop DEF ShutSent
<1> QED
  BY <1>2, <1>3, <1>4, <1>5

(* A new message: only a shutdown of the game is one. *)
LEMMA PushShut ==
  ASSUME HIDTypeOK, ShutSent, NEW m \in Messages, hidQueue' = Append(hidQueue, m),
         m[1] = "shutdown" => shut', shut => shut'
  PROVE  ShutSent'
BY Push DEF ShutSent

(* Nothing of the lists has changed. *)
LEMMA ListStays ==
  ASSUME ListKept, UNCHANGED <<devices, deviceCount, result, reported>>,
         Answers' = {} => Answers = {}, hidPc' = "attach" => hidPc = "attach"
  PROVE  ListKept'
BY DEF ListKept

(* Nothing that was told has changed, and what is on the way still is. *)
LEMMA ToldStays ==
  ASSUME WholeList, NoLostChange, UNCHANGED <<told, result, reported>>,
         shut => shut', esPc = "suspend" => esPc' = "suspend", OnTheWay => OnTheWay'
  PROVE  WholeList' /\ NoLostChange'
BY DEF WholeList, NoLostChange

LEMMA InitListInv == HIDInit => ListInv
<1> SUFFICES ASSUME HIDInit
             PROVE  ListInv
  OBVIOUS
<1>1. DOMAIN hidQueue = {}
  BY DEF HIDInit
<1> QED
  BY <1>1 DEF HIDInit, ListInv, ListKept, ShutSent, WholeList, NoLostChange, Answers, Error

(* A reply that the title gets with a list of its own length, or none. *)
LEMMA ReplyWhole ==
  ASSUME HIDTypeOK, NEW d \in Lists, NEW n \in Lists \cup {Error}, Reply(title, d, n),
         n = d \/ n = 0 \/ n = Error
  PROVE  told' = <<n, n>>
BY HIDAssumption DEF Reply, HIDTypeOK, Error

(* Messages that have nothing to do with the list. *)
LEMMA OpenCloseList ==
  ASSUME IInv, ListInv, OpenClose \/ Forward
  PROVE  ListInv'
<1>1. /\ hidPc = "receive" /\ hidQueue # <<>> /\ hidQueue' = Tail(hidQueue)
      /\ Head(hidQueue)[1] # "reply" /\ hidPc' \in {"receive", "busy"}
      /\ esPc = "suspend" => esPc' = "suspend"
      /\ UNCHANGED <<available, devices, deviceCount, result, reported, told, shut>>
  BY DEF OpenClose, Forward, Receive, managerVars, gameVars
<1>2. Answers' = {} <=> Answers = {}
  BY <1>1, PopOthers
<1>3. ListKept'
  BY <1>1, <1>2, ListStays DEF ListInv
<1>4. OnTheWay => OnTheWay'
  BY <1>1, <1>2 DEF OnTheWay
<1>5. WholeList' /\ NoLostChange'
  BY <1>1, <1>4, ToldStays DEF ListInv
<1>6. ShutSent'
  BY <1>1, PopOthers DEF ListInv
<1> QED
  BY <1>3, <1>5, <1>6 DEF ListInv

(* A list that is available goes with the length of another one only while *)
(* an answer that follows is in the queue.                                 *)
LEMMA GetDeviceChangeList ==
  ASSUME IInv, ListInv, GetDeviceChange
  PROVE  ListInv'
<1>1. /\ hidPc = "receive" /\ hidQueue # <<>> /\ hidQueue' = Tail(hidQueue)
      /\ Head(hidQueue)[1] = "change"
      /\ UNCHANGED <<hidPc, devices, deviceCount, result, esPc, reported, title, shut>>
  BY DEF GetDeviceChange, Receive, managerVars
<1>2. HIDTypeOK
  BY DEF IInv
<1>3. PICK t \in Titles : Head(hidQueue) = <<"change", t>> /\ Head(hidQueue)[2] = t
  BY <1>1, <1>2, Pop, Kinds
<1>4. t = title
  <2>1. Queued(t) # {}
    BY <1>1, <1>3, PopChange
  <2> QED
    BY <1>3, <2>1 DEF IInv, HeldOnce, OwnRequest
<1>5. Answers' = {} <=> Answers = {}
  BY <1>1, PopOthers
<1>6. ListKept' /\ ShutSent'
  BY <1>1, <1>5, ListStays, PopOthers DEF ListInv
<1>7. CASE ~available /\ UNCHANGED <<available, told>>
  <2>1. OnTheWay => OnTheWay'
    BY <1>1, <1>5, <1>7 DEF OnTheWay
  <2> QED
    BY <1>1, <1>6, <1>7, <2>1, ToldStays DEF ListInv
<1>8. CASE Reply(title, devices, deviceCount)
  <2>1. CASE Answers # {}
    BY <1>5, <1>6, <2>1 DEF ListInv, WholeList, NoLostChange, OnTheWay
  <2>2. CASE Answers = {}
    <3>1. deviceCount \in {devices, 0} /\ (result # Error => deviceCount = devices)
      BY <2>2 DEF ListInv, ListKept
    <3>2. told' = <<deviceCount, deviceCount>>
      BY <1>2, <1>8, <3>1, ReplyWhole DEF HIDTypeOK
    <3>3. WholeList'
      BY <3>2 DEF WholeList
    <3>4. NoLostChange'
      BY <1>1, <3>1, <3>2 DEF NoLostChange, ListInv, ListKept
    <3> QED
      BY <1>6, <3>3, <3>4 DEF ListInv
  <2> QED
    BY <2>1, <2>2
<1>9. \/ ~available /\ UNCHANGED <<available, told>>
      \/ Reply(title, devices, deviceCount)
  BY <1>3, <1>4 DEF GetDeviceChange
<1> QED
  BY <1>7, <1>8, <1>9

(* What is pending is answered with no devices: by a shutdown, after which *)
(* the title is not told of devices any more, or when the title ends.      *)
LEMMA PendingTold ==
  ASSUME IInv, WholeList, ReplyPending, OnTheWay => OnTheWay'
  PROVE  WholeList'
<1>1. HIDTypeOK
  BY DEF IInv
<1>2. CASE deviceChangeReq = None
  BY <1>2 DEF ReplyPending, WholeList
<1>3. CASE deviceChangeReq # None
  <2>1. deviceChangeReq = title
    BY <1>1, <1>3 DEF IInv, HeldOnce, OwnRequest, HIDTypeOK
  <2>2. Reply(title, devices, 0)
    BY <1>3, <2>1 DEF ReplyPending
  <2>3. told' = <<0, 0>>
    BY <1>1, <2>2, ReplyWhole, HIDAssumption DEF HIDTypeOK
  <2> QED
    BY <2>3 DEF WholeList
<1> QED
  BY <1>2, <1>3

LEMMA ShutdownList ==
  ASSUME IInv, ListInv, Shutdown
  PROVE  ListInv'
<1>1. /\ hidPc = "receive" /\ hidQueue # <<>> /\ hidQueue' = Tail(hidQueue)
      /\ Head(hidQueue)[1] = "shutdown" /\ ReplyPending
      /\ UNCHANGED <<hidPc, available, devices, deviceCount, result, reported, shut>>
  BY DEF Shutdown, Receive, managerVars
<1>2. Answers' = {} <=> Answers = {}
  BY <1>1, PopOthers
<1>3. ListKept' /\ ShutSent'
  BY <1>1, <1>2, ListStays, PopOthers DEF ListInv
<1>4. OnTheWay => OnTheWay'
  BY <1>1, <1>2 DEF OnTheWay
<1>5. WholeList'
  BY <1>1, <1>4, PendingTold DEF ListInv
<1>6. shut'
  BY <1>1, PopOthers DEF ListInv
<1> QED
  BY <1>3, <1>5, <1>6 DEF ListInv, NoLostChange

LEMMA ReloadList ==
  ASSUME IInv, ListInv, Reload
  PROVE  ListInv'
<1>1. /\ esPc' = "suspend" /\ hidQueue' = hidQueue /\ ReplyPending
      /\ UNCHANGED <<hidPc, available, devices, deviceCount, result, reported, shut>>
  BY DEF Reload, managerVars
<1>2. Answers' = Answers /\ ShutSent'
  BY <1>1, SameQueue DEF ListInv, ShutSent
<1>3. ListKept'
  BY <1>1, <1>2, ListStays DEF ListInv
<1>4. OnTheWay => OnTheWay'
  BY <1>1, <1>2 DEF OnTheWay
<1>5. WholeList'
  BY <1>1, <1>4, PendingTold DEF ListInv
<1> QED
  BY <1>1, <1>2, <1>3, <1>5 DEF ListInv, NoLostChange

(* The list is made available to the title that starts. *)
LEMMA ReloadedList ==
  ASSUME IInv, ListInv, Reloaded
  PROVE  ListInv'
<1>1. /\ esPc = "suspend" /\ available' = TRUE /\ hidQueue' = hidQueue /\ shut' = FALSE
      /\ UNCHANGED <<hidPc, devices, deviceCount, result, reported>>
  BY DEF Reloaded, managerVars
<1>2. ListKept'
  BY <1>1, SameQueue, ListStays DEF ListInv
<1>3. ShutSent'
  <2>1. Calling = {}
    BY <1>1 DEF IInv, Closing
  <2> QED
    BY <1>1, <2>1 DEF ShutSent, Calling, Calls
<1> QED
  BY <1>1, <1>2, <1>3 DEF ListInv, WholeList, NoLostChange, OnTheWay

(* The length follows the list. *)
LEMMA DeviceChangeList ==
  ASSUME IInv, ListInv, DeviceChange
  PROVE  ListInv'
<1>1. /\ hidQueue # <<>> /\ hidQueue' = Tail(hidQueue) /\ Head(hidQueue)[1] = "reply"
      /\ UNCHANGED <<devices, result, esPc, reported, told, shut>>
      /\ \/ result >= 0 /\ deviceCount' = result /\ hidPc' = "attach"
         \/ ~(result >= 0) /\ deviceCount' = 0 /\ hidPc' = "answer"
  BY DEF DeviceChange, Receive, managerVars, gameVars
<1>2. Error = -1 /\ devices \in Nat
  BY HIDAssumption DEF IInv, HIDTypeOK, Error
<1>3. result = devices \/ result = -1
  BY <1>2 DEF ListInv, ListKept
<1>4. ListKept'
  BY <1>1, <1>2, <1>3 DEF ListInv, ListKept
<1>5. ShutSent'
  BY <1>1, PopOthers DEF ListInv
<1>6. OnTheWay'
  BY <1>1 DEF OnTheWay
<1> QED
  BY <1>4, <1>5, <1>6 DEF ListInv, WholeList, NoLostChange

(* The thread answers with the list and the result of one answer of the    *)
(* manager, whichever it is: they are written together.                    *)
LEMMA AnswerChangeList ==
  ASSUME IInv, ListInv, AnswerChange
  PROVE  ListInv'
<1>1. /\ hidPc' = "receive" /\ hidQueue' = hidQueue
      /\ UNCHANGED <<devices, deviceCount, result, esPc, reported, title, shut>>
  BY DEF AnswerChange, managerVars
<1>2. HIDTypeOK
  BY DEF IInv
<1>3. ListKept' /\ ShutSent'
  BY <1>1, SameQueue, ListStays DEF ListInv, ShutSent
<1>4. CASE deviceChangeReq = None
  <2>1. available'
    BY <1>4 DEF AnswerChange
  <2> QED
    BY <1>3, <2>1 DEF ListInv, WholeList, NoLostChange, OnTheWay
<1>5. CASE deviceChangeReq # None
  <2>1. deviceChangeReq = title
    BY <1>2, <1>5 DEF IInv, HeldOnce, OwnRequest, HIDTypeOK
  <2>2. Reply(title, devices, result)
    BY <1>5, <2>1 DEF AnswerChange
  <2>3. result = devices \/ result = Error
    BY DEF ListInv, ListKept
  <2>4. told' = <<result, result>>
    BY <1>2, <2>2, <2>3, ReplyWhole DEF HIDTypeOK
  <2>5. WholeList'
    BY <2>4 DEF WholeList
  <2>6. NoLostChange'
    BY <1>1, <2>3, <2>4 DEF NoLostChange, ListInv, ListKept
  <2> QED
    BY <1>3, <2>5, <2>6 DEF ListInv
<1> QED
  BY <1>4, <1>5

(* An answer of the manager is on the way to the title. *)
LEMMA ReportList ==
  ASSUME IInv, ListInv, ReportChange \/ ReportError
  PROVE  ListInv'
<1>1. /\ hidQueue' = Append(hidQueue, <<"reply", None>>) /\ armed
      /\ UNCHANGED <<hidPc, deviceCount, esPc, told, shut>>
  BY DEF ReportChange, ReportError, gameVars
<1>2. HIDTypeOK
  BY DEF IInv
<1>3. <<"reply", None>> \in Messages
  BY DEF Messages
<1>4. Answers' # {}
  BY <1>1, <1>2, <1>3, PushKinds
<1>5. hidPc # "attach"
  BY <1>1 DEF IInv, OneAnswer
<1>6. result' \in {devices', Error} /\ (reported' # Error => devices' = reported')
  BY DEF ReportChange, ReportError, ListInv, ListKept
<1>7. ListKept'
  BY <1>1, <1>4, <1>5, <1>6 DEF ListKept
<1>8. ShutSent'
  BY <1>1, <1>2, <1>3, PushShut DEF ListInv
<1> QED
  BY <1>4, <1>7, <1>8 DEF ListInv, WholeList, NoLostChange, OnTheWay

(* What the game sends leaves the list alone. *)
LEMMA GameList ==
  ASSUME IInv, ListInv, Game
  PROVE  ListInv'
<1>1. HIDTypeOK /\ title \in Titles
  BY DEF IInv, HIDTypeOK
<1>2. /\ UNCHANGED <<hidPc, available, devices, deviceCount, result, reported, told>>
      /\ esPc # "suspend" /\ (shut => shut')
  <2>1. CASE OpenHID \/ CloseHID \/ ShutdownHID \/ OtherCall
    BY <2>1 DEF OpenHID, CloseHID, ShutdownHID, OtherCall, Call, managerVars
  <2>2. CASE CloseAllPPC
    BY <2>2 DEF CloseAllPPC, managerVars
  <2>3. CASE Ask
    BY <1>1, <2>3 DEF Ask, managerVars, IInv, OneCall
  <2> QED
    BY <2>1, <2>2, <2>3 DEF Game
<1>3. \/ hidQueue' = hidQueue /\ shut' = shut
      \/ \E m \in Messages : /\ hidQueue' = Append(hidQueue, m) /\ m[1] # "reply"
                             /\ m[1] = "shutdown" => shut'
  <2>1. ASSUME NEW kind \in Calls, Call(kind), kind = "shutdown" => shut'
        PROVE  \E m \in Messages : /\ hidQueue' = Append(hidQueue, m) /\ m[1] # "reply"
                                   /\ m[1] = "shutdown" => shut'
    <3>1. hidQueue' = Append(hidQueue, <<kind, None>>)
      BY <2>1 DEF Call
    <3>2. <<kind, None>> \in Messages
      BY DEF Messages
    <3>3. kind # "reply"
      BY DEF Calls
    <3> QED
      BY <2>1, <3>1, <3>2, <3>3
  <2>2. CASE OpenHID \/ CloseHID \/ ShutdownHID \/ OtherCall
    BY <2>1, <2>2 DEF OpenHID, CloseHID, ShutdownHID, OtherCall, Calls
  <2>3. CASE CloseAllPPC
    <3>1. shut' = shut /\ (hidQueue' = hidQueue \/ hidQueue' = Append(hidQueue, <<"close", None>>))
      BY <2>3 DEF CloseAllPPC
    <3>2. <<"close", None>> \in Messages
      BY DEF Messages, Calls
    <3> QED
      BY <3>1, <3>2
  <2>4. CASE Ask
    <3>1. hidQueue' = Append(hidQueue, <<"change", title>>)
      BY <2>4 DEF Ask
    <3>2. <<"change", title>> \in Messages
      BY <1>1 DEF Messages
    <3> QED
      BY <3>1, <3>2
  <2> QED
    BY <2>2, <2>3, <2>4 DEF Game
<1>4. Answers' = Answers /\ ShutSent'
  <2>1. CASE hidQueue' = hidQueue /\ shut' = shut
    BY <2>1, SameQueue DEF ListInv, ShutSent
  <2>2. ASSUME NEW m \in Messages, hidQueue' = Append(hidQueue, m), m[1] # "reply",
               m[1] = "shutdown" => shut'
        PROVE  Answers' = Answers /\ ShutSent'
    BY <1>1, <1>2, <2>2, PushKinds, PushShut DEF ListInv
  <2> QED
    BY <1>3, <2>1, <2>2
<1>5. ListKept'
  BY <1>2, <1>4, ListStays DEF ListInv
<1>6. OnTheWay => OnTheWay'
  BY <1>2, <1>4 DEF OnTheWay
<1>7. WholeList' /\ NoLostChange'
  BY <1>2, <1>6, ToldStays DEF ListInv
<1> QED
  BY <1>4, <1>5, <1>7 DEF ListInv

(* The steps that send and receive nothing and tell nothing. *)
LEMMA QuietList ==
  ASSUME IInv, ListInv,
         Forwarded \/ Rearm \/ (\E d \in Lists : PlugDevice(d)) \/ UNCHANGED emuHIDVars
  PROVE  ListInv'
<1>1. /\ UNCHANGED <<hidQueue, available, devices, deviceCount, result, esPc, reported,
                     told, shut>>
      /\ hidPc' = "attach" => hidPc = "attach"
      /\ hidPc \in {"attach", "answer"} => hidPc' \in {"attach", "answer"}
  BY DEF Forwarded, Rearm, PlugDevice, emuHIDVars, hidVars, managerVars, gameVars
<1>2. Answers' = Answers /\ ShutSent'
  BY <1>1, SameQueue DEF ListInv, ShutSent
<1>3. ListKept'
  BY <1>1, <1>2, ListStays DEF ListInv
<1>4. OnTheWay => OnTheWay'
  BY <1>1, <1>2 DEF OnTheWay
<1>5. WholeList' /\ NoLostChange'
  BY <1>1, <1>4, ToldStays DEF ListInv
<1> QED
  BY <1>2, <1>3, <1>5 DEF ListInv

LEMMA ListInvariance == HIDSpec => []ListInv
<1>1. IInv /\ ListInv /\ [HIDNext]_emuHIDVars => ListInv'
  <2> SUFFICES ASSUME IInv, ListInv, [HIDNext]_emuHIDVars
               PROVE  ListInv'
    OBVIOUS
  <2>1. CASE HIDThread
    BY <2>1, OpenCloseList, GetDeviceChangeList, ShutdownList, DeviceChangeList,
       AnswerChangeList, QuietList DEF HIDThread
  <2>2. CASE ESThread
    BY <2>2, ReloadList, ReloadedList DEF ESThread
  <2> QED
    BY <2>1, <2>2, GameList, ReportList, QuietList DEF HIDNext
<1> QED
  BY Invariance, InitListInv, <1>1, PTL DEF HIDSpec

(* A list that was copied with the length of another one is followed by an *)
(* answer (EmuHID.cpp: GetDeviceChange copies s_devices and s_deviceCount  *)
(* as they are, while a newer answer of the manager waits in the queue).   *)
THEOREM NeverLastMixed == HIDSpec => []WholeList
<1>1. ListInv => WholeList
  BY DEF ListInv
<1> QED
  BY <1>1, ListInvariance, PTL

(* No change of the devices is lost between the manager and the title, and *)
(* none by the reload: the last list reported is the last one told, or on  *)
(* the way (EmuHID.cpp: s_deviceChangeAvailable, s_deviceChangeReq).  It   *)
(* is the safety core of GameLearns.                                       *)
THEOREM ChangesReachTitle == HIDSpec => []NoLostChange
<1>1. ListInv => NoLostChange
  BY DEF ListInv
<1> QED
  BY <1>1, ListInvariance, PTL

-----------------------------------------------------------------------------
(* How far the thread is from the close that a reload waits for: the       *)
(* messages up to it, at most three steps for each, and what is left of    *)
(* the answer that the thread passes on.                                   *)
Place == CHOOSE i \in DOMAIN hidQueue : hidQueue[i] = <<"close", None>>
Work == [receive |-> 0, busy |-> 1, answer |-> 1, attach |-> 2]
Distance == 4 * Place + Work[hidPc]

Nearer ==
  esPc = "closing" =>
    /\ Distance \in Nat
    /\ esPc' = "closed" \/ (esPc' = "closing" /\ Distance' <= Distance)
    /\ HIDThread => esPc' = "closed" \/ Distance' < Distance

LEMMA WorkType ==
  ASSUME HIDTypeOK
  PROVE  Work[hidPc] \in 0 .. 2
BY DEF HIDTypeOK, Work

LEMMA WorkTypeNext ==
  ASSUME IInv'
  PROVE  Work'[hidPc'] \in 0 .. 2
BY DEF IInv, HIDTypeOK, Work

(* The one close in the queue. *)
LEMMA PlaceOf ==
  ASSUME IInv, esPc = "closing"
  PROVE  /\ Place \in Nat /\ Place >= 1 /\ Place \in DOMAIN hidQueue
         /\ hidQueue[Place] = <<"close", None>>
         /\ \A i \in DOMAIN hidQueue : hidQueue[i][1] \in Calls => i = Place
<1>1. \E c \in DOMAIN hidQueue : hidQueue[c] = <<"close", None>>
  BY DEF IInv, Closing, Calling
<1>2. Place \in DOMAIN hidQueue /\ hidQueue[Place] = <<"close", None>>
  BY <1>1 DEF Place
<1>3. Place \in Calling
  BY <1>2 DEF Calling, Calls
<1>4. \A i \in DOMAIN hidQueue : hidQueue[i][1] \in Calls => i = Place
  BY <1>3 DEF Calling, IInv, OneCall
<1>5. Place \in Nat /\ Place >= 1
  BY <1>2 DEF IInv, HIDTypeOK
<1> QED
  BY <1>2, <1>4, <1>5

(* The same after a step. *)
LEMMA PlaceOfNext ==
  ASSUME IInv', esPc' = "closing"
  PROVE  /\ Place' \in Nat /\ Place' >= 1 /\ Place' \in DOMAIN hidQueue'
         /\ hidQueue'[Place'] = <<"close", None>>
         /\ \A i \in DOMAIN hidQueue' : hidQueue'[i][1] \in Calls => i = Place'
<1>1. \E c \in DOMAIN hidQueue' : hidQueue'[c] = <<"close", None>>
  BY DEF IInv, Closing, Calling
<1>2. Place' \in DOMAIN hidQueue' /\ hidQueue'[Place'] = <<"close", None>>
  BY <1>1 DEF Place
<1>3. Place' \in Calling'
  BY <1>2 DEF Calling, Calls
<1>4. \A i \in DOMAIN hidQueue' : hidQueue'[i][1] \in Calls => i = Place'
  BY <1>3 DEF Calling, IInv, OneCall
<1>5. Place' \in Nat /\ Place' >= 1
  BY <1>2 DEF IInv, HIDTypeOK
<1> QED
  BY <1>2, <1>4, <1>5

(* It moves up with every message that is taken, and stays where it is     *)
(* when one is sent.                                                       *)
LEMMA PlaceMoves ==
  ASSUME IInv, IInv', esPc = "closing", esPc' = "closing"
  PROVE  /\ hidQueue # <<>> /\ hidQueue' = Tail(hidQueue) => Place' = Place - 1
         /\ \A m \in Messages : hidQueue' = Append(hidQueue, m) => Place' = Place
         /\ hidQueue' = hidQueue => Place' = Place
<1>1. /\ Place \in Nat /\ Place \in DOMAIN hidQueue /\ hidQueue[Place] = <<"close", None>>
      /\ \A i \in DOMAIN hidQueue : hidQueue[i][1] \in Calls => i = Place
  BY PlaceOf
<1>2. Place' \in Nat
  BY PlaceOfNext
<1>3. /\ Place' \in DOMAIN hidQueue' /\ hidQueue'[Place'] = <<"close", None>>
      /\ \A i \in DOMAIN hidQueue' : hidQueue'[i][1] \in Calls => i = Place'
  BY PlaceOfNext
<1>4. HIDTypeOK /\ "close" \in Calls
  BY DEF IInv, Calls
<1>5. ASSUME hidQueue # <<>>, hidQueue' = Tail(hidQueue)
      PROVE  Place' = Place - 1
  <2>1. Place' + 1 \in DOMAIN hidQueue /\ hidQueue[Place' + 1] = <<"close", None>>
    BY <1>3, <1>4, <1>5, Pop
  <2>2. Place' + 1 = Place
    BY <1>1, <1>4, <2>1
  <2> QED
    BY <1>2, <2>2
<1>6. ASSUME NEW m \in Messages, hidQueue' = Append(hidQueue, m)
      PROVE  Place' = Place
  <2>1. Place \in DOMAIN hidQueue' /\ hidQueue'[Place] = <<"close", None>>
    BY <1>1, <1>4, <1>6, Push
  <2> QED
    BY <1>3, <1>4, <2>1
<1>7. ASSUME hidQueue' = hidQueue
      PROVE  Place' = Place
  BY <1>1, <1>3, <1>4, <1>7
<1> QED
  BY <1>5, <1>6, <1>7

(* The thread takes a message, or does a step of the answer it has taken.  *)
LEMMA ThreadNearer ==
  ASSUME IInv, IInv', esPc = "closing", HIDThread
  PROVE  esPc' = "closed" \/ (esPc' = "closing" /\ Distance' < Distance)
<1>1. Place \in Nat /\ Work[hidPc] \in 0 .. 2
  BY PlaceOf, WorkType DEF IInv
<1>2. esPc' \in {"closing", "closed"}
  BY DEF HIDThread, OpenClose, GetDeviceChange, Shutdown, Forward, Forwarded, DeviceChange,
     Rearm, AnswerChange
<1>3. SUFFICES ASSUME esPc' = "closing"
               PROVE  Distance' < Distance
  BY <1>2
<1>4. /\ Work["receive"] = 0 /\ Work["busy"] = 1 /\ Work["answer"] = 1 /\ Work["attach"] = 2
      /\ Work' = Work
  BY DEF Work
<1>5. hidPc' \in {"receive", "busy", "attach", "answer"}
  BY DEF IInv, HIDTypeOK
<1>6. Distance' = 4 * Place' + Work[hidPc']
  BY <1>4 DEF Distance
<1>7. CASE hidPc = "receive" /\ hidQueue # <<>> /\ hidQueue' = Tail(hidQueue)
  <2>1. Place' = Place - 1
    BY <1>3, <1>7, PlaceMoves
  <2>2. Work[hidPc'] \in 0 .. 2
    BY <1>4, <1>5
  <2> QED
    BY <1>1, <1>6, <2>1, <2>2 DEF Distance
<1>8. CASE /\ hidQueue' = hidQueue
           /\ \/ hidPc = "attach" /\ hidPc' = "answer"
              \/ hidPc \in {"answer", "busy"} /\ hidPc' = "receive"
  <2>1. Place' = Place
    BY <1>3, <1>8, PlaceMoves
  <2>2. Work[hidPc'] < Work[hidPc]
    BY <1>4, <1>8
  <2>3. Work[hidPc'] \in Int
    BY <1>4, <1>5
  <2> QED
    BY <1>1, <1>6, <2>1, <2>2, <2>3 DEF Distance
<1>9. CASE OpenClose \/ GetDeviceChange \/ Shutdown \/ Forward \/ DeviceChange
  BY <1>7, <1>9 DEF OpenClose, GetDeviceChange, Shutdown, Forward, DeviceChange, Receive
<1>10. CASE Forwarded \/ Rearm \/ AnswerChange
  BY <1>8, <1>10 DEF Forwarded, Rearm, AnswerChange
<1> QED
  BY <1>9, <1>10 DEF HIDThread

(* Nothing gets before the close. *)
LEMMA OthersNotFarther ==
  ASSUME IInv, IInv', esPc = "closing", [HIDNext]_emuHIDVars, ~HIDThread
  PROVE  esPc' = "closing" /\ Distance' <= Distance
<1>1. fd = "closed"
  BY DEF IInv, OneCall
<1>2. ~ESThread /\ ~Game
  BY <1>1 DEF ESThread, Reload, Reloaded, Game, OpenHID, CloseHID, ShutdownHID, OtherCall,
     Ask, CloseAllPPC, Call
<1>3. /\ esPc' = esPc /\ hidPc' = hidPc
      /\ hidQueue' = hidQueue \/ hidQueue' = Append(hidQueue, <<"reply", None>>)
  <2>1. CASE ReportChange \/ ReportError
    BY <2>1 DEF ReportChange, ReportError
  <2>2. CASE \E d \in Lists : PlugDevice(d)
    BY <2>2 DEF PlugDevice, hidVars
  <2>3. CASE UNCHANGED emuHIDVars
    BY <2>3 DEF emuHIDVars, hidVars
  <2> QED
    BY <1>2, <2>1, <2>2, <2>3 DEF HIDNext
<1>4. <<"reply", None>> \in Messages
  BY DEF Messages
<1>5. Place' = Place
  BY <1>3, <1>4, PlaceMoves
<1>6. Distance' = Distance
  BY <1>3, <1>5 DEF Distance, Work
<1>7. Distance \in Int
  BY PlaceOf, WorkType DEF Distance, IInv
<1> QED
  BY <1>3, <1>6, <1>7

(* While EmuES waits for the handles to be closed, nothing puts the close  *)
(* off, and every step of the thread of EmuHID brings it nearer: a request *)
(* that stays open, an answer of the manager and a change that comes       *)
(* meanwhile included.  It is the safety core of ReloadEnds.               *)
THEOREM CloseComesNearer == HIDSpec => [][Nearer]_emuHIDVars
<1>1. IInv /\ IInv' /\ [HIDNext]_emuHIDVars => [Nearer]_emuHIDVars
  <2> SUFFICES ASSUME IInv, IInv', [HIDNext]_emuHIDVars, esPc = "closing"
               PROVE  /\ Distance \in Nat
                      /\ esPc' = "closed" \/ (esPc' = "closing" /\ Distance' <= Distance)
                      /\ HIDThread => esPc' = "closed" \/ Distance' < Distance
    BY DEF Nearer
  <2>1. Distance \in Nat
    BY PlaceOf, WorkType DEF Distance, IInv
  <2>2. CASE HIDThread
    <3>1. esPc' = "closed" \/ (esPc' = "closing" /\ Distance' < Distance)
      BY <2>2, ThreadNearer
    <3>2. esPc' = "closing" => Distance' \in Nat
      BY PlaceOfNext, WorkTypeNext DEF Distance
    <3> QED
      BY <2>1, <2>2, <3>1, <3>2
  <2>3. CASE ~HIDThread
    BY <2>1, <2>3, OthersNotFarther
  <2> QED
    BY <2>2, <2>3
<1> QED
  BY Invariance, <1>1, PTL DEF HIDSpec
=============================================================================
