-------------------------- MODULE USBStorageProofs --------------------------
(***************************************************************************)
(* What holds of USBStorage for all devices, numbers of units and tries,   *)
(* transfers and failures.  The argument for a read: what the device says  *)
(* stays in order in its pipe, so that behind the part that the transfer   *)
(* read last comes the next part of the same command, up to its status.    *)
(* A status with the tag of the transfer shows that everything before it   *)
(* was of this command too.                                                *)
(***************************************************************************)
EXTENDS USBStorage, SequenceTheorems, TLAPS

Active == {"command", "data", "status"}
Searching == {"ready", "inquiry", "sense", "capacity", "last"}

(* A pipe holds commands' parts in order, each up to its status.           *)
Whole(s) ==
  /\ s # <<>> => IsStatus(s[Len(s)])
  /\ \A i \in 1 .. Len(s) - 1 :
       ~IsStatus(s[i]) => s[i + 1] = Part(s[i].of, s[i].k + 1)
  /\ \A i \in 1 .. Len(s) : ~IsStatus(s[i]) => s[i].ok

(* Only one thread is in a call as long as none overlaps it.               *)
Apart == alone => \A t, u \in Threads : pc[t] # "idle" /\ pc[u] # "idle" => t = u

(* The last tag is that of the transfer under way, and of nothing else.    *)
Latest(c) ==
  /\ c.tag = tag /\ tag > 0
  /\ \A i \in 1 .. Len(pipe) : pipe[i].of.tag = tag => pipe[i].of = c
  /\ writing.tag = tag => writing = c

Counted(t) ==
  LET x == xfer[t] IN
  /\ x.moved <= x.cmd.n
  /\ pc[t] = "command" => x.moved = 0
  /\ pc[t] = "data" => x.moved < x.cmd.n
  /\ pc[t] = "status" => x.moved = x.cmd.n
  /\ x.moved = 0 => x.own

(* A write finds the device waiting for its next chunk, or for nothing.    *)
WriteOwn(t) ==
  LET x == xfer[t] IN
  x.cmd.op = "write" =>
    /\ x.own
    /\ pc[t] = "data" => /\ writing \in {x.cmd, NoCommand}
                         /\ buffer = Part(x.cmd, x.moved + 1)
                         /\ writing = x.cmd => stored = x.moved

(* A read finds the part that follows the one that it read last.           *)
ReadOwn(t) ==
  LET x == xfer[t] IN
  x.cmd.op # "write" /\ x.moved > 0 =>
    /\ ~IsStatus(x.got) /\ pipe # <<>>
    /\ pipe[1] = Part(x.got.of, x.got.k + 1)
    /\ x.got.ok /\ (x.own <=> x.got = Part(x.cmd, x.moved))

Mine(t) ==
  alone /\ pc[t] \in Active =>
    /\ Latest(xfer[t].cmd) /\ Counted(t) /\ WriteOwn(t) /\ ReadOwn(t)
    /\ pc[t] = "command" => buffer = Part(xfer[t].cmd, 0)

(* What a call has that succeeded. *)
Result(t) ==
  pc[t] = "ended" /\ xfer[t].ok /\ alone =>
    /\ xfer[t].own
    /\ xfer[t].cmd.op # "write" /\ xfer[t].cmd.n > 0 =>
         xfer[t].got = Part(xfer[t].cmd, xfer[t].cmd.n)

(* The progress of Init. *)
InitInv ==
  /\ stage = "luns" <=> pc["manager"] = "control"
  /\ pc["sdio"] # "control"
  /\ stage # "none" => ~valid
  /\ stage \in Searching =>
       LET c == xfer["manager"].cmd IN
       /\ pc["manager"] \in Active \cup {"ended"}
       /\ LunCount \in 1 .. MaxLuns /\ lun < LunCount
       /\ c.lun = lun
       /\ stage = "inquiry" => c.op = "inquiry" /\ c.n = 1
       /\ stage \in {"capacity", "last"} /\ alone => lun \in device.disks
       /\ stage = "last" => blockSize = device.size

IInv ==
  /\ TypeOK /\ Whole(pipe) /\ Apart /\ InitInv
  /\ \A t \in Threads : Mine(t) /\ Result(t)

-----------------------------------------------------------------------------
Shapes == [tag: Nat, op: Ops \cup {"none"}, lun: 0 .. MaxLuns, n: Nat]

(* The parts of earlier commands stay parts when the tag goes up.          *)
LEMMA PartsGrow ==
  ASSUME TypeOK, tag' \in Nat, tag' >= tag
  PROVE  Commands \subseteq Commands' /\ Parts \subseteq Parts' /\ pipe \in Seq(Parts')
<1>1. Commands \subseteq Commands'
  BY DEF TypeOK, Commands
<1>2. Parts \subseteq Parts'
  BY <1>1 DEF Parts
<1> QED
  BY <1>1, <1>2, SeqMonotonic, Zenon DEF TypeOK

(* No command is a command as far as its type goes, of no transfer. *)
LEMMA NoCommandType ==
  ASSUME TypeOK
  PROVE  NoCommand \in Commands /\ Zero \in Parts /\ NoCommand.tag = 0 /\ NoCommand.n = 0
<1>1. MaxLuns \in Nat
  BY StorageAssumption
<1>2. NoCommand \in Commands
  BY <1>1 DEF NoCommand, Command, Commands, TypeOK
<1> QED
  BY <1>2 DEF NoCommand, Command, Zero, Part, Parts

(* An answer behind what is left of earlier ones, or in its place.         *)
LEMMA AnswerWhole ==
  ASSUME NEW S, NEW s \in Seq(S), NEW r \in Seq(S), Whole(s), Whole(r)
  PROVE  Whole(s \o r) /\ \A i \in 1 .. Len(s \o r) :
           \/ i \in 1 .. Len(s) /\ (s \o r)[i] = s[i]
           \/ i - Len(s) \in 1 .. Len(r) /\ (s \o r)[i] = r[i - Len(s)]
<1> DEFINE q == s \o r
<1>1. /\ q \in Seq(S) /\ Len(s) \in Nat /\ Len(r) \in Nat /\ Len(q) = Len(s) + Len(r)
      /\ \A i \in 1 .. Len(q) : q[i] = IF i <= Len(s) THEN s[i] ELSE r[i - Len(s)]
  BY ConcatProperties, LenProperties
<1>2. \A i \in 1 .. Len(q) : ~IsStatus(q[i]) => q[i].ok
  <2> HIDE DEF q
  <2>1. ASSUME NEW i \in 1 .. Len(q)
        PROVE  \/ i \in 1 .. Len(s) /\ q[i] = s[i]
               \/ i - Len(s) \in 1 .. Len(r) /\ q[i] = r[i - Len(s)]
    <3>1. q[i] = IF i <= Len(s) THEN s[i] ELSE r[i - Len(s)]
      BY <1>1
    <3>2. CASE i <= Len(s)
      BY <1>1, <3>1, <3>2
    <3>3. CASE i > Len(s)
      BY <1>1, <3>1, <3>3
    <3> QED
      BY <1>1, <3>2, <3>3
  <2>2. \A i \in 1 .. Len(s) : ~IsStatus(s[i]) => s[i].ok
    BY DEF Whole
  <2>3. \A i \in 1 .. Len(r) : ~IsStatus(r[i]) => r[i].ok
    BY DEF Whole
  <2> QED
    BY <2>1, <2>2, <2>3, Zenon
<1>3. q # <<>> => IsStatus(q[Len(q)])
  <2> SUFFICES ASSUME q # <<>>
               PROVE  IsStatus(q[Len(q)])
    OBVIOUS
  <2>1. CASE r = <<>>
    <3>1. Len(r) = 0 /\ Len(q) = Len(s) /\ s # <<>>
      BY <2>1, <1>1
    <3>2. Len(q) \in 1 .. Len(q)
      BY <1>1, <3>1
    <3> QED
      BY <1>1, <3>1, <3>2 DEF Whole
  <2>2. CASE r # <<>>
    <3>1. Len(r) > 0
      BY <2>2, <1>1
    <3>2. q[Len(q)] = r[Len(r)]
      BY <3>1, <1>1
    <3> QED
      BY <2>2, <3>2 DEF Whole
  <2> QED
    BY <2>1, <2>2
<1>4. ASSUME NEW i \in 1 .. Len(q) - 1, ~IsStatus(q[i])
      PROVE  q[i + 1] = Part(q[i].of, q[i].k + 1)
  <2>4. i \in Int /\ Len(s) \in Int
    BY <1>1
  <2>1. CASE i < Len(s)
    <3>1. i \in 1 .. Len(s) - 1 /\ q[i] = s[i] /\ q[i + 1] = s[i + 1]
      BY <2>1, <1>1
    <3> QED
      BY <3>1, <1>4 DEF Whole
  <2>2. CASE i = Len(s)
    <3>1. s # <<>> /\ q[i] = s[Len(s)]
      BY <2>2, <1>1
    <3> QED
      BY <3>1, <1>4 DEF Whole
  <2>3. CASE i > Len(s)
    <3>1. i - Len(s) \in 1 .. Len(r) - 1 /\ q[i] = r[i - Len(s)] /\ q[i + 1] = r[(i - Len(s)) + 1]
      BY <2>3, <1>1
    <3> QED
      BY <3>1, <1>4 DEF Whole
  <2> QED
    <3>1. i < Len(s) \/ i = Len(s) \/ i > Len(s)
      BY <2>4
    <3> QED
      BY <2>1, <2>2, <2>3, <3>1, Zenon
<1>5. Whole(q)
  BY <1>2, <1>3, <1>4 DEF Whole
<1> QED
  BY <1>1, <1>5

LEMMA TailWhole ==
  ASSUME NEW S, NEW s \in Seq(S), Whole(s), s # <<>>
  PROVE  /\ Whole(Tail(s)) /\ Tail(s) \in Seq(S) /\ Head(s) = s[1] /\ 1 \in 1 .. Len(s)
         /\ \A i \in 1 .. Len(Tail(s)) : i + 1 \in 1 .. Len(s) /\ Tail(s)[i] = s[i + 1]
         /\ ~IsStatus(s[1]) => /\ Tail(s) # <<>>
                               /\ Tail(s)[1] = Part(s[1].of, s[1].k + 1)
<1>1. /\ Tail(s) \in Seq(S) /\ Len(s) \in Nat /\ Len(s) > 0 /\ Len(Tail(s)) = Len(s) - 1
      /\ \A i \in 1 .. Len(Tail(s)) : i + 1 \in 1 .. Len(s) /\ Tail(s)[i] = s[i + 1]
      /\ Head(s) = s[1]
  BY HeadTailProperties, LenProperties
<1>2. Tail(s) # <<>> => Len(Tail(s)) > 0
  BY <1>1
<1>3. ~IsStatus(s[1]) => Len(s) > 1
  <2>1. Len(s) = 1 => IsStatus(s[1])
    BY <1>1 DEF Whole
  <2> QED
    BY <2>1, <1>1
<1> DEFINE r == Tail(s)
<1>4. /\ Len(r) \in Nat
      /\ \A i \in 1 .. Len(r) : i + 1 \in 1 .. Len(s) /\ r[i] = s[i + 1]
  BY <1>1
<1>5. Whole(r)
  <2>1. r # <<>> => IsStatus(r[Len(r)])
    <3>1. r # <<>> => Len(r) \in 1 .. Len(r) /\ Len(r) + 1 = Len(s)
      BY <1>1, <1>2
    <3> QED
      BY <3>1, <1>4 DEF Whole
  <2>2. ASSUME NEW i \in 1 .. Len(r) - 1, ~IsStatus(r[i])
        PROVE  r[i + 1] = Part(r[i].of, r[i].k + 1)
    <3>1. /\ i \in 1 .. Len(r) /\ i + 1 \in 1 .. Len(r) /\ i + 1 \in 1 .. Len(s) - 1
      BY <1>1
    <3>2. r[i] = s[i + 1] /\ r[i + 1] = s[(i + 1) + 1]
      BY <3>1, <1>4
    <3> QED
      BY <3>1, <3>2, <2>2 DEF Whole
  <2>3. \A i \in 1 .. Len(r) : ~IsStatus(r[i]) => r[i].ok
    BY <1>4 DEF Whole
  <2> QED
    BY <2>1, <2>2, <2>3 DEF Whole
<1>6. ASSUME ~IsStatus(s[1])
      PROVE  r # <<>> /\ r[1] = Part(s[1].of, s[1].k + 1)
  <2>1. 1 \in 1 .. Len(s) - 1 /\ 1 \in 1 .. Len(r)
    BY <1>1, <1>3, <1>6
  <2>2. r[1] = s[1 + 1]
    BY <2>1, <1>4
  <2>3. s[1 + 1] = Part(s[1].of, s[1].k + 1)
    BY <2>1, <1>6 DEF Whole
  <2>4. r # <<>>
    BY <2>1, <1>4
  <2> QED
    BY <2>2, <2>3, <2>4
<1>7. 1 \in 1 .. Len(s)
  BY <1>1
<1> QED
  BY <1>1, <1>4, <1>5, <1>6, <1>7, Zenon

(* Every part in the pipe was there before or is of command c.             *)
OldOrOf(c) == \A i \in 1 .. Len(pipe') :
                (\E j \in 1 .. Len(pipe) : pipe'[i] = pipe[j]) \/ pipe'[i].of = c

LEMMA AnswerStep ==
  ASSUME TypeOK, Whole(pipe), NEW c, NEW r \in Seq(Parts), Whole(r),
         \A i \in 1 .. Len(r) : r[i].of = c, Answer(r)
  PROVE  pipe' \in Seq(Parts) /\ Whole(pipe') /\ OldOrOf(c)
<1>1. pipe \in Seq(Parts)
  BY DEF TypeOK
<1>2. CASE pipe' = r
  BY <1>2 DEF OldOrOf
<1>3. CASE pipe' = pipe \o r
  <2>1. pipe \o r \in Seq(Parts)
    BY <1>1, ConcatProperties
  <2> QED
    BY <1>1, <1>3, <2>1, AnswerWhole DEF OldOrOf
<1> QED
  BY <1>2, <1>3 DEF Answer

(* The device executes a command. *)
LEMMA ExecuteStep ==
  ASSUME TypeOK, Whole(pipe), NEW c \in Commands, Execute(c)
  PROVE  /\ pipe' \in Seq(Parts) /\ Whole(pipe') /\ OldOrOf(c)
         /\ writing' \in {c, NoCommand} /\ stored' = 0
         /\ attention' \subseteq device.attention
<1>1. c.n \in Nat
  BY DEF Commands
<1>2. attention' \subseteq device.attention
  BY DEF Execute, TypeOK
<1>3. CASE Answer(<<Status(c, FALSE)>>)
  <2> DEFINE r == <<Status(c, FALSE)>>
  <2>1. r \in Seq(Parts) /\ Len(r) = 1 /\ r[1] = Status(c, FALSE)
    BY <1>1 DEF Status, Parts
  <2>2. IsStatus(r[1]) /\ r[1].of = c
    BY <2>1 DEF Status, IsStatus
  <2> HIDE DEF r
  <2>3. Whole(r) /\ \A i \in 1 .. Len(r) : r[i].of = c
    <3>1. \A i \in 1 .. Len(r) : i = 1
      BY <2>1
    <3>2. 1 .. Len(r) - 1 = {}
      BY <2>1
    <3>3. IsStatus(r[Len(r)])
      BY <2>1, <2>2
    <3> QED
      BY <2>2, <3>1, <3>2, <3>3 DEF Whole
  <2>4. Answer(r)
    BY <1>3 DEF r
  <2> QED
    BY <1>2, <2>4, <2>1, <2>3, AnswerStep DEF Execute
<1>4. CASE Answer([k \in 1 .. c.n + 1 |-> Part(c, k)])
  <2> DEFINE r == [k \in 1 .. c.n + 1 |-> Part(c, k)]
  <2>1. \A k \in 1 .. c.n + 1 : Part(c, k) \in Parts
    BY <1>1 DEF Part, Parts
  <2>2. c.n + 1 \in Nat
    BY <1>1
  <2>3. r \in Seq(Parts) /\ Len(r) = c.n + 1
    <3>1. r \in [1 .. c.n + 1 -> Parts]
      BY <2>1
    <3> HIDE DEF r
    <3> QED
      BY <2>2, <3>1
  <2>7. \A k \in 1 .. c.n + 1 : /\ r[k] = Part(c, k) /\ r[k].of = c
                                /\ r[k].k = k /\ r[k].ok = TRUE
    BY DEF Part
  <2> HIDE DEF r
  <2>4. \A i \in 1 .. Len(r) - 1 : r[i + 1] = Part(r[i].of, r[i].k + 1)
    <3> SUFFICES ASSUME NEW i \in 1 .. Len(r) - 1
                 PROVE  r[i + 1] = Part(r[i].of, r[i].k + 1)
      OBVIOUS
    <3>1. i \in 1 .. c.n + 1 /\ i + 1 \in 1 .. c.n + 1
      BY <1>1, <2>3
    <3>2. r[i].of = c /\ r[i].k = i /\ r[i + 1] = Part(c, i + 1)
      BY <2>7, <3>1
    <3> QED
      BY <3>2
  <2>5. IsStatus(r[Len(r)])
    <3>1. Len(r) \in 1 .. c.n + 1
      BY <1>1, <2>3
    <3>2. r[Len(r)].of = c /\ r[Len(r)].k = c.n + 1
      BY <2>3, <2>7, <3>1
    <3> QED
      BY <3>2 DEF IsStatus
  <2>6. Whole(r) /\ \A i \in 1 .. Len(r) : r[i].of = c
    BY <2>3, <2>7, <2>4, <2>5 DEF Whole
  <2>8. Answer(r)
    BY <1>4 DEF r
  <2> QED
    BY <1>2, <2>8, <2>3, <2>6, AnswerStep DEF Execute
<1>5. CASE Answer(<<>>)
  <2>1. <<>> \in Seq(Parts) /\ Whole(<<>>) /\ \A i \in 1 .. Len(<<>>) : <<>>[i].of = c
    BY DEF Whole
  <2>2. pipe' \in Seq(Parts) /\ Whole(pipe') /\ OldOrOf(c)
    BY <1>5, <2>1, AnswerStep
  <2> QED
    BY <1>2, <2>2 DEF Execute
<1> QED
  BY <1>3, <1>4, <1>5 DEF Execute

(* The device takes a chunk of a write. *)
LEMMA StoreStep ==
  ASSUME TypeOK, Whole(pipe), NEW p \in Parts, Store(p)
  PROVE  /\ pipe' \in Seq(Parts) /\ Whole(pipe') /\ OldOrOf(writing)
         /\ writing' \in {writing, NoCommand} /\ stored' \in Nat
         /\ attention' \subseteq device.attention
         /\ IsCommand(p) => writing' = NoCommand
         /\ writing' # NoCommand => stored' = stored + 1
<1>1. pipe \in Seq(Parts) /\ writing \in Commands /\ writing.n \in Nat /\ stored \in Nat
  BY DEF TypeOK, Commands
<1>2. CASE pipe' = pipe
  BY <1>1, <1>2 DEF Store, OldOrOf, TypeOK
<1>3. CASE pipe' = Append(pipe, Status(writing, ~IsCommand(p)))
             /\ writing' = NoCommand /\ stored' = 0
  <2> DEFINE m == Status(writing, ~IsCommand(p))
             r == <<m>>
  <2>1. m \in Parts /\ m.of = writing /\ IsStatus(m)
    BY <1>1 DEF Status, Parts, IsStatus
  <2>2. r \in Seq(Parts) /\ Len(r) = 1 /\ r[1] = m
    BY <2>1
  <2>3. Whole(r) /\ \A i \in 1 .. Len(r) : r[i].of = writing
    BY <2>1, <2>2 DEF Whole
  <2>4. Answer(r)
    BY <1>1, <1>3, <2>1, AppendIsConcat DEF Answer
  <2>5. pipe' \in Seq(Parts) /\ Whole(pipe') /\ OldOrOf(writing)
    BY <2>2, <2>3, <2>4, AnswerStep
  <2> QED
    BY <1>3, <2>5 DEF Store, TypeOK
<1> QED
  BY <1>2, <1>3 DEF Store

(* A message takes the first part out of the pipe. *)
LEMMA ConsumeStep ==
  ASSUME TypeOK, Whole(pipe), Consume
  PROVE  /\ pipe' \in Seq(Parts) /\ Whole(pipe') /\ Head(pipe) = pipe[1]
         /\ Head(pipe) \in Parts /\ 1 \in 1 .. Len(pipe)
         /\ \A i \in 1 .. Len(pipe') : \E j \in 1 .. Len(pipe) : pipe'[i] = pipe[j]
         /\ writing' = writing /\ stored' = stored /\ attention' \subseteq device.attention
         /\ ~IsStatus(pipe[1]) =>
              pipe[1].ok /\ pipe' # <<>> /\ pipe'[1] = Part(pipe[1].of, pipe[1].k + 1)
<1>1. pipe \in Seq(Parts) /\ pipe # <<>> /\ pipe' = Tail(pipe)
  BY DEF TypeOK, Consume
<1>2. Head(pipe) \in Parts
  BY <1>1, HeadTailProperties
<1>3. 1 \in 1 .. Len(pipe) /\ (~IsStatus(pipe[1]) => pipe[1].ok)
  BY <1>1, TailWhole DEF Whole
<1>4. /\ Whole(Tail(pipe)) /\ Tail(pipe) \in Seq(Parts) /\ Head(pipe) = pipe[1]
      /\ \A i \in 1 .. Len(Tail(pipe)) : i + 1 \in 1 .. Len(pipe) /\ Tail(pipe)[i] = pipe[i + 1]
      /\ ~IsStatus(pipe[1]) => /\ Tail(pipe) # <<>>
                               /\ Tail(pipe)[1] = Part(pipe[1].of, pipe[1].k + 1)
  BY <1>1, TailWhole
<1>5. writing' = writing /\ stored' = stored /\ attention' \subseteq device.attention
  BY DEF Consume, TypeOK
<1> QED
  BY <1>1, <1>2, <1>3, <1>4, <1>5, Zenon

-----------------------------------------------------------------------------
(* What a message may do to the device. *)
DeviceMoves == UNCHANGED deviceVars \/ Receive(buffer) \/ Store(buffer) \/ Consume

(* The device keeps the types and the order of its pipe.                   *)
LEMMA DeviceStep ==
  ASSUME TypeOK, Whole(pipe), DeviceMoves
  PROVE  /\ pipe' \in Seq(Parts) /\ Whole(pipe') /\ writing' \in Commands
         /\ stored' \in Nat /\ attention' \subseteq device.attention
<1>1. /\ pipe \in Seq(Parts) /\ writing \in Commands /\ buffer \in Parts
      /\ buffer.of \in Commands /\ stored \in Nat /\ attention \subseteq device.attention
  BY DEF TypeOK, Parts
<1>2. CASE UNCHANGED deviceVars
  BY <1>1, <1>2 DEF deviceVars
<1>3. CASE Execute(buffer.of)
  BY <1>1, <1>3, ExecuteStep, NoCommandType
<1>4. CASE Store(buffer)
  BY <1>1, <1>4, StoreStep, NoCommandType
<1>5. CASE Consume
  BY <1>1, <1>5, ConsumeStep
<1> QED
  BY <1>2, <1>3, <1>4, <1>5 DEF DeviceMoves, Receive

(* The last tag stays with the command that has it.                        *)
LEMMA LatestStays ==
  ASSUME TypeOK, Whole(pipe), tag' = tag, NEW c, Latest(c),
         \/ UNCHANGED deviceVars
         \/ Execute(buffer.of) /\ buffer.of = c
         \/ Store(buffer)
         \/ Consume
  PROVE  Latest(c)'
<1>1. buffer \in Parts /\ buffer.of \in Commands /\ NoCommand.tag = 0
  BY NoCommandType DEF TypeOK, Parts
<1>2. c.tag = tag /\ tag > 0
  BY DEF Latest
<1>3. CASE UNCHANGED deviceVars
  BY <1>3 DEF deviceVars, Latest
<1>4. CASE Execute(buffer.of) /\ buffer.of = c
  <2>1. OldOrOf(c) /\ writing' \in {c, NoCommand}
    BY <1>1, <1>4, ExecuteStep
  <2>2. ASSUME NEW i \in 1 .. Len(pipe'), pipe'[i].of.tag = tag
        PROVE  pipe'[i].of = c
    BY <2>1, <2>2 DEF OldOrOf, Latest
  <2> QED
    BY <1>1, <1>2, <2>1, <2>2 DEF Latest
<1>5. CASE Store(buffer)
  <2>1. OldOrOf(writing) /\ writing' \in {writing, NoCommand}
    BY <1>1, <1>5, StoreStep
  <2>2. ASSUME NEW i \in 1 .. Len(pipe'), pipe'[i].of.tag = tag
        PROVE  pipe'[i].of = c
    BY <2>1, <2>2 DEF OldOrOf, Latest
  <2>3. writing'.tag = tag => writing' = c
    BY <1>1, <1>2, <2>1 DEF Latest
  <2> QED
    BY <1>2, <2>2, <2>3 DEF Latest
<1>6. CASE Consume
  BY <1>6, ConsumeStep DEF Latest
<1> QED
  BY <1>3, <1>4, <1>5, <1>6

LEMMA MessageMoves ==
  ASSUME NEW t \in Threads, Message(t)
  PROVE  DeviceMoves /\ tag' = tag /\ alone' = alone /\ device' = device
BY DEF Message, SendCommand, SendData, ReadData, ReadStatus, MessageFails, DeviceMoves

(* What a thread goes on with after a message. *)
LEMMA ProceedType ==
  ASSUME TypeOK, NEW t \in Threads, NEW m \in Nat, Proceed(t, m)
  PROVE  buffer' \in Parts /\ pc' = [pc EXCEPT ![t] = pc'[t]] /\ pc'[t] \in {"data", "status"}
         /\ \A u \in Threads \ {t} : pc'[u] = pc[u]
<1>1. xfer[t].cmd \in Commands
  BY DEF TypeOK, Transfers
<1>2. Part(xfer[t].cmd, m + 1) \in Parts
  BY <1>1 DEF Part, Parts
<1> QED
  BY <1>2, NoCommandType DEF Proceed, TypeOK

LEMMA MovedFields ==
  ASSUME NEW x \in Transfers, NEW p \in Parts, NEW b \in BOOLEAN
  PROVE  /\ Moved(x, p, b) \in Transfers
         /\ Moved(x, p, b).cmd = x.cmd /\ Moved(x, p, b).moved = x.moved + 1
         /\ Moved(x, p, b).got = p /\ Moved(x, p, b).own = (x.own /\ b)
<1> DEFINE o == x.own /\ b
<1>1. o \in BOOLEAN /\ x.moved + 1 \in Nat
  BY DEF Transfers
<1>2. Moved(x, p, b) = [x EXCEPT !.moved = x.moved + 1, !.got = p, !.own = o]
  BY DEF Moved, Transfers
<1> HIDE DEF o
<1>3. /\ Moved(x, p, b) \in Transfers
      /\ Moved(x, p, b).cmd = x.cmd /\ Moved(x, p, b).moved = x.moved + 1
      /\ Moved(x, p, b).got = p /\ Moved(x, p, b).own = o
  BY <1>1, <1>2 DEF Transfers
<1> QED
  BY <1>3 DEF o

LEMMA MessageType ==
  ASSUME TypeOK, Whole(pipe), NEW t \in Threads, Message(t)
  PROVE  TypeOK' /\ Whole(pipe') /\ pc' \in [Threads -> {"idle", "control", "command", "data", "status", "ended"}]
         /\ pc[t] \in Active /\ pc'[t] \in {"data", "status", "ended"}
         /\ \A u \in Threads \ {t} : pc'[u] = pc[u] /\ xfer'[u] = xfer[u]
<1>1. /\ tag' = tag /\ tag \in Nat /\ Commands' = Commands /\ Parts' = Parts
      /\ Transfers' = Transfers
      /\ UNCHANGED <<id, lun, blockSize, valid, error, stage, try, alone, device, calls>>
  BY DEF Message, TypeOK, Commands, Parts, Transfers, initVars
<1>2. /\ pipe' \in Seq(Parts) /\ Whole(pipe') /\ writing' \in Commands /\ stored' \in Nat
      /\ attention' \subseteq device.attention
  BY MessageMoves, DeviceStep
<1>3. /\ buffer' \in Parts /\ pc[t] \in Active
      /\ pc' = [pc EXCEPT ![t] = pc'[t]] /\ pc'[t] \in {"data", "status", "ended"}
      /\ \A u \in Threads \ {t} : pc'[u] = pc[u]
      /\ faults' \in 0 .. MaxFaults
      /\ xfer' \in [Threads -> Transfers]
      /\ \A u \in Threads \ {t} : xfer'[u] = xfer[u]
  <2>1. xfer[t] \in Transfers /\ xfer[t].moved \in Nat /\ xfer[t].got \in Parts
    BY DEF TypeOK, Transfers
  <2>2. faults \in 0 .. MaxFaults /\ MaxFaults \in Nat
    BY StorageAssumption DEF TypeOK
  <2>3. CASE SendCommand(t)
    BY <2>2, <2>3, ProceedType DEF SendCommand, TypeOK, Active
  <2>4. CASE SendData(t)
    <3>1. Proceed(t, xfer[t].moved + 1) /\ xfer[t].moved + 1 \in Nat
      BY <2>1, <2>4 DEF SendData
    <3>2. pc[t] \in Active /\ faults' = faults
      BY <2>4 DEF SendData, Active
    <3>3. /\ xfer' \in [Threads -> Transfers]
          /\ \A u \in Threads \ {t} : xfer'[u] = xfer[u]
      <4> DEFINE b == /\ writing = xfer[t].cmd /\ stored = xfer[t].moved
                      /\ buffer = Part(xfer[t].cmd, xfer[t].moved + 1)
      <4>1. xfer' = [xfer EXCEPT ![t] = Moved(xfer[t], xfer[t].got, b)] /\ b \in BOOLEAN
        BY <2>4 DEF SendData
      <4>2. Moved(xfer[t], xfer[t].got, b) \in Transfers
        BY <2>1, <4>1, MovedFields
      <4> QED
        BY <4>1, <4>2 DEF TypeOK
    <3> QED
      BY <2>2, <3>1, <3>2, <3>3, ProceedType
  <2>5. CASE ReadData(t)
    <3>1. Proceed(t, xfer[t].moved + 1) /\ xfer[t].moved + 1 \in Nat
      BY <2>1, <2>5 DEF ReadData
    <3>2. pc[t] \in Active /\ faults' = faults /\ Head(pipe) \in Parts
      BY <2>5, ConsumeStep DEF ReadData, Active
    <3>3. /\ xfer' \in [Threads -> Transfers]
          /\ \A u \in Threads \ {t} : xfer'[u] = xfer[u]
      <4> DEFINE b == Head(pipe) = Part(xfer[t].cmd, xfer[t].moved + 1)
      <4>1. xfer' = [xfer EXCEPT ![t] = Moved(xfer[t], Head(pipe), b)] /\ b \in BOOLEAN
        BY <2>5 DEF ReadData
      <4>2. Moved(xfer[t], Head(pipe), b) \in Transfers
        BY <2>1, <3>2, <4>1, MovedFields
      <4> QED
        BY <4>1, <4>2 DEF TypeOK
    <3> QED
      BY <2>2, <3>1, <3>2, <3>3, ProceedType
  <2>6. ASSUME NEW r \in BOOLEAN, Finish(t, r)
        PROVE  /\ buffer' \in Parts /\ pc' = [pc EXCEPT ![t] = pc'[t]] /\ pc'[t] = "ended"
               /\ \A u \in Threads \ {t} : pc'[u] = pc[u]
               /\ xfer' \in [Threads -> Transfers]
               /\ \A u \in Threads \ {t} : xfer'[u] = xfer[u]
    <3>1. buffer' = buffer /\ pc' = [pc EXCEPT ![t] = "ended"]
          /\ xfer' = [xfer EXCEPT ![t] = [xfer[t] EXCEPT !.ok = r]]
      BY <2>6 DEF Finish, TypeOK
    <3>2. [xfer[t] EXCEPT !.ok = r] \in Transfers
      BY <2>1, <2>6 DEF Transfers
    <3> QED
      BY <3>1, <3>2 DEF TypeOK
  <2>7. CASE ReadStatus(t)
    <3>1. Matches(Head(pipe)) \in BOOLEAN /\ Finish(t, Matches(Head(pipe)))
      BY <2>7, ConsumeStep DEF ReadStatus, Matches, Parts
    <3> QED
      BY <2>2, <2>6, <2>7, <3>1 DEF ReadStatus, Active
  <2>8. CASE MessageFails(t)
    <3>1. pc[t] \in Active /\ faults' \in 0 .. MaxFaults
      BY <2>2, <2>8 DEF MessageFails, Sends, Reads, Active
    <3>2. Finish(t, FALSE)
      BY <2>8 DEF MessageFails
    <3> QED
      BY <2>6, <3>1, <3>2
  <2> QED
    BY <2>3, <2>4, <2>5, <2>7, <2>8 DEF Message
<1>4. pc' \in [Threads -> {"idle", "control", "command", "data", "status", "ended"}]
  BY <1>3 DEF TypeOK
<1>5. TypeOK'
  BY <1>1, <1>2, <1>3, <1>4 DEF TypeOK
<1> QED
  BY <1>2, <1>3, <1>4, <1>5


(* The transfer of a message that no other call overlaps: what holds of it. *)
LEMMA MessageMine ==
  ASSUME IInv, NEW t \in Threads, Message(t), alone
  PROVE  Mine(t)' /\ Result(t)'
<1> DEFINE x == xfer[t]
           c == x.cmd
<1>1. /\ x \in Transfers /\ c \in Commands /\ c.n \in Nat /\ c.tag \in Nat /\ x.moved \in Nat
      /\ x.got \in Parts /\ x.own \in BOOLEAN /\ tag \in Nat /\ tag' = tag
      /\ xfer \in [Threads -> Transfers] /\ TypeOK /\ Whole(pipe) /\ pc \in [Threads -> {"idle", "control", "command", "data", "status", "ended"}]
  <2>1. TypeOK /\ Whole(pipe) /\ tag' = tag
    BY DEF IInv, Message
  <2>2. /\ xfer \in [Threads -> Transfers] /\ tag \in Nat
        /\ pc \in [Threads -> {"idle", "control", "command", "data", "status", "ended"}]
    BY <2>1 DEF TypeOK
  <2>3. x \in Transfers
    BY <2>2
  <2>4. c \in Commands /\ x.moved \in Nat /\ x.got \in Parts /\ x.own \in BOOLEAN
    BY <2>3 DEF Transfers
  <2>5. c.n \in Nat /\ c.tag \in Nat
    BY <2>2, <2>4 DEF Commands
  <2> QED
    BY <2>1, <2>2, <2>3, <2>4, <2>5
<1>2. pc[t] \in Active /\ pc'[t] \in {"data", "status", "ended"}
  BY <1>1, MessageType
<1>3. /\ Latest(c) /\ Counted(t) /\ WriteOwn(t) /\ ReadOwn(t)
      /\ pc[t] = "command" => buffer = Part(c, 0)
  BY <1>2 DEF IInv, Mine
<1>4. c # NoCommand /\ c.tag = tag
  BY <1>3, NoCommandType, <1>1 DEF Latest
<1>10. PICK d : d = c
  OBVIOUS
<1>5. CASE SendCommand(t)
  <2>1. /\ buffer = Part(c, 0) /\ buffer.of = c /\ x.moved = 0 /\ x.own
        /\ xfer' = xfer /\ Proceed(t, 0) /\ Receive(buffer)
    BY <1>3, <1>5 DEF SendCommand, Part, Counted
  <2>2. IsCommand(buffer)
    BY <1>4, <2>1 DEF IsCommand, Part
  <2>3. Latest(c)'
    BY <1>1, <1>3, <2>1, LatestStays DEF Receive
  <2>4. Counted(t)'
    BY <1>1, <2>1 DEF Proceed, Counted
  <2>5. writing' \in {c, NoCommand} /\ (writing' = c => stored' = 0)
    <3>1. CASE Execute(c)
      BY <1>1, <3>1, ExecuteStep
    <3>2. CASE Store(buffer)
      BY <1>1, <1>4, <2>2, <3>2, StoreStep DEF TypeOK
    <3> QED
      BY <2>1, <3>1, <3>2 DEF Receive
  <2>6. WriteOwn(t)'
    <3>1. xfer'[t] = x /\ x.moved + 1 = 1 /\ xfer'[t].moved = 0
      BY <2>1
    <3>2. pc'[t] = "data" /\ c.op = "write" => buffer' = Part(c, 1)
      BY <1>1, <2>1 DEF Proceed
    <3>3. xfer'[t].own /\ xfer'[t].cmd = c
      BY <2>1
    <3> QED
      BY <2>5, <3>1, <3>2, <3>3 DEF WriteOwn
  <2>7. ReadOwn(t)'
    BY <2>1 DEF ReadOwn
  <2>8. pc'[t] \in {"data", "status"}
    BY <1>1, <2>1 DEF Proceed
  <2> QED
    BY <2>1, <2>3, <2>4, <2>6, <2>7, <2>8 DEF Mine, Result
<1>6. CASE SendData(t)
  <2> DEFINE b == writing = c /\ stored = x.moved /\ buffer = Part(c, x.moved + 1)
  <2>1. /\ pc[t] = "data" /\ c.op = "write" /\ Store(buffer) /\ x.moved < c.n
        /\ Proceed(t, x.moved + 1)
        /\ xfer' = [xfer EXCEPT ![t] = Moved(x, x.got, b)] /\ b \in BOOLEAN
    BY <1>3, <1>6 DEF SendData, Sends, Counted
  <2>2. b /\ x.own
    BY <1>3, <2>1 DEF WriteOwn, Store
  <2>3. /\ xfer'[t].cmd = c /\ xfer'[t].moved = x.moved + 1 /\ xfer'[t].own
    <3> HIDE DEF b
    <3>1. xfer'[t] = Moved(x, x.got, b)
      BY <1>1, <2>1
    <3>2. /\ Moved(x, x.got, b).cmd = c /\ Moved(x, x.got, b).moved = x.moved + 1
          /\ Moved(x, x.got, b).own = (x.own /\ b)
      BY <1>1, <2>1, MovedFields
    <3> QED
      BY <2>2, <3>1, <3>2, Zenon
  <2>4. Latest(c)'
    BY <1>1, <1>3, <1>10, <2>1, <2>3, LatestStays
  <2>5. /\ pc' = [pc EXCEPT ![t] = IF x.moved + 1 < c.n THEN "data" ELSE "status"]
        /\ x.moved + 1 < c.n => buffer' = Part(c, x.moved + 2)
    BY <2>1, <1>1 DEF Proceed
  <2>6. Counted(t)'
    BY <1>1, <2>1, <2>3, <2>5 DEF Counted
  <2>7. writing' \in {c, NoCommand} /\ (writing' = c => stored' = x.moved + 1)
    <3>1. buffer \in Parts
      BY <1>1 DEF TypeOK
    <3> QED
      BY <1>1, <1>4, <2>1, <2>2, <3>1, StoreStep
  <2>8. WriteOwn(t)'
    BY <1>1, <2>3, <2>5, <2>7 DEF WriteOwn
  <2>9. ReadOwn(t)'
    BY <2>1, <2>3 DEF ReadOwn
  <2>10. pc'[t] \in {"data", "status"}
    BY <1>1, <2>5
  <2> QED
    BY <2>3, <2>4, <2>6, <2>8, <2>9, <2>10 DEF Mine, Result
<1>7. CASE ReadData(t)
  <2> DEFINE h == Head(pipe)
             b == h = Part(c, x.moved + 1)
  <2>1. /\ pc[t] = "data" /\ c.op # "write" /\ Consume /\ x.moved < c.n /\ ~IsStatus(h)
        /\ Proceed(t, x.moved + 1)
        /\ xfer' = [xfer EXCEPT ![t] = Moved(x, h, b)] /\ b \in BOOLEAN
    BY <1>3, <1>7 DEF ReadData, Reads, Counted, Fits
  <2>2. /\ h = pipe[1] /\ h \in Parts /\ h.ok /\ pipe' # <<>>
        /\ pipe'[1] = Part(h.of, h.k + 1)
    BY <1>1, <2>1, ConsumeStep
  <2>3. b => x.own
    <3>1. CASE x.moved = 0
      BY <1>3, <3>1 DEF Counted
    <3>2. CASE x.moved > 0
      <4>1. /\ h = Part(x.got.of, x.got.k + 1) /\ x.got.ok
            /\ x.own <=> x.got = Part(c, x.moved)
        BY <1>3, <2>1, <2>2, <3>2 DEF ReadOwn
      <4>2. b => x.got.of = c /\ x.got.k = x.moved
        BY <1>1, <4>1 DEF Part, Parts
      <4>3. b => x.got = Part(c, x.moved)
        BY <1>1, <4>1, <4>2 DEF Part, Parts
      <4> QED
        BY <4>1, <4>3
    <3> QED
      BY <1>1, <3>1, <3>2
  <2>4. /\ xfer'[t].cmd = c /\ xfer'[t].moved = x.moved + 1 /\ xfer'[t].got = h
        /\ xfer'[t].own <=> b
    <3>1. (x.own /\ b) <=> b
      BY <2>3
    <3> HIDE DEF b
    <3>2. xfer'[t] = Moved(x, h, b)
      BY <1>1, <2>1
    <3> QED
      BY <1>1, <2>1, <2>2, <3>1, <3>2, MovedFields
  <2>5. Latest(c)'
    BY <1>1, <1>3, <1>10, <2>1, <2>4, LatestStays
  <2>6. pc' = [pc EXCEPT ![t] = IF x.moved + 1 < c.n THEN "data" ELSE "status"]
    BY <2>1 DEF Proceed
  <2>7. Counted(t)'
    BY <1>1, <2>1, <2>4, <2>6 DEF Counted
  <2>8. WriteOwn(t)'
    BY <2>1, <2>4 DEF WriteOwn
  <2>9. ReadOwn(t)'
    BY <2>1, <2>2, <2>4 DEF ReadOwn
  <2>10. pc'[t] \in {"data", "status"}
    BY <1>1, <2>6
  <2> QED
    BY <2>4, <2>5, <2>7, <2>8, <2>9, <2>10 DEF Mine, Result
<1>8. CASE ReadStatus(t)
  <2> DEFINE h == Head(pipe)
  <2>1. /\ pc[t] = "status" /\ Consume /\ IsStatus(h) /\ Finish(t, Matches(h))
    BY <1>8 DEF ReadStatus, Fits
  <2>2. h = pipe[1] /\ h \in Parts /\ 1 \in 1 .. Len(pipe)
    BY <1>1, <2>1, ConsumeStep
  <2>3. /\ pc'[t] = "ended" /\ xfer'[t].ok = Matches(h)
        /\ xfer'[t].own = x.own /\ xfer'[t].cmd = c /\ xfer'[t].got = x.got
    <3>1. /\ pc' = [pc EXCEPT ![t] = "ended"]
          /\ xfer' = [xfer EXCEPT ![t] = [x EXCEPT !.ok = Matches(h)]]
      BY <1>1, <2>1 DEF Finish
    <3> QED
      BY <1>1, <3>1 DEF Transfers
  <2>4. ASSUME Matches(h), c.op # "write", c.n > 0
        PROVE  x.own /\ x.got = Part(c, c.n)
    <3>1. x.moved = c.n
      BY <1>3, <2>1 DEF Counted
    <3>2. /\ h = Part(x.got.of, x.got.k + 1) /\ x.got.ok
          /\ x.own <=> x.got = Part(c, x.moved)
      BY <1>3, <2>2, <2>4, <3>1 DEF ReadOwn
    <3>3. h.of = c
      BY <1>3, <2>2, <2>4 DEF Latest, Matches
    <3>4. x.got.of = c /\ x.got.k = c.n
      BY <1>1, <2>1, <3>2, <3>3 DEF IsStatus, Part, Parts
    <3>5. x.got = Part(c, c.n)
      BY <1>1, <3>2, <3>4 DEF Part, Parts
    <3> QED
      BY <3>1, <3>2, <3>5
  <2>5. ASSUME c.op = "write" \/ c.n = 0
        PROVE  x.own
    <3>1. c.n = 0 => x.moved = 0
      BY <1>1, <1>3 DEF Counted
    <3> QED
      BY <1>3, <2>5, <3>1 DEF Counted, WriteOwn
  <2>6. Result(t)'
    BY <1>1, <2>3, <2>4, <2>5 DEF Result
  <2> QED
    BY <2>3, <2>6 DEF Mine, Active
<1>9. CASE MessageFails(t)
  <2>1. pc'[t] = "ended" /\ xfer'[t].ok = FALSE
    <3>1. /\ pc' = [pc EXCEPT ![t] = "ended"]
          /\ xfer' = [xfer EXCEPT ![t] = [x EXCEPT !.ok = FALSE]]
      BY <1>1, <1>9 DEF Finish, MessageFails
    <3> QED
      BY <1>1, <3>1 DEF Transfers
  <2> QED
    BY <2>1 DEF Mine, Result, Active
<1> QED
  BY <1>5, <1>6, <1>7, <1>8, <1>9 DEF Message


LEMMA MessageCommand ==
  ASSUME TypeOK, Whole(pipe), NEW t \in Threads, Message(t)
  PROVE  xfer'[t].cmd = xfer[t].cmd
<1>1. xfer \in [Threads -> Transfers] /\ xfer[t] \in Transfers /\ xfer[t].got \in Parts
  BY DEF TypeOK, Transfers
<1>2. CASE SendCommand(t)
  BY <1>2 DEF SendCommand
<1>3. ASSUME NEW p \in Parts, NEW b \in BOOLEAN, xfer' = [xfer EXCEPT ![t] = Moved(xfer[t], p, b)]
      PROVE  xfer'[t].cmd = xfer[t].cmd
  <2>1. xfer'[t] = Moved(xfer[t], p, b)
    BY <1>1, <1>3
  <2> QED
    BY <1>1, <2>1, MovedFields
<1>4. CASE SendData(t)
  BY <1>1, <1>3, <1>4 DEF SendData
<1>5. CASE ReadData(t)
  <2>1. Head(pipe) \in Parts
    BY <1>5, ConsumeStep DEF ReadData
  <2> QED
    BY <1>3, <1>5, <2>1 DEF ReadData
<1>6. ASSUME NEW r, Finish(t, r)
      PROVE  xfer'[t].cmd = xfer[t].cmd
  BY <1>1, <1>6 DEF Finish, Transfers
<1> QED
  BY <1>2, <1>4, <1>5, <1>6 DEF Message, ReadStatus, MessageFails

-----------------------------------------------------------------------------
(* While no call overlaps the one of t, what holds of t is all there is.   *)
LEMMA OnlyOne ==
  ASSUME NEW t \in Threads, Apart', pc'[t] # "idle", (Mine(t) /\ Result(t))'
  PROVE  \A u \in Threads : (Mine(u) /\ Result(u))'
<1> SUFFICES ASSUME NEW u \in Threads
             PROVE  (Mine(u) /\ Result(u))'
  OBVIOUS
<1>1. CASE u = t
  BY <1>1
<1>2. CASE u # t
  <2>1. alone' => pc'[u] = "idle"
    BY <1>2 DEF Apart
  <2> QED
    BY <2>1 DEF Mine, Result, Active
<1> QED
  BY <1>1, <1>2

(* A message preserves the invariant. *)
LEMMA MessageStep ==
  ASSUME IInv, NEW t \in Threads, Message(t)
  PROVE  IInv'
<1>1. TypeOK /\ Whole(pipe) /\ Apart /\ InitInv
  BY DEF IInv
<1>2. /\ TypeOK' /\ Whole(pipe)' /\ pc[t] \in Active /\ pc'[t] \in {"data", "status", "ended"}
      /\ \A u \in Threads \ {t} : pc'[u] = pc[u] /\ xfer'[u] = xfer[u]
  BY <1>1, MessageType
<1>3. /\ UNCHANGED <<lun, blockSize, valid, stage, alone, device>>
      /\ xfer'[t].cmd = xfer[t].cmd
  BY <1>1, MessageCommand DEF Message, initVars
<1>4. Apart'
  BY <1>1, <1>2, <1>3 DEF Apart, Active
<1>5. (Mine(t) /\ Result(t))'
  <2>1. CASE alone
    BY <2>1, MessageMine
  <2>2. CASE ~alone
    BY <1>3, <2>2 DEF Mine, Result
  <2> QED
    BY <2>1, <2>2
<1>6. InitInv'
  <2>1. \/ pc'["manager"] = pc["manager"]
        \/ pc["manager"] \in Active /\ pc'["manager"] \in Active \cup {"ended"}
    <3>1. CASE t = "manager"
      BY <1>2, <3>1 DEF Active
    <3>2. CASE t # "manager"
      <4>1. "manager" \in Threads \ {t}
        BY <3>2 DEF Threads
      <4>2. pc'["manager"] = pc["manager"]
        BY <1>2, <4>1
      <4> QED
        BY <4>2
    <3> QED
      BY <3>1, <3>2
  <2>2. pc["manager"] = "control" <=> pc'["manager"] = "control"
    BY <2>1 DEF Active
  <2>3. pc'["sdio"] # "control"
    BY <1>1, <1>2 DEF InitInv, Threads
  <2>4. xfer'["manager"].cmd = xfer["manager"].cmd
    BY <1>2, <1>3 DEF Threads
  <2>5. pc["manager"] \in Active \cup {"ended"} => pc'["manager"] \in Active \cup {"ended"}
    BY <2>1
  <2>6. LunCount' = LunCount
    BY <1>3 DEF LunCount
  <2> QED
    BY <1>1, <1>3, <2>2, <2>3, <2>4, <2>5, <2>6 DEF InitInv
<1>7. \A u \in Threads : (Mine(u) /\ Result(u))'
  <2>1. pc'[t] # "idle"
    BY <1>2
  <2> QED
    BY <1>4, <1>5, <2>1, OnlyOne
<1> QED
  BY <1>2, <1>4, <1>6, <1>7 DEF IInv

(* A transfer begins, with a tag that nothing has yet.                     *)
LEMMA TransferStep ==
  ASSUME TypeOK, NEW t \in Threads, NEW op \in Ops, NEW l \in 0 .. MaxLuns, NEW n \in Nat,
         Transfer(t, op, l, n), pipe' = pipe, writing' = writing
  PROVE  /\ tag' \in Nat /\ buffer' \in Parts' /\ xfer' \in [Threads -> Transfers']
         /\ pipe' \in Seq(Parts') /\ writing' \in Commands'
         /\ pc' \in [Threads -> {"idle", "control", "command", "data", "status", "ended"}]
         /\ pc'[t] = "command" /\ xfer'[t].cmd = Command(tag + 1, op, l, n)
         /\ \A u \in Threads \ {t} : pc'[u] = pc[u] /\ xfer'[u] = xfer[u]
         /\ (Mine(t) /\ Result(t))'
<1> DEFINE c == Command(tag + 1, op, l, n)
           y == Fresh(c)
<1>1. /\ tag \in Nat /\ tag' = tag + 1 /\ buffer' = Part(c, 0)
      /\ xfer' = [xfer EXCEPT ![t] = y] /\ pc' = [pc EXCEPT ![t] = "command"]
      /\ xfer \in [Threads -> Transfers] /\ pipe \in Seq(Parts) /\ writing \in Commands
  BY DEF Transfer, TypeOK
<1>2. c \in Commands' /\ c.tag = tag + 1 /\ c.n = n
  BY <1>1 DEF Command, Commands
<1>3. /\ Commands \subseteq Commands' /\ Parts \subseteq Parts' /\ pipe' \in Seq(Parts')
  BY <1>1, PartsGrow
<1>4. /\ NoCommand \in Commands /\ Zero \in Parts
  BY NoCommandType
<1>14. y = [cmd |-> c, moved |-> 0, got |-> Zero, own |-> TRUE, ok |-> FALSE]
  BY DEF Fresh
<1> HIDE DEF y
<1>5. y.cmd = c /\ y.moved = 0 /\ y.got = Zero /\ y.own /\ ~y.ok
  BY <1>14
<1>6. y \in Transfers'
  BY <1>2, <1>3, <1>4, <1>14 DEF Transfers
<1>7. Transfers \subseteq Transfers'
  BY <1>3 DEF Transfers
<1>8. xfer' \in [Threads -> Transfers']
  BY <1>1, <1>6, <1>7
<1>9. Part(c, 0) \in Parts'
  BY <1>2 DEF Part, Parts
<1>10. /\ xfer'[t] = y /\ pc'[t] = "command"
       /\ \A u \in Threads \ {t} : pc'[u] = pc[u] /\ xfer'[u] = xfer[u]
       /\ pc' \in [Threads -> {"idle", "control", "command", "data", "status", "ended"}]
  BY <1>1 DEF TypeOK
<1>11. Latest(xfer[t].cmd)'
  <2>1. xfer'[t].cmd = c /\ c.tag = tag' /\ tag' > 0
    BY <1>1, <1>2, <1>5, <1>10
  <2>2. ASSUME NEW i \in 1 .. Len(pipe)
        PROVE  pipe[i].of.tag \in 0 .. tag
    <3>1. pipe[i] \in Parts
      BY <1>1, ElementOfSeq
    <3> QED
      BY <3>1 DEF Parts, Commands
  <2>3. writing.tag \in 0 .. tag
    BY <1>1 DEF Commands
  <2>4. \A i \in 1 .. Len(pipe') : pipe'[i].of.tag # tag'
    BY <1>1, <2>2
  <2>5. writing'.tag # tag'
    BY <1>1, <2>3
  <2> QED
    BY <2>1, <2>4, <2>5 DEF Latest
<1>12. Mine(t)'
  <2>1. Counted(t)'
    BY <1>2, <1>5, <1>10 DEF Counted
  <2>2. WriteOwn(t)'
    BY <1>5, <1>10 DEF WriteOwn
  <2>3. ReadOwn(t)'
    BY <1>5, <1>10 DEF ReadOwn
  <2> QED
    BY <1>1, <1>5, <1>10, <1>11, <2>1, <2>2, <2>3 DEF Mine
<1>13. Result(t)'
  BY <1>10 DEF Result
<1> QED
  BY <1>1, <1>2, <1>3, <1>5, <1>8, <1>9, <1>10, <1>12, <1>13


(* A transfer of Init. *)
LEMMA InitTransferStep ==
  ASSUME IInv, pc["manager"] \in {"control", "ended"}, stage # "none",
         NEW s \in Searching, NEW op \in Ops, NEW n \in Nat,
         InitTransfer(s, op, lun', n), LunCount \in 1 .. MaxLuns, lun' \in 0 .. LunCount - 1,
         try' \in 0 .. Tries - 1, blockSize' \in Nat, faults' \in 0 .. MaxFaults,
         UNCHANGED <<id, alone, device, deviceVars, calls>>,
         s = "inquiry" => op = "inquiry" /\ n = 1,
         s \in {"capacity", "last"} /\ alone => lun' \in device.disks,
         s = "last" => blockSize' = device.size
  PROVE  IInv'
<1>1. TypeOK /\ Whole(pipe) /\ Apart /\ InitInv
  BY DEF IInv
<1>2. /\ "manager" \in Threads /\ Transfer("manager", op, lun', n) /\ lun' \in 0 .. MaxLuns
      /\ stage' = s /\ UNCHANGED <<valid, error, pipe, writing, stored, attention>>
      /\ lun' < LunCount
  BY StorageAssumption DEF InitTransfer, Threads, deviceVars
<1>3. /\ tag' \in Nat /\ buffer' \in Parts' /\ xfer' \in [Threads -> Transfers']
      /\ pipe' \in Seq(Parts') /\ writing' \in Commands'
      /\ pc' \in [Threads -> {"idle", "control", "command", "data", "status", "ended"}]
      /\ pc'["manager"] = "command"
      /\ xfer'["manager"].cmd = Command(tag + 1, op, lun', n)
      /\ \A u \in Threads \ {"manager"} : pc'[u] = pc[u] /\ xfer'[u] = xfer[u]
      /\ (Mine("manager") /\ Result("manager"))'
  BY <1>1, <1>2, TransferStep
<1>4. TypeOK'
  BY <1>1, <1>2, <1>3 DEF TypeOK, Searching
<1>5. Apart'
  <2>1. alone' = alone /\ pc["manager"] # "idle"
    OBVIOUS
  <2> QED
    BY <1>1, <1>3, <2>1 DEF Apart
<1>6. \A u \in Threads : (Mine(u) /\ Result(u))'
  <2>1. pc'["manager"] # "idle"
    BY <1>3
  <2> QED
    BY <1>2, <1>3, <1>5, <2>1, OnlyOne
<1>7. InitInv'
  <2>1. pc'["sdio"] = pc["sdio"] /\ pc["sdio"] # "control"
    BY <1>1, <1>3 DEF Threads, InitInv
  <2>2. LunCount' = LunCount /\ ~valid'
    BY <1>1, <1>2 DEF LunCount, InitInv
  <2>3. LET c == xfer'["manager"].cmd IN c.lun = lun' /\ c.op = op /\ c.n = n
    BY <1>3 DEF Command
  <2>4. s # "luns" /\ s # "none"
    BY DEF Searching
  <2> QED
    BY <1>2, <1>3, <2>1, <2>2, <2>3, <2>4 DEF InitInv, Active
<1>8. Whole(pipe)'
  BY <1>1, <1>2 DEF Whole
<1> QED
  BY <1>4, <1>5, <1>6, <1>7, <1>8 DEF IInv

(* The transfers of a thread stay as they are when the steps of the other  *)
(* leave the device, the buffer and the tag alone.                         *)
LEMMA Stays ==
  ASSUME TypeOK, NEW u \in Threads, Mine(u) /\ Result(u),
         UNCHANGED <<tag, buffer, deviceVars, pc[u], xfer[u]>>, alone' => alone
  PROVE  (Mine(u) /\ Result(u))'
<1>1. UNCHANGED <<tag, buffer, pipe, writing, stored, pc[u], xfer[u]>>
  BY DEF deviceVars
<1>2. (Latest(xfer[u].cmd) => Latest(xfer[u].cmd)') /\ (Counted(u) => Counted(u)')
      /\ (WriteOwn(u) => WriteOwn(u)') /\ (ReadOwn(u) => ReadOwn(u)')
  BY <1>1 DEF Latest, Counted, WriteOwn, ReadOwn
<1> QED
  BY <1>1, <1>2 DEF Mine, Result

(* A call ends for thread t. *)
LEMMA EndStep ==
  ASSUME IInv, NEW t \in Threads, pc[t] # "idle", pc' = [pc EXCEPT ![t] = "idle"],
         xfer' = [xfer EXCEPT ![t] = Idle], UNCHANGED <<tag, buffer, alone, device, deviceVars>>
  PROVE  /\ Whole(pipe)' /\ Apart' /\ \A u \in Threads : (Mine(u) /\ Result(u))'
         /\ xfer' \in [Threads -> Transfers]
         /\ pc' \in [Threads -> {"idle", "control", "command", "data", "status", "ended"}]
         /\ Commands' = Commands /\ Parts' = Parts /\ Transfers' = Transfers
<1>1. TypeOK /\ Whole(pipe) /\ Apart
  BY DEF IInv
<1>2. /\ pc'[t] = "idle" /\ xfer'[t] = Idle
      /\ \A u \in Threads \ {t} : pc'[u] = pc[u] /\ xfer'[u] = xfer[u]
  BY <1>1 DEF TypeOK
<1>3. Idle \in Transfers
  BY <1>1, NoCommandType DEF Idle, Fresh, Transfers
<1>4. (Mine(t) /\ Result(t))'
  BY <1>2 DEF Mine, Result, Active
<1>5. ASSUME NEW u \in Threads \ {t}
      PROVE  (Mine(u) /\ Result(u))'
  <2>1. Mine(u) /\ Result(u) /\ u \in Threads
    BY DEF IInv
  <2>2. UNCHANGED <<pc[u], xfer[u]>>
    BY <1>2
  <2> QED
    BY <1>1, <2>1, <2>2, Stays
<1>6. Apart'
  BY <1>1, <1>2 DEF Apart
<1>7. Whole(pipe)'
  BY <1>1 DEF Whole, deviceVars
<1>8. Commands' = Commands /\ Parts' = Parts /\ Transfers' = Transfers
  BY DEF Commands, Parts, Transfers
<1>9. /\ xfer' \in [Threads -> Transfers]
      /\ pc' \in [Threads -> {"idle", "control", "command", "data", "status", "ended"}]
  BY <1>1, <1>3 DEF TypeOK
<1> QED
  BY <1>4, <1>5, <1>6, <1>7, <1>8, <1>9

LEMMA EndIOStep ==
  ASSUME IInv, NEW t \in Threads, EndIO(t)
  PROVE  IInv'
<1>1. TypeOK /\ InitInv
  BY DEF IInv
<1>2. /\ pc[t] = "ended" /\ (t = "manager" => stage = "none")
      /\ pc' = [pc EXCEPT ![t] = "idle"] /\ xfer' = [xfer EXCEPT ![t] = Idle]
      /\ UNCHANGED <<id, lun, blockSize, valid, tag, buffer, stage, try, alone, device>>
      /\ UNCHANGED <<deviceVars, calls, faults>> /\ error' \in BOOLEAN
  BY <1>1 DEF EndIO, initVars, boundVars, TypeOK, Transfers
<1>3. /\ Whole(pipe)' /\ Apart' /\ \A u \in Threads : (Mine(u) /\ Result(u))'
      /\ xfer' \in [Threads -> Transfers]
      /\ pc' \in [Threads -> {"idle", "control", "command", "data", "status", "ended"}]
      /\ Commands' = Commands /\ Parts' = Parts /\ Transfers' = Transfers
  BY <1>2, EndStep
<1>4. TypeOK'
  BY <1>1, <1>2, <1>3 DEF TypeOK, deviceVars
<1>5. InitInv'
  <2>1. CASE t = "manager"
    <3>1. stage' = "none" /\ pc'["manager"] = "idle" /\ pc'["sdio"] = pc["sdio"]
      BY <1>1, <1>2, <2>1 DEF TypeOK, Threads
    <3> QED
      BY <1>1, <3>1 DEF InitInv, Searching
  <2>2. CASE t = "sdio"
    <3>1. /\ pc'["sdio"] = "idle" /\ pc'["manager"] = pc["manager"]
          /\ xfer'["manager"] = xfer["manager"] /\ LunCount' = LunCount
      BY <1>1, <1>2, <2>2 DEF TypeOK, Threads, LunCount
    <3> QED
      BY <1>1, <1>2, <3>1 DEF InitInv
  <2> QED
    BY <2>1, <2>2 DEF Threads
<1> QED
  BY <1>3, <1>4, <1>5 DEF IInv

LEMMA EndInitStep ==
  ASSUME IInv, NEW ok \in BOOLEAN, EndInit(ok), pc["manager"] # "idle",
         lun' \in 0 .. MaxLuns, faults' \in 0 .. MaxFaults,
         UNCHANGED <<id, blockSize, alone, device, deviceVars, calls>>
  PROVE  IInv'
<1>1. TypeOK /\ InitInv /\ "manager" \in Threads
  BY DEF IInv, Threads
<1>2. /\ Whole(pipe)' /\ Apart' /\ \A u \in Threads : (Mine(u) /\ Result(u))'
      /\ xfer' \in [Threads -> Transfers]
      /\ pc' \in [Threads -> {"idle", "control", "command", "data", "status", "ended"}]
      /\ Commands' = Commands /\ Parts' = Parts /\ Transfers' = Transfers
  BY <1>1, EndStep DEF EndInit
<1>3. TypeOK'
  <2>1. valid' \in BOOLEAN /\ error' \in BOOLEAN /\ try' \in 0 .. Tries - 1
    BY <1>1, StorageAssumption DEF EndInit, TypeOK
  <2> QED
    BY <1>1, <1>2, <2>1 DEF TypeOK, EndInit, deviceVars
<1>4. InitInv'
  <2>1. stage' = "none" /\ pc'["manager"] = "idle" /\ pc'["sdio"] = pc["sdio"]
    BY <1>1 DEF TypeOK, Threads, EndInit
  <2> QED
    BY <1>1, <2>1 DEF InitInv, Searching
<1> QED
  BY <1>2, <1>3, <1>4 DEF IInv

LEMMA BeginIOStep ==
  ASSUME IInv, NEW t \in Threads, NEW op \in {"read", "write"}, NEW n \in ChunkCounts,
         BeginIO(t, op, n)
  PROVE  IInv'
<1>1. TypeOK /\ Whole(pipe) /\ InitInv
  BY DEF IInv
<1>2. /\ pc[t] = "idle" /\ calls' = calls + 1 /\ calls < MaxCalls
      /\ alone' = (\A u \in Threads \ {t} : pc[u] = "idle") /\ alone' \in BOOLEAN
      /\ Transfer(t, op, lun, n) /\ op \in Ops /\ n \in Nat /\ lun \in 0 .. MaxLuns
      /\ UNCHANGED <<lun, id, blockSize, valid, error, stage, try, device>>
      /\ UNCHANGED <<pipe, writing, stored, attention, faults>>
  BY <1>1, StorageAssumption DEF BeginIO, Begin, initVars, deviceVars, Ops, TypeOK
<1>3. /\ tag' \in Nat /\ buffer' \in Parts' /\ xfer' \in [Threads -> Transfers']
      /\ pipe' \in Seq(Parts') /\ writing' \in Commands'
      /\ pc' \in [Threads -> {"idle", "control", "command", "data", "status", "ended"}]
      /\ pc'[t] = "command"
      /\ \A u \in Threads \ {t} : pc'[u] = pc[u] /\ xfer'[u] = xfer[u]
      /\ (Mine(t) /\ Result(t))'
  BY <1>1, <1>2, TransferStep
<1>4. TypeOK'
  <2>1. calls' \in 0 .. MaxCalls
    BY <1>1, <1>2, StorageAssumption DEF TypeOK
  <2> QED
    BY <1>1, <1>2, <1>3, <2>1 DEF TypeOK
<1>5. Apart'
  BY <1>2, <1>3 DEF Apart
<1>6. \A u \in Threads : (Mine(u) /\ Result(u))'
  <2>1. pc'[t] # "idle"
    BY <1>3
  <2> QED
    BY <1>3, <1>5, <2>1, OnlyOne
<1>7. InitInv'
  <2>1. CASE t = "manager"
    <3>1. stage = "none"
      BY <1>1, <1>2, <2>1 DEF InitInv, TypeOK, Searching, Active
    <3>2. pc'["manager"] = "command" /\ pc'["sdio"] = pc["sdio"]
      BY <1>3, <2>1 DEF Threads
    <3> QED
      BY <1>1, <1>2, <3>1, <3>2 DEF InitInv, Searching
  <2>2. CASE t = "sdio"
    <3>1. /\ pc'["sdio"] = "command" /\ pc'["manager"] = pc["manager"]
          /\ xfer'["manager"] = xfer["manager"] /\ LunCount' = LunCount
      BY <1>2, <1>3, <2>2 DEF Threads, LunCount
    <3>2. alone' => pc["manager"] = "idle"
      BY <1>2, <2>2 DEF Threads
    <3>3. pc["manager"] = "idle" => stage = "none"
      BY <1>1 DEF InitInv, TypeOK, Searching, Active
    <3> QED
      BY <1>1, <1>2, <3>1, <3>2, <3>3 DEF InitInv, Searching
  <2> QED
    BY <2>1, <2>2 DEF Threads
<1>8. Whole(pipe)'
  BY <1>1, <1>2 DEF Whole
<1> QED
  BY <1>4, <1>5, <1>6, <1>7, <1>8 DEF IInv

LEMMA BeginInitStep ==
  ASSUME IInv, BeginInit
  PROVE  IInv'
<1>1. TypeOK /\ Whole(pipe) /\ InitInv
  BY DEF IInv
<1>2. /\ pc["manager"] = "idle" /\ ~valid
      /\ alone' = (pc["sdio"] = "idle") /\ alone' \in BOOLEAN
      /\ UNCHANGED <<lun, blockSize, valid, tag, buffer, xfer, try, device, faults>>
      /\ UNCHANGED <<pipe, writing, stored, attention>>
  BY DEF BeginInit, Begin, Threads, deviceVars
<1>3. stage = "none"
  BY <1>1, <1>2 DEF InitInv, TypeOK, Searching, Active
<1>4. calls' \in 0 .. MaxCalls
  BY <1>1, StorageAssumption DEF BeginInit, Begin, TypeOK
<1>5. /\ id' \in BOOLEAN /\ error' \in BOOLEAN
      /\ pc' \in [Threads -> {"idle", "control", "command", "data", "status", "ended"}]
      /\ pc'["sdio"] = pc["sdio"]
      /\ \/ stage' = "luns" /\ pc'["manager"] = "control"
         \/ stage' = "none" /\ pc'["manager"] = "idle"
  BY <1>1, <1>2, <1>3 DEF BeginInit, TypeOK, Threads
<1>6. TypeOK'
  <2>1. Commands' = Commands /\ Parts' = Parts /\ Transfers' = Transfers
    BY <1>2 DEF Commands, Parts, Transfers
  <2> QED
    BY <1>1, <1>2, <1>4, <1>5, <2>1 DEF TypeOK
<1>7. Apart'
  BY <1>2, <1>5 DEF Apart, Threads
<1>8. \A u \in Threads : (Mine(u) /\ Result(u))'
  <2>1. alone' => \A u \in Threads : pc'[u] \in {"idle", "control"}
    BY <1>2, <1>5 DEF Threads
  <2> QED
    BY <2>1 DEF Mine, Result, Active
<1>9. InitInv'
  BY <1>1, <1>2, <1>5 DEF InitInv, Searching
<1>10. Whole(pipe)'
  BY <1>1, <1>2 DEF Whole
<1> QED
  BY <1>6, <1>7, <1>8, <1>9, <1>10 DEF IInv


LEMMA GetLunCountStep ==
  ASSUME IInv, GetLunCount
  PROVE  IInv'
<1>1. TypeOK /\ InitInv /\ MaxFaults \in Nat /\ Tries \in Nat \ {0} /\ MaxLuns \in Nat
  BY StorageAssumption DEF IInv
<1>2. /\ pc["manager"] = "control" /\ stage = "luns"
      /\ UNCHANGED <<id, blockSize, alone, device, deviceVars, calls>>
  BY <1>1 DEF GetLunCount, InitInv
<1>3. faults' \in 0 .. MaxFaults
  <2>1. faults' = faults \/ (faults < MaxFaults /\ faults' = faults + 1)
    BY DEF GetLunCount
  <2> QED
    BY <1>1, <2>1 DEF TypeOK
<1>4. CASE /\ LunCount \in 1 .. MaxLuns /\ lun' = 0 /\ try' = 0
           /\ InitTransfer("ready", "testUnitReady", 0, 0)
  <2>1. /\ "ready" \in Searching /\ "testUnitReady" \in Ops /\ 0 \in Nat
        /\ lun' \in 0 .. LunCount - 1 /\ try' \in 0 .. Tries - 1 /\ blockSize' \in Nat
        /\ InitTransfer("ready", "testUnitReady", lun', 0)
    BY <1>1, <1>2, <1>4 DEF Searching, Ops, TypeOK
  <2> QED
    BY <1>2, <1>3, <1>4, <2>1, InitTransferStep
<1>5. CASE EndInit(FALSE) /\ UNCHANGED lun
  <2>1. lun' \in 0 .. MaxLuns
    BY <1>1, <1>5 DEF TypeOK
  <2> QED
    BY <1>2, <1>3, <1>5, <2>1, EndInitStep
<1> QED
  BY <1>4, <1>5 DEF GetLunCount

(* A transfer of Init has ended.                                           *)
LEMMA SearchStep ==
  ASSUME IInv, \/ AfterTestUnitReady \/ AfterInquiry \/ AfterRequestSense
               \/ AfterReadCapacity \/ AfterLastTest
  PROVE  IInv'
<1>1. TypeOK /\ InitInv /\ MaxFaults \in Nat /\ Tries \in Nat \ {0} /\ MaxLuns \in Nat
  BY StorageAssumption DEF IInv
<1>2. /\ pc["manager"] = "ended" /\ stage \in Searching
      /\ UNCHANGED <<id, alone, device, deviceVars, calls, faults>>
      /\ faults' \in 0 .. MaxFaults
  BY <1>1 DEF AfterTestUnitReady, AfterInquiry, AfterRequestSense, AfterReadCapacity,
              AfterLastTest, Ended, initFrame, boundVars, Searching, TypeOK
<1>3. /\ LunCount \in 1 .. MaxLuns /\ lun \in 0 .. LunCount - 1 /\ xfer["manager"].cmd.lun = lun
      /\ lun \in 0 .. MaxLuns /\ try \in 0 .. Tries - 1 /\ blockSize \in Nat
  BY <1>1, <1>2 DEF InitInv, TypeOK
<1>4. pc["manager"] \in {"control", "ended"} /\ stage # "none" /\ pc["manager"] # "idle"
  BY <1>2 DEF Searching
<1>5. ASSUME lun' = lun, try' \in 0 .. Tries - 1, blockSize' \in Nat,
             NEW s \in {"ready", "inquiry", "sense"}, NEW op \in Ops, NEW n \in Nat,
             InitTransfer(s, op, lun, n), s = "inquiry" => op = "inquiry" /\ n = 1
      PROVE  IInv'
  <2>1. /\ s \in Searching /\ lun' \in 0 .. LunCount - 1 /\ InitTransfer(s, op, lun', n)
        /\ s \notin {"capacity", "last"}
    BY <1>3, <1>5 DEF Searching
  <2> QED
    BY <1>2, <1>3, <1>4, <1>5, <2>1, InitTransferStep
<1>6. ASSUME blockSize' = blockSize, Retry
      PROVE  IInv'
  <2>1. "sense" \in {"ready", "inquiry", "sense"} /\ "requestSense" \in Ops /\ 1 \in Nat
    BY DEF Ops
  <2> QED
    BY <1>3, <1>5, <1>6, <2>1 DEF Retry
<1>7. ASSUME lun' \in 0 .. MaxLuns, blockSize' = blockSize, NEW ok \in BOOLEAN, EndInit(ok)
      PROVE  IInv'
  BY <1>2, <1>4, <1>7, EndInitStep
<1>8. CASE AfterTestUnitReady
  <2>1. CASE InitTransfer("inquiry", "inquiry", lun, 1) /\ UNCHANGED <<lun, try>>
    <3>1. /\ "inquiry" \in {"ready", "inquiry", "sense"} /\ "inquiry" \in Ops /\ 1 \in Nat
          /\ blockSize' \in Nat
      BY <1>3, <1>8 DEF Ops, AfterTestUnitReady
    <3> QED
      BY <1>3, <1>5, <2>1, <3>1
  <2> QED
    BY <1>6, <1>8, <2>1 DEF AfterTestUnitReady
<1>9. CASE AfterInquiry
  <2>1. CASE /\ Passed /\ IsDisk /\ stage = "inquiry"
             /\ InitTransfer("capacity", "readCapacity", lun, 1) /\ UNCHANGED <<lun, try, blockSize>>
    <3>1. alone => lun \in device.disks
      <4> SUFFICES ASSUME alone
                   PROVE  lun \in device.disks
        OBVIOUS
      <4>1. xfer["manager"].cmd.op = "inquiry" /\ xfer["manager"].cmd.n = 1
        BY <1>1, <2>1, <1>2 DEF InitInv
      <4>2. xfer["manager"].got = Part(xfer["manager"].cmd, 1)
        <5>1. Result("manager")
          BY DEF IInv, Threads
        <5> QED
          BY <1>2, <2>1, <4>1, <5>1 DEF Result, Passed
      <4> QED
        BY <1>3, <2>1, <4>2 DEF IsDisk, Response, Part
    <3>2. /\ "capacity" \in Searching /\ "readCapacity" \in Ops /\ 1 \in Nat
          /\ lun' \in 0 .. LunCount - 1 /\ InitTransfer("capacity", "readCapacity", lun', 1)
          /\ try' \in 0 .. Tries - 1 /\ blockSize' \in Nat /\ lun' = lun
      BY <1>3, <2>1 DEF Searching, Ops
    <3> QED
      BY <1>2, <1>3, <1>4, <3>1, <3>2, InitTransferStep
  <2> QED
    BY <1>6, <1>9, <2>1 DEF AfterInquiry, Ended
<1>10. CASE AfterRequestSense
  <2>1. CASE MoreTries /\ try' = try + 1 /\ UNCHANGED lun
             /\ InitTransfer("ready", "testUnitReady", lun, 0)
    <3>1. /\ "ready" \in {"ready", "inquiry", "sense"} /\ "testUnitReady" \in Ops /\ 0 \in Nat
          /\ try' \in 0 .. Tries - 1 /\ blockSize' \in Nat
      BY <1>1, <1>3, <1>10, <2>1 DEF Ops, MoreTries, AfterRequestSense
    <3> QED
      BY <1>5, <2>1, <3>1
  <2>2. CASE /\ lun + 1 < LunCount /\ lun' = lun + 1 /\ try' = 0
             /\ InitTransfer("ready", "testUnitReady", lun + 1, 0)
    <3>1. /\ "ready" \in Searching /\ "testUnitReady" \in Ops /\ 0 \in Nat
          /\ lun' \in 0 .. LunCount - 1 /\ InitTransfer("ready", "testUnitReady", lun', 0)
          /\ try' \in 0 .. Tries - 1 /\ blockSize' \in Nat
      BY <1>1, <1>3, <1>10, <2>2 DEF Searching, Ops, AfterRequestSense
    <3> QED
      BY <1>2, <1>3, <1>4, <3>1, InitTransferStep
  <2>3. CASE lun' = lun + 1 /\ EndInit(FALSE)
    <3>1. lun' \in 0 .. MaxLuns /\ blockSize' = blockSize
      BY <1>1, <1>3, <1>10, <2>3 DEF AfterRequestSense
    <3> QED
      BY <1>7, <2>3, <3>1
  <2> QED
    BY <1>10, <2>1, <2>2, <2>3 DEF AfterRequestSense
<1>11. CASE AfterReadCapacity
  <2>1. CASE /\ stage = "capacity" /\ blockSize' = device.size
             /\ InitTransfer("last", "testUnitReady", lun, 0) /\ UNCHANGED <<lun, try>>
    <3>1. /\ "last" \in Searching /\ "testUnitReady" \in Ops /\ 0 \in Nat
          /\ lun' \in 0 .. LunCount - 1 /\ InitTransfer("last", "testUnitReady", lun', 0)
          /\ try' \in 0 .. Tries - 1 /\ blockSize' \in Nat
      BY <1>1, <1>3, <2>1, StorageAssumption DEF Searching, Ops, TypeOK
    <3>2. alone => lun' \in device.disks
      BY <1>1, <1>2, <2>1 DEF InitInv
    <3> QED
      BY <1>2, <1>3, <1>4, <2>1, <3>1, <3>2, InitTransferStep
  <2>2. CASE EndInit(FALSE) /\ UNCHANGED <<lun, blockSize>>
    BY <1>3, <1>7, <2>2
  <2> QED
    BY <1>11, <2>1, <2>2 DEF AfterReadCapacity, Ended
<1>12. CASE AfterLastTest
  <2>1. Passed \in BOOLEAN
    BY <1>1 DEF Passed, TypeOK, Threads, Transfers
  <2> QED
    BY <1>3, <1>7, <1>12, <2>1 DEF AfterLastTest
<1> QED
  BY <1>8, <1>9, <1>10, <1>11, <1>12

LEMMA StutterStep ==
  ASSUME IInv, UNCHANGED vars
  PROVE  IInv'
<1>1. /\ UNCHANGED <<id, lun, blockSize, valid, tag, buffer, error, pc, xfer, stage, try>>
      /\ UNCHANGED <<alone, device, attention, pipe, writing, stored, calls, faults>>
  BY DEF vars, storageVars, initVars, deviceVars, boundVars
<1>2. TypeOK' /\ Whole(pipe)' /\ Apart' /\ InitInv'
  BY <1>1 DEF IInv, TypeOK, Transfers, Parts, Commands, Whole, Apart, InitInv, LunCount
<1>3. \A u \in Threads : (Mine(u) /\ Result(u))'
  <2> SUFFICES ASSUME NEW u \in Threads
               PROVE  (Mine(u) /\ Result(u))'
    OBVIOUS
  <2>1. TypeOK /\ Mine(u) /\ Result(u)
    BY DEF IInv
  <2> QED
    BY <1>1, <2>1, Stays DEF deviceVars
<1> QED
  BY <1>2, <1>3 DEF IInv

LEMMA InitialStep == Init => IInv
<1> SUFFICES ASSUME Init
             PROVE  IInv
  OBVIOUS
<1>1. TypeOK
  <2>1. MaxLuns \in 1 .. 16 /\ Tries \in Nat \ {0} /\ MaxCalls \in Nat /\ MaxFaults \in Nat
    BY StorageAssumption
  <2>2. NoCommand \in Commands
    BY <2>1 DEF NoCommand, Command, Commands, Init
  <2>3. Zero \in Parts
    BY <2>2 DEF Zero, Parts
  <2>4. Idle \in Transfers
    BY <2>2, <2>3 DEF Idle, Fresh, Transfers
  <2>5. xfer \in [Threads -> Transfers]
    BY <2>4 DEF Init
  <2>6. pipe \in Seq(Parts) /\ attention \subseteq device.attention
    BY DEF Init
  <2>9. id \in BOOLEAN /\ valid \in BOOLEAN /\ error \in BOOLEAN /\ alone \in BOOLEAN
    BY Zenon DEF Init
  <2>7. /\ lun \in 0 .. MaxLuns /\ blockSize \in Nat /\ tag \in Nat
        /\ stage \in {"none", "luns", "ready", "inquiry", "sense", "capacity", "last"}
    BY <2>1 DEF Init
  <2>8. /\ pc \in [Threads -> {"idle", "control", "command", "data", "status", "ended"}]
        /\ try \in 0 .. Tries - 1 /\ device \in Devices /\ writing = NoCommand /\ buffer = Zero
        /\ stored \in Nat /\ calls \in 0 .. MaxCalls /\ faults \in 0 .. MaxFaults
    BY <2>1 DEF Init
  <2> QED
    BY <2>2, <2>3, <2>5, <2>6, <2>7, <2>8, <2>9 DEF TypeOK
<1>2. Whole(pipe)
  BY DEF Init, Whole
<1>3. \A t \in Threads : pc[t] = "idle"
  BY DEF Init
<1>4. Apart /\ InitInv
  BY <1>3 DEF Init, Apart, InitInv, Searching, Threads
<1>5. \A t \in Threads : Mine(t) /\ Result(t)
  BY <1>3 DEF Mine, Result, Active
<1> QED
  BY <1>1, <1>2, <1>4, <1>5 DEF IInv

LEMMA Inductive == IInv /\ [Next]_vars => IInv'
<1> SUFFICES ASSUME IInv, [Next]_vars
             PROVE  IInv'
  OBVIOUS
<1>1. CASE InitNext
  BY <1>1, BeginInitStep, GetLunCountStep, SearchStep DEF InitNext
<1>2. ASSUME NEW t \in Threads, Message(t) \/ EndIO(t)
      PROVE  IInv'
  BY <1>2, MessageStep, EndIOStep
<1>3. ASSUME NEW t \in Threads, NEW op \in {"read", "write"}, NEW n \in ChunkCounts,
             BeginIO(t, op, n)
      PROVE  IInv'
  BY <1>3, BeginIOStep
<1>4. CASE UNCHANGED vars
  BY <1>4, StutterStep
<1> QED
  BY <1>1, <1>2, <1>3, <1>4 DEF Next

LEMMA Invariance == Spec => []IInv
BY InitialStep, Inductive, PTL DEF Spec

-----------------------------------------------------------------------------
(* The storage, its callers and its device keep their types, for any device *)
(* and any order of the calls and messages of both threads.                *)
THEOREM TypeCorrect == Spec => []TypeOK
<1>1. IInv => TypeOK
  BY DEF IInv
<1> QED
  BY <1>1, Invariance, PTL

(* A transfer that no other call overlapped succeeds only with its own data, *)
(* whatever the transfers before it left in the pipe and in the device.    *)
THEOREM OnlyItsData == Spec => []OwnData
<1>1. IInv => OwnData
  BY DEF IInv, Result, OwnData
<1> QED
  BY <1>1, Invariance, PTL

(* Init ends well only with a unit that is a disk, and with its block size. *)
THEOREM OnlyDisks == Spec => ChoosesDisk
<1>1. IInv /\ [Next]_vars =>
        [~valid /\ valid' /\ alone => /\ lun \in device.disks /\ HasLun(lun)
                                      /\ blockSize = device.size]_vars
  <2> SUFFICES ASSUME IInv, Next, ~valid, valid', alone
               PROVE  lun \in device.disks /\ HasLun(lun) /\ blockSize = device.size
    OBVIOUS
  <2>1. Ended("last")
    <3>1. \A t \in Threads : ~Message(t) /\ ~EndIO(t)
      BY DEF Message, EndIO
    <3>2. \A t \in Threads, op \in {"read", "write"}, n \in ChunkCounts : ~BeginIO(t, op, n)
      BY DEF BeginIO
    <3>3. ~BeginInit /\ ~GetLunCount
      BY DEF BeginInit, GetLunCount, InitTransfer, EndInit
    <3>4. ~AfterTestUnitReady /\ ~AfterInquiry /\ ~AfterRequestSense /\ ~AfterReadCapacity
      BY DEF AfterTestUnitReady, AfterInquiry, AfterRequestSense, AfterReadCapacity,
             Retry, InitTransfer, EndInit
    <3> QED
      BY <3>1, <3>2, <3>3, <3>4 DEF Next, InitNext, AfterLastTest
  <2>2. lun \in device.disks /\ blockSize = device.size /\ lun < LunCount
    BY <2>1 DEF IInv, InitInv, Ended, Searching
  <2>3. lun \in Nat /\ device.maxLun \in 0 .. 255
    BY StorageAssumption DEF IInv, TypeOK
  <2> QED
    BY <2>2, <2>3 DEF LunCount, HasLun
<1> QED
  BY <1>1, Invariance, PTL DEF Spec, ChoosesDisk


-----------------------------------------------------------------------------
(* Init finds the disk, if nothing disturbs it.  Then the pipe is empty    *)
(* when it begins: an earlier I/O of EmuSDIO that left something in it has *)
(* failed, which is the end of the handle.  And each transfer of Init gets *)
(* its own answer, refused only for a UNIT ATTENTION, which the second     *)
(* attempt does not meet.                                                  *)

Quiet == pipe = <<>> /\ writing = NoCommand

(* No more than the answer to one command. *)
OneAnswer ==
  /\ \A i \in 1 .. Len(pipe) - 1 : ~IsStatus(pipe[i])
  /\ writing # NoCommand => pipe = <<>>

(* Before Init. *)
QuietBefore ==
  /\ pc["sdio"] \in {"idle", "command"} => Quiet
  /\ pc["sdio"] \in {"data", "status"} => OneAnswer
  /\ pc["sdio"] = "ended" /\ xfer["sdio"].ok => Quiet
UnusedInv ==
  ~valid /\ stage = "none" =>
    /\ pc["manager"] = "idle"
    /\ ~error => alone /\ (faults = 0 => QuietBefore)

(* The transfers of Init. *)
Asked == [ready |-> "testUnitReady", inquiry |-> "inquiry", sense |-> "requestSense",
          capacity |-> "readCapacity", last |-> "testUnitReady"]
Chunks(s) == IF s \in {"ready", "last"} THEN 0 ELSE 1

(* What the pipe holds for the transfer of Init that is under way. *)
AnswerInv ==
  LET c == xfer["manager"].cmd IN
  /\ c.op = Asked[stage] /\ c.n = Chunks(stage) /\ writing = NoCommand
  /\ pc["manager"] \in {"command", "ended"} => pipe = <<>>
  /\ pc["manager"] = "data" =>
       /\ Len(pipe) = 2 /\ pipe[1].of = c /\ ~IsStatus(pipe[1])
       /\ pipe[2].of = c /\ IsStatus(pipe[2]) /\ pipe[2].ok /\ lun \notin attention
  /\ pc["manager"] = "status" =>
       /\ Len(pipe) = 1 /\ pipe[1].of = c /\ IsStatus(pipe[1])
       /\ pipe[1].ok <=> lun \notin attention
  /\ pc["manager"] = "ended" => (xfer["manager"].ok <=> lun \notin attention)

(* The loops of FindLun: no disk was passed over, and one that was asked   *)
(* for its sense data is ready.                                            *)
LoopInv ==
  /\ \A l \in device.disks : lun <= l
  /\ lun \in attention => stage = "ready" \/ (stage = "sense" /\ pc["manager"] = "command")
  /\ lun \in device.disks => /\ try > 0 => lun \notin attention
                             /\ stage = "sense" => try = 0

Calm == alone /\ faults = 0
SearchInv ==
  /\ stage # "none" => id
  /\ stage = "luns" /\ Calm => Quiet
  /\ stage \in Searching /\ Calm => AnswerInv /\ LoopInv

FindInv == UnusedInv /\ SearchInv

(* A disk is not past the last unit unless the device has no such unit. *)
LEMMA Units ==
  ASSUME TypeOK, LunCount \in 1 .. MaxLuns
  PROVE  /\ device.maxLun \in 0 .. 255 /\ LunCount = device.maxLun + 1
         /\ device.disks \subseteq 0 .. 255
         /\ lun \in Nat /\ try \in Nat /\ faults \in Nat
<1>1. /\ device.maxLun \in 0 .. 255 /\ device.disks \subseteq 0 .. 255
      /\ MaxLuns \in 1 .. 16 /\ Tries \in Nat \ {0} /\ MaxFaults \in Nat
  BY StorageAssumption DEF TypeOK
<1>2. LunCount = (device.maxLun + 1) % 256
  BY DEF LunCount
<1>3. device.maxLun # 255
  BY <1>2
<1>4. LunCount = device.maxLun + 1
  <2>1. device.maxLun + 1 \in 0 .. 255
    BY <1>1, <1>3
  <2>2. (device.maxLun + 1) % 256 = device.maxLun + 1
    BY <2>1
  <2> QED
    BY <1>2, <2>2
<1>5. lun \in Nat /\ try \in Nat /\ faults \in Nat
  BY <1>1 DEF TypeOK
<1> QED
  BY <1>1, <1>4, <1>5

(* The answer to a command that the device gets with nothing else to say.  *)
LEMMA ExecuteQuiet ==
  ASSUME TypeOK, Quiet, NEW c \in Commands, Execute(c)
  PROVE  /\ OneAnswer'
         /\ Refuses(c) => /\ Len(pipe') = 1 /\ pipe'[1].of = c /\ IsStatus(pipe'[1])
                          /\ ~pipe'[1].ok /\ writing' = NoCommand
         /\ ~Refuses(c) /\ c.op # "write" =>
              /\ Len(pipe') = c.n + 1 /\ writing' = NoCommand
              /\ \A k \in 1 .. c.n + 1 : pipe'[k].of = c /\ pipe'[k].k = k /\ pipe'[k].ok
<1>1. c.n \in Nat /\ pipe \in Seq(Parts) /\ pipe = <<>>
  BY DEF Commands, TypeOK, Quiet
<1>2. ASSUME NEW r \in Seq(Parts), Answer(r)
      PROVE  pipe' = r
  BY <1>1, <1>2, ConcatEmptySeq DEF Answer
<1>3. CASE Refuses(c)
  <2> DEFINE r == <<Status(c, FALSE)>>
  <2>1. Answer(r) /\ writing' = NoCommand
    BY <1>3 DEF Execute
  <2>2. r \in Seq(Parts) /\ Len(r) = 1 /\ r[1] = Status(c, FALSE)
    BY <1>1 DEF Status, Parts
  <2> HIDE DEF r
  <2>3. Len(pipe') = 1 /\ pipe'[1] = Status(c, FALSE)
    BY <1>2, <2>1, <2>2
  <2>4. pipe'[1].of = c /\ IsStatus(pipe'[1]) /\ ~pipe'[1].ok
    BY <2>3 DEF Status, IsStatus
  <2>5. 1 .. Len(pipe') - 1 = {}
    BY <2>3
  <2> QED
    BY <1>3, <2>1, <2>3, <2>4, <2>5 DEF OneAnswer
<1>4. CASE ~Refuses(c) /\ (c.op # "write" \/ c.n = 0)
  <2> DEFINE r == [k \in 1 .. c.n + 1 |-> Part(c, k)]
  <2>1. Answer(r) /\ writing' = NoCommand
    BY <1>4 DEF Execute
  <2>2. \A k \in 1 .. c.n + 1 : Part(c, k) \in Parts
    BY <1>1 DEF Part, Parts
  <2>3. r \in [1 .. c.n + 1 -> Parts]
    BY <2>2
  <2>4. \A k \in 1 .. c.n + 1 : r[k].of = c /\ r[k].k = k /\ r[k].ok = TRUE
    BY DEF Part
  <2> HIDE DEF r
  <2>5. r \in Seq(Parts) /\ Len(r) = c.n + 1
    BY <1>1, <2>3
  <2>6. pipe' = r
    BY <1>2, <2>1, <2>5
  <2>7. \A i \in 1 .. Len(r) - 1 : ~IsStatus(r[i])
    <3> SUFFICES ASSUME NEW i \in 1 .. Len(r) - 1
                 PROVE  ~IsStatus(r[i])
      OBVIOUS
    <3>1. i \in 1 .. c.n + 1 /\ i # c.n + 1
      BY <1>1, <2>5
    <3> QED
      BY <2>4, <3>1 DEF IsStatus
  <2> QED
    BY <1>4, <2>1, <2>4, <2>5, <2>6, <2>7 DEF OneAnswer
<1>5. CASE ~Refuses(c) /\ c.op = "write" /\ c.n # 0
  <2>1. Answer(<<>>)
    BY <1>1, <1>5 DEF Execute
  <2>2. <<>> \in Seq(Parts)
    OBVIOUS
  <2>3. pipe' = <<>>
    BY <1>2, <2>1, <2>2
  <2> QED
    BY <1>5, <2>3 DEF OneAnswer
<1> QED
  BY <1>3, <1>4, <1>5

LEMMA StoreOne ==
  ASSUME TypeOK, OneAnswer, NEW p \in Parts, Store(p)
  PROVE  OneAnswer'
<1>1. pipe = <<>> /\ writing \in Commands /\ writing.n \in Nat
  BY DEF Store, OneAnswer, TypeOK, Commands
<1>2. CASE UNCHANGED <<pipe, writing>>
  BY <1>2 DEF OneAnswer
<1>3. CASE pipe' = Append(pipe, Status(writing, ~IsCommand(p))) /\ writing' = NoCommand
  <2>1. Len(pipe') = 1
    BY <1>1, <1>3
  <2>2. 1 .. Len(pipe') - 1 = {}
    BY <2>1
  <2> QED
    BY <1>3, <2>2 DEF OneAnswer
<1> QED
  BY <1>2, <1>3 DEF Store

LEMMA ConsumeOne ==
  ASSUME TypeOK, OneAnswer, Consume
  PROVE  OneAnswer' /\ (IsStatus(Head(pipe)) => Quiet')
<1>1. pipe \in Seq(Parts) /\ pipe # <<>> /\ pipe' = Tail(pipe) /\ writing' = writing
  BY DEF TypeOK, Consume
<1>2. /\ Tail(pipe) \in Seq(Parts) /\ Len(pipe) \in Nat /\ Len(pipe) > 0
      /\ Len(Tail(pipe)) = Len(pipe) - 1 /\ Head(pipe) = pipe[1]
      /\ \A i \in 1 .. Len(Tail(pipe)) : Tail(pipe)[i] = pipe[i + 1]
  BY <1>1, HeadTailProperties, LenProperties
<1>3. writing' = NoCommand
  BY <1>1 DEF OneAnswer
<1>4. \A i \in 1 .. Len(pipe') - 1 : ~IsStatus(pipe'[i])
  <2> SUFFICES ASSUME NEW i \in 1 .. Len(pipe') - 1
               PROVE  ~IsStatus(pipe'[i])
    OBVIOUS
  <2>1. i \in 1 .. Len(Tail(pipe)) /\ i + 1 \in 1 .. Len(pipe) - 1
    BY <1>1, <1>2
  <2> QED
    BY <1>1, <1>2, <2>1 DEF OneAnswer
<1>5. ASSUME IsStatus(Head(pipe))
      PROVE  pipe' = <<>>
  <2>1. 1 \notin 1 .. Len(pipe) - 1
    BY <1>2, <1>5 DEF OneAnswer
  <2>2. Len(Tail(pipe)) = 0
    BY <1>2, <2>1
  <2> QED
    BY <1>1, <1>2, <2>2, EmptySeq
<1> QED
  BY <1>3, <1>4, <1>5 DEF OneAnswer, Quiet

(* The command block of a transfer that no call overlaps. *)
LEMMA BlockInBuffer ==
  ASSUME IInv, NEW t \in Threads, alone, pc[t] = "command"
  PROVE  /\ xfer[t].cmd \in Commands /\ buffer.of = xfer[t].cmd /\ IsCommand(buffer)
         /\ writing = NoCommand /\ Receive(buffer) => Execute(xfer[t].cmd)
<1>1. xfer[t].cmd \in Commands /\ TypeOK
  BY DEF IInv, TypeOK, Transfers
<1>2. buffer = Part(xfer[t].cmd, 0) /\ xfer[t].cmd # NoCommand
  BY <1>1, NoCommandType DEF IInv, Mine, Active, Latest
<1>3. buffer.of = xfer[t].cmd /\ IsCommand(buffer)
  BY <1>2 DEF IsCommand, Part
<1> QED
  BY <1>1, <1>3 DEF Receive, Store

(* While Init runs alone, EmuSDIO is idle. *)
LEMMA InitAlone ==
  ASSUME IInv, stage # "none", alone
  PROVE  pc["sdio"] = "idle" /\ pc["manager"] # "idle"
<1>1. pc["manager"] # "idle"
  BY DEF IInv, InitInv, TypeOK, Searching, Active
<1> QED
  BY <1>1 DEF IInv, Apart, Threads

-----------------------------------------------------------------------------
(* The steps before Init, and the begin and the end of a call. *)

LEMMA FindBeginIO ==
  ASSUME IInv, FindInv, NEW t \in Threads, NEW op, NEW n, BeginIO(t, op, n)
  PROVE  FindInv'
<1>1. /\ pc[t] = "idle" /\ alone' = (\A u \in Threads \ {t} : pc[u] = "idle")
      /\ t = "manager" => valid
      /\ pc' = [pc EXCEPT ![t] = "command"]
      /\ UNCHANGED <<id, valid, error, stage, pipe, writing, faults>>
  BY DEF BeginIO, Begin, Transfer, initVars, deviceVars
<1>2. pc'[t] = "command" /\ \A u \in Threads \ {t} : pc'[u] = pc[u]
  BY <1>1 DEF IInv, TypeOK
<1>3. UnusedInv'
  <2> SUFFICES ASSUME ~valid, stage = "none"
               PROVE  /\ pc'["manager"] = "idle"
                      /\ ~error => alone' /\ (faults = 0 => QuietBefore')
    BY <1>1 DEF UnusedInv
  <2>1. t = "sdio" /\ pc["manager"] = "idle"
    BY <1>1 DEF FindInv, UnusedInv, Threads
  <2>2. pc'["manager"] = "idle" /\ pc'["sdio"] = "command" /\ alone'
    BY <1>1, <1>2, <2>1 DEF Threads
  <2>3. ~error /\ faults = 0 => Quiet
    BY <1>1, <2>1 DEF FindInv, UnusedInv, QuietBefore
  <2> QED
    BY <1>1, <2>2, <2>3 DEF QuietBefore, Quiet
<1>4. stage # "none" => ~alone'
  <2> SUFFICES ASSUME stage # "none"
               PROVE  ~alone'
    OBVIOUS
  <2>1. pc["manager"] # "idle"
    BY DEF IInv, InitInv, TypeOK, Searching, Active
  <2> QED
    BY <1>1, <2>1 DEF Threads
<1>5. SearchInv'
  BY <1>1, <1>4 DEF FindInv, SearchInv, Calm, Searching
<1> QED
  BY <1>3, <1>5 DEF FindInv

LEMMA FindEndIO ==
  ASSUME IInv, FindInv, NEW t \in Threads, EndIO(t)
  PROVE  FindInv'
<1>1. /\ pc[t] = "ended" /\ (t = "manager" => stage = "none")
      /\ pc' = [pc EXCEPT ![t] = "idle"]
      /\ error' = (error \/ ~xfer[t].ok)
      /\ UNCHANGED <<id, valid, stage, alone, pipe, writing, faults>>
  BY DEF EndIO, initVars, deviceVars, boundVars
<1>2. pc'[t] = "idle" /\ \A u \in Threads \ {t} : pc'[u] = pc[u]
  BY <1>1 DEF IInv, TypeOK
<1>3. UnusedInv'
  <2> SUFFICES ASSUME ~valid, stage = "none"
               PROVE  /\ pc'["manager"] = "idle"
                      /\ ~error' => alone' /\ (faults = 0 => QuietBefore')
    BY <1>1 DEF UnusedInv
  <2>1. t = "sdio" /\ pc["manager"] = "idle"
    BY <1>1 DEF FindInv, UnusedInv, Threads
  <2>2. pc'["manager"] = "idle" /\ pc'["sdio"] = "idle"
    BY <1>2, <2>1 DEF Threads
  <2>3. ~error' => alone /\ (faults = 0 => Quiet)
    BY <1>1, <2>1 DEF FindInv, UnusedInv, QuietBefore
  <2> QED
    BY <1>1, <2>2, <2>3 DEF QuietBefore, Quiet
<1>4. stage # "none" => ~alone
  BY <1>1, InitAlone DEF Threads
<1>5. SearchInv'
  BY <1>1, <1>4 DEF FindInv, SearchInv, Calm, Searching
<1> QED
  BY <1>3, <1>5 DEF FindInv

LEMMA FindBeginInit == ASSUME IInv, FindInv, BeginInit PROVE FindInv'
<1>1. /\ pc["manager"] = "idle" /\ ~error /\ ~valid /\ alone' = (pc["sdio"] = "idle")
      /\ UNCHANGED <<valid, pipe, writing, faults>>
  BY DEF BeginInit, Begin, Threads, deviceVars
<1>2. stage = "none"
  BY <1>1 DEF IInv, InitInv, TypeOK, Searching, Active
<1>3. CASE stage' = "luns" /\ id'
  <2>1. Calm' => Quiet'
    BY <1>1, <1>2 DEF FindInv, UnusedInv, QuietBefore, Calm, Quiet
  <2> QED
    BY <1>3, <2>1 DEF FindInv, UnusedInv, SearchInv, Searching
<1>4. CASE error' /\ UNCHANGED <<stage, pc>>
  BY <1>1, <1>2, <1>4 DEF FindInv, UnusedInv, SearchInv, Searching
<1> QED
  BY <1>3, <1>4 DEF BeginInit

LEMMA FindEndInit ==
  ASSUME IInv, NEW ok \in BOOLEAN, EndInit(ok)
  PROVE  FindInv'
<1>1. stage' = "none" /\ pc'["manager"] = "idle" /\ valid' = ok /\ error' = (error \/ ~ok)
  BY DEF EndInit, IInv, TypeOK, Threads
<1> QED
  BY <1>1 DEF FindInv, UnusedInv, SearchInv, Searching

(* A transfer of Init begins with an empty pipe. *)
LEMMA FindTransfer ==
  ASSUME IInv, FindInv, NEW s \in Searching, NEW l,
         InitTransfer(s, Asked[s], l, Chunks(s)),
         stage # "none", UNCHANGED <<id, alone, deviceVars>>,
         Calm' => Calm /\ Quiet /\ LoopInv'
  PROVE  FindInv'
<1>1. /\ stage' = s /\ s # "none" /\ s # "luns" /\ UNCHANGED <<pipe, writing>>
  BY DEF InitTransfer, deviceVars, Searching
<1>2. pc'["manager"] = "command"
  BY DEF InitTransfer, Transfer, IInv, TypeOK, Threads
<1>3. xfer'["manager"].cmd = Command(tag + 1, Asked[s], l, Chunks(s))
  BY DEF InitTransfer, Transfer, Fresh, IInv, TypeOK, Threads
<1>4. xfer'["manager"].cmd.op = Asked[s] /\ xfer'["manager"].cmd.n = Chunks(s)
  BY <1>3 DEF Command
<1>5. Calm' => AnswerInv'
  BY <1>1, <1>2, <1>4 DEF AnswerInv, Quiet
<1>6. id'
  BY DEF FindInv, SearchInv
<1> QED
  BY <1>1, <1>5, <1>6 DEF FindInv, UnusedInv, SearchInv

LEMMA FindGetLunCount == ASSUME IInv, FindInv, GetLunCount PROVE FindInv'
<1>1. stage = "luns" /\ UNCHANGED <<id, alone, device, deviceVars>> /\ TypeOK
  BY DEF GetLunCount, IInv, InitInv
<1>2. CASE EndInit(FALSE)
  BY <1>2, FindEndInit
<1>3. CASE /\ LunCount \in 1 .. MaxLuns /\ lun' = 0 /\ try' = 0
           /\ InitTransfer("ready", "testUnitReady", 0, 0) /\ UNCHANGED faults
  <2>1. "ready" \in Searching /\ Asked["ready"] = "testUnitReady" /\ Chunks("ready") = 0
    BY DEF Searching, Asked, Chunks
  <2>2. Calm' => Calm /\ Quiet
    BY <1>1, <1>3 DEF Calm, FindInv, SearchInv
  <2>3. stage' = "ready" /\ \A l \in device.disks : 0 <= l
    BY <1>1, <1>3, Units DEF InitTransfer
  <2>4. LoopInv'
    BY <1>1, <1>3, <2>3 DEF LoopInv
  <2> QED
    BY <1>1, <1>3, <2>1, <2>2, <2>4, FindTransfer
<1> QED
  BY <1>2, <1>3 DEF GetLunCount

-----------------------------------------------------------------------------
(* The steps of FindLun. *)

(* The end of a transfer of Init: what Passed tells. *)
LEMMA SearchEnded ==
  ASSUME IInv, FindInv, NEW s \in Searching, Ended(s), Calm
  PROVE  /\ AnswerInv /\ LoopInv /\ Quiet /\ (Passed <=> lun \notin attention)
         /\ s # "ready" => Passed
<1>1. AnswerInv /\ LoopInv /\ stage = s /\ pc["manager"] = "ended"
  BY DEF FindInv, SearchInv, Ended
<1>2. Quiet /\ (Passed <=> lun \notin attention)
  BY <1>1 DEF AnswerInv, Quiet, Passed
<1>3. s # "ready" => lun \notin attention
  BY <1>1 DEF LoopInv
<1> QED
  BY <1>1, <1>2, <1>3

(* The next transfer of Init after one that ended. *)
LEMMA FindNext ==
  ASSUME IInv, FindInv, NEW s \in Searching, Ended(s), NEW r \in Searching, NEW l,
         InitTransfer(r, Asked[r], l, Chunks(r)), initFrame' = initFrame, Calm => LoopInv'
  PROVE  FindInv'
<1>1. UNCHANGED <<id, alone, deviceVars, faults>> /\ stage = s /\ s # "none"
  BY DEF initFrame, boundVars, Ended, Searching
<1>2. Calm' => Calm /\ Quiet
  BY <1>1, SearchEnded DEF Calm
<1> QED
  BY <1>1, <1>2, FindTransfer

LEMMA FindRetry ==
  ASSUME IInv, FindInv, NEW s \in {"ready", "inquiry"}, Ended(s), Retry,
         initFrame' = initFrame, Calm /\ Passed => lun \notin device.disks
  PROVE  FindInv'
<1>1. /\ s \in Searching /\ "sense" \in Searching
      /\ Asked["sense"] = "requestSense" /\ Chunks("sense") = 1
  BY DEF Searching, Asked, Chunks
<1>2. /\ InitTransfer("sense", "requestSense", lun, 1) /\ UNCHANGED <<lun, try, device, attention>>
      /\ stage' = "sense"
  BY DEF Retry, InitTransfer, initFrame, deviceVars
<1>3. pc'["manager"] = "command"
  BY <1>2 DEF InitTransfer, Transfer, IInv, TypeOK, Threads
<1>4. ASSUME Calm
      PROVE  LoopInv'
  <2>1. LoopInv /\ (Passed <=> lun \notin attention)
    BY <1>1, <1>4, SearchEnded
  <2>2. try \in Nat
    BY StorageAssumption DEF IInv, TypeOK
  <2>3. lun \in device.disks => try = 0
    BY <1>4, <2>1, <2>2 DEF LoopInv
  <2> QED
    BY <1>2, <1>3, <2>1, <2>3 DEF LoopInv
<1> QED
  BY <1>1, <1>2, <1>4, FindNext

LEMMA FindReady == ASSUME IInv, FindInv, AfterTestUnitReady PROVE FindInv'
<1>1. Ended("ready") /\ initFrame' = initFrame /\ "ready" \in Searching
  BY DEF AfterTestUnitReady, Searching
<1>2. CASE Passed /\ InitTransfer("inquiry", "inquiry", lun, 1) /\ UNCHANGED <<lun, try>>
  <2>1. "inquiry" \in Searching /\ Asked["inquiry"] = "inquiry" /\ Chunks("inquiry") = 1
    BY DEF Searching, Asked, Chunks
  <2>2. stage' = "inquiry" /\ UNCHANGED <<device, attention>>
    BY <1>1, <1>2 DEF InitTransfer, initFrame, deviceVars
  <2>3. Calm => LoopInv'
    BY <1>1, <1>2, <2>2, SearchEnded DEF LoopInv
  <2> QED
    BY <1>1, <1>2, <2>1, <2>3, FindNext
<1>3. CASE ~Passed /\ Retry
  BY <1>1, <1>3, FindRetry
<1> QED
  BY <1>2, <1>3 DEF AfterTestUnitReady

LEMMA FindInquiry == ASSUME IInv, FindInv, AfterInquiry PROVE FindInv'
<1>1. Ended("inquiry") /\ initFrame' = initFrame /\ "inquiry" \in Searching
  BY DEF AfterInquiry, Searching
<1>2. CASE InitTransfer("capacity", "readCapacity", lun, 1) /\ UNCHANGED <<lun, try>>
  <2>1. "capacity" \in Searching /\ Asked["capacity"] = "readCapacity" /\ Chunks("capacity") = 1
    BY DEF Searching, Asked, Chunks
  <2>2. stage' = "capacity" /\ UNCHANGED <<device, attention>>
    BY <1>1, <1>2 DEF InitTransfer, initFrame, deviceVars
  <2>3. Calm => LoopInv'
    BY <1>1, <1>2, <2>2, SearchEnded DEF LoopInv
  <2> QED
    BY <1>1, <1>2, <2>1, <2>3, FindNext
<1>3. CASE ~(Passed /\ IsDisk) /\ Retry
  <2>1. ASSUME Calm, Passed
        PROVE  lun \notin device.disks
    <3>1. /\ xfer["manager"].cmd.op = "inquiry" /\ xfer["manager"].cmd.n = 1
          /\ xfer["manager"].cmd.lun = lun
      BY <1>1 DEF IInv, InitInv, Ended
    <3>2. Result("manager") /\ alone
      BY <2>1 DEF IInv, Threads, Calm
    <3>3. xfer["manager"].got = Part(xfer["manager"].cmd, 1)
      BY <1>1, <2>1, <3>1, <3>2 DEF Result, Passed, Ended
    <3> QED
      BY <1>3, <2>1, <3>1, <3>3 DEF IsDisk, Response, Part
  <2> QED
    BY <1>1, <1>3, <2>1, FindRetry
<1> QED
  BY <1>2, <1>3 DEF AfterInquiry

LEMMA FindSense == ASSUME Tries > 1, IInv, FindInv, AfterRequestSense PROVE FindInv'
<1>1. /\ Ended("sense") /\ initFrame' = initFrame /\ "sense" \in Searching
      /\ UNCHANGED <<device, attention>>
  BY DEF AfterRequestSense, Searching, initFrame, deviceVars
<1>2. /\ "ready" \in Searching /\ Asked["ready"] = "testUnitReady" /\ Chunks("ready") = 0
  BY DEF Searching, Asked, Chunks
<1>3. /\ lun \in Nat /\ try \in Nat /\ Tries \in Nat
      /\ \A l \in device.disks : l \in Nat
  <2>1. TypeOK /\ LunCount \in 1 .. MaxLuns
    BY <1>1 DEF IInv, InitInv, Ended
  <2> QED
    BY <2>1, Units, StorageAssumption
<1>4. Calm => LoopInv /\ lun \notin attention /\ (lun \in device.disks => try = 0)
  BY <1>1, SearchEnded DEF LoopInv, Ended
<1>5. CASE try' = try + 1 /\ UNCHANGED lun /\ InitTransfer("ready", "testUnitReady", lun, 0)
  <2>1. stage' = "ready"
    BY <1>5 DEF InitTransfer
  <2>2. Calm => LoopInv'
    BY <1>1, <1>4, <1>5, <2>1 DEF LoopInv
  <2> QED
    BY <1>1, <1>2, <1>5, <2>2, FindNext
<1>6. CASE /\ ~MoreTries /\ lun' = lun + 1 /\ try' = 0
           /\ InitTransfer("ready", "testUnitReady", lun + 1, 0)
  <2>1. stage' = "ready" /\ try # 0
    BY <1>3, <1>6 DEF InitTransfer, MoreTries
  <2>2. Calm => \A l \in device.disks : lun + 1 <= l
    BY <1>3, <1>4, <2>1 DEF LoopInv
  <2>3. Calm => LoopInv'
    BY <1>1, <1>6, <2>1, <2>2 DEF LoopInv
  <2> QED
    BY <1>1, <1>2, <1>6, <2>3, FindNext
<1>7. CASE EndInit(FALSE)
  BY <1>7, FindEndInit
<1> QED
  BY <1>5, <1>6, <1>7 DEF AfterRequestSense

LEMMA FindLast == ASSUME IInv, FindInv, AfterReadCapacity \/ AfterLastTest PROVE FindInv'
<1>1. CASE AfterReadCapacity
  <2>1. Ended("capacity") /\ initFrame' = initFrame /\ "capacity" \in Searching /\ UNCHANGED lun
    BY <1>1 DEF AfterReadCapacity, Searching
  <2>2. CASE InitTransfer("last", "testUnitReady", lun, 0) /\ UNCHANGED try
    <3>1. "last" \in Searching /\ Asked["last"] = "testUnitReady" /\ Chunks("last") = 0
      BY DEF Searching, Asked, Chunks
    <3>2. stage' = "last" /\ UNCHANGED <<device, attention>>
      BY <2>1, <2>2 DEF InitTransfer, initFrame, deviceVars
    <3>3. Calm => LoopInv'
      BY <2>1, <2>2, <3>2, SearchEnded DEF LoopInv
    <3> QED
      BY <2>1, <2>2, <3>1, <3>3, FindNext
  <2>3. CASE EndInit(FALSE)
    BY <2>3, FindEndInit
  <2> QED
    BY <1>1, <2>2, <2>3 DEF AfterReadCapacity
<1>2. CASE AfterLastTest
  <2>1. Passed \in BOOLEAN /\ EndInit(Passed)
    BY <1>2 DEF AfterLastTest, Passed, IInv, TypeOK, Threads, Transfers
  <2> QED
    BY <2>1, FindEndInit
<1> QED
  BY <1>1, <1>2

-----------------------------------------------------------------------------
(* The messages. *)

LEMMA MessageFault ==
  ASSUME TypeOK, NEW t \in Threads, Message(t), faults' = 0
  PROVE  faults = 0
<1>1. faults' = faults \/ faults' = faults + 1
  BY Zenon DEF Message, SendCommand, SendData, ReadData, ReadStatus, MessageFails
<1>2. faults \in Nat
  BY StorageAssumption DEF TypeOK
<1> QED
  BY <1>1, <1>2

(* An I/O of EmuSDIO before Init. *)
LEMMA FindMessageBefore ==
  ASSUME IInv, Message("sdio"), alone, QuietBefore
  PROVE  QuietBefore'
<1>1. /\ TypeOK /\ Whole(pipe) /\ "sdio" \in Threads /\ buffer \in Parts
      /\ pc'["sdio"] \in {"data", "status", "ended"}
  BY MessageType DEF IInv, Threads, TypeOK
<1>2. CASE SendCommand("sdio")
  <2>1. Quiet /\ pc["sdio"] = "command" /\ Receive(buffer) /\ pc'["sdio"] \in {"data", "status"}
    BY <1>1, <1>2, ProceedType DEF QuietBefore, SendCommand
  <2>2. Execute(xfer["sdio"].cmd) /\ xfer["sdio"].cmd \in Commands
    BY <1>1, <2>1, BlockInBuffer DEF Quiet
  <2>3. OneAnswer'
    BY <1>1, <2>1, <2>2, ExecuteQuiet
  <2> QED
    BY <2>1, <2>3 DEF QuietBefore
<1>3. CASE SendData("sdio")
  <2>1. OneAnswer /\ Store(buffer) /\ pc'["sdio"] # "ended"
    BY <1>1, <1>3 DEF QuietBefore, SendData, Proceed, TypeOK
  <2>2. OneAnswer'
    BY <1>1, <2>1, StoreOne
  <2> QED
    BY <1>1, <2>1, <2>2 DEF QuietBefore
<1>4. CASE ReadData("sdio")
  <2>1. OneAnswer /\ Consume /\ pc'["sdio"] # "ended"
    BY <1>1, <1>4 DEF QuietBefore, ReadData, Proceed, TypeOK
  <2>2. OneAnswer'
    BY <1>1, <2>1, ConsumeOne
  <2> QED
    BY <1>1, <2>1, <2>2 DEF QuietBefore
<1>5. CASE ReadStatus("sdio")
  <2>1. OneAnswer /\ Consume /\ IsStatus(Head(pipe))
    BY <1>5 DEF QuietBefore, ReadStatus, Fits
  <2>2. Quiet' /\ pc'["sdio"] = "ended"
    BY <1>1, <1>5, <2>1, ConsumeOne DEF ReadStatus, Finish, TypeOK
  <2> QED
    BY <2>2 DEF QuietBefore
<1>6. CASE MessageFails("sdio")
  <2>1. Finish("sdio", FALSE) /\ xfer["sdio"] \in Transfers
    BY <1>1, <1>6 DEF MessageFails, TypeOK
  <2>2. pc'["sdio"] = "ended" /\ ~xfer'["sdio"].ok
    BY <1>1, <2>1 DEF Finish, TypeOK, Transfers
  <2> QED
    BY <2>2 DEF QuietBefore
<1> QED
  BY <1>2, <1>3, <1>4, <1>5, <1>6 DEF Message

(* Init sends a command: the device refuses it for a UNIT ATTENTION only.  *)
LEMMA FindSend ==
  ASSUME IInv, IInv', id, stage \in Searching, Calm, AnswerInv, LoopInv, SendCommand("manager"),
         UNCHANGED <<lun, stage>>
  PROVE  AnswerInv' /\ (lun \in attention' => stage = "ready" /\ lun \in attention)
<1> DEFINE c == xfer["manager"].cmd
<1>1. /\ "manager" \in Threads /\ TypeOK /\ pc["manager"] = "command" /\ Receive(buffer)
      /\ xfer' = xfer /\ Proceed("manager", 0) /\ Quiet /\ alone
  BY DEF SendCommand, IInv, Threads, AnswerInv, Quiet, Calm
<1>2. c \in Commands /\ Execute(c)
  BY <1>1, BlockInBuffer DEF Quiet
<1>3. c.op = Asked[stage] /\ c.n = Chunks(stage) /\ c.lun = lun /\ HasLun(lun)
  <2>1. LunCount \in 1 .. MaxLuns /\ lun < LunCount /\ c.lun = lun
    BY DEF IInv, InitInv
  <2>2. HasLun(lun)
    BY <1>1, <2>1, Units DEF HasLun
  <2> QED
    BY <2>1, <2>2 DEF AnswerInv
<1>4. pc'["manager"] = IF 0 < c.n THEN "data" ELSE "status"
  BY <1>1 DEF Proceed, TypeOK
<1>5. /\ stage \in {"ready", "last"} <=> c.n = 0
      /\ stage \notin {"ready", "last"} <=> c.n = 1
      /\ c.op # "write" /\ (c.op \in {"inquiry", "requestSense"} <=> stage \in {"inquiry", "sense"})
      /\ (c.op = "requestSense" <=> stage = "sense")
  BY <1>3 DEF Asked, Chunks, Searching
<1>6. attention' = IF stage = "sense" THEN attention \ {lun} ELSE attention
  BY <1>2, <1>3, <1>5 DEF Execute
<1>7. Refuses(c) <=> stage = "ready" /\ lun \in attention
  BY <1>3, <1>5 DEF Refuses, LoopInv
<1>8. lun \in attention' => stage = "ready" /\ lun \in attention
  BY <1>6 DEF LoopInv
<1> HIDE DEF c
<1>9. CASE Refuses(c)
  <2>1. /\ Len(pipe') = 1 /\ pipe'[1].of = c /\ IsStatus(pipe'[1]) /\ ~pipe'[1].ok
        /\ writing' = NoCommand
    BY <1>1, <1>2, <1>9, ExecuteQuiet
  <2>2. pc'["manager"] = "status" /\ lun \in attention'
    BY <1>4, <1>5, <1>6, <1>7, <1>9
  <2> QED
    BY <1>1, <1>3, <1>8, <2>1, <2>2 DEF AnswerInv, c
<1>10. CASE ~Refuses(c)
  <2>1. /\ Len(pipe') = c.n + 1 /\ writing' = NoCommand
        /\ \A k \in 1 .. c.n + 1 : pipe'[k].of = c /\ pipe'[k].k = k /\ pipe'[k].ok
    BY <1>1, <1>2, <1>5, <1>10, ExecuteQuiet
  <2>2. lun \notin attention'
    BY <1>7, <1>8, <1>10
  <2>3. CASE c.n = 0
    <3>1. pc'["manager"] = "status"
      BY <1>4, <2>3
    <3>2. /\ Len(pipe') = 1 /\ pipe'[1].of = c /\ IsStatus(pipe'[1]) /\ pipe'[1].ok
      BY <2>1, <2>3 DEF IsStatus
    <3> QED
      BY <1>1, <1>3, <1>8, <2>1, <2>2, <3>1, <3>2 DEF AnswerInv, c
  <2>4. CASE c.n = 1
    <3>1. pc'["manager"] = "data"
      BY <1>4, <2>4
    <3>2. 1 \in 1 .. c.n + 1 /\ 2 \in 1 .. c.n + 1
      BY <2>4
    <3>3. /\ Len(pipe') = 2 /\ pipe'[1].of = c /\ ~IsStatus(pipe'[1])
          /\ pipe'[2].of = c /\ IsStatus(pipe'[2]) /\ pipe'[2].ok
      BY <2>1, <2>4, <3>2 DEF IsStatus
    <3> QED
      BY <1>1, <1>3, <1>8, <2>1, <2>2, <3>1, <3>3 DEF AnswerInv, c
  <2> QED
    BY <1>5, <2>3, <2>4
<1> QED
  BY <1>9, <1>10

(* Init takes the data of its answer, and then the status. *)
LEMMA FindTake ==
  ASSUME IInv, stage \in Searching, Calm, AnswerInv, UNCHANGED <<lun, stage>>,
         ReadData("manager") \/ ReadStatus("manager")
  PROVE  AnswerInv' /\ attention' = attention
<1> DEFINE c == xfer["manager"].cmd
<1>1. /\ "manager" \in Threads /\ TypeOK /\ Whole(pipe) /\ Consume /\ alone
      /\ xfer["manager"] \in Transfers /\ c.n = Chunks(stage) /\ c.op = Asked[stage]
  BY DEF IInv, Threads, ReadData, ReadStatus, Calm, AnswerInv, TypeOK
<1>2. /\ attention' = attention /\ writing' = NoCommand /\ pipe \in Seq(Parts) /\ pipe # <<>>
      /\ pipe' = Tail(pipe)
  BY <1>1 DEF Consume, AnswerInv, TypeOK
<1>3. /\ Head(pipe) = pipe[1] /\ Tail(pipe) \in Seq(Parts) /\ Len(Tail(pipe)) = Len(pipe) - 1
      /\ \A i \in 1 .. Len(Tail(pipe)) : Tail(pipe)[i] = pipe[i + 1]
  BY <1>2, HeadTailProperties, LenProperties
<1>4. pc["manager"] \in Active => Counted("manager") /\ Latest(c)
  BY <1>1 DEF IInv, Mine
<1>5. CASE ReadData("manager")
  <2>1. pc["manager"] = "data" /\ Proceed("manager", xfer["manager"].moved + 1)
    BY <1>5 DEF ReadData
  <2>2. c.n = 1 /\ xfer["manager"].moved = 0
    BY <1>1, <1>4, <2>1 DEF Counted, Active, Chunks, Transfers
  <2>3. pc'["manager"] = "status"
    BY <1>1, <2>1, <2>2 DEF Proceed, TypeOK
  <2>4. xfer'["manager"].cmd = c
    <3>1. PICK b \in BOOLEAN : xfer' = [xfer EXCEPT !["manager"] = Moved(xfer["manager"], Head(pipe), b)]
      BY <1>5 DEF ReadData
    <3>2. Head(pipe) \in Parts
      BY <1>1, ConsumeStep
    <3>3. xfer'["manager"] = Moved(xfer["manager"], Head(pipe), b)
      BY <1>1, <3>1 DEF TypeOK
    <3> QED
      BY <1>1, <3>2, <3>3, MovedFields
  <2>5. /\ Len(pipe) = 2 /\ pipe[2].of = c /\ IsStatus(pipe[2]) /\ pipe[2].ok
        /\ lun \notin attention
    BY <2>1 DEF AnswerInv
  <2>6. Len(pipe') = 1 /\ pipe'[1] = pipe[2]
    <3>1. Len(Tail(pipe)) = 1
      BY <1>3, <2>5
    <3>2. 1 \in 1 .. Len(Tail(pipe)) /\ 1 + 1 = 2
      BY <3>1
    <3>3. Tail(pipe)[1] = pipe[2]
      BY <1>3, <3>2
    <3> QED
      BY <1>2, <3>1, <3>3
  <2> QED
    BY <1>1, <1>2, <2>3, <2>4, <2>5, <2>6 DEF AnswerInv
<1>6. CASE ReadStatus("manager")
  <2>1. pc["manager"] = "status" /\ Finish("manager", Matches(Head(pipe)))
    BY <1>6 DEF ReadStatus
  <2>2. Len(pipe) = 1 /\ pipe[1].of = c /\ (pipe[1].ok <=> lun \notin attention)
    BY <2>1 DEF AnswerInv
  <2>3. c.tag = tag
    BY <1>4, <2>1 DEF Latest, Active
  <2>4. Matches(Head(pipe)) <=> lun \notin attention
    BY <1>3, <2>2, <2>3 DEF Matches
  <2>5. pc'["manager"] = "ended"
    BY <1>1, <2>1 DEF Finish, TypeOK
  <2>6. xfer'["manager"].ok = Matches(Head(pipe)) /\ xfer'["manager"].cmd = c
    BY <1>1, <2>1 DEF Finish, TypeOK, Transfers
  <2>7. pipe' = <<>>
    BY <1>2, <1>3, <2>2, EmptySeq
  <2> QED
    BY <1>1, <1>2, <2>4, <2>5, <2>6, <2>7 DEF AnswerInv
<1> QED
  BY <1>5, <1>6

(* No message of Init fails without a fault. *)
LEMMA FindNoFailure ==
  ASSUME IInv, id, stage \in Searching, Calm, AnswerInv, faults' = 0
  PROVE  ~MessageFails("manager") /\ ~SendData("manager")
<1> DEFINE c == xfer["manager"].cmd
<1>1. "manager" \in Threads /\ TypeOK /\ alone /\ faults \in Nat /\ faults = 0
  BY StorageAssumption DEF IInv, TypeOK, Threads, Calm
<1>2. c.op # "write"
  BY DEF AnswerInv, Asked, Searching
<1>3. Sends("manager") => Accepts(buffer)
  BY <1>1, <1>2, BlockInBuffer DEF Sends, Accepts
<1>4. Reads("manager") => Fits("manager")
  <2>1. pipe \in Seq(Parts)
    BY <1>1 DEF TypeOK
  <2>2. Len(pipe) > 0 => pipe # <<>> /\ Head(pipe) = pipe[1]
    BY <2>1, HeadTailProperties
  <2>3. CASE pc["manager"] = "status"
    <3>1. Len(pipe) = 1 /\ IsStatus(pipe[1])
      BY <2>3 DEF AnswerInv
    <3>2. pipe # <<>> /\ Head(pipe) = pipe[1]
      BY <2>2, <3>1
    <3> QED
      BY <2>3, <3>1, <3>2 DEF Fits
  <2>4. CASE pc["manager"] = "data"
    <3>1. Len(pipe) = 2 /\ ~IsStatus(pipe[1]) /\ pipe[1].of = c
      BY <2>4 DEF AnswerInv
    <3>2. pipe # <<>> /\ Head(pipe) = pipe[1]
      BY <2>2, <3>1
    <3> QED
      BY <2>4, <3>1, <3>2 DEF Fits
  <2> QED
    BY <2>3, <2>4 DEF Reads
<1>5. ~MessageFails("manager")
  <2>1. faults' # faults + 1
    BY <1>1
  <2> QED
    BY <1>3, <1>4, <2>1, Zenon DEF MessageFails
<1>6. ~SendData("manager")
  BY <1>2 DEF SendData, Sends
<1> QED
  BY <1>5, <1>6

LEMMA FindMessage ==
  ASSUME IInv, IInv', FindInv, NEW t \in Threads, Message(t)
  PROVE  FindInv'
<1>1. /\ UNCHANGED <<id, lun, valid, error, stage, try, alone, device>> /\ TypeOK
      /\ pc[t] \in Active /\ \A u \in Threads \ {t} : pc'[u] = pc[u]
      /\ faults' = 0 => faults = 0
  BY MessageType, MessageFault DEF IInv, Message, initVars
<1>2. UnusedInv'
  <2> SUFFICES ASSUME ~valid, stage = "none"
               PROVE  /\ pc'["manager"] = "idle"
                      /\ ~error => alone /\ (faults' = 0 => QuietBefore')
    BY <1>1 DEF UnusedInv
  <2>1. pc["manager"] = "idle" /\ t = "sdio"
    BY <1>1 DEF FindInv, UnusedInv, Active, Threads
  <2>2. ~error => alone /\ (faults = 0 => QuietBefore)
    BY DEF FindInv, UnusedInv
  <2> QED
    BY <1>1, <2>1, <2>2, FindMessageBefore DEF Threads
<1>3. ASSUME stage = "luns" /\ Calm'
      PROVE  Quiet'
  <2>1. pc["sdio"] = "idle" /\ pc["manager"] = "control"
    BY <1>1, <1>3, InitAlone DEF IInv, InitInv, Calm
  <2> QED
    BY <1>1, <2>1 DEF Active, Threads
<1>4. ASSUME stage \in Searching /\ Calm'
      PROVE  AnswerInv' /\ LoopInv'
  <2>1. Calm /\ AnswerInv /\ LoopInv /\ id /\ faults' = 0
    BY <1>1, <1>4 DEF Calm, FindInv, SearchInv, Searching
  <2>2. t = "manager"
    BY <1>1, <1>4, <2>1, InitAlone DEF Threads, Active, Searching, Calm
  <2>3. ~MessageFails("manager") /\ ~SendData("manager")
    BY <1>4, <2>1, FindNoFailure
  <2>4. /\ AnswerInv'
        /\ lun \in attention' => /\ lun \in attention
                                 /\ stage = "ready" \/ (stage = "sense" /\ pc["manager"] = "command")
        /\ pc["manager"] = "command" /\ lun \in attention' => stage = "ready"
    <3>1. CASE SendCommand("manager")
      BY <1>1, <1>4, <2>1, <3>1, FindSend
    <3>2. CASE ReadData("manager") \/ ReadStatus("manager")
      <4>1. AnswerInv' /\ attention' = attention
        BY <1>1, <1>4, <2>1, <3>2, FindTake
      <4>2. pc["manager"] # "command"
        BY <3>2 DEF ReadData, ReadStatus
      <4> QED
        BY <2>1, <4>1, <4>2 DEF LoopInv
    <3> QED
      BY <2>2, <2>3, <3>1, <3>2 DEF Message
  <2>5. LoopInv'
    BY <1>1, <2>1, <2>4 DEF LoopInv
  <2> QED
    BY <2>4, <2>5
<1>5. SearchInv'
  BY <1>1, <1>3, <1>4 DEF FindInv, SearchInv
<1> QED
  BY <1>2, <1>5 DEF FindInv

LEMMA FindInitial == Init => FindInv
<1> SUFFICES ASSUME Init
             PROVE  FindInv
  OBVIOUS
<1>1. /\ pc["manager"] = "idle" /\ pc["sdio"] = "idle" /\ stage = "none" /\ alone
      /\ pipe = <<>> /\ writing = NoCommand
  BY DEF Init, Threads
<1> QED
  BY <1>1 DEF FindInv, UnusedInv, QuietBefore, Quiet, SearchInv, Searching

LEMMA FindInductive ==
  ASSUME Tries > 1, IInv, IInv', FindInv, [Next]_vars
  PROVE  FindInv'
<1>1. CASE InitNext
  BY <1>1, FindBeginInit, FindGetLunCount, FindReady, FindInquiry, FindSense, FindLast DEF InitNext
<1>2. ASSUME NEW t \in Threads, Message(t) \/ EndIO(t)
      PROVE  FindInv'
  BY <1>2, FindMessage, FindEndIO
<1>3. ASSUME NEW t \in Threads, NEW op \in {"read", "write"}, NEW n \in ChunkCounts,
             BeginIO(t, op, n)
      PROVE  FindInv'
  BY <1>3, FindBeginIO
<1>4. CASE UNCHANGED vars
  <2>1. /\ UNCHANGED <<id, lun, valid, error, pc, xfer, stage, try, alone, device>>
        /\ UNCHANGED <<attention, pipe, writing, faults>>
    BY <1>4 DEF vars, storageVars, initVars, deviceVars, boundVars
  <2> QED
    BY <2>1 DEF FindInv, UnusedInv, QuietBefore, Quiet, OneAnswer, SearchInv, AnswerInv, LoopInv, Calm
<1> QED
  BY <1>1, <1>2, <1>3, <1>4 DEF Next

(* Init that fails has found that there is no disk. *)
LEMMA RefusedStep ==
  ASSUME Tries > 1, IInv, FindInv, Next, stage # "none", stage' = "none", ~valid', alone,
         faults' = 0
  PROVE  LunCount \notin 1 .. MaxLuns \/ \A l \in device.disks : ~HasLun(l)
<1>1. ASSUME NEW s \in Searching, Ended(s), faults' = faults
      PROVE  Calm
  BY <1>1 DEF Calm
<1>2. CASE GetLunCount
  <2>1. faults \in Nat
    BY StorageAssumption DEF IInv, TypeOK
  <2>2. ~InitTransfer("ready", "testUnitReady", 0, 0)
    BY DEF InitTransfer
  <2>3. faults' # faults + 1
    BY <2>1
  <2> QED
    BY <1>2, <2>2, <2>3, Zenon DEF GetLunCount
<1>3. CASE AfterRequestSense
  <2>1. Ended("sense") /\ "sense" \in Searching /\ faults' = faults
    BY <1>3 DEF AfterRequestSense, Searching, initFrame, boundVars
  <2>2. ~MoreTries /\ lun + 1 >= LunCount
    BY <1>3 DEF AfterRequestSense, InitTransfer
  <2>0. TypeOK /\ LunCount \in 1 .. MaxLuns
    BY <2>1 DEF IInv, InitInv, Ended
  <2>3. /\ LunCount = device.maxLun + 1 /\ lun \in Nat /\ try \in Nat /\ Tries \in Nat
        /\ device.maxLun \in Nat /\ \A l \in device.disks : l \in Nat
    BY <2>0, Units, StorageAssumption
  <2>4. (\A l \in device.disks : lun <= l) /\ (lun \in device.disks => try = 0)
    BY <1>1, <2>1, SearchEnded DEF LoopInv, Ended
  <2>5. lun \notin device.disks
    BY <2>2, <2>3, <2>4 DEF MoreTries
  <2>6. ASSUME NEW l \in device.disks
        PROVE  ~HasLun(l)
    <3>1. lun <= l /\ l # lun /\ l \in Nat
      BY <2>3, <2>4, <2>5
    <3> QED
      BY <2>2, <2>3, <3>1 DEF HasLun
  <2> QED
    BY <2>6
<1>4. CASE AfterReadCapacity
  <2>1. Ended("capacity") /\ "capacity" \in Searching /\ faults' = faults
    BY <1>4 DEF AfterReadCapacity, Searching, initFrame, boundVars
  <2>2. ~Passed
    BY <1>4 DEF AfterReadCapacity, InitTransfer
  <2> QED
    BY <1>1, <2>1, <2>2, SearchEnded
<1>5. CASE AfterLastTest
  <2>1. Ended("last") /\ "last" \in Searching /\ faults' = faults
    BY <1>5 DEF AfterLastTest, Searching, initFrame, boundVars
  <2>2. ~Passed
    BY <1>5 DEF AfterLastTest, EndInit
  <2> QED
    BY <1>1, <2>1, <2>2, SearchEnded
<1>6. ~AfterTestUnitReady /\ ~AfterInquiry
  BY DEF AfterTestUnitReady, AfterInquiry, Retry, InitTransfer
<1>7. \A t \in Threads : ~Message(t) /\ ~EndIO(t)
  BY DEF Message, EndIO, initVars
<1>8. \A t \in Threads, op \in {"read", "write"}, n \in ChunkCounts : ~BeginIO(t, op, n)
  BY DEF BeginIO, initVars
<1>9. ~BeginInit
  BY DEF BeginInit
<1> QED
  BY <1>2, <1>3, <1>4, <1>5, <1>6, <1>7, <1>8, <1>9 DEF Next, InitNext

(* Init finds a disk that the device has, at the second attempt if it has  *)
(* a UNIT ATTENTION to report first (lines 192-209).                       *)
THEOREM DiskFound ==
  ASSUME Tries > 1
  PROVE  Spec => DiskAccepted
<1>1. IInv /\ IInv' /\ FindInv /\ [Next]_vars => FindInv'
  BY FindInductive
<1>2. Spec => []FindInv
  BY <1>1, FindInitial, Invariance, PTL DEF Spec
<1>3. IInv /\ FindInv /\ [Next]_vars =>
        [stage # "none" /\ stage' = "none" /\ ~valid' /\ alone /\ faults' = 0 =>
           \/ LunCount \notin 1 .. MaxLuns
           \/ \A l \in device.disks : ~HasLun(l)]_vars
  BY RefusedStep
<1> QED
  BY <1>2, <1>3, Invariance, PTL DEF Spec, DiskAccepted
-----------------------------------------------------------------------------
(* Every transfer, and the search of Init, come to their end. *)

(* The messages that a transfer has still to send. *)
MessagesLeft(t) ==
  IF pc[t] = "status" THEN 1
  ELSE IF pc[t] = "data" THEN xfer[t].cmd.n - xfer[t].moved + 1
  ELSE IF pc[t] = "command" THEN xfer[t].cmd.n + 2
  ELSE 0

TransferGetsOn ==
  \A t \in Threads : pc[t] \in Active =>
    /\ MessagesLeft(t) \in Nat /\ MessagesLeft(t)' \in Nat
    /\ Message(t) => MessagesLeft(t)' < MessagesLeft(t)
    /\ ~Message(t) => pc'[t] = pc[t] /\ MessagesLeft(t)' = MessagesLeft(t)

(* Where a transfer stands, overlapped or not. *)
PlaceInv ==
  \A t \in Threads :
    /\ pc[t] = "command" => xfer[t].moved = 0
    /\ pc[t] = "data" => xfer[t].moved < xfer[t].cmd.n

(* FindLun goes on to another unit, to another try, or in the order of the *)
(* transfers of a try, of which the last two are behind its loops.         *)
StageNo == [ready |-> 1, inquiry |-> 2, sense |-> 3, capacity |-> 4, last |-> 5]

Further ==
  \/ lun' > lun
  \/ lun' = lun /\ try' > try
  \/ lun' = lun /\ try' = try /\ StageNo[stage'] > StageNo[stage]

SearchGetsOn ==
  stage \in Searching =>
    /\ lun \in 0 .. LunCount - 1 /\ try \in 0 .. Tries - 1
    /\ stage' \in Searching \cup {"none"}
    /\ InitNext /\ stage' # "none" => Further
    /\ ~InitNext => UNCHANGED <<lun, initVars>>

LEMMA PlaceTypes ==
  ASSUME TypeOK, NEW t \in Threads
  PROVE  xfer[t].cmd.n \in Nat /\ xfer[t].moved \in Nat /\ xfer[t] \in Transfers
<1>1. xfer[t] \in Transfers
  BY DEF TypeOK
<1>2. xfer[t].cmd \in Commands /\ xfer[t].moved \in Nat
  BY <1>1 DEF Transfers
<1> QED
  BY <1>1, <1>2 DEF Commands

(* A chunk that has moved counts, and a call without one has its result.   *)
LEMMA MovedOn ==
  ASSUME TypeOK, NEW t \in Threads, NEW p \in Parts, NEW b \in BOOLEAN,
         xfer' = [xfer EXCEPT ![t] = Moved(xfer[t], p, b)], Proceed(t, xfer[t].moved + 1)
  PROVE  /\ xfer'[t].cmd = xfer[t].cmd /\ xfer'[t].moved = xfer[t].moved + 1
         /\ pc'[t] = IF xfer[t].moved + 1 < xfer[t].cmd.n THEN "data" ELSE "status"
<1>1. xfer'[t] = Moved(xfer[t], p, b)
  BY DEF TypeOK
<1> QED
  BY <1>1, PlaceTypes, MovedFields DEF Proceed, TypeOK

LEMMA MessageGetsOn ==
  ASSUME IInv, PlaceInv, NEW t \in Threads, Message(t)
  PROVE  /\ MessagesLeft(t) \in Nat /\ MessagesLeft(t)' \in Nat
         /\ MessagesLeft(t)' < MessagesLeft(t)
         /\ pc'[t] # "command" /\ (pc'[t] = "data" => xfer'[t].moved < xfer'[t].cmd.n)
<1>1. TypeOK /\ xfer[t].cmd.n \in Nat /\ xfer[t].moved \in Nat
  BY PlaceTypes DEF IInv
<1>2. /\ pc[t] = "command" => xfer[t].moved = 0
      /\ pc[t] = "data" => xfer[t].moved < xfer[t].cmd.n
      /\ pc[t] \in Active
  BY <1>1, MessageType DEF PlaceInv, IInv
<1>3. MessagesLeft(t) \in Nat /\ MessagesLeft(t) > 0
  BY <1>1, <1>2 DEF MessagesLeft, Active
<1>4. CASE SendCommand(t)
  <2>1. /\ pc[t] = "command" /\ xfer'[t] = xfer[t]
        /\ pc'[t] = IF 0 < xfer[t].cmd.n THEN "data" ELSE "status"
    BY <1>1, <1>4 DEF SendCommand, Proceed, TypeOK
  <2> QED
    BY <1>1, <1>2, <1>3, <2>1 DEF MessagesLeft
<1>5. CASE SendData(t) \/ ReadData(t)
  <2>1. /\ pc[t] = "data"
        /\ xfer'[t].cmd = xfer[t].cmd /\ xfer'[t].moved = xfer[t].moved + 1
        /\ pc'[t] = IF xfer[t].moved + 1 < xfer[t].cmd.n THEN "data" ELSE "status"
    <3>1. PICK p \in Parts, b \in BOOLEAN :
            xfer' = [xfer EXCEPT ![t] = Moved(xfer[t], p, b)]
      <4>1. CASE SendData(t)
        <5>1. xfer[t].got \in Parts
          BY <1>1, PlaceTypes DEF Transfers
        <5> QED
          BY <4>1, <5>1 DEF SendData
      <4>2. CASE ReadData(t)
        <5>1. Head(pipe) \in Parts
          BY <1>1, <4>2, ConsumeStep DEF ReadData, IInv
        <5> QED
          BY <4>2, <5>1 DEF ReadData
      <4> QED
        BY <1>5, <4>1, <4>2
    <3>2. pc[t] = "data" /\ Proceed(t, xfer[t].moved + 1)
      BY <1>5 DEF SendData, ReadData
    <3> QED
      BY <1>1, <3>1, <3>2, MovedOn
  <2> QED
    BY <1>1, <1>2, <1>3, <2>1 DEF MessagesLeft
<1>6. CASE ReadStatus(t) \/ MessageFails(t)
  <2>1. pc'[t] = "ended"
    BY <1>1, <1>6 DEF ReadStatus, MessageFails, Finish, TypeOK
  <2> QED
    BY <1>3, <2>1 DEF MessagesLeft
<1> QED
  BY <1>4, <1>5, <1>6 DEF Message
(* What the steps but messages of its own leave to a thread in a transfer. *)
LEMMA OtherSteps ==
  ASSUME IInv, [Next]_vars, NEW t \in Threads, ~Message(t)
  PROVE  \/ pc'[t] = pc[t] /\ xfer'[t] = xfer[t]
         \/ pc[t] \notin Active /\ pc'[t] = "command" /\ xfer'[t].moved = 0
         \/ pc[t] \notin Active /\ pc'[t] \notin Active
<1>1. TypeOK
  BY DEF IInv
<1>2. ASSUME NEW u \in Threads, NEW op, NEW l, NEW n, Transfer(u, op, l, n)
      PROVE  \/ u # t /\ pc'[t] = pc[t] /\ xfer'[t] = xfer[t]
             \/ u = t /\ pc'[t] = "command" /\ xfer'[t].moved = 0
  BY <1>1, <1>2 DEF Transfer, Fresh, TypeOK
<1>3. ASSUME NEW u \in Threads, Message(u) PROVE pc'[t] = pc[t] /\ xfer'[t] = xfer[t]
  <2>1. u # t
    BY <1>3
  <2> QED
    BY <1>3, <2>1, MessageType DEF IInv
<1>4. ASSUME NEW u \in Threads, EndIO(u)
      PROVE  \/ pc'[t] = pc[t] /\ xfer'[t] = xfer[t]
             \/ pc[t] = "ended" /\ pc'[t] = "idle"
  BY <1>1, <1>4 DEF EndIO, TypeOK
<1>5. ASSUME NEW u \in Threads, NEW op, NEW n, BeginIO(u, op, n)
      PROVE  \/ pc'[t] = pc[t] /\ xfer'[t] = xfer[t]
             \/ pc[t] = "idle" /\ pc'[t] = "command" /\ xfer'[t].moved = 0
  BY <1>2, <1>5 DEF BeginIO, Begin
<1>6. CASE BeginInit
  BY <1>1, <1>6 DEF BeginInit, Begin, TypeOK, Active
<1>7. CASE InitNext /\ ~BeginInit
  <2>1. pc["manager"] \in {"control", "ended"}
    BY <1>7 DEF InitNext, GetLunCount, AfterTestUnitReady, AfterInquiry, AfterRequestSense,
                AfterReadCapacity, AfterLastTest, Ended
  <2>2. \/ \E ok \in BOOLEAN : EndInit(ok)
        \/ \E s, op, l, n : InitTransfer(s, op, l, n)
    <3>1. xfer["manager"].ok \in BOOLEAN
      BY <1>1, PlaceTypes DEF Transfers, Threads
    <3> QED
      BY <1>7, <3>1 DEF InitNext, GetLunCount, AfterTestUnitReady, AfterInquiry,
         AfterRequestSense, AfterReadCapacity, AfterLastTest, Retry, Passed
  <2>3. CASE \E ok \in BOOLEAN : EndInit(ok)
    BY <1>1, <2>1, <2>3 DEF EndInit, TypeOK, Active
  <2>4. CASE \E s, op, l, n : InitTransfer(s, op, l, n)
    BY <1>2, <2>1, <2>4 DEF InitTransfer, Active, Threads
  <2> QED
    BY <2>2, <2>3, <2>4
<1>8. CASE UNCHANGED vars
  BY <1>8 DEF vars
<1> QED
  BY <1>3, <1>4, <1>5, <1>6, <1>7, <1>8 DEF Next, Active

LEMMA PlaceInvariant == Spec => []PlaceInv
<1>1. Init => PlaceInv
  BY DEF Init, PlaceInv
<1>2. ASSUME IInv, PlaceInv, [Next]_vars PROVE PlaceInv'
  <2> SUFFICES ASSUME NEW t \in Threads
               PROVE  /\ pc'[t] = "command" => xfer'[t].moved = 0
                      /\ pc'[t] = "data" => xfer'[t].moved < xfer'[t].cmd.n
    BY DEF PlaceInv
  <2>1. CASE Message(t)
    BY <1>2, <2>1, MessageGetsOn
  <2>2. CASE ~Message(t)
    BY <1>2, <2>2, OtherSteps DEF PlaceInv, Active
  <2> QED
    BY <2>1, <2>2
<1>3. IInv /\ PlaceInv /\ [Next]_vars => PlaceInv'
  BY <1>2
<1> QED
  BY <1>1, <1>3, Invariance, PTL DEF Spec

(* A transfer of n chunks ends after n + 2 messages at most, whatever the  *)
(* device answers, and nothing that the other thread does with the buffer  *)
(* and the tag sets it back (lines 67-133).                                *)
THEOREM TransfersEnd == Spec => [][TransferGetsOn]_vars
<1>1. ASSUME IInv, PlaceInv, [Next]_vars PROVE TransferGetsOn
  <2> SUFFICES ASSUME NEW t \in Threads, pc[t] \in Active
               PROVE  /\ MessagesLeft(t) \in Nat /\ MessagesLeft(t)' \in Nat
                      /\ Message(t) => MessagesLeft(t)' < MessagesLeft(t)
                      /\ ~Message(t) => pc'[t] = pc[t] /\ MessagesLeft(t)' = MessagesLeft(t)
    BY DEF TransferGetsOn
  <2>1. CASE Message(t)
    BY <1>1, <2>1, MessageGetsOn
  <2>2. CASE ~Message(t)
    <3>1. pc'[t] = pc[t] /\ xfer'[t] = xfer[t]
      BY <1>1, <2>2, OtherSteps
    <3>2. MessagesLeft(t)' = MessagesLeft(t)
      BY <3>1 DEF MessagesLeft
    <3>3. MessagesLeft(t) \in Nat
      BY <1>1, PlaceTypes DEF MessagesLeft, IInv, PlaceInv
    <3> QED
      BY <2>2, <3>1, <3>2, <3>3
  <2> QED
    BY <2>1, <2>2
<1>2. IInv /\ PlaceInv /\ [Next]_vars => [TransferGetsOn]_vars
  BY <1>1
<1> QED
  BY <1>2, Invariance, PlaceInvariant, PTL DEF Spec

LEMMA SearchStepGetsOn ==
  ASSUME IInv, [Next]_vars, stage \in Searching
  PROVE  /\ stage' \in Searching \cup {"none"}
         /\ InitNext /\ stage' # "none" => Further
         /\ ~InitNext => UNCHANGED <<lun, initVars>>
<1>1. /\ TypeOK /\ InitInv /\ lun \in Nat /\ try \in Nat /\ pc["manager"] # "control"
      /\ pc["manager"] # "idle"
  BY StorageAssumption DEF IInv, TypeOK, InitInv, Searching, Active
<1>0. /\ StageNo["ready"] = 1 /\ StageNo["inquiry"] = 2 /\ StageNo["sense"] = 3
      /\ StageNo["capacity"] = 4 /\ StageNo["last"] = 5
  BY DEF StageNo
<1>2. CASE AfterTestUnitReady
  <2>1. stage = "ready" /\ stage' \in {"inquiry", "sense"} /\ UNCHANGED <<lun, try>>
    BY <1>2, Zenon DEF AfterTestUnitReady, Ended, Retry, InitTransfer
  <2> QED
    BY <1>0, <1>2, <2>1 DEF InitNext, Further, Searching
<1>3. CASE AfterInquiry
  <2>1. stage = "inquiry" /\ stage' \in {"capacity", "sense"} /\ UNCHANGED <<lun, try>>
    BY <1>3, Zenon DEF AfterInquiry, Ended, Retry, InitTransfer
  <2> QED
    BY <1>0, <1>3, <2>1 DEF InitNext, Further, Searching
<1>4. CASE AfterRequestSense
  <2>1. \/ stage' = "ready" /\ lun' = lun /\ try' = try + 1
        \/ stage' = "ready" /\ lun' = lun + 1
        \/ stage' = "none"
    BY <1>4, Zenon DEF AfterRequestSense, InitTransfer, EndInit
  <2> QED
    BY <1>1, <1>4, <2>1 DEF InitNext, Further, Searching
<1>5. CASE AfterReadCapacity
  <2>1. /\ stage = "capacity" /\ UNCHANGED lun
        /\ (stage' = "last" /\ UNCHANGED try) \/ stage' = "none"
    BY <1>5, Zenon DEF AfterReadCapacity, Ended, InitTransfer, EndInit
  <2> QED
    BY <1>0, <1>5, <2>1 DEF InitNext, Further, Searching
<1>6. CASE AfterLastTest
  <2>1. stage' = "none"
    BY <1>6, Zenon DEF AfterLastTest, EndInit
  <2> QED
    BY <1>6, <2>1 DEF InitNext, Searching
<1>7. ~BeginInit /\ ~GetLunCount
  BY <1>1 DEF BeginInit, Begin, GetLunCount
<1>8. CASE ~InitNext
  <2>1. UNCHANGED <<lun, initVars>>
    BY <1>8 DEF Next, Message, EndIO, BeginIO, vars, storageVars
  <2> QED
    BY <1>8, <2>1 DEF initVars
<1> QED
  BY <1>2, <1>3, <1>4, <1>5, <1>6, <1>7, <1>8 DEF InitNext

(* The search for a unit ends: FindLun, whose loop variable is the member  *)
(* m_lun that the I/O of both threads uses, never comes to a unit, a try   *)
(* and a transfer again, and stays below the number of units, whatever the *)
(* device answers and whatever EmuSDIO does (lines 190-206).               *)
THEOREM SearchEnds == Spec => [][SearchGetsOn]_vars
<1>1. ASSUME IInv, [Next]_vars PROVE SearchGetsOn
  <2>1. stage \in Searching => lun \in 0 .. LunCount - 1 /\ try \in 0 .. Tries - 1
    BY <1>1, StorageAssumption DEF IInv, InitInv, TypeOK
  <2> QED
    BY <1>1, <2>1, SearchStepGetsOn DEF SearchGetsOn
<1>2. IInv /\ [Next]_vars => [SearchGetsOn]_vars
  BY <1>1
<1> QED
  BY <1>2, Invariance, PTL DEF Spec
=============================================================================
