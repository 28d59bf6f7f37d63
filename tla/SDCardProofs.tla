---------------------------- MODULE SDCardProofs ----------------------------
(***************************************************************************)
(* What holds of SDCard for all cards, requests and numbers of failures.   *)
(* A clean transfer meets only clean transfers.  While one of them holds   *)
(* the card, its select keeps the other from it, and so from rw_buffer;    *)
(* and the capacity flag is right for the card as long as the card stays   *)
(* powered.                                                                *)
(***************************************************************************)
EXTENDS SDCard, TLAPS

(* Calls and steps go together, and only the DeviceMgr thread starts.      *)
CallInv ==
  \A t \in Threads :
    /\ pc[t] \in InitSteps => t = "manager" /\ call[t] = Startup
    /\ pc[t] \in IOSteps => call[t] \in Requests
    /\ pc[t] = "ended" => call[t] # NoCall
    /\ t = "sdio" => call[t] # Startup
    /\ pc[t] = "idle" => call[t] = NoCall

(* A clean read or write meets only clean reads and writes.                *)
CleanIO(t) == t \in clean /\ call[t] \in Requests
CleanInv == \A t, u \in Threads : CleanIO(t) /\ u # t => Idle(u) \/ CleanIO(u)

Holding == {"command", "copy", "ioDeselect"}

(* The card is selected for one clean transfer at a time.                  *)
SelectInv ==
  \A t \in Threads : CleanIO(t) /\ pc[t] \in Holding =>
    /\ state = "tran"
    /\ \A u \in Threads \ {t} : pc[u] \notin Holding

(* The driver knows the capacity of a card that answers, once the card is  *)
(* started, for a clean transfer, and from the steps on that read it.      *)
CapacityRead == {"cid", "rca", "busWidth", "setClock", "select", "blockLen", "appWidth",
                 "setWidth", "deselect"}
CapacityRight == sdhc <=> card \in HighCapacity
CapacityUnused ==
  /\ ~started /\ \A t \in Threads : ~CleanIO(t)
  /\ pc["manager"] \notin CapacityRead
  /\ ~(pc["manager"] = "ended" /\ call["manager"] = Startup /\ result["manager"] = "ok")
CapacityInv == state = "off" \/ CapacityRight \/ CapacityUnused

(* A start runs only while the volume is not started, and the DeviceMgr    *)
(* thread reads and writes only while it is.                               *)
StartInv ==
  /\ call["manager"] = Startup => ~started
  /\ call["manager"] \in Requests => started

(* What a clean transfer within the card has done so far is right, and so  *)
(* is what it finds in rw_buffer.                                          *)
InRange(t) == CleanIO(t) /\ call[t].sector + call[t].n <= CardSectors
OwnOf(t) ==
  /\ pc[t] = "ioSelect" => t \in own /\ done[t] = 0
  /\ pc[t] = "command" =>
       /\ t \in own /\ done[t] < call[t].n
       /\ Bounces(t, "write") => rwBuffer = Given(t, done[t])
  /\ pc[t] = "copy" =>
       /\ t \in own /\ done[t] < call[t].n /\ Bounces(t, "read")
       /\ rwBuffer = Sought(t) /\ result[t] = "ok"
  /\ pc[t] \in {"ioDeselect", "ended"} /\ result[t] = "ok" =>
       t \in own /\ done[t] = call[t].n
OwnInv == \A t \in Threads : InRange(t) => OwnOf(t)

(* A selected card has a thread that will deselect it.                     *)
Selecting == Holding \cup Selected \cup {"deselect", "dropSelect"}
ReleaseInv == state = "tran" => misled \/ \E t \in Threads : pc[t] \in Selecting

(* A card that is selected gets the command that deselects it.             *)
PassInv == state = "tran" => Passes

IInv == /\ TypeOK /\ CallInv /\ CleanInv /\ SelectInv /\ CapacityInv /\ StartInv
        /\ OwnInv /\ ReleaseInv

-----------------------------------------------------------------------------
(* Startup and NoCall are no requests. *)
LEMMA NoRequests == Startup \notin Requests /\ NoCall \notin Requests /\ Startup # NoCall
  BY CardAssumption DEF Startup, NoCall

(* The steps of the initialisation. *)
LEMMA AfterSteps ==
  /\ DOMAIN After = {"interrupts", "hostReset", "waitReset", "power", "clock", "waitClock",
                     "clockOn", "timeout", "goIdle", "ifCond", "appCmd", "cid", "rca",
                     "busWidth", "setClock", "select", "blockLen", "appWidth", "setWidth",
                     "failReset", "failWait"}
  /\ \A p \in DOMAIN After : After[p] \in InitSteps
  BY DEF After, InitSteps

-----------------------------------------------------------------------------
(* The type invariant. *)

(* A step of a thread that goes to a step of the type.                     *)
LEMMA GotoType ==
  ASSUME TypeOK, NEW t \in Threads, NEW p \in InitSteps \cup IOSteps \cup {"idle", "ended"},
         Goto(t, p)
  PROVE  pc' \in [Threads -> InitSteps \cup IOSteps \cup {"idle", "ended"}]
  BY DEF TypeOK, Goto

States == {"off", "idle", "ready", "ident", "stby", "tran"}

(* An ioctl leads from state to state, and a slot without a card has none. *)
LEMMA TakesType ==
  ASSUME TypeOK, NEW p, Replies(p), Takes(p)
  PROVE  state' \in States /\ (card = NoCard => state' = "off")
<1>1. /\ DOMAIN Needs = {"ifCond", "appCmd", "cid", "rca", "select", "ioSelect", "blockLen",
                         "appWidth", "setWidth"}
      /\ \A q \in DOMAIN Needs : Needs[q] # "off"
  BY DEF Needs
<1>2. /\ DOMAIN Leads = {"cid", "rca", "select", "ioSelect", "hostReset", "failReset"}
      /\ \A q \in DOMAIN Leads : Leads[q] \in States
      /\ \A q \in DOMAIN Leads : q \notin DOMAIN Needs => Leads[q] = "off"
  BY <1>1 DEF Leads, States
<1>3. CASE p \in DOMAIN Leads
  <2>1. state' = Leads[p]
    BY <1>3 DEF Takes
  <2> QED
    BY <2>1, <1>1, <1>2, <1>3 DEF TypeOK, Replies, States
<1>4. CASE p \notin DOMAIN Leads
  BY <1>4 DEF TypeOK, Takes, States
<1> QED
  BY <1>3, <1>4

LEMMA FailsType ==
  ASSUME TypeOK, NEW p, Fails(p)
  PROVE  /\ state' \in States /\ (card = NoCard => state' = "off")
         /\ faults' \in 0 .. MaxFaults
<1>1. CASE ~Replies(p) /\ UNCHANGED <<state, faults>>
  BY <1>1 DEF TypeOK, States
<1>2. CASE Replies(p) /\ Fault /\ (Takes(p) \/ UNCHANGED state)
  <2>1. faults' \in 0 .. MaxFaults
    BY <1>2, CardAssumption DEF TypeOK, Fault
  <2>2. CASE Takes(p)
    BY <1>2, <2>1, <2>2, TakesType
  <2>3. CASE UNCHANGED state
    BY <2>1, <2>3 DEF TypeOK, States
  <2> QED
    BY <1>2, <2>2, <2>3
<1> QED
  BY <1>1, <1>2 DEF Fails

LEMMA FaultType == TypeOK /\ (Fault \/ UNCHANGED faults) => faults' \in 0 .. MaxFaults
  BY CardAssumption DEF TypeOK, Fault

(* What a thread returns. *)
LEMMA FinishType ==
  ASSUME TypeOK, NEW t \in Threads, NEW r \in {"ok", "failed"}, Finish(t, r)
  PROVE  /\ pc' \in [Threads -> InitSteps \cup IOSteps \cup {"idle", "ended"}]
         /\ result' \in [Threads -> {"none", "ok", "failed"}]
  BY DEF TypeOK, Finish, Goto

LEMMA FailingType ==
  \A p \in DOMAIN After : Failing(p) = "refused" \/ Failing(p) \in InitSteps
  BY AfterSteps DEF Failing, InitSteps

LEMMA InitStepType == ASSUME TypeOK, NEW p \in DOMAIN After, InitStep(p) PROVE TypeOK'
<1> USE DEF Threads
<1>1. /\ state' \in States /\ (card = NoCard => state' = "off")
      /\ faults' \in 0 .. MaxFaults
  BY TakesType, FailsType, FaultType DEF InitStep, faultVars
<1>2. pc' \in [Threads -> InitSteps \cup IOSteps \cup {"idle", "ended"}]
  BY AfterSteps, FailingType, GotoType, FinishType, Zenon DEF InitStep, Threads
<1>3. result' \in [Threads -> {"none", "ok", "failed"}]
  BY FinishType DEF InitStep, TypeOK
<1>4. rca' \in BOOLEAN /\ sdhc' \in BOOLEAN /\ misled' \in BOOLEAN
  BY DEF InitStep, TypeOK, faultVars
<1>5. tries' \in 0 .. OpCondTries - 1
  <2>1. tries' \in {OpCondTries - 1, tries, 0}
    BY DEF InitStep
  <2>2. tries \in 0 .. OpCondTries - 1
    BY DEF TypeOK
  <2>3. OpCondTries \in Nat \ {0}
    BY CardAssumption
  <2> QED
    BY <2>1, <2>2, <2>3
<1>6. UNCHANGED <<fd, rwBuffer, started, error, call, done, own, clean, card, accepted>>
  BY DEF InitStep, handleVars
<1> QED
  BY <1>1, <1>2, <1>3, <1>4, <1>5, <1>6 DEF TypeOK, States

LEMMA ResetCardType == ASSUME TypeOK, ResetCard PROVE TypeOK'
<1>1. /\ state' \in States /\ (card = NoCard => state' = "off")
      /\ accepted' \in BOOLEAN /\ (card = NoCard => accepted' = FALSE)
  <2>1. \/ card \in Known /\ state' = "stby" /\ accepted' = (card \in Known)
        \/ card \notin Known /\ state' = "off" /\ accepted' = (card \in Known)
        \/ card \in Known /\ state' = "stby" /\ accepted' = TRUE
        \/ state' = state /\ accepted' = accepted
    BY Zenon DEF ResetCard
  <2>2. (card \in Known) \in BOOLEAN /\ (card \notin Known => (card \in Known) = FALSE)
    OBVIOUS
  <2>3. card \in Known => card # NoCard
    BY CardAssumption
  <2>4. state' \in States /\ (card = NoCard => state' = "off")
    BY <2>1, <2>3 DEF TypeOK, States
  <2>5. accepted' \in BOOLEAN /\ (card = NoCard => accepted' = FALSE)
    BY <2>1, <2>2, <2>3, Zenon DEF TypeOK
  <2> QED
    BY <2>4, <2>5
<1>2. rca' \in BOOLEAN /\ faults' \in 0 .. MaxFaults
  <2>1. rca' = (card \in Known) \/ rca' = FALSE
    BY Zenon DEF ResetCard
  <2>2. Fault \/ UNCHANGED faults
    BY Zenon DEF ResetCard
  <2> QED
    <3>1. (card \in Known) \in BOOLEAN
      OBVIOUS
    <3>2. rca' \in BOOLEAN
      BY <2>1, <3>1, Zenon
    <3> QED
      BY <2>2, <3>2, FaultType
<1>3. pc' \in [Threads -> InitSteps \cup IOSteps \cup {"idle", "ended"}]
  BY GotoType DEF ResetCard, Threads, InitSteps
<1>4. UNCHANGED <<fd, sdhc, tries, rwBuffer, started, error, call, done, own, result, clean,
                  card, misled>>
  BY DEF ResetCard, handleVars
<1> QED
  BY <1>1, <1>2, <1>3, <1>4 DEF TypeOK, States

LEMMA GetStatusType == ASSUME TypeOK, GetStatus PROVE TypeOK'
<1>1. /\ pc' \in [Threads -> InitSteps \cup IOSteps \cup {"idle", "ended"}]
      /\ result' \in [Threads -> {"none", "ok", "failed"}]
  <2>1. CASE Finish("manager", "failed")
    BY <2>1, FinishType DEF Threads
  <2>2. CASE UNCHANGED result /\ (Goto("manager", "busWidth") \/ Goto("manager", "reopen"))
    <3>1. {"busWidth", "reopen"} \subseteq InitSteps
      BY AfterSteps DEF InitSteps
    <3> QED
      BY <2>2, <3>1, GotoType DEF Threads, TypeOK
  <2> QED
    BY <2>1, <2>2 DEF GetStatus
<1>2. sdhc' \in BOOLEAN
  <2>1. sdhc' = (card \in HighCapacity) \/ sdhc' = sdhc
    BY Zenon DEF GetStatus, Capacity
  <2>2. (card \in HighCapacity) \in BOOLEAN
    OBVIOUS
  <2>3. sdhc \in BOOLEAN
    BY DEF TypeOK
  <2> QED
    BY <2>1, <2>2, <2>3, Zenon
<1>3. faults' \in 0 .. MaxFaults
  BY FaultType DEF GetStatus
<1>4. UNCHANGED <<fd, rca, tries, rwBuffer, started, error, call, done, own, clean, card, state,
                  accepted, misled>>
  BY DEF GetStatus, handleVars
<1> QED
  BY <1>1, <1>2, <1>3, <1>4 DEF TypeOK

LEMMA ReopenType == ASSUME TypeOK, Reopen PROVE TypeOK'
<1>1. /\ pc' \in [Threads -> InitSteps \cup IOSteps \cup {"idle", "ended"}]
      /\ result' \in [Threads -> {"none", "ok", "failed"}]
  <2>1. CASE Finish("manager", "failed")
    BY <2>1, FinishType DEF Threads
  <2>2. CASE UNCHANGED result /\ Goto("manager", "hostReset")
    <3>1. "hostReset" \in InitSteps
      BY AfterSteps DEF InitSteps
    <3> QED
      BY <2>2, <3>1, GotoType DEF Threads, TypeOK
  <2> QED
    BY <2>1, <2>2 DEF Reopen
<1>2. fd' \in BOOLEAN
  BY DEF Reopen
<1>3. faults' \in 0 .. MaxFaults
  BY FaultType DEF Reopen
<1>4. UNCHANGED <<rca, sdhc, tries, rwBuffer, started, error, call, done, own, clean, card,
                  state, accepted, misled>>
  BY DEF Reopen, handleVars
<1> QED
  BY <1>1, <1>2, <1>3, <1>4 DEF TypeOK

LEMMA OpCondType == ASSUME TypeOK, OpCond PROVE TypeOK'
<1>1. pc' \in [Threads -> InitSteps \cup IOSteps \cup {"idle", "ended"}]
  <2>1. {"appCmd", "failReset", "cid"} \subseteq InitSteps
    BY AfterSteps DEF InitSteps
  <2> QED
    BY <2>1, GotoType DEF OpCond, Threads
<1>2. state' \in States /\ (card = NoCard => state' = "off")
  BY DEF OpCond, Polled, TypeOK, States
<1>3. sdhc' \in BOOLEAN
  <2>1. sdhc' = (card \in HighCapacity) \/ sdhc' = sdhc
    BY Zenon DEF OpCond, Capacity
  <2>2. (card \in HighCapacity) \in BOOLEAN
    OBVIOUS
  <2>3. sdhc \in BOOLEAN
    BY DEF TypeOK
  <2> QED
    BY <2>1, <2>2, <2>3, Zenon
<1>4. tries' \in 0 .. OpCondTries - 1
  BY CardAssumption DEF OpCond, TypeOK, Again
<1>5. faults' \in 0 .. MaxFaults
  BY FaultType DEF OpCond
<1>6. UNCHANGED <<fd, rca, rwBuffer, started, error, call, done, own, result, clean, card,
                  accepted, misled>>
  BY DEF OpCond, handleVars
<1> QED
  BY <1>1, <1>2, <1>3, <1>4, <1>5, <1>6 DEF TypeOK, States

LEMMA EndSelectionType == ASSUME TypeOK, NEW t \in Threads, EndSelection(t) PROVE TypeOK'
<1>1. /\ pc' \in [Threads -> InitSteps \cup IOSteps \cup {"idle", "ended"}]
      /\ result' \in [Threads -> {"none", "ok", "failed"}]
  BY FinishType, GotoType DEF EndSelection, TypeOK
<1>2. /\ state' \in States /\ (card = NoCard => state' = "off")
      /\ faults' \in 0 .. MaxFaults
  BY FaultType DEF EndSelection, Deselect, TypeOK, States, faultVars
<1>3. misled' \in BOOLEAN
  BY DEF EndSelection, Deselect, TypeOK, faultVars
<1>4. UNCHANGED <<fd, rca, sdhc, tries, rwBuffer, started, error, call, done, own, clean, card,
                  accepted>>
  BY DEF EndSelection, driverVars, handleVars
<1> QED
  BY <1>1, <1>2, <1>3, <1>4 DEF TypeOK, States

(* The requests, and what a thread does not change.                        *)
LEMMA RequestType ==
  ASSUME NEW c \in Requests
  PROVE  /\ c.op \in {"read", "write"} /\ c.via \in {"direct", "bounce"}
         /\ c.sector \in Nat /\ c.n \in Nat \ {0}
  BY CardAssumption

(* A chunk ends where the request does, or before. *)
LEMMA ChunkType ==
  ASSUME TypeOK, NEW t \in Threads, call[t] \in Requests, NEW d \in Nat, d <= call[t].n
  PROVE  /\ ChunkAt(t, d) \in Nat /\ d + ChunkAt(t, d) <= call[t].n
         /\ d < call[t].n => ChunkAt(t, d) # 0
         /\ call[t].via = "bounce" => ChunkAt(t, d) \in 0 .. ChunkSectors
  BY RequestType, CardAssumption DEF ChunkAt

(* The sectors of the card that a command reaches. *)
LEMMA FoundType ==
  ASSUME TypeOK, NEW t \in Threads, call[t] \in Requests
  PROVE  CardSector(Address(t)) \in Nat
<1> DEFINE s == call[t].sector + done[t]
<1>1. s \in Nat /\ PageSize \in Nat \ {0} /\ AddressSpace \in Nat \ {0}
  BY RequestType, CardAssumption DEF TypeOK
<1>2. (s * PageSize) % AddressSpace \in Nat
  <2>1. s * PageSize \in Int
    BY <1>1
  <2> QED
    BY <2>1, <1>1
<1>3. Address(t) \in Nat
  BY <1>1, <1>2 DEF Address
<1>4. \A a \in Nat : a \div PageSize \in Nat
  BY <1>1
<1> QED
  BY <1>3, <1>4 DEF CardSector

(* What a write puts into rw_buffer. *)
LEMMA FillType ==
  ASSUME TypeOK, NEW t \in Threads, call[t] \in Requests, NEW d \in Nat, Fill(t, d)
  PROVE  rwBuffer' \in [of: Cards \cup {NoCard} \cup Threads, at: Nat, n: 0 .. ChunkSectors]
<1>1. CASE Bounces(t, "write") /\ d < call[t].n
  <2>1. rwBuffer' = [of |-> t, at |-> d, n |-> ChunkAt(t, d)]
    BY <1>1 DEF Fill, Given, Data
  <2>2. d <= call[t].n
    BY <1>1, RequestType
  <2>3. ChunkAt(t, d) \in 0 .. ChunkSectors
    BY <1>1, <2>2, ChunkType DEF Bounces
  <2> QED
    BY <2>1, <2>3
<1>2. CASE ~(Bounces(t, "write") /\ d < call[t].n)
  BY <1>2 DEF Fill, TypeOK
<1> QED
  BY <1>1, <1>2

LEMMA IOSelectType ==
  ASSUME TypeOK, CallInv, NEW t \in Threads, IOSelect(t)
  PROVE  TypeOK'
<1>1. call[t] \in Requests /\ "ioSelect" \in IOSteps /\ "command" \in IOSteps
  BY DEF IOSelect, CallInv, IOSteps
<1>2. /\ state' \in States /\ (card = NoCard => state' = "off")
      /\ faults' \in 0 .. MaxFaults
  BY TakesType, FailsType, FaultType DEF IOSelect, faultVars
<1>3. /\ pc' \in [Threads -> InitSteps \cup IOSteps \cup {"idle", "ended"}]
      /\ result' \in [Threads -> {"none", "ok", "failed"}]
  BY <1>1, FinishType, GotoType DEF IOSelect, TypeOK
<1>4. rwBuffer' \in [of: Cards \cup {NoCard} \cup Threads, at: Nat, n: 0 .. ChunkSectors]
  <2>1. Fill(t, 0) \/ UNCHANGED rwBuffer
    BY DEF IOSelect
  <2> QED
    BY <1>1, <2>1, FillType DEF TypeOK
<1>5. misled' \in BOOLEAN
  BY DEF IOSelect, TypeOK, faultVars
<1>6. UNCHANGED <<fd, rca, sdhc, tries, started, error, call, done, own, clean, card, accepted>>
  BY DEF IOSelect, driverVars, handleVars
<1> QED
  BY <1>2, <1>3, <1>4, <1>5, <1>6 DEF TypeOK, States

(* A chunk that is done. *)
LEMMA AdvanceType ==
  ASSUME TypeOK, NEW t \in Threads, call[t] \in Requests, NEW r, Advance(t, r), call' = call
  PROVE  /\ pc' \in [Threads -> InitSteps \cup IOSteps \cup {"idle", "ended"}]
         /\ done' \in [Threads -> Nat] /\ own' \subseteq Threads
         /\ \A u \in Threads : done'[u] <= call'[u].n
<1>1. /\ done[t] \in Nat /\ Chunk(t) \in Nat /\ done[t] + Chunk(t) <= call[t].n
  BY ChunkType DEF Chunk, TypeOK
<1>2. done' = [done EXCEPT ![t] = done[t] + Chunk(t)]
  BY DEF Advance
<1>3. own' \subseteq Threads
  BY DEF Advance, TypeOK
<1>4. pc' \in [Threads -> InitSteps \cup IOSteps \cup {"idle", "ended"}]
  BY GotoType DEF Advance, IOSteps
<1>5. ASSUME NEW u \in Threads PROVE done'[u] <= call'[u].n /\ done'[u] \in Nat
  <2>1. CASE u = t
    BY <1>1, <1>2, <2>1 DEF TypeOK
  <2>2. CASE u # t
    BY <1>2, <2>2 DEF TypeOK
  <2> QED
    BY <2>1, <2>2
<1>6. done' \in [Threads -> Nat]
  BY <1>1, <1>2 DEF TypeOK
<1> QED
  BY <1>3, <1>4, <1>5, <1>6

LEMMA MoveChunkType ==
  ASSUME TypeOK, NEW t \in Threads, call[t] \in Requests, MoveChunk(t), call' = call
  PROVE  /\ pc' \in [Threads -> InitSteps \cup IOSteps \cup {"idle", "ended"}]
         /\ done' \in [Threads -> Nat] /\ own' \subseteq Threads
         /\ \A u \in Threads : done'[u] <= call'[u].n
         /\ rwBuffer' \in [of: Cards \cup {NoCard} \cup Threads, at: Nat, n: 0 .. ChunkSectors]
<1>0. done[t] \in Nat /\ done[t] <= call[t].n
  BY DEF TypeOK
<1>1. CASE Bounces(t, "read") /\ rwBuffer' = Found(t) /\ Goto(t, "copy") /\ UNCHANGED <<done, own>>
  <2>1. Chunk(t) \in 0 .. ChunkSectors
    BY <1>0, <1>1, ChunkType DEF Bounces, Chunk
  <2>2. rwBuffer' \in [of: Cards \cup {NoCard} \cup Threads, at: Nat, n: 0 .. ChunkSectors]
    BY <1>1, <2>1, FoundType DEF Found, Data, TypeOK
  <2>3. pc' \in [Threads -> InitSteps \cup IOSteps \cup {"idle", "ended"}]
    BY <1>1, GotoType DEF IOSteps
  <2> QED
    BY <1>1, <2>2, <2>3 DEF TypeOK
<1>2. CASE Bounces(t, "write") /\ Advance(t, Found(t) = Sought(t) /\ rwBuffer = Given(t, done[t]))
           /\ Fill(t, done[t] + Chunk(t))
  <2>1. done[t] + Chunk(t) \in Nat
    BY <1>0, ChunkType DEF Chunk
  <2> QED
    BY <1>2, <2>1, AdvanceType, FillType
<1>3. CASE call[t].via = "direct" /\ Advance(t, Found(t) = Sought(t)) /\ UNCHANGED rwBuffer
  <2>1. rwBuffer' \in [of: Cards \cup {NoCard} \cup Threads, at: Nat, n: 0 .. ChunkSectors]
    BY <1>3 DEF TypeOK
  <2> QED
    BY <1>3, <2>1, AdvanceType
<1> QED
  BY <1>1, <1>2, <1>3 DEF MoveChunk

LEMMA CommandType == ASSUME TypeOK, CallInv, NEW t \in Threads, Command(t) PROVE TypeOK'
<1>1. call[t] \in Requests /\ "command" \in IOSteps /\ "ioDeselect" \in IOSteps
  BY DEF Command, CallInv, IOSteps
<1>2. UNCHANGED <<fd, rca, sdhc, tries, started, error, call, clean, card, state, accepted, misled>>
  BY DEF Command, driverVars, handleVars
<1>3. faults' \in 0 .. MaxFaults
  BY FaultType DEF Command
<1>4. result' \in [Threads -> {"none", "ok", "failed"}]
  BY DEF Command, TypeOK
<1>5. /\ pc' \in [Threads -> InitSteps \cup IOSteps \cup {"idle", "ended"}]
      /\ done' \in [Threads -> Nat] /\ own' \subseteq Threads
      /\ \A u \in Threads : done'[u] <= call'[u].n
      /\ rwBuffer' \in [of: Cards \cup {NoCard} \cup Threads, at: Nat, n: 0 .. ChunkSectors]
  <2>1. CASE MoveChunk(t)
    BY <1>1, <1>2, <2>1, MoveChunkType
  <2>2. CASE Goto(t, "ioDeselect") /\ UNCHANGED <<rwBuffer, done, own>>
    <3>1. pc' \in [Threads -> InitSteps \cup IOSteps \cup {"idle", "ended"}]
      BY <1>1, <2>2, GotoType
    <3> QED
      BY <1>2, <2>2, <3>1 DEF TypeOK
  <2> QED
    BY <2>1, <2>2 DEF Command
<1> QED
  BY <1>2, <1>3, <1>4, <1>5 DEF TypeOK

LEMMA CopyType == ASSUME TypeOK, CallInv, NEW t \in Threads, Copy(t) PROVE TypeOK'
<1>1. call[t] \in Requests
  BY DEF Copy, CallInv, IOSteps
<1>2. UNCHANGED <<fd, rca, sdhc, tries, rwBuffer, started, error, call, result, clean, card, state,
                  accepted, faults, misled>>
  BY DEF Copy, driverVars, handleVars, faultVars
<1>3. /\ pc' \in [Threads -> InitSteps \cup IOSteps \cup {"idle", "ended"}]
      /\ done' \in [Threads -> Nat] /\ own' \subseteq Threads
      /\ \A u \in Threads : done'[u] <= call'[u].n
  BY <1>1, <1>2, AdvanceType DEF Copy
<1> QED
  BY <1>2, <1>3 DEF TypeOK

(* The calls begin and end. *)
LEMMA BeginType ==
  ASSUME TypeOK, NEW t \in Threads, NEW c \in Requests \cup {Startup},
         NEW p \in InitSteps \cup IOSteps, Begin(t, c, p), clean' \subseteq Threads
  PROVE  TypeOK'
<1>1. UNCHANGED <<fd, rca, sdhc, tries, rwBuffer, started, error, result, card, state, accepted,
                  faults, misled>>
  BY DEF Begin, driverVars, handleVars, faultVars
<1>2. pc' \in [Threads -> InitSteps \cup IOSteps \cup {"idle", "ended"}]
  BY GotoType DEF Begin
<1>3. /\ call' \in [Threads -> Requests \cup {Startup, NoCall}]
      /\ done' \in [Threads -> Nat] /\ own' \subseteq Threads
  BY DEF Begin, TypeOK
<1>4. \A u \in Threads : done'[u] <= call'[u].n
  <2>1. c.n \in Nat
    BY RequestType DEF Startup
  <2> QED
    BY <2>1 DEF Begin, TypeOK
<1> QED
  BY <1>1, <1>2, <1>3, <1>4 DEF TypeOK

LEMMA EndType == ASSUME TypeOK, NEW t \in Threads, End(t) PROVE TypeOK'
<1>1. UNCHANGED <<fd, rca, sdhc, tries, rwBuffer, card, state, accepted, faults, misled>>
  BY DEF End, driverVars, faultVars
<1>2. pc' \in [Threads -> InitSteps \cup IOSteps \cup {"idle", "ended"}]
  BY GotoType DEF End
<1>3. /\ call' \in [Threads -> Requests \cup {Startup, NoCall}]
      /\ done' \in [Threads -> Nat] /\ own' \subseteq Threads
      /\ result' \in [Threads -> {"none", "ok", "failed"}] /\ clean' \subseteq Threads
  BY DEF End, TypeOK
<1>4. \A u \in Threads : done'[u] <= call'[u].n
  BY DEF End, TypeOK, NoCall, Startup
<1>5. started' \in BOOLEAN /\ error' \in BOOLEAN
  BY DEF End, TypeOK
<1> QED
  BY <1>1, <1>2, <1>3, <1>4, <1>5 DEF TypeOK

LEMMA EjectType == ASSUME TypeOK, Eject PROVE TypeOK'
<1>1. UNCHANGED <<fd, rca, sdhc, tries, rwBuffer, pc, call, done, result, own, clean, card, state,
                  accepted, misled>>
  BY DEF Eject, driverVars, callVars
<1>2. started' \in BOOLEAN /\ error' \in BOOLEAN /\ faults' \in 0 .. MaxFaults
  BY FaultType DEF Eject
<1> QED
  BY <1>1, <1>2 DEF TypeOK

LEMMA MoveCardType == ASSUME TypeOK, MoveCard PROVE TypeOK'
<1>1. UNCHANGED <<fd, rca, sdhc, tries, rwBuffer, started, error, pc, call, done, result, own,
                  faults, misled>>
  BY DEF MoveCard, driverVars, handleVars, callVars, faultVars
<1>2. /\ card' \in Cards \cup {NoCard} /\ clean' \subseteq Threads
      /\ state' = "off" /\ accepted' = FALSE
  BY DEF MoveCard
<1> QED
  BY <1>1, <1>2 DEF TypeOK

-----------------------------------------------------------------------------
(* The steps of a start, and of a read or write. *)
StartStep ==
  \E p \in InitSteps \cup {"ended"} :
    /\ pc["manager"] \in InitSteps /\ Goto("manager", p)
    /\ UNCHANGED <<call, clean, card, done, own, rwBuffer, started>>

IOStep(t) ==
  \E p \in IOSteps \cup {"ended"} :
    /\ pc[t] \in IOSteps /\ Goto(t, p)
    /\ UNCHANGED <<call, clean, card, sdhc, started>>

LEMMA StepsApart ==
  /\ InitSteps \cap IOSteps = {}
  /\ {"idle", "ended"} \cap (InitSteps \cup IOSteps) = {}
  BY AfterSteps DEF InitSteps, IOSteps

LEMMA StartSteps ==
  /\ ResetCard \/ GetStatus \/ Reopen \/ OpCond => StartStep
  /\ \A p \in DOMAIN After : InitStep(p) => StartStep
<1>1. {"resetCard", "getStatus", "reopen", "opCond", "failReopen", "busWidth", "hostReset",
       "appCmd", "cid", "failReset"} \subseteq InitSteps
  BY AfterSteps DEF InitSteps
<1>2. ResetCard => StartStep
  BY <1>1 DEF ResetCard, StartStep, handleVars
<1>3. GetStatus => StartStep
  BY <1>1 DEF GetStatus, StartStep, handleVars, Finish
<1>4. Reopen => StartStep
  BY <1>1 DEF Reopen, StartStep, handleVars, Finish
<1>5. OpCond => StartStep
  BY <1>1 DEF OpCond, StartStep, handleVars
<1>6. ASSUME NEW p \in DOMAIN After, InitStep(p) PROVE StartStep
  <2>1. pc["manager"] \in InitSteps
    BY <1>6 DEF InitStep, InitSteps
  <2>2. UNCHANGED <<call, clean, card, done, own, rwBuffer, started>>
    BY <1>6 DEF InitStep, handleVars
  <2>3. \E q \in InitSteps \cup {"ended"} : Goto("manager", q)
    BY <1>6, AfterSteps, FailingType, Zenon DEF InitStep, Finish
  <2> QED
    BY <2>1, <2>2, <2>3 DEF StartStep
<1> QED
  BY <1>2, <1>3, <1>4, <1>5, <1>6

LEMMA EndSelectionSteps ==
  ASSUME CallInv, NEW t \in Threads, EndSelection(t)
  PROVE  (t = "manager" /\ StartStep) \/ (pc[t] = "ioDeselect" /\ IOStep(t))
<1>1. UNCHANGED <<call, clean, card, done, own, rwBuffer, started, sdhc>>
  BY DEF EndSelection, driverVars, handleVars
<1>2. CASE pc[t] \in {"deselect", "dropSelect"}
  <2>1. pc[t] \in InitSteps /\ t = "manager"
    BY <1>2, StepsApart DEF CallInv, InitSteps
  <2> QED
    BY <1>1, <1>2, <2>1 DEF EndSelection, StartStep, Finish
<1>3. CASE pc[t] = "ioDeselect"
  BY <1>1, <1>3 DEF EndSelection, IOStep, Finish, IOSteps
<1> QED
  BY <1>2, <1>3 DEF EndSelection

LEMMA IOStepsAre == \A t \in Threads : IOSelect(t) \/ Command(t) \/ Copy(t) => IOStep(t)
<1>1. ASSUME NEW t \in Threads, IOSelect(t) PROVE IOStep(t)
  BY <1>1 DEF IOSelect, IOStep, IOSteps, Finish, driverVars, handleVars
<1>2. ASSUME NEW t \in Threads, Command(t) PROVE IOStep(t)
  BY <1>2 DEF Command, MoveChunk, Advance, IOStep, IOSteps, driverVars, handleVars
<1>3. ASSUME NEW t \in Threads, Copy(t) PROVE IOStep(t)
  BY <1>3 DEF Copy, Advance, IOStep, IOSteps, driverVars, handleVars
<1> QED
  BY <1>1, <1>2, <1>3

(* A step within a call keeps it and its kind, and whether it is clean.    *)
LEMMA InCall ==
  ASSUME TypeOK, CallInv, CleanInv, NEW t \in Threads,
         (t = "manager" /\ StartStep) \/ IOStep(t)
  PROVE  /\ CallInv' /\ CleanInv'
         /\ \A u \in Threads : CleanIO(u)' <=> CleanIO(u)
         /\ \A u \in Threads \ {t} : pc'[u] = pc[u]
<1>1. PICK p \in InitSteps \cup IOSteps \cup {"ended"} :
        /\ Goto(t, p) /\ UNCHANGED <<call, clean>>
        /\ \/ t = "manager" /\ pc[t] \in InitSteps /\ p \in InitSteps \cup {"ended"}
           \/ pc[t] \in IOSteps /\ p \in IOSteps \cup {"ended"}
  BY DEF StartStep, IOStep
<1>2. /\ pc' = [pc EXCEPT ![t] = p] /\ pc'[t] = p /\ \A u \in Threads \ {t} : pc'[u] = pc[u]
      /\ pc[t] # "idle" /\ p # "idle"
  BY <1>1, StepsApart DEF Goto, TypeOK
<1>3. CallInv'
  <2> SUFFICES ASSUME NEW u \in Threads
               PROVE  /\ pc'[u] \in InitSteps => u = "manager" /\ call'[u] = Startup
                      /\ pc'[u] \in IOSteps => call'[u] \in Requests
                      /\ pc'[u] = "ended" => call'[u] # NoCall
                      /\ u = "sdio" => call'[u] # Startup
                      /\ pc'[u] = "idle" => call'[u] = NoCall
    BY DEF CallInv
  <2>1. CASE u # t
    BY <1>1, <1>2, <2>1 DEF CallInv
  <2>2. CASE u = t
    BY <1>1, <1>2, <2>2, StepsApart, NoRequests DEF CallInv
  <2> QED
    BY <2>1, <2>2
<1>4. \A u \in Threads : (CleanIO(u)' <=> CleanIO(u)) /\ (Idle(u)' <=> Idle(u))
  BY <1>1, <1>2 DEF CleanIO, Idle
<1>5. CleanInv'
  BY <1>4 DEF CleanInv
<1> QED
  BY <1>2, <1>3, <1>4, <1>5

(* Where the calls begin and end. *)
LEMMA BeginCall ==
  ASSUME TypeOK, CallInv, NEW t \in Threads, NEW c, NEW p, Begin(t, c, p),
         \/ t = "manager" /\ c = Startup /\ p \in InitSteps
         \/ c \in Requests /\ p \in IOSteps
  PROVE  /\ CallInv'
         /\ pc'[t] = p /\ call'[t] = c /\ done'[t] = 0 /\ pc[t] = "idle" /\ call[t] = NoCall
         /\ \A u \in Threads \ {t} : pc'[u] = pc[u] /\ call'[u] = call[u] /\ done'[u] = done[u]
<1>1. /\ pc'[t] = p /\ call'[t] = c /\ done'[t] = 0 /\ pc[t] = "idle"
      /\ \A u \in Threads \ {t} : pc'[u] = pc[u] /\ call'[u] = call[u] /\ done'[u] = done[u]
  BY DEF TypeOK, Begin, Goto, Idle
<1>2. call[t] = NoCall
  BY <1>1 DEF CallInv
<1>3. CallInv'
  <2> SUFFICES ASSUME NEW u \in Threads
               PROVE  /\ pc'[u] \in InitSteps => u = "manager" /\ call'[u] = Startup
                      /\ pc'[u] \in IOSteps => call'[u] \in Requests
                      /\ pc'[u] = "ended" => call'[u] # NoCall
                      /\ u = "sdio" => call'[u] # Startup
                      /\ pc'[u] = "idle" => call'[u] = NoCall
    BY DEF CallInv
  <2>1. CASE u # t
    BY <1>1, <2>1 DEF CallInv
  <2>2. CASE u = t
    BY <1>1, <2>2, StepsApart, NoRequests
  <2> QED
    BY <2>1, <2>2
<1> QED
  BY <1>1, <1>2, <1>3

(* A thread that is in a call, and whose call is no start, reads or writes. *)
LEMMA InIO ==
  ASSUME TypeOK, CallInv, NEW t \in Threads, ~Idle(t), ~Starting
  PROVE  call[t] \in Requests
  BY StepsApart DEF TypeOK, CallInv, Threads, Idle, Starting

LEMMA NoneCleanInStart ==
  ASSUME TypeOK, CallInv, CleanInv, Starting PROVE \A t \in Threads : ~CleanIO(t)
  BY NoRequests DEF CleanInv, CleanIO, Starting, Threads, Idle

LEMMA BeginStartInv ==
  ASSUME TypeOK, CallInv, CleanInv, BeginStart
  PROVE  CallInv' /\ CleanInv' /\ \A t \in Threads : ~CleanIO(t)'
<1>1. Begin("manager", Startup, "resetCard") /\ "resetCard" \in InitSteps
  BY DEF BeginStart, InitSteps
<1>2. /\ CallInv' /\ call'["manager"] = Startup /\ call'["sdio"] = call["sdio"]
  BY <1>1, BeginCall DEF Threads
<1>3. call'["manager"] \notin Requests
  BY <1>2, NoRequests
<1>4. \A t \in Threads : ~CleanIO(t)'
  <2>1. CASE Idle("sdio")
    <3>1. call'["sdio"] = NoCall
      BY <1>2, <2>1 DEF CallInv, Idle, Threads
    <3> QED
      BY <1>3, <3>1, NoRequests DEF CleanIO, Threads
  <2>2. CASE ~Idle("sdio")
    BY <2>2 DEF BeginStart, CleanIO
  <2> QED
    BY <2>1, <2>2
<1> QED
  BY <1>2, <1>4 DEF CleanInv

LEMMA BeginIOInv ==
  ASSUME TypeOK, CallInv, CleanInv, StartInv, NEW t \in Threads, NEW c \in Requests, BeginIO(t, c)
  PROVE  /\ CallInv' /\ CleanInv'
         /\ \A u \in Threads \ {t} : CleanIO(u)' => CleanIO(u)
         /\ CleanIO(t)' => started
<1>1. Begin(t, c, "ioSelect") /\ "ioSelect" \in IOSteps
  BY DEF BeginIO, IOSteps
<1>2. /\ CallInv' /\ pc'[t] = "ioSelect" /\ call'[t] = c /\ pc[t] = "idle" /\ call[t] = NoCall
      /\ \A u \in Threads \ {t} : pc'[u] = pc[u] /\ call'[u] = call[u]
  BY <1>1, BeginCall
<1>3. CASE Starting
  <2>1. clean' = {}
    BY <1>3 DEF BeginIO
  <2> QED
    BY <1>2, <2>1 DEF CleanInv, CleanIO
<1>4. CASE ~Starting /\ started /\ \A u \in Threads \ {t} : Idle(u) \/ u \in clean
  <2>1. clean' = clean \cup {t}
    BY <1>4 DEF BeginIO
  <2>2. \A u \in Threads \ {t} : Idle(u) \/ CleanIO(u)
    BY <1>4, InIO DEF CleanIO
  <2>3. \A u \in Threads \ {t} : (Idle(u)' <=> Idle(u)) /\ (CleanIO(u)' <=> CleanIO(u))
    BY <1>2, <2>1 DEF Idle, CleanIO
  <2>4. CleanIO(t)'
    BY <1>2, <2>1 DEF CleanIO
  <2>5. CleanInv'
    BY <2>2, <2>3, <2>4 DEF CleanInv, Threads
  <2> QED
    BY <1>2, <1>4, <2>3, <2>5
<1>5. CASE ~Starting /\ ~(started /\ \A u \in Threads \ {t} : Idle(u) \/ u \in clean)
  <2>1. clean' = clean \ {t}
    BY <1>5, Zenon DEF BeginIO
  <2>2. ASSUME NEW u \in Threads, CleanIO(u)' PROVE FALSE
    <3>1. u # t /\ CleanIO(u)
      BY <1>2, <2>1, <2>2 DEF CleanIO
    <3>2. \A v \in Threads \ {t} : v = u
      BY <3>1 DEF Threads
    <3>3. ~started
      BY <1>5, <3>1, <3>2 DEF CleanIO
    <3>4. t = "manager" \/ u = "manager"
      BY <3>1 DEF Threads
    <3> QED
      BY <3>1, <3>3, <3>4 DEF BeginIO, StartInv, CleanIO
  <2> QED
    BY <1>2, <2>2 DEF CleanInv
<1> QED
  BY <1>3, <1>4, <1>5

LEMMA EndInv ==
  ASSUME TypeOK, CallInv, CleanInv, NEW t \in Threads, End(t)
  PROVE  /\ CallInv' /\ CleanInv' /\ pc[t] = "ended"
         /\ pc'[t] = "idle" /\ call'[t] = NoCall /\ ~CleanIO(t)'
         /\ \A u \in Threads \ {t} :
              /\ pc'[u] = pc[u] /\ call'[u] = call[u] /\ done'[u] = done[u] /\ result'[u] = result[u]
              /\ CleanIO(u)' <=> CleanIO(u)
<1>1. /\ pc'[t] = "idle" /\ call'[t] = NoCall /\ clean' = clean \cup {t} /\ pc[t] = "ended"
      /\ \A u \in Threads \ {t} :
           pc'[u] = pc[u] /\ call'[u] = call[u] /\ done'[u] = done[u] /\ result'[u] = result[u]
  BY DEF TypeOK, End, Goto
<1>2. CallInv'
  <2> SUFFICES ASSUME NEW u \in Threads
               PROVE  /\ pc'[u] \in InitSteps => u = "manager" /\ call'[u] = Startup
                      /\ pc'[u] \in IOSteps => call'[u] \in Requests
                      /\ pc'[u] = "ended" => call'[u] # NoCall
                      /\ u = "sdio" => call'[u] # Startup
                      /\ pc'[u] = "idle" => call'[u] = NoCall
    BY DEF CallInv
  <2>1. CASE u # t
    BY <1>1, <2>1 DEF CallInv
  <2>2. CASE u = t
    BY <1>1, <2>2, StepsApart, NoRequests
  <2> QED
    BY <2>1, <2>2
<1>3. ~CleanIO(t)' /\ Idle(t)'
  BY <1>1, NoRequests DEF CleanIO, Idle
<1>4. \A u \in Threads \ {t} : (CleanIO(u)' <=> CleanIO(u)) /\ (Idle(u)' <=> Idle(u))
  BY <1>1 DEF CleanIO, Idle
<1>5. CleanInv'
  BY <1>3, <1>4 DEF CleanInv
<1> QED
  BY <1>1, <1>2, <1>3, <1>4, <1>5

LEMMA MoveInv ==
  ASSUME TypeOK, CallInv, CleanInv, Eject \/ MoveCard
  PROVE  /\ CallInv' /\ CleanInv' /\ UNCHANGED <<pc, call, done, result, own>>
         /\ \A t \in Threads : CleanIO(t)' => CleanIO(t)
         /\ MoveCard => \A t \in Threads : ~CleanIO(t)'
<1>1. UNCHANGED <<pc, call, done, result, own>>
  BY DEF Eject, MoveCard, callVars
<1>2. CallInv'
  BY <1>1 DEF CallInv
<1>3. MoveCard => \A t \in Threads : ~CleanIO(t)'
  <2>1. \A t \in Threads : Idle(t) => call[t] \notin Requests
    BY NoRequests DEF CallInv, Idle
  <2> QED
    BY <1>1, <2>1 DEF MoveCard, CleanIO
<1>4. Eject => \A t \in Threads : (CleanIO(t)' <=> CleanIO(t)) /\ (Idle(t)' <=> Idle(t))
  BY <1>1 DEF Eject, CleanIO, Idle
<1>5. CleanInv'
  BY <1>3, <1>4 DEF CleanInv
<1> QED
  BY <1>1, <1>2, <1>3, <1>4, <1>5

LEMMA StartStepNone ==
  ASSUME TypeOK, CallInv, CleanInv, StartStep
  PROVE  \A t \in Threads : ~CleanIO(t) /\ ~CleanIO(t)'
<1>1. Starting
  BY StepsApart DEF StartStep, CallInv, Threads, Starting, Idle
<1> QED
  BY <1>1, NoneCleanInStart, InCall DEF Threads

(* What a step of a read or write does to the card and to the other thread. *)
LEMMA IOSelectIs ==
  ASSUME NEW t \in Threads, IOSelect(t)
  PROVE  \/ state = "stby" /\ state' = "tran"
         \/ state' = state /\ Finish(t, "failed") /\ UNCHANGED rwBuffer
<1>1. "ioSelect" \in DOMAIN Needs /\ Needs["ioSelect"] = "stby"
  BY DEF Needs
<1>2. "ioSelect" \in DOMAIN Leads /\ Leads["ioSelect"] = "tran"
  BY DEF Leads
<1>3. Replies("ioSelect") => state = "stby"
  BY <1>1 DEF Replies
<1>4. Takes("ioSelect") => state' = "tran"
  BY <1>2, Zenon DEF Takes
<1> QED
  BY <1>3, <1>4 DEF IOSelect, Fails

LEMMA OtherThread ==
  ASSUME TypeOK, NEW t \in Threads, IOSelect(t) \/ Command(t) \/ Copy(t) \/ EndSelection(t),
         NEW u \in Threads \ {t}
  PROVE  /\ pc'[u] = pc[u] /\ call'[u] = call[u] /\ done'[u] = done[u] /\ result'[u] = result[u]
         /\ u \in own => u \in own'
         /\ Fill(t, 0) \/ pc[t] \in Holding \/ UNCHANGED rwBuffer
<1>1. CASE IOSelect(t)
  BY <1>1 DEF IOSelect, Goto, Finish, TypeOK
<1>2. CASE Command(t)
  BY <1>2 DEF Command, MoveChunk, Advance, Goto, TypeOK, Holding
<1>3. CASE Copy(t)
  BY <1>3 DEF Copy, Advance, Goto, TypeOK
<1>4. CASE EndSelection(t)
  BY <1>4 DEF EndSelection, Goto, Finish, TypeOK
<1> QED
  BY <1>1, <1>2, <1>3, <1>4

-----------------------------------------------------------------------------
(* The select keeps clean transfers apart. *)

LEMMA SelectStep ==
  ASSUME TypeOK, CallInv, CleanInv, SelectInv, NEW t \in Threads, IOSelect(t)
  PROVE  SelectInv'
<1>1. /\ \A u \in Threads : CleanIO(u)' <=> CleanIO(u)
      /\ \A u \in Threads \ {t} : pc'[u] = pc[u]
  BY IOStepsAre, InCall
<1>2. CASE state = "stby" /\ state' = "tran"
  <2>1. \A u \in Threads : CleanIO(u) => pc[u] \notin Holding
    BY <1>2 DEF SelectInv
  <2>2. ASSUME NEW u \in Threads, CleanIO(u)', pc'[u] \in Holding
        PROVE  u = t /\ \A v \in Threads \ {u} : pc'[v] \notin Holding
    <3>1. u = t /\ CleanIO(t)
      BY <1>1, <2>1, <2>2
    <3>2. ASSUME NEW v \in Threads \ {t} PROVE pc[v] \notin Holding
      <4>1. Idle(v) \/ CleanIO(v)
        BY <3>1 DEF CleanInv
      <4> QED
        BY <2>1, <4>1 DEF Idle, Holding
    <3> QED
      BY <1>1, <3>1, <3>2
  <2> QED
    BY <1>2, <2>2 DEF SelectInv
<1>3. CASE state' = state /\ Finish(t, "failed")
  <2>1. pc'[t] = "ended"
    BY <1>3 DEF Finish, Goto, TypeOK
  <2> QED
    BY <1>1, <1>3, <2>1 DEF SelectInv, Holding
<1> QED
  BY <1>2, <1>3, IOSelectIs

LEMMA SelectKept ==
  ASSUME TypeOK, CallInv, CleanInv, SelectInv, NEW t \in Threads,
         Command(t) \/ Copy(t) \/ (EndSelection(t) /\ pc[t] = "ioDeselect")
  PROVE  SelectInv'
<1>1. IOStep(t) /\ pc[t] \in Holding
  <2>1. CASE Command(t) \/ Copy(t)
    BY <2>1, IOStepsAre DEF Command, Copy, Holding
  <2>2. CASE EndSelection(t) /\ pc[t] = "ioDeselect"
    <3>1. "ioDeselect" \in IOSteps
      BY DEF IOSteps
    <3> QED
      BY <2>2, <3>1, EndSelectionSteps, StepsApart DEF Holding, StartStep
  <2> QED
    BY <2>1, <2>2
<1>2. /\ \A u \in Threads : CleanIO(u)' <=> CleanIO(u)
      /\ \A u \in Threads \ {t} : pc'[u] = pc[u]
  BY <1>1, InCall
<1>3. ASSUME NEW u \in Threads, CleanIO(u)', pc'[u] \in Holding
      PROVE  state' = "tran" /\ \A v \in Threads \ {u} : pc'[v] \notin Holding
  <2>1. u = t
    BY <1>1, <1>2, <1>3 DEF SelectInv
  <2>2. state = "tran" /\ \A v \in Threads \ {u} : pc[v] \notin Holding
    BY <1>1, <1>2, <1>3, <2>1 DEF SelectInv
  <2>3. CASE Command(t) \/ Copy(t)
    BY <1>2, <2>1, <2>2, <2>3 DEF Command, Copy
  <2>4. CASE EndSelection(t) /\ pc[t] = "ioDeselect"
    <3>1. pc'[t] = "ended"
      BY <2>4 DEF EndSelection, Goto, TypeOK
    <3> QED
      BY <1>3, <2>1, <3>1 DEF Holding
  <2> QED
    BY <2>3, <2>4
<1> QED
  BY <1>3 DEF SelectInv

LEMMA SelectBegin ==
  ASSUME TypeOK, CallInv, CleanInv, SelectInv, StartInv, NEW t \in Threads,
         (\E c \in Requests : BeginIO(t, c)) \/ End(t)
  PROVE  SelectInv'
<1>1. /\ state' = state /\ pc'[t] \notin Holding
      /\ \A u \in Threads \ {t} : pc'[u] = pc[u] /\ (CleanIO(u)' => CleanIO(u))
  <2>1. CASE End(t)
    BY <2>1, EndInv DEF End, Holding
  <2>2. CASE \E c \in Requests : BeginIO(t, c)
    <3>1. PICK c \in Requests : BeginIO(t, c)
      BY <2>2
    <3>2. Begin(t, c, "ioSelect") /\ "ioSelect" \in IOSteps
      BY <3>1 DEF BeginIO, IOSteps
    <3>3. pc'[t] = "ioSelect" /\ \A u \in Threads \ {t} : pc'[u] = pc[u]
      BY <3>2, BeginCall
    <3> QED
      BY <3>1, <3>2, <3>3, BeginIOInv DEF Begin, Holding
  <2> QED
    BY <2>1, <2>2
<1>2. ASSUME NEW u \in Threads, CleanIO(u)', pc'[u] \in Holding
      PROVE  state' = "tran" /\ \A v \in Threads \ {u} : pc'[v] \notin Holding
  <2>1. u # t /\ CleanIO(u) /\ pc[u] \in Holding
    BY <1>1, <1>2
  <2>2. state = "tran" /\ \A v \in Threads \ {u} : pc[v] \notin Holding
    BY <2>1 DEF SelectInv
  <2> QED
    BY <1>1, <2>2
<1> QED
  BY <1>2 DEF SelectInv

LEMMA SelectMove ==
  ASSUME TypeOK, CallInv, CleanInv, SelectInv, Eject \/ MoveCard
  PROVE  SelectInv'
<1>1. CASE MoveCard
  BY <1>1, MoveInv DEF SelectInv
<1>2. CASE Eject
  <2>1. state' = state /\ pc' = pc /\ \A t \in Threads : CleanIO(t)' => CleanIO(t)
    BY <1>2, MoveInv DEF Eject
  <2> QED
    BY <2>1 DEF SelectInv
<1> QED
  BY <1>1, <1>2

-----------------------------------------------------------------------------
(* The order of a start, and what it knows of the capacity. *)

LEMMA StartInvBegins ==
  ASSUME TypeOK, CallInv, StartInv, BeginStart \/ \E t \in Threads, c \in Requests : BeginIO(t, c)
  PROVE  StartInv'
<1>1. CASE BeginStart
  <2>1. Begin("manager", Startup, "resetCard") /\ "resetCard" \in InitSteps /\ ~started
    BY <1>1 DEF BeginStart, InitSteps
  <2>2. call'["manager"] = Startup /\ started' = started
    BY <2>1, BeginCall DEF Threads, Begin, handleVars
  <2> QED
    BY <2>1, <2>2, NoRequests DEF StartInv
<1>2. CASE \E t \in Threads, c \in Requests : BeginIO(t, c)
  <2>1. PICK t \in Threads, c \in Requests : BeginIO(t, c)
    BY <1>2
  <2>2. Begin(t, c, "ioSelect") /\ "ioSelect" \in IOSteps /\ started' = started
    BY <2>1 DEF BeginIO, IOSteps, Begin, handleVars
  <2>3. /\ call'[t] = c
        /\ \A u \in Threads \ {t} : call'[u] = call[u]
    BY <2>2, BeginCall
  <2> QED
    BY <2>1, <2>2, <2>3, NoRequests DEF StartInv, Threads, BeginIO
<1> QED
  BY <1>1, <1>2

LEMMA StartInvEnds ==
  ASSUME TypeOK, CallInv, CleanInv, StartInv, NEW t \in Threads, End(t)
  PROVE  StartInv'
<1>1. call'[t] = NoCall /\ \A u \in Threads \ {t} : call'[u] = call[u]
  BY EndInv
<1>2. CASE t = "manager"
  BY <1>1, <1>2, NoRequests DEF StartInv
<1>3. CASE t = "sdio"
  <2>1. call[t] # Startup /\ call'["manager"] = call["manager"]
    BY <1>1, <1>3 DEF CallInv, Threads
  <2> QED
    BY <2>1 DEF StartInv, End
<1> QED
  BY <1>2, <1>3 DEF Threads

LEMMA StartInvMoves ==
  ASSUME TypeOK, CallInv, StartInv, Eject \/ MoveCard
  PROVE  StartInv'
<1>1. CASE Eject
  <2>1. call'["manager"] = NoCall
    BY <1>1 DEF Eject, callVars, CallInv, Threads, Idle
  <2> QED
    BY <2>1, NoRequests DEF StartInv
<1>2. CASE MoveCard
  BY <1>2 DEF MoveCard, callVars, handleVars, StartInv
<1> QED
  BY <1>1, <1>2

(* A start that goes on without the capacity, or fails.                    *)
LEMMA UnusedInStart ==
  ASSUME TypeOK, CallInv, CleanInv, StartInv, StartStep,
         \/ pc'["manager"] \in InitSteps \ CapacityRead
         \/ pc'["manager"] = "ended" /\ result'["manager"] = "failed"
  PROVE  CapacityUnused'
<1>1. ~started'
  BY StepsApart DEF StartStep, StartInv, CallInv, Threads
<1>2. pc'["manager"] \notin CapacityRead
  BY StepsApart DEF CapacityRead
<1> QED
  BY <1>1, <1>2, StartStepNone, StepsApart DEF CapacityUnused

(* The steps that do not know the capacity lead to others of that kind.    *)
LEMMA CapacitySteps ==
  /\ \A p \in DOMAIN After \ CapacityRead :
       After[p] \in InitSteps \ CapacityRead /\ Failing(p) \in InitSteps \ CapacityRead
  /\ \A p \in CapacityRead : p \notin DOMAIN Needs => p \notin DOMAIN Leads
  /\ \A p \in DOMAIN Needs : Needs[p] # "off"
  /\ "power" \notin CapacityRead /\ "goIdle" \notin CapacityRead
<1>1. \A p \in DOMAIN After \ CapacityRead : After[p] \in InitSteps \ CapacityRead
  BY AfterSteps DEF CapacityRead, After
<1>2. \A p \in DOMAIN After \ CapacityRead : p \notin Selected
  BY AfterSteps DEF CapacityRead, Selected
<1>3. "failReset" \in InitSteps \ CapacityRead
  BY AfterSteps DEF CapacityRead, InitSteps
<1>4. \A p \in DOMAIN After \ CapacityRead : Failing(p) \in InitSteps \ CapacityRead
  BY <1>1, <1>2, <1>3, AfterSteps DEF Failing, CapacityRead
<1>5. \A p \in CapacityRead : p \notin DOMAIN Needs => p \notin DOMAIN Leads
  BY DEF Needs, Leads, CapacityRead
<1>6. \A p \in DOMAIN Needs : Needs[p] # "off"
  BY DEF Needs
<1> QED
  BY <1>1, <1>4, <1>5, <1>6 DEF CapacityRead

LEMMA CapacityInitStep ==
  ASSUME TypeOK, CallInv, CleanInv, StartInv, CapacityInv, NEW p \in DOMAIN After, InitStep(p)
  PROVE  CapacityInv'
<1>1. StartStep
  BY StartSteps
<1>2. CASE p \in CapacityRead
  <2>1. sdhc' = sdhc /\ card' = card /\ (state = "off" \/ CapacityRight)
    <3>1. state = "off" \/ CapacityRight
      BY <1>2 DEF InitStep, CapacityInv, CapacityUnused
    <3>2. sdhc' = (sdhc \/ p = "power") /\ card' = card
      BY DEF InitStep
    <3> QED
      BY <1>2, <3>1, <3>2, CapacitySteps DEF TypeOK
  <2>2. state = "off" => state' = "off"
    <3>1. Replies(p) /\ Takes(p) => (state = "off" => state' = "off")
      BY <1>2, CapacitySteps, Zenon DEF Replies, Takes
    <3> QED
      BY <3>1 DEF InitStep, Fails
  <2>3. CapacityRight => CapacityRight'
    BY <2>1, Zenon DEF CapacityRight
  <2> QED
    BY <2>1, <2>2, <2>3 DEF CapacityInv
<1>3. CASE p \notin CapacityRead
  <2>1. Goto("manager", After[p]) \/ Goto("manager", Failing(p))
    <3>1. Failing(p) # "refused"
      BY <1>3, AfterSteps, CapacitySteps DEF InitSteps
    <3> QED
      BY <3>1 DEF InitStep
  <2>2. pc'["manager"] \in InitSteps \ CapacityRead
    BY <1>3, <2>1, CapacitySteps DEF Goto, TypeOK, Threads
  <2> QED
    BY <1>1, <2>2, UnusedInStart DEF CapacityInv
<1> QED
  BY <1>2, <1>3

LEMMA CapacityStart ==
  ASSUME TypeOK, CallInv, CleanInv, StartInv, CapacityInv, ResetCard \/ GetStatus \/ Reopen \/ OpCond
  PROVE  CapacityInv'
<1>1. StartStep
  BY StartSteps
<1>2. {"getStatus", "reopen", "hostReset", "appCmd", "failReset"} \subseteq InitSteps \ CapacityRead
  BY AfterSteps DEF InitSteps, CapacityRead
<1>3. \A p : Goto("manager", p) => pc'["manager"] = p
  BY DEF Goto, TypeOK, Threads
<1>4. Finish("manager", "failed") => pc'["manager"] = "ended" /\ result'["manager"] = "failed"
  BY DEF Finish, Goto, TypeOK, Threads
<1>5. \/ Goto("manager", "getStatus") \/ Goto("manager", "reopen") \/ Goto("manager", "hostReset")
      \/ Goto("manager", "appCmd") \/ Goto("manager", "failReset") \/ Finish("manager", "failed")
      \/ sdhc' = Capacity /\ card' = card
  BY Zenon DEF ResetCard, GetStatus, Reopen, OpCond
<1>6. CASE sdhc' = Capacity /\ card' = card
  <2>1. CapacityRight'
    BY <1>6, Zenon DEF CapacityRight, Capacity
  <2> QED
    BY <2>1 DEF CapacityInv
<1> QED
  BY <1>1, <1>2, <1>3, <1>4, <1>5, <1>6, UnusedInStart DEF CapacityInv

LEMMA CapacityEndSelection ==
  ASSUME TypeOK, CallInv, CleanInv, StartInv, CapacityInv, NEW t \in Threads, EndSelection(t)
  PROVE  CapacityInv'
<1>1. /\ sdhc' = sdhc /\ card' = card /\ started' = started /\ call' = call
      /\ (state = "off" => state' = "off")
  BY DEF EndSelection, Deselect, driverVars, handleVars
<1>2. CapacityRight => CapacityRight'
  BY <1>1, Zenon DEF CapacityRight
<1>3. CASE state = "off" \/ CapacityRight
  BY <1>1, <1>2, <1>3 DEF CapacityInv
<1>4. CASE CapacityUnused /\ t = "manager" /\ StartStep
  <2>1. pc[t] = "dropSelect"
    BY <1>4, StepsApart DEF EndSelection, CapacityUnused, CapacityRead, StartStep, IOSteps
  <2>2. pc'["manager"] = "ended" /\ result'["manager"] = "failed"
    BY <1>4, <2>1 DEF EndSelection, Finish, Goto, TypeOK
  <2> QED
    BY <1>4, <2>2, UnusedInStart DEF CapacityInv
<1>5. CASE CapacityUnused /\ pc[t] = "ioDeselect" /\ IOStep(t)
  <2>1. \A u \in Threads : ~CleanIO(u)'
    BY <1>5, InCall DEF CapacityUnused
  <2>2. call[t] \in Requests /\ pc'[t] = "ended"
    BY <1>5 DEF CallInv, IOSteps, EndSelection, Goto, TypeOK
  <2>3. \A u \in Threads \ {t} : pc'[u] = pc[u] /\ result'[u] = result[u]
    BY OtherThread
  <2> QED
    BY <1>1, <1>5, <2>1, <2>2, <2>3, NoRequests DEF CapacityInv, CapacityUnused, CapacityRead, Threads
<1> QED
  BY <1>3, <1>4, <1>5, EndSelectionSteps DEF CapacityInv

LEMMA CapacityIO ==
  ASSUME TypeOK, CallInv, CleanInv, CapacityInv, NEW t \in Threads, IOSelect(t) \/ Command(t) \/ Copy(t)
  PROVE  CapacityInv'
<1>1. IOStep(t)
  BY IOStepsAre
<1>2. /\ sdhc' = sdhc /\ card' = card /\ started' = started /\ call' = call
  BY <1>1 DEF IOStep
<1>3. state = "off" => state' = "off"
  BY IOSelectIs DEF Command, Copy
<1>4. CapacityRight => CapacityRight'
  BY <1>2, Zenon DEF CapacityRight
<1>5. CASE CapacityUnused
  <2>1. \A u \in Threads : ~CleanIO(u)'
    BY <1>1, <1>5, InCall DEF CapacityUnused
  <2>2. call[t] \in Requests /\ pc'[t] \in IOSteps \cup {"ended"}
    BY <1>1 DEF CallInv, IOStep, Goto, TypeOK
  <2>3. \A u \in Threads \ {t} : pc'[u] = pc[u] /\ result'[u] = result[u]
    BY OtherThread
  <2>4. (IOSteps \cup {"ended"}) \cap CapacityRead = {}
    BY DEF IOSteps, CapacityRead
  <2> QED
    BY <1>2, <1>5, <2>1, <2>2, <2>3, <2>4, NoRequests DEF CapacityInv, CapacityUnused, Threads
<1> QED
  BY <1>3, <1>4, <1>5 DEF CapacityInv

LEMMA CapacityBegin ==
  ASSUME TypeOK, CallInv, CleanInv, StartInv, CapacityInv,
         BeginStart \/ \E t \in Threads, c \in Requests : BeginIO(t, c)
  PROVE  CapacityInv'
<1>1. CASE BeginStart
  <2>1. Begin("manager", Startup, "resetCard") /\ "resetCard" \in InitSteps
    BY <1>1 DEF BeginStart, InitSteps
  <2>2. ~started' /\ pc'["manager"] = "resetCard"
    <3>1. ~started /\ started' = started /\ started \in BOOLEAN
      BY <1>1, <2>1 DEF BeginStart, Begin, handleVars, TypeOK
    <3>2. pc'["manager"] = "resetCard"
      BY <2>1, BeginCall DEF Threads
    <3> QED
      BY <3>1, <3>2
  <2> QED
    BY <1>1, <2>2, BeginStartInv DEF CapacityInv, CapacityUnused, CapacityRead
<1>2. CASE \E t \in Threads, c \in Requests : BeginIO(t, c)
  <2>1. PICK t \in Threads, c \in Requests : BeginIO(t, c)
    BY <1>2
  <2>2. Begin(t, c, "ioSelect") /\ "ioSelect" \in IOSteps
    BY <2>1 DEF BeginIO, IOSteps
  <2>3. UNCHANGED <<sdhc, card, state, started, result>>
    BY <2>2 DEF Begin, driverVars, handleVars
  <2>4. /\ pc'[t] = "ioSelect" /\ call'[t] = c
        /\ \A u \in Threads \ {t} : pc'[u] = pc[u] /\ call'[u] = call[u]
    BY <2>2, BeginCall
  <2>5. CapacityRight => CapacityRight'
    BY <2>3, Zenon DEF CapacityRight
  <2>6. CASE CapacityUnused
    <3>1. \A u \in Threads : ~CleanIO(u)'
      BY <2>1, <2>6, BeginIOInv DEF CapacityUnused
    <3> QED
      BY <2>3, <2>4, <2>6, <3>1 DEF CapacityInv, CapacityUnused, CapacityRead, Threads
  <2> QED
    BY <2>3, <2>5, <2>6 DEF CapacityInv
<1> QED
  BY <1>1, <1>2

LEMMA CapacityEnd ==
  ASSUME TypeOK, CallInv, CleanInv, StartInv, CapacityInv, NEW t \in Threads, End(t)
  PROVE  CapacityInv'
<1>1. UNCHANGED <<sdhc, card, state>>
  BY DEF End, driverVars
<1>2. CapacityRight => CapacityRight'
  BY <1>1, Zenon DEF CapacityRight
<1>3. CASE CapacityUnused
  <2>1. ~started'
    BY <1>3 DEF CapacityUnused, End, CallInv, Threads
  <2>2. \A u \in Threads : ~CleanIO(u)'
    BY <1>3, EndInv DEF CapacityUnused
  <2>3. pc'[t] = "idle" /\ \A u \in Threads \ {t} :
          pc'[u] = pc[u] /\ call'[u] = call[u] /\ result'[u] = result[u]
    BY EndInv
  <2> QED
    BY <1>3, <2>1, <2>2, <2>3 DEF CapacityInv, CapacityUnused, CapacityRead, Threads
<1> QED
  BY <1>1, <1>2, <1>3 DEF CapacityInv

LEMMA CapacityMove ==
  ASSUME TypeOK, CallInv, CleanInv, CapacityInv, Eject \/ MoveCard
  PROVE  CapacityInv'
<1>1. CASE MoveCard
  BY <1>1 DEF MoveCard, CapacityInv
<1>2. CASE Eject
  <2>1. UNCHANGED <<sdhc, card, state, pc, call, result>> /\ ~started'
    BY <1>2 DEF Eject, driverVars, callVars
  <2>2. CapacityRight => CapacityRight'
    BY <2>1, Zenon DEF CapacityRight
  <2>3. CapacityUnused => CapacityUnused'
    BY <1>2, <2>1, MoveInv DEF CapacityUnused
  <2> QED
    BY <2>1, <2>2, <2>3 DEF CapacityInv
<1> QED
  BY <1>1, <1>2

-----------------------------------------------------------------------------
(* A clean transfer moves its own sectors. *)

(* The address of a sector within the card is not cut off, and the card    *)
(* finds the sector by it.                                                 *)
LEMMA AddressRight ==
  ASSUME NEW s \in Nat, s < CardSectors
  PROVE  (s * PageSize) % AddressSpace = s * PageSize /\ (s * PageSize) \div PageSize = s
<1>1. PageSize \in Nat \ {0} /\ CardSectors \in Nat /\ AddressSpace \in Nat \ {0}
      /\ CardSectors * PageSize <= AddressSpace
  BY CardAssumption
<1>2. s * PageSize \in Nat /\ s * PageSize < CardSectors * PageSize
  BY <1>1
<1>3. 0 <= s * PageSize /\ s * PageSize < AddressSpace
  BY <1>1, <1>2
<1>4. \A a \in Nat : a < AddressSpace => a % AddressSpace = a
  BY <1>1
<1>5. (s * PageSize) \div PageSize = s
  BY <1>1
<1> QED
  BY <1>2, <1>3, <1>4, <1>5

LEMMA RightSectors ==
  ASSUME TypeOK, NEW t \in Threads, call[t] \in Requests, CapacityRight,
         call[t].sector + call[t].n <= CardSectors, done[t] < call[t].n
  PROVE  Found(t) = Sought(t)
<1> DEFINE s == call[t].sector + done[t]
<1>1. s \in Nat /\ s < CardSectors
  BY RequestType, CardAssumption DEF TypeOK
<1>2. (s * PageSize) % AddressSpace = s * PageSize /\ (s * PageSize) \div PageSize = s
  BY <1>1, AddressRight
<1> HIDE DEF s
<1>3. CardSector(IF sdhc THEN s ELSE (s * PageSize) % AddressSpace) = s
  <2>1. CASE sdhc /\ card \in HighCapacity
    BY <2>1, Zenon DEF CardSector
  <2>2. CASE ~sdhc /\ card \notin HighCapacity
    BY <1>2, <2>2, Zenon DEF CardSector
  <2> QED
    BY <2>1, <2>2, Zenon DEF CapacityRight
<1> QED
  BY <1>3, Zenon DEF Found, Sought, Address, s

(* A thread's clean transfer is not disturbed by a step of the other.      *)
LEMMA OwnOther ==
  ASSUME TypeOK, CallInv, CleanInv, SelectInv, OwnInv, NEW t \in Threads,
         IOSelect(t) \/ Command(t) \/ Copy(t) \/ (EndSelection(t) /\ pc[t] = "ioDeselect"),
         NEW u \in Threads \ {t}, InRange(u)'
  PROVE  OwnOf(u)'
<1>1. /\ pc'[u] = pc[u] /\ call'[u] = call[u] /\ done'[u] = done[u] /\ result'[u] = result[u]
      /\ (u \in own => u \in own')
  BY OtherThread
<1>2. IOStep(t)
  BY IOStepsAre, EndSelectionSteps, StepsApart DEF StartStep, IOSteps
<1>3. card' = card /\ (CleanIO(u)' <=> CleanIO(u))
  BY <1>2, InCall DEF IOStep
<1>4. InRange(u) /\ OwnOf(u)
  BY <1>1, <1>3 DEF InRange, OwnInv
<1>5. pc[u] \in {"command", "copy"} => UNCHANGED rwBuffer
  <2>1. ASSUME pc[u] \in {"command", "copy"} PROVE state = "tran" /\ pc[t] \notin Holding
    BY <1>4, <2>1 DEF SelectInv, InRange, Holding
  <2>2. CASE IOSelect(t)
    BY <2>1, <2>2, IOSelectIs
  <2>3. CASE Command(t) \/ Copy(t)
    BY <2>1, <2>3 DEF Command, Copy, Holding
  <2>4. CASE EndSelection(t)
    BY <2>4 DEF EndSelection
  <2> QED
    BY <2>2, <2>3, <2>4
<1>6. /\ Sought(u)' = Sought(u) /\ \A d : Given(u, d)' = Given(u, d)
      /\ \A op : Bounces(u, op)' <=> Bounces(u, op)
  BY <1>1, <1>3 DEF Sought, Given, Data, Chunk, ChunkAt, Bounces
<1> QED
  BY <1>1, <1>4, <1>5, <1>6 DEF OwnOf

LEMMA OwnSelect ==
  ASSUME TypeOK, CallInv, OwnInv, NEW t \in Threads, IOSelect(t), InRange(t)
  PROVE  OwnOf(t)'
<1>1. t \in own /\ done[t] = 0 /\ call[t] \in Requests
  BY DEF OwnInv, OwnOf, IOSelect, InRange, CleanIO
<1>2. /\ own' = own /\ done' = done /\ call' = call
  BY DEF IOSelect
<1>3. call[t].n \in Nat \ {0}
  BY <1>1, RequestType
<1>4. CASE Goto(t, "command") /\ Fill(t, 0)
  <2>1. pc'[t] = "command"
    BY <1>4 DEF Goto, TypeOK
  <2>2. Bounces(t, "write")' => rwBuffer' = Given(t, done[t])'
    BY <1>1, <1>2, <1>3, <1>4 DEF Fill, Bounces, Given, ChunkAt
  <2> QED
    BY <1>1, <1>2, <1>3, <2>1, <2>2 DEF OwnOf
<1>5. CASE Finish(t, "failed")
  <2>1. pc'[t] = "ended" /\ result'[t] = "failed"
    BY <1>5 DEF Finish, Goto, TypeOK
  <2> QED
    BY <2>1 DEF OwnOf
<1> QED
  BY <1>4, <1>5 DEF IOSelect

(* A chunk that is done and was the right one.                             *)
LEMMA OwnAdvance ==
  ASSUME TypeOK, NEW t \in Threads, call[t] \in Requests, t \in own, done[t] < call[t].n,
         Advance(t, TRUE), call' = call,
         Bounces(t, "write") => Fill(t, done[t] + Chunk(t)),
         result'[t] = "ok"
  PROVE  OwnOf(t)'
<1>1. /\ done[t] \in Nat /\ Chunk(t) \in Nat /\ done[t] + Chunk(t) <= call[t].n
  BY ChunkType DEF Chunk, TypeOK
<1>2. done'[t] = done[t] + Chunk(t) /\ own' = own
  BY DEF Advance, TypeOK
<1>3. pc'[t] = IF done[t] + Chunk(t) < call[t].n THEN "command" ELSE "ioDeselect"
  BY DEF Advance, Goto, TypeOK
<1>4. call[t].n \in Nat
  BY RequestType
<1>5. CASE done[t] + Chunk(t) < call[t].n
  <2>1. Bounces(t, "write")' => rwBuffer' = Given(t, done[t])'
    BY <1>2, <1>5 DEF Fill, Bounces, Given, ChunkAt
  <2> QED
    BY <1>2, <1>3, <1>5, <2>1 DEF OwnOf
<1>6. CASE ~(done[t] + Chunk(t) < call[t].n)
  BY <1>1, <1>2, <1>3, <1>4, <1>6 DEF OwnOf
<1> QED
  BY <1>5, <1>6

LEMMA OwnCommand ==
  ASSUME TypeOK, CallInv, SelectInv, CapacityInv, OwnInv, NEW t \in Threads, Command(t), InRange(t)
  PROVE  OwnOf(t)'
<1>1. /\ t \in own /\ done[t] < call[t].n /\ call[t] \in Requests /\ pc[t] = "command"
      /\ Bounces(t, "write") => rwBuffer = Given(t, done[t])
  BY DEF OwnInv, OwnOf, Command, InRange, CleanIO
<1>2. call' = call /\ card' = card
  BY DEF Command
<1>3. Found(t) = Sought(t)
  <2>1. CapacityRight
    BY <1>1 DEF CapacityInv, CapacityUnused, SelectInv, InRange, Holding
  <2> QED
    BY <1>1, <2>1, RightSectors DEF InRange
<1>4. CASE MoveChunk(t) /\ result' = [result EXCEPT ![t] = "ok"]
  <2>0. result'[t] = "ok"
    BY <1>4 DEF TypeOK
  <2>1. CASE Bounces(t, "read") /\ rwBuffer' = Found(t) /\ Goto(t, "copy") /\ UNCHANGED <<done, own>>
    <3>1. pc'[t] = "copy"
      BY <2>1 DEF Goto, TypeOK
    <3>2. Sought(t)' = Sought(t)
      BY <1>2, <2>1 DEF Sought, Chunk, ChunkAt, Data
    <3> QED
      BY <1>1, <1>2, <1>3, <2>0, <2>1, <3>1, <3>2 DEF OwnOf, Bounces
  <2>2. CASE /\ Bounces(t, "write")
             /\ Advance(t, Found(t) = Sought(t) /\ rwBuffer = Given(t, done[t]))
             /\ Fill(t, done[t] + Chunk(t))
    <3>1. Advance(t, TRUE)
      BY <1>1, <1>3, <2>2 DEF Advance
    <3> QED
      BY <1>1, <1>2, <2>0, <2>2, <3>1, OwnAdvance
  <2>3. CASE call[t].via = "direct" /\ Advance(t, Found(t) = Sought(t))
    <3>1. Advance(t, TRUE) /\ ~Bounces(t, "write")
      BY <1>3, <2>3 DEF Advance, Bounces
    <3> QED
      BY <1>1, <1>2, <2>0, <3>1, OwnAdvance
  <2> QED
    BY <1>4, <2>1, <2>2, <2>3 DEF MoveChunk
<1>5. CASE Goto(t, "ioDeselect") /\ result' = [result EXCEPT ![t] = "failed"]
  <2>1. pc'[t] = "ioDeselect" /\ result'[t] = "failed"
    BY <1>5 DEF Goto, TypeOK
  <2> QED
    BY <2>1 DEF OwnOf
<1> QED
  BY <1>4, <1>5 DEF Command

LEMMA OwnCopy ==
  ASSUME TypeOK, CallInv, OwnInv, NEW t \in Threads, Copy(t), InRange(t)
  PROVE  OwnOf(t)'
<1>1. /\ t \in own /\ done[t] < call[t].n /\ call[t] \in Requests
      /\ rwBuffer = Sought(t) /\ result[t] = "ok" /\ Bounces(t, "read")
  BY DEF OwnInv, OwnOf, Copy, InRange, CleanIO
<1>2. call' = call /\ result' = result
  BY DEF Copy
<1>3. Advance(t, TRUE)
  BY <1>1 DEF Copy, Advance
<1> QED
  BY <1>1, <1>2, <1>3, OwnAdvance DEF Bounces

LEMMA OwnDeselect ==
  ASSUME TypeOK, OwnInv, NEW t \in Threads, EndSelection(t), pc[t] = "ioDeselect", InRange(t)
  PROVE  OwnOf(t)'
<1>1. /\ pc'[t] = "ended" /\ UNCHANGED <<result, call, done, own>>
  BY DEF EndSelection, Goto, TypeOK
<1> QED
  BY <1>1 DEF OwnInv, OwnOf

LEMMA OwnCalls ==
  ASSUME TypeOK, CallInv, CleanInv, StartInv, OwnInv, NEW t \in Threads,
         (\E c \in Requests : BeginIO(t, c)) \/ End(t)
  PROVE  OwnInv'
<1>1. CASE End(t)
  <2>1. ASSUME NEW u \in Threads, InRange(u)' PROVE OwnOf(u)'
    <3>1. u # t
      BY <1>1, <2>1, EndInv DEF InRange
    <3>2. /\ pc'[u] = pc[u] /\ call'[u] = call[u] /\ done'[u] = done[u] /\ result'[u] = result[u]
          /\ CleanIO(u) /\ card' = card /\ rwBuffer' = rwBuffer /\ (u \in own => u \in own')
      BY <1>1, <2>1, <3>1, EndInv DEF InRange, End
    <3>3. InRange(u) /\ OwnOf(u)
      BY <2>1, <3>2 DEF InRange, OwnInv
    <3>4. /\ Sought(u)' = Sought(u) /\ \A d : Given(u, d)' = Given(u, d)
          /\ \A op : Bounces(u, op)' <=> Bounces(u, op)
      BY <3>2 DEF Sought, Given, Data, Chunk, ChunkAt, Bounces
    <3> QED
      BY <3>2, <3>3, <3>4 DEF OwnOf
  <2> QED
    BY <2>1 DEF OwnInv
<1>2. CASE \E c \in Requests : BeginIO(t, c)
  <2>1. PICK c \in Requests : BeginIO(t, c)
    BY <1>2
  <2>2. Begin(t, c, "ioSelect") /\ "ioSelect" \in IOSteps
    BY <2>1 DEF BeginIO, IOSteps
  <2>3. /\ pc'[t] = "ioSelect" /\ done'[t] = 0
        /\ \A u \in Threads \ {t} : pc'[u] = pc[u] /\ call'[u] = call[u] /\ done'[u] = done[u]
    BY <2>2, BeginCall
  <2>4. UNCHANGED <<card, rwBuffer, result>> /\ own' = own \cup {t}
    BY <2>2 DEF Begin
  <2>5. ASSUME NEW u \in Threads \ {t}, InRange(u)' PROVE OwnOf(u)'
    <3>1. InRange(u) /\ OwnOf(u)
      BY <2>1, <2>3, <2>5, BeginIOInv DEF InRange, OwnInv
    <3>2. /\ Sought(u)' = Sought(u) /\ \A d : Given(u, d)' = Given(u, d)
          /\ \A op : Bounces(u, op)' <=> Bounces(u, op)
      BY <2>3, <2>4 DEF Sought, Given, Data, Chunk, ChunkAt, Bounces
    <3> QED
      BY <2>3, <2>4, <3>1, <3>2 DEF OwnOf
  <2>6. OwnOf(t)'
    BY <2>3, <2>4 DEF OwnOf
  <2> QED
    BY <2>5, <2>6 DEF OwnInv
<1> QED
  BY <1>1, <1>2

LEMMA OwnEject == ASSUME TypeOK, CallInv, CleanInv, OwnInv, Eject PROVE OwnInv'
<1>1. UNCHANGED <<pc, call, done, result, own, card, rwBuffer, clean>>
  BY DEF Eject, callVars
<1> QED
  BY <1>1 DEF OwnInv, OwnOf, InRange, CleanIO, Bounces, Sought, Given, Data, Chunk, ChunkAt

-----------------------------------------------------------------------------
(* A selected card has a thread that will deselect it. *)

(* A step that neither selects the card nor ends the part of a call that   *)
(* leads to a deselect.                                                    *)
LEMMA ReleaseKept ==
  ASSUME TypeOK, ReleaseInv, NEW t \in Threads,
         \A u \in Threads \ {t} : pc'[u] = pc[u], misled => misled',
         state' = "tran" => state = "tran" /\ (pc[t] \in Selecting => pc'[t] \in Selecting)
  PROVE  ReleaseInv'
  BY DEF ReleaseInv

(* A selected card was passed the select, and what passed it stays: only a *)
(* start changes __sd0_sdhc, in a step that leaves no card selected or has *)
(* one that IOS initialised.                                               *)
LEMMA PassStep == PassInv /\ [Next]_vars => PassInv'
<1> SUFFICES ASSUME PassInv, [Next]_vars, state' = "tran" PROVE Passes'
  BY DEF PassInv
<1>1. ASSUME NEW p, Replies(p) /\ Takes(p) PROVE Passes
  <2>1. /\ DOMAIN Leads = {"cid", "rca", "select", "ioSelect", "hostReset", "failReset"}
        /\ Leads["hostReset"] = "off" /\ Leads["failReset"] = "off"
    BY DEF Leads
  <2>2. {"cid", "rca", "select", "ioSelect"} \subseteq DOMAIN Needs
    BY DEF Needs
  <2>3. CASE p \in {"cid", "rca", "select", "ioSelect"}
    BY <1>1, <2>2, <2>3 DEF Replies
  <2>4. CASE p \notin {"cid", "rca", "select", "ioSelect"}
    <3>1. state = "tran"
      BY <1>1, <2>1, <2>4 DEF Takes
    <3> QED
      BY <3>1 DEF PassInv
  <2> QED
    BY <2>3, <2>4
<1>2. ASSUME NEW p, Fails(p) PROVE Passes
  BY <1>1, <1>2 DEF Fails, PassInv
<1>3. CASE \E p \in DOMAIN After : InitStep(p)
  <2>1. PICK p \in DOMAIN After : InitStep(p)
    BY <1>3
  <2>2. (Replies(p) /\ Takes(p)) \/ Fails(p)
    BY <2>1, Zenon DEF InitStep
  <2>3. sdhc' = (sdhc \/ p = "power") /\ accepted' = accepted /\ card' = card
    BY <2>1 DEF InitStep
  <2> QED
    BY <1>1, <1>2, <2>2, <2>3 DEF Passes
<1>4. CASE ResetCard
  BY <1>4 DEF ResetCard, PassInv, Passes
<1>5. CASE GetStatus
  BY <1>5 DEF GetStatus, PassInv, Passes
<1>6. CASE Reopen
  BY <1>6 DEF Reopen, PassInv, Passes
<1>7. CASE OpCond
  BY <1>7 DEF OpCond, Polled, PassInv, Passes
<1>8. CASE \E t \in Threads : IOSelect(t)
  BY <1>1, <1>2, <1>8 DEF IOSelect, driverVars, Passes
<1>9. CASE \E t \in Threads : EndSelection(t)
  BY <1>9 DEF EndSelection, Deselect, driverVars, PassInv, Passes
<1>10. CASE \E t \in Threads : Command(t) \/ Copy(t) \/ End(t)
  BY <1>10 DEF Command, Copy, End, driverVars, PassInv, Passes
<1>11. CASE BeginStart \/ \E t \in Threads, c \in Requests : BeginIO(t, c)
  BY <1>11 DEF BeginStart, BeginIO, Begin, driverVars, PassInv, Passes
<1>12. CASE Eject \/ MoveCard
  BY <1>12 DEF Eject, MoveCard, driverVars, PassInv, Passes
<1>13. CASE UNCHANGED vars
  BY <1>13 DEF vars, driverVars, PassInv, Passes
<1> QED
  BY <1>3, <1>4, <1>5, <1>6, <1>7, <1>8, <1>9, <1>10, <1>11, <1>12, <1>13 DEF Next

LEMMA ReleaseInit ==
  ASSUME TypeOK, ReleaseInv, NEW p \in DOMAIN After, InitStep(p)
  PROVE  ReleaseInv'
<1>1. /\ pc["manager"] = p /\ \A q : Goto("manager", q) => pc'["manager"] = q
      /\ \A u \in Threads \ {"manager"} : pc'[u] = pc[u]
  BY DEF InitStep, Finish, Goto, TypeOK, Threads
<1>2. Takes(p) => p = "select" \/ (state' = "tran" => state = "tran")
  <2>1. /\ \A q \in DOMAIN Leads : Leads[q] = "tran" => q \in {"select", "ioSelect"}
        /\ "ioSelect" \notin DOMAIN After
    BY AfterSteps DEF Leads
  <2> QED
    BY <2>1 DEF Takes
<1>3. CASE Takes(p) /\ Goto("manager", After[p]) /\ UNCHANGED faultVars
  <2>1. CASE p = "select"
    <3>1. pc'["manager"] = "blockLen"
      BY <1>1, <1>3, <2>1 DEF After
    <3> QED
      BY <3>1 DEF ReleaseInv, Selecting, Selected, Threads
  <2>2. CASE p # "select"
    <3>1. p \in Selected => After[p] \in Selecting
      BY DEF Selected, Selecting, After
    <3>2. p \in Selecting => p \in Selected
      BY AfterSteps DEF Selecting, Holding
    <3> QED
      BY <1>1, <1>2, <1>3, <2>2, <3>1, <3>2, ReleaseKept DEF Threads, faultVars
  <2> QED
    BY <2>1, <2>2
<1>4. CASE /\ Fails(p) /\ misled' = (misled \/ (p = "select" /\ state' # state))
           /\ IF Failing(p) = "refused" THEN Finish("manager", "failed")
              ELSE Goto("manager", Failing(p)) /\ UNCHANGED result
  <2>1. state' = "tran" => state = "tran" \/ misled'
    BY <1>2, <1>4 DEF Fails, TypeOK
  <2>2. p \in Selecting => pc'["manager"] \in Selecting
    <3>1. p \in Selecting => p \in Selected /\ p \notin {"interrupts", "failReset", "failWait"}
      BY AfterSteps DEF Selecting, Holding, Selected
    <3> QED
      BY <1>1, <1>4, <3>1 DEF Failing, Selecting
  <2>3. misled => misled'
    BY <1>4 DEF TypeOK
  <2>4. CASE misled'
    BY <2>4 DEF ReleaseInv
  <2>5. CASE ~misled'
    BY <1>1, <2>1, <2>2, <2>3, <2>5, ReleaseKept DEF Threads
  <2> QED
    BY <2>4, <2>5
<1> QED
  BY <1>3, <1>4 DEF InitStep

LEMMA ReleaseStart ==
  ASSUME TypeOK, ReleaseInv, ResetCard \/ GetStatus \/ Reopen \/ OpCond
  PROVE  ReleaseInv'
<1>1. \A u \in Threads \ {"manager"} : pc'[u] = pc[u]
  BY DEF ResetCard, GetStatus, Reopen, OpCond, Finish, Goto, TypeOK, Threads
<1>2. pc["manager"] \notin Selecting
  BY DEF ResetCard, GetStatus, Reopen, OpCond, Selecting, Holding, Selected
<1>3. misled' = misled /\ (state' = "tran" => state = "tran")
  BY DEF ResetCard, GetStatus, Reopen, OpCond, Polled
<1> QED
  BY <1>1, <1>2, <1>3, ReleaseKept DEF Threads

LEMMA ReleaseIO ==
  ASSUME TypeOK, ReleaseInv, PassInv, NEW t \in Threads, IOSelect(t) \/ Command(t) \/ Copy(t) \/ EndSelection(t)
  PROVE  ReleaseInv'
<1>1. \A u \in Threads \ {t} : pc'[u] = pc[u]
  BY OtherThread
<1>2. CASE EndSelection(t)
  <2>1. state' = "tran" => misled'
    BY <1>2 DEF EndSelection, Deselect, PassInv
  <2> QED
    BY <2>1 DEF ReleaseInv
<1>3. CASE Command(t) \/ Copy(t)
  <2>1. pc'[t] \in Holding
    BY <1>3 DEF Command, MoveChunk, Copy, Advance, Goto, TypeOK, Holding
  <2> QED
    BY <1>1, <1>3, <2>1, ReleaseKept DEF Command, Copy, Selecting, faultVars
<1>4. CASE IOSelect(t)
  <2>1. pc[t] \notin Selecting
    BY <1>4 DEF IOSelect, Selecting, Holding, Selected
  <2>2. CASE Goto(t, "command")
    <3>1. pc'[t] = "command"
      BY <2>2 DEF Goto, TypeOK
    <3> QED
      BY <3>1 DEF ReleaseInv, Selecting, Holding
  <2>3. CASE misled' = (misled \/ state' # state)
    BY <1>1, <2>1, <2>3, ReleaseKept DEF ReleaseInv, TypeOK
  <2> QED
    BY <1>4, <2>2, <2>3 DEF IOSelect
<1> QED
  BY <1>2, <1>3, <1>4

LEMMA ReleaseCalls ==
  ASSUME TypeOK, ReleaseInv, NEW t \in Threads,
         (\E c, p : Begin(t, c, p)) \/ End(t)
  PROVE  ReleaseInv'
<1>1. \A u \in Threads \ {t} : pc'[u] = pc[u]
  BY DEF Begin, End, Goto, TypeOK
<1>2. pc[t] \notin Selecting
  BY DEF Begin, End, Idle, Selecting, Holding, Selected
<1>3. misled' = misled /\ state' = state
  BY DEF Begin, End, faultVars
<1> QED
  BY <1>1, <1>2, <1>3, ReleaseKept

LEMMA ReleaseMove == ASSUME TypeOK, ReleaseInv, Eject \/ MoveCard PROVE ReleaseInv'
<1>1. CASE Eject
  BY <1>1 DEF Eject, callVars, ReleaseInv
<1>2. CASE MoveCard
  BY <1>2 DEF MoveCard, ReleaseInv
<1> QED
  BY <1>1, <1>2

-----------------------------------------------------------------------------
(* The inductive invariant. *)

LEMMA InvInit == Init => IInv
<1> SUFFICES ASSUME Init PROVE IInv
  OBVIOUS
<1>1. TypeOK
  <2>1. /\ "idle" \in InitSteps \cup IOSteps \cup {"idle", "ended"} /\ NoCall.n = 0
        /\ rwBuffer = [of |-> NoCard, at |-> 0, n |-> 0]
    BY DEF Init, NoCall, Startup, Data
  <2>2. rwBuffer \in [of: Cards \cup {NoCard} \cup Threads, at: Nat, n: 0 .. ChunkSectors]
    BY <2>1, CardAssumption
  <2>3. 0 \in 0 .. OpCondTries - 1 /\ 0 \in 0 .. MaxFaults
    BY CardAssumption
  <2>4. /\ pc \in [Threads -> InitSteps \cup IOSteps \cup {"idle", "ended"}]
        /\ call \in [Threads -> Requests \cup {Startup, NoCall}]
        /\ done \in [Threads -> Nat] /\ result \in [Threads -> {"none", "ok", "failed"}]
    BY DEF Init
  <2>5. \A t \in Threads : done[t] <= call[t].n
    BY <2>1 DEF Init
  <2>6. /\ fd \in BOOLEAN /\ rca \in BOOLEAN /\ sdhc \in BOOLEAN
        /\ started \in BOOLEAN /\ error \in BOOLEAN /\ accepted \in BOOLEAN /\ misled \in BOOLEAN
    BY DEF Init
  <2>7. /\ tries \in 0 .. OpCondTries - 1 /\ faults \in 0 .. MaxFaults
        /\ own \subseteq Threads /\ clean \subseteq Threads
        /\ card \in Cards \cup {NoCard} /\ state = "off" /\ accepted = FALSE
    BY <2>3 DEF Init
  <2> QED
    BY <2>2, <2>4, <2>5, <2>6, <2>7 DEF TypeOK
<1>2. \A t \in Threads : pc[t] = "idle" /\ call[t] = NoCall
  BY DEF Init
<1>3. \A t \in Threads : ~CleanIO(t)
  BY <1>2, NoRequests DEF CleanIO
<1>4. CallInv
  BY <1>2, StepsApart, NoRequests DEF CallInv
<1>5. CleanInv /\ SelectInv /\ OwnInv
  BY <1>3 DEF CleanInv, SelectInv, OwnInv, InRange
<1>6. CapacityInv /\ ReleaseInv
  BY DEF Init, CapacityInv, ReleaseInv
<1>7. StartInv
  BY <1>2, NoRequests DEF StartInv, Threads
<1> QED
  BY <1>1, <1>4, <1>5, <1>6, <1>7 DEF IInv

LEMMA InvStart == ASSUME IInv, ResetCard \/ GetStatus \/ Reopen \/ OpCond PROVE IInv'
<1> USE DEF IInv
<1>1. StartStep
  BY StartSteps
<1>2. TypeOK' /\ CapacityInv' /\ ReleaseInv'
  BY ResetCardType, GetStatusType, ReopenType, OpCondType, CapacityStart, ReleaseStart
<1>3. CallInv' /\ CleanInv'
  BY <1>1, InCall DEF Threads
<1>4. SelectInv' /\ OwnInv'
  BY <1>1, StartStepNone DEF SelectInv, OwnInv, InRange
<1>5. StartInv'
  BY <1>1 DEF StartStep, StartInv
<1> QED
  BY <1>2, <1>3, <1>4, <1>5

LEMMA InvInitStep == ASSUME IInv, NEW p \in DOMAIN After, InitStep(p) PROVE IInv'
<1> USE DEF IInv
<1>1. StartStep
  BY StartSteps
<1>2. TypeOK' /\ CapacityInv' /\ ReleaseInv'
  BY InitStepType, CapacityInitStep, ReleaseInit
<1>3. CallInv' /\ CleanInv'
  BY <1>1, InCall DEF Threads
<1>4. SelectInv' /\ OwnInv'
  BY <1>1, StartStepNone DEF SelectInv, OwnInv, InRange
<1>5. StartInv'
  BY <1>1 DEF StartStep, StartInv
<1> QED
  BY <1>2, <1>3, <1>4, <1>5

LEMMA InvEndSelection == ASSUME IInv, PassInv, NEW t \in Threads, EndSelection(t) PROVE IInv'
<1> USE DEF IInv
<1>1. TypeOK' /\ CapacityInv' /\ ReleaseInv'
  BY EndSelectionType, CapacityEndSelection, ReleaseIO
<1>2. CASE t = "manager" /\ StartStep
  <2>1. CallInv' /\ CleanInv'
    BY <1>2, InCall
  <2>2. SelectInv' /\ OwnInv'
    BY <1>2, StartStepNone DEF SelectInv, OwnInv, InRange
  <2> QED
    BY <1>1, <1>2, <2>1, <2>2 DEF StartStep, StartInv
<1>3. CASE pc[t] = "ioDeselect" /\ IOStep(t)
  <2>1. CallInv' /\ CleanInv' /\ (CleanIO(t)' <=> CleanIO(t))
    BY <1>3, InCall
  <2>2. SelectInv'
    BY <1>3, SelectKept
  <2>3. InRange(t)' => InRange(t)
    BY <1>3, <2>1 DEF InRange, IOStep
  <2>4. OwnInv'
    BY <1>3, <2>3, OwnOther, OwnDeselect DEF OwnInv
  <2> QED
    BY <1>1, <1>3, <2>1, <2>2, <2>4 DEF IOStep, StartInv
<1> QED
  BY <1>2, <1>3, EndSelectionSteps

LEMMA InvIO ==
  ASSUME IInv, PassInv, NEW t \in Threads, IOSelect(t) \/ Command(t) \/ Copy(t)
  PROVE  IInv'
<1> USE DEF IInv
<1>1. IOStep(t)
  BY IOStepsAre
<1>2. TypeOK' /\ CapacityInv' /\ ReleaseInv'
  BY IOSelectType, CommandType, CopyType, CapacityIO, ReleaseIO
<1>3. CallInv' /\ CleanInv' /\ (CleanIO(t)' <=> CleanIO(t))
  BY <1>1, InCall
<1>4. SelectInv'
  BY SelectStep, SelectKept
<1>5. InRange(t)' => InRange(t)
  BY <1>1, <1>3 DEF InRange, IOStep
<1>6. OwnInv'
  BY <1>5, OwnOther, OwnSelect, OwnCommand, OwnCopy DEF OwnInv
<1>7. StartInv'
  BY <1>1 DEF IOStep, StartInv
<1> QED
  BY <1>2, <1>3, <1>4, <1>6, <1>7

LEMMA InvBegin ==
  ASSUME IInv, BeginStart \/ \E t \in Threads, c \in Requests : BeginIO(t, c)
  PROVE  IInv'
<1> USE DEF IInv
<1>1. StartInv' /\ CapacityInv'
  BY StartInvBegins, CapacityBegin
<1>2. CASE BeginStart
  <2>1. /\ Begin("manager", Startup, "resetCard") /\ "resetCard" \in InitSteps
        /\ clean' \subseteq Threads
    BY <1>2 DEF BeginStart, InitSteps, Threads
  <2>2. TypeOK' /\ ReleaseInv'
    BY <2>1, BeginType, ReleaseCalls DEF Threads
  <2>3. CallInv' /\ CleanInv' /\ SelectInv' /\ OwnInv'
    BY <1>2, BeginStartInv DEF SelectInv, OwnInv, InRange
  <2> QED
    BY <1>1, <2>2, <2>3
<1>3. CASE \E t \in Threads, c \in Requests : BeginIO(t, c)
  <2>1. PICK t \in Threads, c \in Requests : BeginIO(t, c)
    BY <1>3
  <2>2. Begin(t, c, "ioSelect") /\ "ioSelect" \in IOSteps /\ clean' \subseteq Threads
    BY <2>1 DEF BeginIO, IOSteps, TypeOK
  <2>3. TypeOK' /\ ReleaseInv'
    BY <2>2, BeginType, ReleaseCalls
  <2>4. CallInv' /\ CleanInv'
    BY <2>1, BeginIOInv
  <2>5. SelectInv' /\ OwnInv'
    BY <2>1, SelectBegin, OwnCalls
  <2> QED
    BY <1>1, <2>3, <2>4, <2>5
<1> QED
  BY <1>2, <1>3

LEMMA InvEnd == ASSUME IInv, NEW t \in Threads, End(t) PROVE IInv'
  BY EndType, EndInv, StartInvEnds, SelectBegin, CapacityEnd, OwnCalls, ReleaseCalls DEF IInv

LEMMA InvMove == ASSUME IInv, Eject \/ MoveCard PROVE IInv'
<1> USE DEF IInv
<1>1. TypeOK' /\ CallInv' /\ CleanInv' /\ StartInv' /\ SelectInv' /\ CapacityInv' /\ ReleaseInv'
  BY EjectType, MoveCardType, MoveInv, StartInvMoves, SelectMove, CapacityMove, ReleaseMove
<1>2. OwnInv'
  BY OwnEject, MoveInv DEF OwnInv, InRange
<1> QED
  BY <1>1, <1>2

LEMMA InvNext == IInv /\ PassInv /\ [Next]_vars => IInv'
<1> SUFFICES ASSUME IInv, PassInv, [Next]_vars PROVE IInv'
  OBVIOUS
<1>1. CASE ResetCard \/ GetStatus \/ Reopen \/ OpCond
  BY <1>1, InvStart
<1>2. CASE \E p \in DOMAIN After : InitStep(p)
  BY <1>2, InvInitStep
<1>3. CASE BeginStart \/ \E t \in Threads, c \in Requests : BeginIO(t, c)
  BY <1>3, InvBegin
<1>4. CASE Eject \/ MoveCard
  BY <1>4, InvMove
<1>5. CASE \E t \in Threads : EndSelection(t)
  BY <1>5, InvEndSelection
<1>6. CASE \E t \in Threads : IOSelect(t) \/ Command(t) \/ Copy(t)
  BY <1>6, InvIO
<1>7. CASE \E t \in Threads : End(t)
  BY <1>7, InvEnd
<1>8. CASE UNCHANGED vars
  BY <1>8 DEF vars, driverVars, handleVars, callVars, faultVars, IInv, TypeOK, CallInv, CleanInv,
              Idle, SelectInv, CapacityInv, CapacityRight, CapacityUnused, StartInv, OwnInv, OwnOf,
              InRange, CleanIO, Bounces, Sought, Given, Data, Chunk, ChunkAt, ReleaseInv
<1> QED
  BY <1>1, <1>2, <1>3, <1>4, <1>5, <1>6, <1>7, <1>8 DEF Next

LEMMA Invariance == Spec => []IInv
<1>1. Init => PassInv
  BY DEF Init, PassInv
<1> QED
  BY <1>1, PassStep, InvInit, InvNext, PTL DEF Spec

-----------------------------------------------------------------------------
(* The state of the driver, of its callers and of the card has its type.   *)
THEOREM TypeCorrect == Spec => []TypeOK
<1>1. IInv => TypeOK
  BY DEF IInv
<1> QED
  BY <1>1, Invariance, PTL

(* A clean transfer that succeeds has moved its own sectors, whatever the  *)
(* other thread transfers at the same time (lines 599-699).                *)
THEOREM TransfersApart == Spec => []OwnSectors
<1>1. IInv => OwnSectors
  <2> SUFFICES ASSUME IInv, NEW t \in clean, pc[t] = "ended", result[t] = "ok",
                      call[t] \in Requests, call[t].sector + call[t].n <= CardSectors
               PROVE  t \in own /\ done[t] = call[t].n
    BY DEF OwnSectors
  <2>1. t \in Threads /\ InRange(t)
    BY DEF IInv, TypeOK, InRange, CleanIO
  <2> QED
    BY <2>1 DEF IInv, OwnInv, OwnOf
<1> QED
  BY <1>1, Invariance, PTL

(* No call leaves the card selected, unless a select or deselect did not   *)
(* do what it was reported to do (lines 427-566, 599-699).                 *)
THEOREM CardReleased == Spec => []Released
<1>1. IInv => Released
  BY DEF IInv, ReleaseInv, Released, Idle, Selecting, Holding, Selected
<1> QED
  BY <1>1, Invariance, PTL

-----------------------------------------------------------------------------
(* No start that nothing disturbs leaves its track.                        *)

(* A clean start meets no other call, and without a fault the handle is    *)
(* open from the status on.                                                *)
AloneInv == Starting /\ "manager" \in clean => Idle("sdio")
OpenInv ==
  Starting /\ faults = 0 /\ pc["manager"] \notin {"resetCard", "getStatus", "ended"} => fd

Unpowered == {"reopen", "hostReset", "waitReset", "interrupts", "power"}
Powered == {"clock", "waitClock", "clockOn", "timeout", "goIdle", "ifCond", "appCmd", "opCond"}
Addressed == {"busWidth", "setClock", "select"}

(* Where the card is at each step of a start that will not fail. *)
OnTrack ==
  \/ pc["manager"] = "resetCard"
  \/ /\ pc["manager"] = "getStatus"
     /\ accepted <=> card \in Known
     /\ card \in Known => state = "stby" /\ rca
  \/ pc["manager"] \in Unpowered /\ card \notin Known
  \/ pc["manager"] \in Powered /\ card \notin Known /\ state = "idle" /\ sdhc
  \/ pc["manager"] = "cid" /\ state = "ready" /\ Passes
  \/ pc["manager"] = "rca" /\ state = "ident" /\ Passes
  \/ pc["manager"] \in Addressed /\ state = "stby" /\ rca /\ Passes
  \/ pc["manager"] \in Selected \cup {"deselect"} /\ state = "tran" /\ Passes
  \/ pc["manager"] = "ended" /\ result["manager"] = "ok"

Undisturbed == /\ Starting /\ "manager" \in clean /\ faults = 0 /\ fd
               /\ card \in Usable
TrackInv == Undisturbed => OnTrack

AcceptInv == AloneInv /\ OpenInv /\ TrackInv

(* Without a fault before or in a step there is none after it. *)
LEMMA NoFault ==
  ASSUME TypeOK, Fault \/ UNCHANGED faults, faults' = 0
  PROVE  faults = 0 /\ ~Fault
  BY CardAssumption DEF TypeOK, Fault

(* A step of a start is one of a start that was under way, and starts the  *)
(* other thread's calls no more than it ends them.                         *)
LEMMA AloneStart ==
  ASSUME TypeOK, CallInv, AloneInv, StartStep
  PROVE  Starting /\ AloneInv'
<1>1. pc["manager"] \in InitSteps /\ UNCHANGED <<call, clean>> /\ pc'["sdio"] = pc["sdio"]
  BY DEF StartStep, Goto, TypeOK, Threads
<1>2. Starting
  BY <1>1, StepsApart DEF CallInv, Starting, Idle, Threads
<1> QED
  BY <1>1, <1>2 DEF AloneInv, Idle

(* What a start that stays undisturbed was before the step. *)
LEMMA StillUndisturbed ==
  ASSUME TypeOK, CallInv, TrackInv, StartStep, Starting, Fault \/ UNCHANGED faults, UNCHANGED fd,
         Undisturbed'
  PROVE  Undisturbed /\ OnTrack /\ faults = 0 /\ ~Fault
<1>1. clean' = clean /\ card' = card
  BY DEF StartStep
<1>2. faults' = 0 /\ "manager" \in clean /\ fd /\ card \in Usable
  BY <1>1 DEF Undisturbed
<1>3. faults = 0 /\ ~Fault
  BY <1>2, NoFault
<1> QED
  BY <1>2, <1>3 DEF Undisturbed, TrackInv

(* The step of a start that does not fail. *)
LEMMA TrackSucceeds ==
  ASSUME TypeOK, NEW p \in DOMAIN After, InitStep(p), Replies(p), ~Fault
  PROVE  /\ pc["manager"] = p /\ pc'["manager"] = After[p] /\ Takes(p)
         /\ rca' = (rca \/ (p = "rca" /\ After[p] = "busWidth"))
         /\ sdhc' = (sdhc \/ p = "power") /\ accepted' = accepted
<1>1. pc["manager"] = p /\ Takes(p) /\ Goto("manager", After[p])
  BY DEF InitStep, Fails
<1>2. pc'["manager"] = After[p]
  BY <1>1 DEF Goto, TypeOK, Threads
<1>3. /\ rca' = (rca \/ (p = "rca" /\ pc'["manager"] = "busWidth"))
      /\ sdhc' = (sdhc \/ p = "power") /\ accepted' = accepted
  BY DEF InitStep
<1> QED
  BY <1>1, <1>2, <1>3

LEMMA TrackInitStep ==
  ASSUME TypeOK, NEW p \in DOMAIN After, InitStep(p), OnTrack, ~Fault, fd,
         card \in Usable, UNCHANGED card
  PROVE  OnTrack'
<1> DEFINE next == pc'["manager"]
<1>1. pc["manager"] = p /\ card # NoCard
  BY CardAssumption DEF InitStep, Usable
<1>2. /\ DOMAIN Needs = {"ifCond", "appCmd", "cid", "rca", "select", "ioSelect", "blockLen",
                         "appWidth", "setWidth"}
      /\ DOMAIN Leads = {"cid", "rca", "select", "ioSelect", "hostReset", "failReset"}
  BY DEF Needs, Leads
<1>0. Passes => Passes'
  BY DEF InitStep, Passes
<1>3. CASE p \in Unpowered /\ card \notin Known
  <2>1. p \in {"hostReset", "waitReset", "interrupts", "power"}
    BY <1>3, AfterSteps DEF Unpowered
  <2>2. Replies(p)
    BY <1>2, <2>1 DEF Replies
  <2>3. next = After[p] /\ Takes(p)
    BY <2>2, TrackSucceeds
  <2>4. CASE p = "power"
    <3>1. next = "clock" /\ state' = "idle" /\ sdhc'
      BY <1>1, <1>2, <2>2, <2>3, <2>4, TrackSucceeds DEF After, Takes
    <3> QED
      BY <1>3, <3>1 DEF OnTrack, Powered
  <2>5. CASE p # "power"
    <3>1. next \in Unpowered
      BY <2>1, <2>3, <2>5 DEF After, Unpowered
    <3> QED
      BY <1>3, <3>1 DEF OnTrack
  <2> QED
    BY <2>4, <2>5
<1>4. CASE p \in Powered /\ card \notin Known /\ state = "idle" /\ sdhc
  <2>1. p \in {"clock", "waitClock", "clockOn", "timeout", "goIdle", "ifCond", "appCmd"}
    BY <1>4, AfterSteps DEF Powered
  <2>2. Replies(p)
    BY <1>2, <1>4, <2>1, CardAssumption DEF Replies, Needs, Usable, Passes
  <2>3. next = After[p] /\ Takes(p) /\ sdhc'
    BY <1>4, <2>2, TrackSucceeds
  <2>4. next \in Powered
    BY <2>1, <2>3 DEF After, Powered
  <2>5. state' = "idle"
    BY <1>2, <1>4, <2>1, <2>3 DEF Takes
  <2> QED
    BY <1>4, <2>3, <2>4, <2>5 DEF OnTrack
<1>5. CASE p = "cid" /\ state = "ready" /\ Passes
  <2>1. Replies(p)
    BY <1>5 DEF Replies, Needs
  <2>2. next = "rca" /\ state' = "ident"
    BY <1>2, <1>5, <2>1, TrackSucceeds DEF After, Takes, Leads
  <2> QED
    BY <1>0, <1>5, <2>2 DEF OnTrack
<1>6. CASE p = "rca" /\ state = "ident" /\ Passes
  <2>1. Replies(p)
    BY <1>6 DEF Replies, Needs
  <2>2. After[p] = "busWidth"
    BY <1>6 DEF After
  <2>3. next = "busWidth" /\ Takes(p) /\ rca'
    BY <1>6, <2>1, <2>2, TrackSucceeds
  <2>4. state' = "stby"
    BY <1>2, <1>6, <2>3 DEF Takes, Leads
  <2> QED
    BY <1>0, <1>6, <2>3, <2>4 DEF OnTrack, Addressed
<1>7. CASE p \in Addressed /\ state = "stby" /\ rca /\ Passes
  <2>1. Replies(p)
    BY <1>2, <1>7 DEF Replies, Needs, Addressed
  <2>2. next = After[p] /\ Takes(p) /\ rca'
    BY <1>7, <2>1, TrackSucceeds
  <2>3. CASE p = "select"
    <3>1. next = "blockLen" /\ state' = "tran"
      BY <1>2, <2>2, <2>3 DEF After, Takes, Leads
    <3> QED
      BY <1>0, <1>7, <3>1 DEF OnTrack, Selected
  <2>4. CASE p \in {"busWidth", "setClock"}
    <3>1. next \in Addressed /\ state' = "stby"
      BY <1>2, <1>7, <2>2, <2>4 DEF After, Takes, Addressed
    <3> QED
      BY <1>0, <1>7, <2>2, <3>1 DEF OnTrack
  <2> QED
    BY <1>7, <2>3, <2>4 DEF Addressed
<1>8. CASE p \in Selected /\ state = "tran" /\ Passes
  <2>1. Replies(p)
    BY <1>2, <1>8 DEF Replies, Needs, Selected
  <2>2. next = After[p] /\ Takes(p)
    BY <2>1, TrackSucceeds
  <2>3. next \in Selected \cup {"deselect"} /\ state' = "tran"
    BY <1>2, <1>8, <2>2 DEF After, Takes, Selected
  <2> QED
    BY <1>0, <1>8, <2>3 DEF OnTrack
<1>9. p \notin {"resetCard", "getStatus", "deselect", "ended"}
  BY AfterSteps
<1> HIDE DEF next
<1> QED
  BY <1>1, <1>3, <1>4, <1>5, <1>6, <1>7, <1>8, <1>9 DEF OnTrack

LEMMA AcceptInitStep ==
  ASSUME IInv, AcceptInv, NEW p \in DOMAIN After, InitStep(p)
  PROVE  AcceptInv'
<1> USE DEF IInv, AcceptInv
<1>1. StartStep /\ Starting /\ AloneInv'
  BY StartSteps, AloneStart
<1>2. (Fault \/ UNCHANGED faults) /\ UNCHANGED <<fd, card>> /\ pc["manager"] = p
  BY DEF InitStep, Fails, faultVars
<1>3. OpenInv'
  <2>1. p \notin {"resetCard", "getStatus", "ended"}
    BY AfterSteps
  <2> QED
    BY <1>1, <1>2, <2>1, NoFault DEF OpenInv
<1>4. ASSUME Undisturbed' PROVE OnTrack'
  <2>1. Undisturbed /\ OnTrack /\ ~Fault
    BY <1>1, <1>2, <1>4, StillUndisturbed
  <2> QED
    BY <1>2, <2>1, TrackInitStep DEF Undisturbed
<1> QED
  BY <1>1, <1>3, <1>4 DEF TrackInv

LEMMA AcceptResetCard == ASSUME IInv, AcceptInv, ResetCard PROVE AcceptInv'
<1> USE DEF IInv, AcceptInv
<1>1. StartStep /\ Starting /\ AloneInv'
  BY StartSteps, AloneStart
<1>2. Fault \/ UNCHANGED faults
  BY DEF ResetCard
<1>3. UNCHANGED <<fd, card>> /\ pc'["manager"] = "getStatus"
  BY DEF ResetCard, Goto, TypeOK, Threads
<1>4. OpenInv'
  BY <1>3 DEF OpenInv
<1>5. ASSUME Undisturbed' PROVE OnTrack'
  <2>1. fd /\ ~Fault
    BY <1>1, <1>2, <1>3, <1>5, StillUndisturbed DEF Undisturbed
  <2>2. /\ rca' = (card \in Known) /\ accepted' = (card \in Known)
        /\ state' = IF card \in Known THEN "stby" ELSE "off"
    BY <2>1 DEF ResetCard
  <2> QED
    BY <1>3, <2>2 DEF OnTrack
<1> QED
  BY <1>1, <1>4, <1>5 DEF TrackInv

LEMMA AcceptGetStatus == ASSUME IInv, AcceptInv, GetStatus PROVE AcceptInv'
<1> USE DEF IInv, AcceptInv
<1>1. StartStep /\ Starting /\ AloneInv'
  BY StartSteps, AloneStart
<1>2. (Fault \/ UNCHANGED faults) /\ UNCHANGED <<fd, card, state, rca>> /\ pc["manager"] = "getStatus"
  BY DEF GetStatus
<1>3. \/ pc'["manager"] = "ended"
      \/ fd /\ pc'["manager"] \in {"busWidth", "reopen"}
  BY DEF GetStatus, Finish, Goto, TypeOK, Threads
<1>4. OpenInv'
  BY <1>2, <1>3 DEF OpenInv
<1>5. ASSUME Undisturbed' PROVE OnTrack'
  <2>1. fd /\ ~Fault /\ card \in Usable /\ OnTrack
    BY <1>1, <1>2, <1>5, StillUndisturbed DEF Undisturbed
  <2>2. card # NoCard
    BY <2>1, CardAssumption DEF Usable
  <2>3. (accepted <=> card \in Known) /\ (card \in Known => state = "stby" /\ rca)
    BY <1>2, <2>1 DEF OnTrack, Unpowered, Powered, Addressed, Selected
  <2>4. CASE accepted
    <3>1. pc'["manager"] = "busWidth"
      BY <2>1, <2>2, <2>4 DEF GetStatus, Goto, TypeOK, Threads
    <3>2. Passes'
      BY <2>4 DEF GetStatus, Passes
    <3> QED
      BY <1>2, <2>3, <2>4, <3>1, <3>2 DEF OnTrack, Addressed
  <2>5. CASE ~accepted
    <3>1. pc'["manager"] = "reopen"
      BY <2>1, <2>2, <2>5 DEF GetStatus, Goto, TypeOK, Threads
    <3> QED
      BY <1>2, <2>3, <2>5, <3>1 DEF OnTrack, Unpowered
  <2> QED
    BY <2>4, <2>5
<1> QED
  BY <1>1, <1>4, <1>5 DEF TrackInv

LEMMA AcceptReopen == ASSUME IInv, AcceptInv, Reopen PROVE AcceptInv'
<1> USE DEF IInv, AcceptInv
<1>1. StartStep /\ Starting /\ AloneInv'
  BY StartSteps, AloneStart
<1>2. /\ (fd' = TRUE /\ UNCHANGED faults) \/ Fault
      /\ pc["manager"] \in {"reopen", "failReopen"} /\ card' = card
  BY DEF Reopen
<1>3. faults' = 0 => faults = 0 /\ fd' = TRUE /\ fd
  BY <1>1, <1>2, NoFault DEF OpenInv
<1>4. OpenInv'
  BY <1>3 DEF OpenInv
<1>5. ASSUME Undisturbed' PROVE OnTrack'
  <2>1. faults = 0 /\ fd /\ fd' = fd
    BY <1>3, <1>5 DEF Undisturbed
  <2>2. OnTrack
    BY <1>1, <1>2, <1>5, <2>1, StillUndisturbed
  <2>3. pc["manager"] = "reopen" /\ card \notin Known
    BY <1>2, <2>2 DEF OnTrack, Unpowered, Powered, Addressed, Selected
  <2>4. pc'["manager"] = "hostReset"
    BY <2>3 DEF Reopen, Goto, TypeOK, Threads
  <2> QED
    BY <1>2, <2>3, <2>4 DEF OnTrack, Unpowered
<1> QED
  BY <1>1, <1>4, <1>5 DEF TrackInv

LEMMA AcceptOpCond == ASSUME IInv, AcceptInv, OpCond PROVE AcceptInv'
<1> USE DEF IInv, AcceptInv
<1>1. StartStep /\ Starting /\ AloneInv'
  BY StartSteps, AloneStart
<1>2. (Fault \/ UNCHANGED faults) /\ UNCHANGED <<fd, card>> /\ pc["manager"] = "opCond"
  BY DEF OpCond
<1>3. OpenInv'
  BY <1>1, <1>2, NoFault DEF OpenInv
<1>4. ASSUME Undisturbed' PROVE OnTrack'
  <2>1. fd /\ ~Fault /\ card \in Usable /\ OnTrack
    BY <1>1, <1>2, <1>4, StillUndisturbed DEF Undisturbed
  <2>2. card \notin Known /\ state = "idle" /\ sdhc
    BY <1>2, <2>1 DEF OnTrack, Unpowered, Powered, Addressed, Selected
  <2>3. ~Exhausted(tries) /\ tries # -1 /\ card \notin Slow /\ Polled
    BY <2>1, <2>2, CardAssumption DEF TypeOK, Exhausted, Usable, Polled, Passes
  <2>4. \/ Goto("manager", "appCmd") /\ UNCHANGED <<state, sdhc>>
        \/ Goto("manager", "cid") /\ state' = "ready" /\ sdhc' = Capacity
    BY <2>1, <2>2, <2>3 DEF OpCond
  <2>5. \/ pc'["manager"] = "appCmd" /\ state' = "idle" /\ sdhc'
        \/ pc'["manager"] = "cid" /\ state' = "ready" /\ sdhc' = Capacity
    BY <2>2, <2>4 DEF Goto, TypeOK, Threads
  <2>6. sdhc' = Capacity => Passes'
    BY <1>2, <2>1, <2>2 DEF Capacity, Passes, Usable
  <2> QED
    BY <1>2, <2>2, <2>5, <2>6 DEF OnTrack, Powered
<1> QED
  BY <1>1, <1>3, <1>4 DEF TrackInv

(* A read or write beside a start is no part of a clean one. *)
LEMMA AcceptBeside ==
  ASSUME IInv, AcceptInv, NEW t \in Threads, IOStep(t), Fault \/ UNCHANGED faults, UNCHANGED fd
  PROVE  AcceptInv'
<1> USE DEF IInv, AcceptInv
<1>1. pc[t] \in IOSteps /\ UNCHANGED <<call, clean>> /\ \A u \in Threads \ {t} : pc'[u] = pc[u]
  BY DEF IOStep, Goto, TypeOK
<1>2. CASE t = "manager"
  <2>1. call'["manager"] # Startup
    BY <1>1, <1>2, NoRequests DEF CallInv
  <2> QED
    BY <2>1 DEF Starting, AloneInv, OpenInv, TrackInv, Undisturbed
<1>3. CASE t = "sdio"
  <2>1. pc'["manager"] = pc["manager"] /\ Starting' = Starting /\ ~Idle("sdio")
    BY <1>1, <1>3, StepsApart DEF Threads, Starting, Idle
  <2>2. ~(Starting' /\ "manager" \in clean')
    BY <1>1, <2>1 DEF AloneInv
  <2>3. OpenInv'
    BY <2>1, NoFault DEF OpenInv
  <2> QED
    BY <2>2, <2>3 DEF AloneInv, TrackInv, Undisturbed
<1> QED
  BY <1>2, <1>3 DEF Threads

LEMMA AcceptEndSelection ==
  ASSUME IInv, AcceptInv, NEW t \in Threads, EndSelection(t)
  PROVE  AcceptInv'
<1> USE DEF IInv, AcceptInv
<1>1. (Fault \/ UNCHANGED faults) /\ UNCHANGED <<fd, card>>
  BY DEF EndSelection, Deselect, faultVars, driverVars
<1>2. CASE t = "manager" /\ StartStep
  <2>1. Starting /\ AloneInv'
    BY <1>2, AloneStart
  <2>2. pc["manager"] \in {"deselect", "dropSelect"}
    BY <1>2, StepsApart DEF EndSelection, StartStep, IOSteps
  <2>3. OpenInv'
    BY <1>1, <2>1, <2>2, NoFault DEF OpenInv
  <2>4. ASSUME Undisturbed' PROVE OnTrack'
    <3>1. OnTrack
      BY <1>1, <1>2, <2>1, <2>4, StillUndisturbed
    <3>2. pc["manager"] = "deselect"
      BY <2>2, <3>1 DEF OnTrack, Unpowered, Powered, Addressed, Selected
    <3>3. pc'["manager"] = "ended" /\ result'["manager"] = "ok"
      BY <1>2, <3>2 DEF EndSelection, Finish, Goto, TypeOK, Threads
    <3> QED
      BY <3>3 DEF OnTrack
  <2> QED
    BY <2>1, <2>3, <2>4 DEF TrackInv
<1>3. CASE IOStep(t)
  BY <1>1, <1>3, AcceptBeside
<1> QED
  BY <1>2, <1>3, EndSelectionSteps

LEMMA AcceptIO ==
  ASSUME IInv, AcceptInv, NEW t \in Threads, IOSelect(t) \/ Command(t) \/ Copy(t)
  PROVE  AcceptInv'
<1>1. Fault \/ UNCHANGED faults
  BY DEF IOSelect, Command, Copy, Fails, faultVars
<1>2. UNCHANGED fd
  BY DEF IOSelect, Command, Copy, driverVars
<1> QED
  BY <1>1, <1>2, IOStepsAre, AcceptBeside

LEMMA AcceptBegin ==
  ASSUME IInv, AcceptInv, BeginStart \/ \E t \in Threads, c \in Requests : BeginIO(t, c)
  PROVE  AcceptInv'
<1> USE DEF IInv, AcceptInv
<1>1. CASE BeginStart
  <2>1. Begin("manager", Startup, "resetCard") /\ "resetCard" \in InitSteps
    BY <1>1 DEF BeginStart, InitSteps
  <2>2. pc'["manager"] = "resetCard" /\ pc'["sdio"] = pc["sdio"]
    BY <2>1, BeginCall DEF Threads
  <2>3. "manager" \in clean' => Idle("sdio")
    BY <1>1 DEF BeginStart
  <2> QED
    BY <2>2, <2>3 DEF AloneInv, OpenInv, TrackInv, OnTrack, Idle
<1>2. CASE \E t \in Threads, c \in Requests : BeginIO(t, c)
  <2>1. PICK t \in Threads, c \in Requests : BeginIO(t, c)
    BY <1>2
  <2>2. Begin(t, c, "ioSelect") /\ "ioSelect" \in IOSteps
    BY <2>1 DEF BeginIO, IOSteps
  <2>3. call'[t] = c /\ \A u \in Threads \ {t} : pc'[u] = pc[u] /\ call'[u] = call[u]
    BY <2>2, BeginCall
  <2>4. CASE t = "manager"
    <3>1. ~Starting'
      BY <2>3, <2>4, NoRequests DEF Starting
    <3> QED
      BY <3>1 DEF AloneInv, OpenInv, TrackInv, Undisturbed
  <2>5. CASE t = "sdio"
    <3>1. Starting' = Starting /\ pc'["manager"] = pc["manager"]
      BY <2>3, <2>5 DEF Threads, Starting, Idle
    <3>2. Starting => clean' = {}
      BY <2>1 DEF BeginIO
    <3>3. UNCHANGED <<fd, faults>>
      BY <2>2 DEF Begin, driverVars, faultVars
    <3> QED
      BY <3>1, <3>2, <3>3 DEF AloneInv, OpenInv, TrackInv, Undisturbed
  <2> QED
    BY <2>4, <2>5 DEF Threads
<1> QED
  BY <1>1, <1>2

LEMMA AcceptEnd == ASSUME IInv, AcceptInv, NEW t \in Threads, End(t) PROVE AcceptInv'
<1> USE DEF IInv, AcceptInv
<1>1. /\ pc'[t] = "idle"
      /\ \A u \in Threads \ {t} : pc'[u] = pc[u] /\ call'[u] = call[u] /\ result'[u] = result[u]
  BY EndInv
<1>2. clean' = clean \cup {t} /\ UNCHANGED <<fd, rca, sdhc, card, state, accepted, faults>>
  BY DEF End, driverVars, faultVars
<1>3. CASE t = "manager"
  <2>1. ~Starting'
    BY <1>1, <1>3 DEF Starting, Idle
  <2> QED
    BY <2>1 DEF AloneInv, OpenInv, TrackInv, Undisturbed
<1>4. CASE t = "sdio"
  <2>1. /\ Starting' = Starting /\ pc'["manager"] = pc["manager"] /\ Idle("sdio")'
        /\ result'["manager"] = result["manager"]
        /\ "manager" \in clean' <=> "manager" \in clean
    BY <1>1, <1>2, <1>4 DEF Threads, Starting, Idle
  <2>2. Undisturbed' => Undisturbed
    BY <1>2, <2>1 DEF Undisturbed
  <2>3. OnTrack => OnTrack'
    BY <1>2, <2>1 DEF OnTrack, Passes
  <2> QED
    BY <1>2, <2>1, <2>2, <2>3 DEF AloneInv, OpenInv, TrackInv
<1> QED
  BY <1>3, <1>4 DEF Threads

LEMMA AcceptMove == ASSUME IInv, AcceptInv, Eject \/ MoveCard PROVE AcceptInv'
<1> USE DEF IInv, AcceptInv
<1>1. UNCHANGED <<pc, call>>
  BY DEF Eject, MoveCard, callVars
<1>2. CASE Eject
  <2>1. ~Starting'
    BY <1>1, <1>2 DEF Eject, Starting, Idle
  <2> QED
    BY <2>1 DEF AloneInv, OpenInv, TrackInv, Undisturbed
<1>3. CASE MoveCard
  <2>1. Starting' = Starting /\ (Starting => "manager" \notin clean')
    BY <1>1, <1>3 DEF MoveCard, Starting, Idle
  <2>2. UNCHANGED <<fd, faults>>
    BY <1>3 DEF MoveCard, driverVars, faultVars
  <2> QED
    BY <1>1, <2>1, <2>2 DEF AloneInv, OpenInv, TrackInv, Undisturbed
<1> QED
  BY <1>2, <1>3

LEMMA AcceptNext == IInv /\ AcceptInv /\ [Next]_vars => AcceptInv'
<1> SUFFICES ASSUME IInv, AcceptInv, [Next]_vars PROVE AcceptInv'
  OBVIOUS
<1>1. CASE ResetCard \/ GetStatus \/ Reopen \/ OpCond
  BY <1>1, AcceptResetCard, AcceptGetStatus, AcceptReopen, AcceptOpCond
<1>2. CASE \E p \in DOMAIN After : InitStep(p)
  BY <1>2, AcceptInitStep
<1>3. CASE BeginStart \/ \E t \in Threads, c \in Requests : BeginIO(t, c)
  BY <1>3, AcceptBegin
<1>4. CASE Eject \/ MoveCard
  BY <1>4, AcceptMove
<1>5. CASE \E t \in Threads : EndSelection(t)
  BY <1>5, AcceptEndSelection
<1>6. CASE \E t \in Threads : IOSelect(t) \/ Command(t) \/ Copy(t)
  BY <1>6, AcceptIO
<1>7. CASE \E t \in Threads : End(t)
  BY <1>7, AcceptEnd
<1>8. CASE UNCHANGED vars
  BY <1>8 DEF vars, driverVars, handleVars, callVars, faultVars, AcceptInv, AloneInv, OpenInv,
              TrackInv, Undisturbed, OnTrack, Passes, Starting, Idle
<1> QED
  BY <1>1, <1>2, <1>3, <1>4, <1>5, <1>6, <1>7, <1>8 DEF Next

(* A start that nothing disturbs fails for no card that IOS knows, nor for *)
(* another of high capacity that is ready in time, nor for one of version  *)
(* 2 whose commands IOS passes on by ioctl as well (lines 442-530).        *)
THEOREM StartAccepts == Spec => CardAccepted
<1>1. Init => AcceptInv
  BY NoRequests DEF Init, AcceptInv, AloneInv, OpenInv, TrackInv, Undisturbed, Starting, Idle, Threads
<1>2. AcceptInv /\ [Next]_vars =>
        [Starting /\ pc["manager"] = "ended" /\ result["manager"] = "failed"
           /\ "manager" \in clean /\ faults = 0 /\ Idle("manager")' =>
           ~fd \/ card \notin Usable]_vars
  BY DEF AcceptInv, TrackInv, Undisturbed, OnTrack, Unpowered, Powered, Addressed, Selected
<1>3. Spec => []AcceptInv
  BY <1>1, AcceptNext, Invariance, PTL DEF Spec
<1> QED
  BY <1>2, <1>3, PTL DEF Spec, CardAccepted

-----------------------------------------------------------------------------
(* Every call comes to its end. *)

(* The steps of a call count down, but for those that are repeated: the    *)
(* two of a poll of the card, and the two of a chunk.                      *)
StepNo ==
  [resetCard |-> 29, getStatus |-> 28, reopen |-> 27, hostReset |-> 26, waitReset |-> 25,
   interrupts |-> 24, power |-> 23, clock |-> 22, waitClock |-> 21, clockOn |-> 20,
   timeout |-> 19, goIdle |-> 18, ifCond |-> 17, appCmd |-> 16, opCond |-> 15, cid |-> 14,
   rca |-> 13, busWidth |-> 12, setClock |-> 11, select |-> 10, blockLen |-> 9,
   appWidth |-> 8, setWidth |-> 7, deselect |-> 6, dropSelect |-> 5, failReset |-> 4,
   failWait |-> 3, failReopen |-> 2,
   ioSelect |-> 3, command |-> 2, copy |-> 1, ioDeselect |-> 2, ended |-> 1, idle |-> 0]

BeforePolls == {"resetCard", "getStatus", "reopen", "hostReset", "waitReset", "interrupts",
                "power", "clock", "waitClock", "clockOn", "timeout", "goIdle", "ifCond"}
Polling == {"appCmd", "opCond"}
BeforeEnd == {"ioSelect", "command", "copy"}

Repeats(t) ==
  IF pc[t] \in BeforePolls THEN OpCondTries
  ELSE IF pc[t] \in Polling THEN tries
  ELSE IF pc[t] \in BeforeEnd THEN call[t].n - done[t]
  ELSE 0

StepsLeft(t) == 2 * Repeats(t) + StepNo[pc[t]]

AnyStart ==
  ResetCard \/ GetStatus \/ Reopen \/ OpCond \/ \E p \in DOMAIN After : InitStep(p)

StepOf(t) ==
  \/ t = "manager" /\ AnyStart
  \/ EndSelection(t) \/ IOSelect(t) \/ Command(t) \/ Copy(t) \/ End(t)

CallGetsOn ==
  \A t \in Threads : ~Idle(t) =>
    /\ StepsLeft(t) \in Nat /\ StepsLeft(t)' \in Nat
    /\ StepOf(t) => StepsLeft(t)' < StepsLeft(t)
    /\ ~StepOf(t) => pc'[t] = pc[t] /\ StepsLeft(t)' = StepsLeft(t)

(* A transfer has a chunk to move when it issues a command. *)
ChunkInv ==
  \A t \in Threads :
    /\ pc[t] = "ioSelect" => done[t] = 0
    /\ pc[t] \in {"command", "copy"} => done[t] < call[t].n

LEMMA StepNumbers ==
  /\ \A p \in InitSteps \cup IOSteps \cup {"idle", "ended"} : StepNo[p] \in 0 .. 29
  /\ StepNo' = StepNo
<1>1. InitSteps \cup IOSteps \cup {"idle", "ended"} = DOMAIN StepNo
  BY AfterSteps DEF InitSteps, IOSteps, StepNo
<1>2. \A p \in DOMAIN StepNo : StepNo[p] \in 0 .. 29
  BY DEF StepNo
<1> QED
  BY <1>1, <1>2 DEF StepNo

(* The initialisation only goes forward. *)
LEMMA InitGoesForward ==
  ASSUME NEW p \in DOMAIN After
  PROVE  /\ StepNo[After[p]] < StepNo[p]
         /\ IF Failing(p) = "refused" THEN StepNo["ended"] < StepNo[p]
            ELSE StepNo[Failing(p)] < StepNo[p]
         /\ p \notin BeforePolls => After[p] \notin BeforePolls
         /\ Failing(p) \notin BeforePolls \/ p \in BeforePolls
         /\ p \notin BeforePolls \cup Polling =>
              After[p] \notin Polling /\ Failing(p) \notin Polling
         /\ After[p] \notin BeforeEnd /\ Failing(p) \notin BeforeEnd
<1> USE DEF After, StepNo, BeforePolls, Polling, BeforeEnd
<1>1. StepNo[After[p]] < StepNo[p]
  BY AfterSteps
<1>2. IF Failing(p) = "refused" THEN StepNo["ended"] < StepNo[p]
      ELSE StepNo[Failing(p)] < StepNo[p]
  BY AfterSteps DEF Failing, Selected
<1> QED
  BY AfterSteps, <1>1, <1>2 DEF Failing, Selected

LEMMA LeftType ==
  ASSUME TypeOK, NEW t \in Threads
  PROVE  Repeats(t) \in Nat /\ StepNo[pc[t]] \in 0 .. 29 /\ StepsLeft(t) \in Nat
<1>1. OpCondTries \in Nat /\ tries \in Nat
  BY CardAssumption DEF TypeOK
<1>2. call[t].n \in Nat /\ done[t] \in Nat /\ done[t] <= call[t].n
  BY RequestType DEF TypeOK, Startup, NoCall
<1>3. Repeats(t) \in Nat
  BY <1>1, <1>2 DEF Repeats
<1>4. StepNo[pc[t]] \in 0 .. 29
  BY StepNumbers DEF TypeOK
<1> QED
  BY <1>3, <1>4 DEF StepsLeft

LEMMA LeftTypeNext ==
  ASSUME TypeOK', NEW t \in Threads
  PROVE  Repeats(t)' \in Nat /\ StepNo[pc'[t]] \in 0 .. 29
         /\ StepsLeft(t)' = 2 * Repeats(t)' + StepNo[pc'[t]] /\ StepsLeft(t)' \in Nat
<1>1. OpCondTries \in Nat /\ tries' \in Nat
  BY CardAssumption DEF TypeOK
<1>2. call'[t].n \in Nat /\ done'[t] \in Nat /\ done'[t] <= call'[t].n
  BY RequestType DEF TypeOK, Startup, NoCall
<1>3. Repeats(t)' \in Nat
  BY <1>1, <1>2 DEF Repeats
<1>4. StepNo[pc'[t]] \in 0 .. 29
  BY StepNumbers DEF TypeOK
<1>5. StepsLeft(t)' = 2 * Repeats(t)' + StepNo[pc'[t]]
  BY StepNumbers DEF StepsLeft
<1> QED
  BY <1>3, <1>4, <1>5

(* A later step that is repeated no more often, or fewer repeats.          *)
LEMMA Nearer ==
  ASSUME TypeOK, TypeOK', NEW t \in Threads,
         \/ Repeats(t)' <= Repeats(t) /\ StepNo[pc'[t]] < StepNo[pc[t]]
         \/ Repeats(t)' < Repeats(t) /\ StepNo[pc'[t]] < StepNo[pc[t]] + 2
  PROVE  StepsLeft(t)' < StepsLeft(t)
<1>1. Repeats(t) \in Nat /\ StepNo[pc[t]] \in 0 .. 29
  BY LeftType
<1>2. /\ Repeats(t)' \in Nat /\ StepNo[pc'[t]] \in 0 .. 29
      /\ StepsLeft(t)' = 2 * Repeats(t)' + StepNo[pc'[t]]
  BY LeftTypeNext
<1>3. StepsLeft(t) = 2 * Repeats(t) + StepNo[pc[t]]
  BY DEF StepsLeft
<1>4. ASSUME NEW a \in Nat, NEW b \in Nat, NEW i \in 0 .. 29, NEW j \in 0 .. 29,
             (b <= a /\ j < i) \/ (b < a /\ j < i + 2)
      PROVE  2 * b + j < 2 * a + i
  BY <1>4
<1> QED
  BY <1>1, <1>2, <1>3, <1>4, Zenon
(* The steps of a start. *)
LEMMA InitStepGetsOn ==
  ASSUME IInv, IInv', NEW p \in DOMAIN After, InitStep(p)
  PROVE  StepsLeft("manager")' < StepsLeft("manager")
<1>1. TypeOK /\ TypeOK' /\ "manager" \in Threads
  BY DEF IInv, Threads
<1>2. PICK q : /\ pc' = [pc EXCEPT !["manager"] = q]
               /\ \/ q = After[p]
                  \/ q = "ended" /\ Failing(p) = "refused"
                  \/ q = Failing(p) /\ Failing(p) # "refused"
  <2>1. CASE Goto("manager", After[p])
    BY <2>1, Zenon DEF Goto
  <2>2. CASE Failing(p) = "refused" /\ Goto("manager", "ended")
    BY <2>2, Zenon DEF Goto
  <2>3. CASE Failing(p) # "refused" /\ Goto("manager", Failing(p))
    BY <2>3, Zenon DEF Goto
  <2> QED
    BY <2>1, <2>2, <2>3, Zenon DEF InitStep, Finish
<1>3. pc["manager"] = p /\ pc'["manager"] = q
  BY <1>1, <1>2 DEF InitStep, TypeOK
<1>4. StepNo[q] < StepNo[p]
  BY <1>2, InitGoesForward
<1>5. OpCondTries \in Nat \ {0} /\ tries \in 0 .. OpCondTries - 1
  BY CardAssumption DEF IInv, TypeOK
<1>6. tries' = IF q = "appCmd" THEN OpCondTries - 1 ELSE IF q = "opCond" THEN tries ELSE 0
  BY <1>3 DEF InitStep
<1>7. /\ q \notin BeforeEnd
      /\ p \notin BeforePolls => q \notin BeforePolls
      /\ p \notin BeforePolls \cup Polling => q \notin Polling
      /\ p = "appCmd" => q \in {"opCond", "failReset"}
  BY <1>2, InitGoesForward DEF BeforePolls, Polling, BeforeEnd, After, Failing, Selected
<1>8. Repeats("manager") = IF p \in BeforePolls THEN OpCondTries
                           ELSE IF p \in Polling THEN tries ELSE 0
  BY <1>3, AfterSteps DEF Repeats, BeforeEnd
<1>9. Repeats("manager")' = IF q \in BeforePolls THEN OpCondTries
                            ELSE IF q \in Polling THEN tries' ELSE 0
  BY <1>3, <1>7 DEF Repeats, BeforeEnd, BeforePolls, Polling
<1>10. Repeats("manager")' <= Repeats("manager")
  BY <1>5, <1>6, <1>7, <1>8, <1>9, AfterSteps DEF Polling
<1> QED
  BY <1>1, <1>3, <1>4, <1>10, Nearer

LEMMA StartGetsOn ==
  ASSUME IInv, IInv', ResetCard \/ GetStatus \/ Reopen \/ OpCond
  PROVE  StepsLeft("manager")' < StepsLeft("manager")
<1>1. TypeOK /\ TypeOK' /\ "manager" \in Threads
  BY DEF IInv, Threads
<1>2. OpCondTries \in Nat \ {0} /\ tries \in 0 .. OpCondTries - 1
  BY CardAssumption DEF IInv, TypeOK
<1> USE DEF Repeats, BeforePolls, Polling, BeforeEnd, StepNo
<1>3. CASE ResetCard
  <2>1. pc["manager"] = "resetCard" /\ pc'["manager"] = "getStatus"
    BY <1>1, <1>3 DEF ResetCard, Goto, TypeOK
  <2> QED
    BY <1>1, <1>2, <2>1, Nearer
<1>4. CASE GetStatus
  <2>1. pc["manager"] = "getStatus" /\ pc'["manager"] \in {"ended", "busWidth", "reopen"}
    BY <1>1, <1>4 DEF GetStatus, Goto, Finish, TypeOK
  <2> QED
    BY <1>1, <1>2, <2>1, Nearer
<1>5. CASE Reopen
  <2>1. \/ pc["manager"] = "reopen" /\ pc'["manager"] = "hostReset"
        \/ pc["manager"] = "failReopen" /\ pc'["manager"] = "ended"
    BY <1>1, <1>5 DEF Reopen, Goto, Finish, TypeOK
  <2> QED
    BY <1>1, <1>2, <2>1, Nearer
<1>6. CASE OpCond
  <2>1. /\ pc["manager"] = "opCond"
        /\ \/ pc'["manager"] = "appCmd" /\ tries > 0 /\ tries' = tries - 1
           \/ pc'["manager"] \in {"cid", "failReset"} /\ tries' = 0
    BY <1>1, <1>6 DEF OpCond, Goto, Again, TypeOK
  <2>2. CASE pc'["manager"] = "appCmd" /\ tries > 0 /\ tries' = tries - 1
    BY <1>1, <1>2, <2>1, <2>2, Nearer
  <2>3. CASE pc'["manager"] \in {"cid", "failReset"} /\ tries' = 0
    BY <1>1, <1>2, <2>1, <2>3, Nearer
  <2> QED
    BY <2>1, <2>2, <2>3
<1> QED
  BY <1>3, <1>4, <1>5, <1>6

(* A chunk that is done was at least a sector. *)
LEMMA AdvanceGetsOn ==
  ASSUME IInv, NEW t \in Threads, call[t] \in Requests, done[t] < call[t].n,
         NEW r, Advance(t, r), UNCHANGED call
  PROVE  /\ done' = [done EXCEPT ![t] = done'[t]] /\ call'[t] = call[t]
         /\ done[t] \in Nat /\ done'[t] \in Nat /\ call[t].n \in Nat
         /\ done[t] < done'[t] /\ done'[t] <= call[t].n
         /\ pc' = [pc EXCEPT ![t] = pc'[t]]
         /\ \/ pc'[t] = "command" /\ done'[t] < call[t].n
            \/ pc'[t] = "ioDeselect"
<1>1. /\ done[t] \in Nat /\ call[t].n \in Nat /\ TypeOK
  BY RequestType DEF IInv, TypeOK
<1>2. Chunk(t) \in Nat /\ Chunk(t) # 0 /\ done[t] + Chunk(t) <= call[t].n
  BY <1>1, ChunkType DEF Chunk
<1>3. done' = [done EXCEPT ![t] = done[t] + Chunk(t)]
  BY DEF Advance
<1>4. done'[t] = done[t] + Chunk(t)
  BY <1>1, <1>3 DEF TypeOK
<1>5. pc' = [pc EXCEPT ![t] = IF done[t] + Chunk(t) < call[t].n THEN "command" ELSE "ioDeselect"]
  BY DEF Advance, Goto
<1>6. pc'[t] = IF done[t] + Chunk(t) < call[t].n THEN "command" ELSE "ioDeselect"
  BY <1>1, <1>5 DEF TypeOK
<1>7. done' = [done EXCEPT ![t] = done'[t]] /\ pc' = [pc EXCEPT ![t] = pc'[t]]
  BY <1>3, <1>4, <1>5, <1>6, Zenon
<1>8. done[t] < done'[t] /\ done'[t] \in Nat /\ done'[t] <= call[t].n
  BY <1>1, <1>2, <1>4
<1>9. (pc'[t] = "command" /\ done'[t] < call[t].n) \/ pc'[t] = "ioDeselect"
  BY <1>4, <1>6
<1> QED
  BY <1>1, <1>7, <1>8, <1>9

(* The steps of a transfer, and where it and a start end.                  *)
LEMMA TransferGetsOn ==
  ASSUME IInv, IInv', ChunkInv, NEW t \in Threads,
         EndSelection(t) \/ IOSelect(t) \/ Command(t) \/ Copy(t) \/ End(t)
  PROVE  /\ StepsLeft(t)' < StepsLeft(t)
         /\ pc'[t] \in {"command", "copy"} => done'[t] < call'[t].n
         /\ pc'[t] # "ioSelect"
         /\ \A u \in Threads \ {t} :
              pc'[u] = pc[u] /\ call'[u] = call[u] /\ done'[u] = done[u] /\ tries' = tries
<1>1. TypeOK /\ TypeOK' /\ CallInv /\ call[t].n \in Nat /\ done[t] \in Nat /\ done[t] <= call[t].n
  BY RequestType DEF IInv, TypeOK, Startup, NoCall
<1>2. pc[t] \in IOSteps => call[t] \in Requests
  BY <1>1 DEF CallInv
<1> USE DEF BeforePolls, Polling, BeforeEnd, StepNo
<1>3. CASE EndSelection(t)
  <2>1. /\ pc[t] \in {"deselect", "dropSelect", "ioDeselect"} /\ pc'[t] = "ended"
        /\ pc' = [pc EXCEPT ![t] = "ended"] /\ UNCHANGED <<call, done, tries>>
    BY <1>1, <1>3 DEF EndSelection, Goto, Finish, TypeOK, driverVars
  <2>2. StepsLeft(t)' < StepsLeft(t)
    BY <1>1, <2>1, Nearer DEF Repeats
  <2> QED
    BY <1>1, <2>1, <2>2 DEF TypeOK
<1>4. CASE IOSelect(t)
  <2>1. /\ pc[t] = "ioSelect" /\ pc'[t] \in {"command", "ended"}
        /\ pc' = [pc EXCEPT ![t] = pc'[t]] /\ UNCHANGED <<call, done, tries>>
    BY <1>1, <1>4 DEF IOSelect, Goto, Finish, TypeOK, driverVars
  <2>2. call[t].n \in Nat \ {0} /\ done[t] = 0
    BY <1>2, <2>1, RequestType DEF IOSteps, ChunkInv
  <2>3. StepsLeft(t)' < StepsLeft(t)
    BY <1>1, <2>1, <2>2, Nearer DEF Repeats
  <2> QED
    BY <1>1, <2>1, <2>2, <2>3 DEF TypeOK
<1>5. CASE Command(t)
  <2>1. /\ pc[t] = "command" /\ call[t] \in Requests /\ done[t] < call[t].n
        /\ UNCHANGED <<call, tries>>
    BY <1>2, <1>5 DEF Command, IOSteps, ChunkInv, driverVars
  <2>2. CASE \E r : Advance(t, r)
    <3>1. PICK r : Advance(t, r)
      BY <2>2
    <3>2. /\ done' = [done EXCEPT ![t] = done'[t]] /\ call'[t] = call[t]
          /\ done'[t] \in Nat /\ done[t] < done'[t] /\ done'[t] <= call[t].n
          /\ pc' = [pc EXCEPT ![t] = pc'[t]]
          /\ \/ pc'[t] = "command" /\ done'[t] < call[t].n
             \/ pc'[t] = "ioDeselect"
      BY <2>1, <3>1, AdvanceGetsOn
    <3>3. StepsLeft(t)' < StepsLeft(t)
      BY <1>1, <2>1, <3>2, Nearer DEF Repeats
    <3> QED
      BY <1>1, <2>1, <3>2, <3>3 DEF TypeOK
  <2>3. CASE pc' = [pc EXCEPT ![t] = "copy"] /\ UNCHANGED done
    <3>1. pc'[t] = "copy"
      BY <1>1, <2>3 DEF TypeOK
    <3>2. StepsLeft(t)' < StepsLeft(t)
      BY <1>1, <2>1, <2>3, <3>1, Nearer DEF Repeats
    <3> QED
      BY <1>1, <2>1, <2>3, <3>1, <3>2 DEF TypeOK
  <2>4. CASE pc' = [pc EXCEPT ![t] = "ioDeselect"] /\ UNCHANGED done
    <3>1. pc'[t] = "ioDeselect"
      BY <1>1, <2>4 DEF TypeOK
    <3>2. StepsLeft(t)' < StepsLeft(t)
      BY <1>1, <2>1, <2>4, <3>1, Nearer DEF Repeats
    <3> QED
      BY <1>1, <2>1, <2>4, <3>1, <3>2 DEF TypeOK
  <2> QED
    BY <1>5, <2>2, <2>3, <2>4 DEF Command, MoveChunk, Goto
<1>6. CASE Copy(t)
  <2>1. /\ pc[t] = "copy" /\ call[t] \in Requests /\ done[t] < call[t].n
        /\ UNCHANGED <<call, tries>>
    BY <1>2, <1>6 DEF Copy, IOSteps, ChunkInv, driverVars
  <2>2. /\ done' = [done EXCEPT ![t] = done'[t]] /\ call'[t] = call[t]
        /\ done'[t] \in Nat /\ done[t] < done'[t] /\ done'[t] <= call[t].n
        /\ pc' = [pc EXCEPT ![t] = pc'[t]]
        /\ \/ pc'[t] = "command" /\ done'[t] < call[t].n
           \/ pc'[t] = "ioDeselect"
    BY <1>6, <2>1, AdvanceGetsOn DEF Copy
  <2>3. StepsLeft(t)' < StepsLeft(t)
    BY <1>1, <2>1, <2>2, Nearer DEF Repeats
  <2> QED
    BY <1>1, <2>1, <2>2, <2>3 DEF TypeOK
<1>7. CASE End(t)
  <2>1. /\ pc[t] = "ended" /\ pc' = [pc EXCEPT ![t] = "idle"]
        /\ call' = [call EXCEPT ![t] = NoCall] /\ done' = [done EXCEPT ![t] = 0]
        /\ UNCHANGED tries
    BY <1>7 DEF End, Goto, driverVars
  <2>2. pc'[t] = "idle"
    BY <1>1, <2>1 DEF TypeOK
  <2>3. StepsLeft(t)' < StepsLeft(t)
    BY <1>1, <2>1, <2>2, Nearer DEF Repeats
  <2> QED
    BY <1>1, <2>1, <2>2, <2>3 DEF TypeOK
<1> QED
  BY <1>3, <1>4, <1>5, <1>6, <1>7

(* What the other steps leave to a thread in a call. *)
LEMMA LeftAlone ==
  ASSUME IInv, IInv', ChunkInv, [Next]_vars, NEW t \in Threads, ~Idle(t), ~StepOf(t)
  PROVE  /\ pc'[t] = pc[t] /\ call'[t] = call[t] /\ done'[t] = done[t]
         /\ tries' = tries \/ pc[t] \notin Polling
<1>1. TypeOK /\ CallInv
  BY DEF IInv
<1>2. CASE AnyStart
  <2>1. t # "manager"
    BY <1>2 DEF StepOf, AnyStart
  <2>2. pc[t] \notin Polling
    BY <1>1, <2>1 DEF CallInv, Polling, InitSteps, After
  <2>3. StartStep
    BY <1>2, StartSteps DEF AnyStart
  <2> QED
    BY <1>1, <2>1, <2>2, <2>3 DEF StartStep, Goto, TypeOK
<1>3. CASE \E u \in Threads : EndSelection(u) \/ IOSelect(u) \/ Command(u) \/ Copy(u) \/ End(u)
  <2>1. PICK u \in Threads : EndSelection(u) \/ IOSelect(u) \/ Command(u) \/ Copy(u) \/ End(u)
    BY <1>3
  <2>2. u # t
    BY <2>1 DEF StepOf
  <2> QED
    BY <2>1, <2>2, TransferGetsOn
<1>4. CASE BeginStart \/ \E u \in Threads, c \in Requests : BeginIO(u, c)
  <2>1. PICK u \in Threads : \E c, p : Begin(u, c, p)
    BY <1>4 DEF BeginStart, BeginIO, Threads
  <2>2. u # t
    BY <2>1 DEF Begin
  <2> QED
    BY <1>1, <2>1, <2>2 DEF Begin, Goto, TypeOK, driverVars
<1>5. CASE Eject \/ MoveCard \/ UNCHANGED vars
  BY <1>5 DEF Eject, MoveCard, vars, driverVars, callVars
<1> QED
  BY <1>2, <1>3, <1>4, <1>5 DEF Next, AnyStart

LEMMA ChunkInvStep ==
  ASSUME IInv, IInv', ChunkInv, [Next]_vars
  PROVE  ChunkInv'
<1>1. TypeOK /\ CallInv
  BY DEF IInv
<1>2. SUFFICES ASSUME NEW t \in Threads
               PROVE  /\ pc'[t] = "ioSelect" => done'[t] = 0
                      /\ pc'[t] \in {"command", "copy"} => done'[t] < call'[t].n
  BY DEF ChunkInv
<1>3. CASE ~Idle(t) /\ ~StepOf(t)
  BY <1>3, LeftAlone DEF ChunkInv
<1>4. CASE EndSelection(t) \/ IOSelect(t) \/ Command(t) \/ Copy(t) \/ End(t)
  BY <1>4, TransferGetsOn
<1>5. CASE t = "manager" /\ AnyStart
  <2>1. StartStep
    BY <1>5, StartSteps DEF AnyStart
  <2>2. pc'[t] \in InitSteps \cup {"ended"}
    BY <1>1, <1>5, <2>1 DEF StartStep, Goto, TypeOK
  <2> QED
    BY <2>2, StepsApart DEF IOSteps
<1>6. CASE Idle(t) /\ ~StepOf(t)
  <2>1. CASE pc'[t] = pc[t]
    BY <1>6, <2>1 DEF Idle
  <2>2. CASE pc'[t] # pc[t]
    <3>1. ~UNCHANGED pc
      BY <2>2
    <3>2. \A u \in Threads \ {t} : pc' = [pc EXCEPT ![u] = pc'[u]] => FALSE
      BY <1>1, <2>2 DEF TypeOK
    <3>3. ~AnyStart
      <4>1. StartStep => pc["manager"] # "idle" /\ pc' = [pc EXCEPT !["manager"] = pc'["manager"]]
        BY <1>1, StepsApart DEF StartStep, Goto, TypeOK, Threads
      <4> QED
        BY <1>6, <3>2, <4>1, StartSteps DEF AnyStart, Threads, Idle
    <3>4. ASSUME NEW u \in Threads,
                 EndSelection(u) \/ IOSelect(u) \/ Command(u) \/ Copy(u) \/ End(u)
          PROVE  FALSE
      <4>1. u # t
        BY <1>6, <3>4 DEF StepOf
      <4> QED
        BY <2>2, <3>4, <4>1, TransferGetsOn
    <3>5. BeginStart \/ \E u \in Threads, c \in Requests : BeginIO(u, c)
      BY <3>1, <3>3, <3>4 DEF Next, AnyStart, Eject, MoveCard, vars, callVars
    <3>6. PICK u \in Threads : \E c : \E p \in {"resetCard", "ioSelect"} : Begin(u, c, p)
      BY <3>5 DEF BeginStart, BeginIO, Threads
    <3>7. u = t
      BY <1>1, <2>2, <3>6 DEF Begin, Goto, TypeOK
    <3> QED
      BY <1>1, <3>6, <3>7 DEF Begin, Goto, TypeOK
  <2> QED
    BY <2>1, <2>2
<1> QED
  BY <1>3, <1>4, <1>5, <1>6 DEF StepOf, AnyStart

(* A call comes to its end: each of its steps brings it nearer, whatever   *)
(* the card answers, and no step of the other thread and no move of the    *)
(* card sets it back.  The polls of a busy card are bounded by tries, which *)
(* only the start changes, and every chunk of a transfer has a sector      *)
(* (lines 442-513, 599-699).                                               *)
THEOREM CallsEnd == Spec => [][CallGetsOn]_vars
<1>1. ASSUME IInv, IInv', ChunkInv, [Next]_vars PROVE CallGetsOn
  <2> SUFFICES ASSUME NEW t \in Threads, ~Idle(t)
               PROVE  /\ StepsLeft(t) \in Nat /\ StepsLeft(t)' \in Nat
                      /\ StepOf(t) => StepsLeft(t)' < StepsLeft(t)
                      /\ ~StepOf(t) => pc'[t] = pc[t] /\ StepsLeft(t)' = StepsLeft(t)
    BY DEF CallGetsOn
  <2>1. StepsLeft(t) \in Nat /\ StepsLeft(t)' \in Nat
    BY <1>1, LeftType, LeftTypeNext DEF IInv
  <2>2. ASSUME StepOf(t) PROVE StepsLeft(t)' < StepsLeft(t)
    BY <1>1, <2>2, InitStepGetsOn, StartGetsOn, TransferGetsOn DEF StepOf, AnyStart
  <2>3. ASSUME ~StepOf(t) PROVE pc'[t] = pc[t] /\ StepsLeft(t)' = StepsLeft(t)
    <3>1. /\ pc'[t] = pc[t] /\ call'[t] = call[t] /\ done'[t] = done[t]
          /\ tries' = tries \/ pc[t] \notin Polling
      BY <1>1, <2>3, LeftAlone
    <3>2. Repeats(t)' = Repeats(t)
      BY <3>1 DEF Repeats, BeforePolls, Polling, BeforeEnd
    <3> QED
      BY <3>1, <3>2, StepNumbers DEF StepsLeft
  <2> QED
    BY <2>1, <2>2, <2>3
<1>2. IInv /\ IInv' /\ ChunkInv /\ [Next]_vars => [CallGetsOn]_vars
  BY <1>1
<1>3. Init => ChunkInv
  BY DEF Init, ChunkInv
<1>4. IInv /\ IInv' /\ ChunkInv /\ [Next]_vars => ChunkInv'
  BY ChunkInvStep
<1> QED
  BY <1>2, <1>3, <1>4, Invariance, PTL DEF Spec
=============================================================================
