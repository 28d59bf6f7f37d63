------------------------------- MODULE SDCard -------------------------------
(***************************************************************************)
(* The SD card driver, src/ios/Disk/SDCard.cpp, over the SDIO resource     *)
(* manager of IOS, and the card in the slot.                               *)
(*                                                                         *)
(* The DeviceMgr thread starts the card and does I/O on it, and the        *)
(* EmuSDIO thread does I/O.  The driver has one rw_buffer, one address and *)
(* one capacity flag for both, and no lock: what keeps two transfers apart *)
(* is the card, which takes a select only when it is not selected.         *)
(*                                                                         *)
(* Each ioctl is a step, and so is the copy out of rw_buffer; register     *)
(* accesses in a row that fail the same way are one step.  The card        *)
(* follows the states of the SD specification: "off" without power or a    *)
(* clock, "idle", "ready", "ident", "stby", and "tran" when selected.      *)
(* __sd0_initialized and __sdio_initialized are left out: they are written *)
(* and decide nothing.                                                     *)
(***************************************************************************)
EXTENDS Integers

CONSTANTS
  Cards, NoCard,  \* the cards, and the empty slot
  HighCapacity,   \* the cards that are addressed in sectors, not bytes
  Version2,       \* the cards that answer SEND_IF_COND
  Known,          \* the cards that IOS initialises by itself
  Plain,          \* the others to which it sends a command that came by ioctl
  CardSectors,    \* sectors of a card
  PageSize,       \* PAGE_SIZE512
  AddressSpace,   \* 2^32, the addresses of a command
  ChunkSectors,   \* sectors that rw_buffer takes, 8 in the code
  OpCondTries,    \* polls of the initialisation, 10 in the code
  Slow,           \* the cards that may be busy for longer than that
  Requests,       \* the reads and writes
  MaxFaults       \* bound on the ioctls that fail without a reason

ASSUME CardAssumption ==
  /\ NoCard \notin Cards
  /\ HighCapacity \subseteq Version2 /\ Version2 \subseteq Cards
  /\ Known \subseteq Cards /\ Plain \subseteq Cards
  /\ CardSectors \in Nat /\ PageSize \in Nat \ {0} /\ AddressSpace \in Nat \ {0}
  /\ CardSectors * PageSize <= AddressSpace
  /\ ChunkSectors \in Nat \ {0}
  /\ OpCondTries \in Nat \ {0} /\ Slow \subseteq Cards
  /\ Requests \subseteq [op: {"read", "write"}, via: {"direct", "bounce"},
                         sector: Nat, n: Nat \ {0}]
  /\ MaxFaults \in Nat

Threads == {"manager", "sdio"}

VARIABLES
  fd, rca, sdhc,      \* __sd0_fd is open, __sd0_rca is the card's, __sd0_sdhc
  rwBuffer,           \* rw_buffer: the chunk of which it holds the data
  started, error,     \* the volume is initialised; DeviceHandle.error
  pc, call, done,     \* of each thread: its step, its request, sectors done,
  result,             \* what it will return,
  own,                \* and whether they were the right ones
  tries,              \* tries of __sd0_initio
  clean,              \* the idle threads, and those whose call met only clean
                      \* calls: a read or write of a started volume while the
                      \* card does not move, or a start that met no other call
  card, state,        \* the card in the slot and its state
  accepted,           \* IOS reports the card as initialised
  faults, misled      \* a select or deselect did not do what the driver thinks

driverVars == <<fd, rca, sdhc, tries>>
handleVars == <<started, error>>
callVars == <<pc, call, done, result, own>>
faultVars == <<faults, misled>>
vars == <<driverVars, rwBuffer, handleVars, callVars, clean, card, state, accepted, faultVars>>

-----------------------------------------------------------------------------
(* The data of n sectors from sector `at` on, of a card or of a caller.    *)
Data(o, at, n) == [of |-> o, at |-> at, n |-> n]

Startup == [op |-> "startup", via |-> "none", sector |-> 0, n |-> 0]
NoCall == [Startup EXCEPT !.op = "none"]

Init ==
  /\ fd \in BOOLEAN /\ rca = FALSE /\ sdhc = FALSE /\ tries = 0
  /\ rwBuffer = Data(NoCard, 0, 0)
  /\ started = FALSE /\ error = FALSE
  /\ pc = [t \in Threads |-> "idle"] /\ call = [t \in Threads |-> NoCall]
  /\ done = [t \in Threads |-> 0] /\ result = [t \in Threads |-> "none"]
  /\ own = Threads /\ clean = Threads
  /\ card \in Cards \cup {NoCard} /\ state = "off" /\ accepted = FALSE
  /\ faults = 0 /\ misled = FALSE

Idle(t) == pc[t] = "idle"
Starting == ~Idle("manager") /\ call["manager"] = Startup
Goto(t, p) == pc' = [pc EXCEPT ![t] = p]
Finish(t, r) == Goto(t, "ended") /\ result' = [result EXCEPT ![t] = r]
Fault == faults < MaxFaults /\ faults' = faults + 1

-----------------------------------------------------------------------------
(* Ioctls, by the step that issues them. *)

(* The state that a command needs, and the one it leads to.                *)
Needs == [ifCond |-> "idle", appCmd |-> "idle", cid |-> "ready", rca |-> "ident",
          select |-> "stby", ioSelect |-> "stby",
          blockLen |-> "tran", appWidth |-> "tran", setWidth |-> "tran"]
Leads == [cid |-> "ident", rca |-> "stby", select |-> "tran", ioSelect |-> "tran",
          hostReset |-> "off", failReset |-> "off"]

(* A command without data goes by ioctlv if __sd0_sdhc is set, and else by *)
(* ioctl, which IOS may refuse for a card that it did not initialise: what *)
(* is in Plain is its choice.  A command with data always goes by ioctlv,  *)
(* and the registers of the host controller do not depend on it.           *)
Passes == sdhc \/ accepted \/ card \in Plain

Replies(p) ==
  /\ fd
  /\ p \in DOMAIN Needs \cup {"goIdle"} => Passes
  /\ p \in DOMAIN Needs => state = Needs[p]
  /\ p \in {"select", "ioSelect"} => rca
  /\ p = "ifCond" => card \in Version2

(* GO_IDLE takes a card with power to "idle" from any state.               *)
Takes(p) ==
  state' = IF p \in DOMAIN Leads THEN Leads[p]
           ELSE IF p = "power" /\ card # NoCard THEN "idle"
           ELSE IF p = "goIdle" /\ state # "off" THEN "idle"
           ELSE state

(* An ioctl fails: it must, or it does not but is reported to, with or     *)
(* without its effect.                                                     *)
Fails(p) ==
  \/ ~Replies(p) /\ UNCHANGED <<state, faults>>
  \/ Replies(p) /\ Fault /\ (Takes(p) \/ UNCHANGED state)

-----------------------------------------------------------------------------
(* __sd0_initio. *)

(* The next step of the initialisation. *)
After == [interrupts |-> "power", hostReset |-> "waitReset", waitReset |-> "interrupts",
          power |-> "clock", clock |-> "waitClock", waitClock |-> "clockOn",
          clockOn |-> "timeout", timeout |-> "goIdle", goIdle |-> "ifCond",
          ifCond |-> "appCmd", appCmd |-> "opCond", cid |-> "rca", rca |-> "busWidth",
          busWidth |-> "setClock", setClock |-> "select", select |-> "blockLen",
          blockLen |-> "appWidth", appWidth |-> "setWidth", setWidth |-> "deselect",
          failReset |-> "failWait", failWait |-> "failReopen"]

(* A variant of Selected: no step deselects the card when it fails. *)
NoneSelected == {}

(* The steps with the card selected. *)
Selected == {"blockLen", "appWidth", "setWidth"}

(* Where it goes on when a step fails: some failures are ignored, the last *)
(* ones end the start, and the others reset the host controller.           *)
Failing(p) ==
  IF p \in {"interrupts", "failReset", "failWait"} THEN After[p]
  ELSE IF p \in Selected THEN "dropSelect"
  ELSE IF p \in {"busWidth", "setClock", "select", "blockLen", "appWidth", "setWidth"}
    THEN "refused"
  ELSE "failReset"

(* A step of the initialisation: on to the next one, or out.  The count of *)
(* tries is dead outside the loop.                                         *)
InitStep(p) ==
  /\ pc["manager"] = p
  /\ \/ /\ Replies(p) /\ Takes(p)
        /\ Goto("manager", After[p])
        /\ UNCHANGED <<faultVars, result>>
     \/ /\ Fails(p)
        /\ misled' = (misled \/ (p = "select" /\ state' # state))
        /\ IF Failing(p) = "refused" THEN Finish("manager", "failed")
           ELSE Goto("manager", Failing(p)) /\ UNCHANGED result
  /\ rca' = (rca \/ (p = "rca" /\ pc'["manager"] = "busWidth"))
  /\ sdhc' = (sdhc \/ p = "power")
  /\ tries' = IF pc'["manager"] = "appCmd" THEN OpCondTries - 1
              ELSE IF pc'["manager"] = "opCond" THEN tries ELSE 0
  /\ UNCHANGED <<fd, rwBuffer, handleVars, call, done, own, clean, card, accepted>>

(* IOS resets the card, and initialises one that it knows.  __sd0_rca is   *)
(* cleared first, and stays so if the ioctl is reported to fail.           *)
ResetCard ==
  /\ pc["manager"] = "resetCard"
  /\ \/ /\ fd /\ rca' = (card \in Known)
        /\ state' = IF card \in Known THEN "stby" ELSE "off"
        /\ accepted' = (card \in Known) /\ UNCHANGED faults
     \/ /\ fd /\ card \in Known /\ Fault /\ rca' = FALSE
        /\ state' = "stby" /\ accepted' = TRUE
     \/ /\ (fd /\ Fault) \/ (~fd /\ UNCHANGED faults)
        /\ rca' = FALSE /\ UNCHANGED <<state, accepted>>
  /\ Goto("manager", "getStatus")
  /\ UNCHANGED <<fd, sdhc, tries, rwBuffer, handleVars, call, done, own, result, clean, card,
                 misled>>

(* A variant of Capacity that does not clear the flag. *)
CapacityKept == sdhc \/ card \in HighCapacity

(* The capacity that the status or the operating conditions report.        *)
Capacity == card \in HighCapacity

(* No status, or no card in it; or a card that IOS has initialised, or not. *)
GetStatus ==
  /\ pc["manager"] = "getStatus"
  /\ \/ /\ \/ (~fd \/ card = NoCard) /\ UNCHANGED faults
           \/ Fault
        /\ Finish("manager", "failed") /\ UNCHANGED sdhc
     \/ /\ fd /\ card # NoCard /\ accepted
        /\ sdhc' = Capacity
        /\ Goto("manager", "busWidth") /\ UNCHANGED <<result, faults>>
     \/ /\ fd /\ card # NoCard /\ ~accepted
        /\ Goto("manager", "reopen") /\ UNCHANGED <<sdhc, result, faults>>
  /\ UNCHANGED <<fd, rca, tries, rwBuffer, handleVars, call, done, own, clean, card, state,
                 accepted, misled>>

(* The handle is closed and opened again, at first and after a failure.    *)
Reopen ==
  /\ \/ pc["manager"] = "reopen" /\ Goto("manager", "hostReset") /\ UNCHANGED result
     \/ pc["manager"] = "failReopen" /\ Finish("manager", "failed")
  /\ (fd' = TRUE /\ UNCHANGED faults) \/ (fd' = FALSE /\ Fault)
  /\ UNCHANGED <<rca, sdhc, tries, rwBuffer, handleVars, call, done, own, clean, card, state,
                 accepted, misled>>

(* A variant of Again that makes one poll too many. *)
AgainAtZero == tries >= 0

(* The condition of the loop over tries. *)
Again == tries > 0

(* A variant of Exhausted that counts the last poll as one too many. *)
ExhaustedAtZero(k) == k <= 0

(* The test of tries after the loop, which leaves it at -1 if all failed.  *)
Exhausted(k) == k < 0

Polled == fd /\ Passes /\ state = "idle"

(* SEND_OP_COND: the card is busy, and polled again; or the loop is left,  *)
(* with a card that is ready and tells its capacity, or one still busy.    *)
OpCond ==
  /\ pc["manager"] = "opCond"
  /\ \/ /\ Polled /\ Again
        /\ tries' = tries - 1
        /\ Goto("manager", "appCmd") /\ UNCHANGED <<sdhc, state, faults>>
     \/ /\ Polled
        /\ \E k \in {tries} \cup (IF tries = 0 /\ card \in Slow THEN {-1} ELSE {}) :
             /\ state' = IF k = -1 THEN "idle" ELSE "ready"
             /\ IF Exhausted(k) THEN Goto("manager", "failReset") /\ UNCHANGED sdhc
                ELSE Goto("manager", "cid") /\ sdhc' = Capacity
        /\ tries' = 0 /\ UNCHANGED faults
     \/ /\ \/ ~Polled /\ UNCHANGED <<state, faults>>
           \/ Polled /\ Fault /\ state' \in {"idle", "ready"}
        /\ Goto("manager", "failReset") /\ tries' = 0 /\ UNCHANGED sdhc
  /\ UNCHANGED <<fd, rca, rwBuffer, handleVars, call, done, own, result, clean, card, accepted,
                 misled>>

-----------------------------------------------------------------------------
(* CMD7 without an address: deselects a selected card.  A failure is       *)
(* ignored.                                                                *)
Deselect ==
  \/ (state # "tran" \/ ~Passes) /\ UNCHANGED <<state, faultVars>>
  \/ state = "tran" /\ fd /\ Passes /\ state' = "stby" /\ UNCHANGED faultVars
  \/ /\ state = "tran" /\ misled' = TRUE /\ UNCHANGED state
     /\ (~fd /\ UNCHANGED faults) \/ (fd /\ Fault)

(* The end of a start, of one that failed, and of a read or write.         *)
EndSelection(t) ==
  /\ \/ pc[t] = "deselect" /\ Finish(t, "ok")
     \/ pc[t] = "dropSelect" /\ Finish(t, "failed")
     \/ pc[t] = "ioDeselect" /\ Goto(t, "ended") /\ UNCHANGED result
  /\ Deselect
  /\ UNCHANGED <<driverVars, rwBuffer, handleVars, call, done, own, clean, card, accepted>>

-----------------------------------------------------------------------------
(* ReadSectors and WriteSectors. *)

(* The sectors of the chunk after the first d. *)
ChunkAt(t, d) ==
  LET left == call[t].n - d IN
  IF call[t].via = "direct" \/ left <= ChunkSectors THEN left ELSE ChunkSectors
Chunk(t) == ChunkAt(t, done[t])

(* The address of the next sector. *)
Address(t) ==
  LET s == call[t].sector + done[t] IN
  IF sdhc THEN s ELSE (s * PageSize) % AddressSpace

(* What the card makes of it. *)
CardSector(a) == IF card \in HighCapacity THEN a ELSE a \div PageSize

Transfers(t) ==
  /\ fd /\ state = "tran"
  /\ card \in HighCapacity \/ Address(t) % PageSize = 0
  /\ CardSector(Address(t)) + Chunk(t) <= CardSectors

(* The next chunk: on the card where the command finds it and where it     *)
(* should, and in the caller's buffer.                                     *)
Found(t) == Data(card, CardSector(Address(t)), Chunk(t))
Sought(t) == Data(card, call[t].sector + done[t], Chunk(t))
Given(t, d) == Data(t, d, ChunkAt(t, d))

(* A chunk is done, and was the right one or not.                          *)
Advance(t, right) ==
  /\ done' = [done EXCEPT ![t] = @ + Chunk(t)]
  /\ own' = IF right THEN own ELSE own \ {t}
  /\ Goto(t, IF done[t] + Chunk(t) < call[t].n THEN "command" ELSE "ioDeselect")

Bounces(t, op) == call[t].op = op /\ call[t].via = "bounce"

(* A write through rw_buffer puts the next chunk there before the command. *)
Fill(t, d) ==
  rwBuffer' = IF Bounces(t, "write") /\ d < call[t].n THEN Given(t, d) ELSE rwBuffer

IOSelect(t) ==
  /\ pc[t] = "ioSelect"
  /\ \/ /\ Replies("ioSelect") /\ Takes("ioSelect")
        /\ Goto(t, "command") /\ Fill(t, 0)
        /\ UNCHANGED <<result, faultVars>>
     \/ /\ Fails("ioSelect")
        /\ misled' = (misled \/ state' # state)
        /\ Finish(t, "failed") /\ UNCHANGED rwBuffer
  /\ UNCHANGED <<driverVars, handleVars, call, done, own, clean, card, accepted>>

(* A command that the card takes moves the chunk: to rw_buffer; from it to *)
(* the card; or straight to or from the caller.                            *)
MoveChunk(t) ==
  \/ /\ Bounces(t, "read")
     /\ rwBuffer' = Found(t)
     /\ Goto(t, "copy") /\ UNCHANGED <<done, own>>
  \/ /\ Bounces(t, "write")
     /\ Advance(t, Found(t) = Sought(t) /\ rwBuffer = Given(t, done[t]))
     /\ Fill(t, done[t] + Chunk(t))
  \/ /\ call[t].via = "direct"
     /\ Advance(t, Found(t) = Sought(t))
     /\ UNCHANGED rwBuffer

Command(t) ==
  /\ pc[t] = "command"
  /\ \/ /\ Transfers(t) /\ MoveChunk(t)
        /\ result' = [result EXCEPT ![t] = "ok"]
        /\ UNCHANGED faults
     \/ /\ (~Transfers(t) /\ UNCHANGED faults) \/ (Transfers(t) /\ Fault)
        /\ Goto(t, "ioDeselect") /\ result' = [result EXCEPT ![t] = "failed"]
        /\ UNCHANGED <<rwBuffer, done, own>>
  /\ UNCHANGED <<driverVars, handleVars, call, clean, card, state, accepted, misled>>

Copy(t) ==
  /\ pc[t] = "copy"
  /\ Advance(t, rwBuffer = Sought(t))
  /\ UNCHANGED <<driverVars, rwBuffer, handleVars, call, result, clean, card, state, accepted,
                 faultVars>>

-----------------------------------------------------------------------------
(* The calls.  The handle is refused once it has an error. *)

Begin(t, c, p) ==
  /\ Idle(t) /\ ~error
  /\ Goto(t, p) /\ call' = [call EXCEPT ![t] = c]
  /\ done' = [done EXCEPT ![t] = 0] /\ own' = own \cup {t}
  /\ UNCHANGED <<driverVars, rwBuffer, handleVars, result, card, state, accepted, faultVars>>

(* DeviceInit, when FatFs initialises the volume. *)
BeginStart ==
  /\ Begin("manager", Startup, "resetCard") /\ ~started
  /\ clean' = IF Idle("sdio") THEN {"manager", "sdio"} ELSE {}

(* FatFs initialises a volume before it uses it; EmuSDIO does not ask.     *)
BeginIO(t, c) ==
  /\ Begin(t, c, "ioSelect") /\ (t = "manager" => started)
  /\ clean' = IF Starting THEN {}
              ELSE IF started /\ \A u \in Threads \ {t} : Idle(u) \/ u \in clean
                THEN clean \cup {t}
              ELSE clean \ {t}

End(t) ==
  /\ pc[t] = "ended"
  /\ Goto(t, "idle") /\ call' = [call EXCEPT ![t] = NoCall]
  /\ done' = [done EXCEPT ![t] = 0] /\ own' = own \cup {t} /\ clean' = clean \cup {t}
  /\ result' = [result EXCEPT ![t] = "none"]
  /\ error' = (error \/ result[t] = "failed")
  /\ started' = IF call[t] = Startup THEN result[t] = "ok" ELSE started
  /\ UNCHANGED <<driverVars, rwBuffer, card, state, accepted, faultVars>>

(* UpdateHandle finds no card in the status, or gets none: it clears the   *)
(* error and unmounts the volume.                                          *)
Eject ==
  /\ Idle("manager")
  /\ ((~fd \/ card = NoCard) /\ UNCHANGED faults) \/ Fault
  /\ started' = FALSE /\ error' = FALSE
  /\ UNCHANGED <<driverVars, rwBuffer, callVars, clean, card, state, accepted, misled>>

(* The user takes the card out, or puts one in.                            *)
MoveCard ==
  /\ card' \in IF card = NoCard THEN Cards ELSE {NoCard}
  /\ state' = "off" /\ accepted' = FALSE
  /\ clean' = {t \in Threads : Idle(t)}
  /\ UNCHANGED <<driverVars, rwBuffer, handleVars, callVars, faultVars>>

Next ==
  \/ ResetCard \/ GetStatus \/ Reopen \/ OpCond
  \/ \E p \in DOMAIN After : InitStep(p)
  \/ BeginStart \/ Eject \/ MoveCard
  \/ \E t \in Threads :
       \/ EndSelection(t) \/ IOSelect(t) \/ Command(t) \/ Copy(t) \/ End(t)
       \/ \E c \in Requests : BeginIO(t, c)

Spec == Init /\ [][Next]_vars
-----------------------------------------------------------------------------
InitSteps == DOMAIN After \cup {"resetCard", "getStatus", "reopen", "opCond", "deselect",
                                "dropSelect", "failReopen"}
IOSteps == {"ioSelect", "command", "copy", "ioDeselect"}

(* The type invariant of the driver, its callers and the card.             *)
TypeOK ==
  /\ fd \in BOOLEAN /\ rca \in BOOLEAN /\ sdhc \in BOOLEAN
  /\ tries \in 0 .. OpCondTries - 1
  /\ rwBuffer \in [of: Cards \cup {NoCard} \cup Threads, at: Nat, n: 0 .. ChunkSectors]
  /\ started \in BOOLEAN /\ error \in BOOLEAN
  /\ pc \in [Threads -> InitSteps \cup IOSteps \cup {"idle", "ended"}]
  /\ call \in [Threads -> Requests \cup {Startup, NoCall}]
  /\ done \in [Threads -> Nat] /\ own \subseteq Threads
  /\ \A t \in Threads : done[t] <= call[t].n
  /\ result \in [Threads -> {"none", "ok", "failed"}]
  /\ clean \subseteq Threads
  /\ card \in Cards \cup {NoCard}
  /\ state \in {"off", "idle", "ready", "ident", "stby", "tran"}
  /\ card = NoCard => state = "off" /\ accepted = FALSE
  /\ accepted \in BOOLEAN
  /\ faults \in 0 .. MaxFaults /\ misled \in BOOLEAN

(* A read or write that succeeds has moved exactly the sectors it was asked *)
(* for, between the right places of the card and of the caller's buffer,   *)
(* whatever the other thread reads or writes at the same time and whatever *)
(* card was in the slot before, unless a start or a change of the card     *)
(* came in between (lines 599-699).                                        *)
OwnSectors ==
  \A t \in clean :
    /\ pc[t] = "ended" /\ result[t] = "ok" /\ call[t] \in Requests
    /\ call[t].sector + call[t].n <= CardSectors
    => t \in own /\ done[t] = call[t].n

(* When no call is under way the card is not selected, through every way   *)
(* out of a start and of a transfer: a card left selected would refuse the *)
(* next one (lines 427-566, 599-699).                                      *)
Released == (\A t \in Threads : Idle(t)) /\ ~misled => state # "tran"

(* A start that nothing disturbs refuses no card that IOS knows, nor any   *)
(* other of high capacity that is ready at the last poll (lines 442-513).  *)
(* A card of version 2 that is neither "won't work" (line 515): once its   *)
(* capacity clears __sd0_sdhc, IOS gets the next command by ioctl, and it  *)
(* is refused unless IOS lets it pass.                                     *)
Usable == Known \cup ((HighCapacity \cup (Plain \cap Version2)) \ Slow)

CardAccepted ==
  [][Starting /\ pc["manager"] = "ended" /\ result["manager"] = "failed"
       /\ "manager" \in clean /\ faults = 0 /\ Idle("manager")' =>
       ~fd \/ card \notin Usable]_vars
=============================================================================
