------------------------------- MODULE Clock -------------------------------
(***************************************************************************)
(* The clock of the IOS module: System::SetTime, System::GetTime and the   *)
(* timer thread of src/ios/IOS/System.cpp.                                 *)
(*                                                                         *)
(* The hardware timer has 32 bits and wraps every 38 minutes.  The clock   *)
(* is the ticks up to a reading of the timer, in one of two contexts, and  *)
(* the ticks since then.  A thread of the lowest priority renews the       *)
(* context that is not in use, and then makes it the one in use.           *)
(*                                                                         *)
(* m_tick is kept as an integer and taken modulo 2^64 where it is read:    *)
(* sums and differences of 64-bit numbers may be reduced at the end.       *)
(***************************************************************************)
EXTENDS Integers

CONSTANTS
  TimerWrap,    \* values of the hardware timer, 2^32
  TickWrap,     \* values of m_tick, 2^64
  Interval,     \* ticks that a reading is in use: the sleep of the thread, and
                \* the delay of a thread that has the lowest priority
  MaxTicks      \* bound on the ticks that pass

ASSUME ClockAssumption ==
  /\ TimerWrap \in Nat \ {0} /\ TickWrap \in Nat \ {0}
  /\ Interval \in Nat /\ Interval < TimerWrap
  /\ MaxTicks \in Nat

VARIABLES
  timer,        \* the hardware timer, ACRReg::TIMER
  timerPc,      \* the timer thread: "none", "sleep", "tick", "timer", "index"
  timerIndex,   \* s_timerIndex
  ctxTimer, ctxTick,   \* s_timerCtx[]: m_timer, m_tick
  nextTimer,    \* nextTimer of the thread
  setTimer,     \* the argument of SetTime, which the PowerPC side read
  ticks,        \* ticks that passed since then
  age, nextAge, \* ticks since the reading in use, and since nextTimer was read
  wraps         \* wraps of the timer since the PowerPC side read it

clockVars == <<timer, timerPc, timerIndex, ctxTimer, ctxTick, nextTimer, setTimer,
               ticks, age, nextAge, wraps>>

ClockInit ==
  /\ timer \in 0 .. TimerWrap - 1 /\ setTimer = timer
  /\ timerPc = "none" /\ timerIndex = 0
  /\ ctxTimer = [i \in 0 .. 1 |-> 0] /\ ctxTick = [i \in 0 .. 1 |-> 0]
  /\ nextTimer = 0
  /\ ticks = 0 /\ age = 0 /\ nextAge = 0 /\ wraps = 0

(* diff_ticks: the operands are extended to 64 bits before -1 - t0 + t1, so *)
(* that after a wrap the result is short by the width of the timer, and by *)
(* one.                                                                    *)
DiffTicks(t0, t1) == IF t1 < t0 THEN t1 - t0 - 1 ELSE t1 - t0

(* A tick.  The thread gets on before the timer comes round to the reading *)
(* in use.                                                                 *)
TimerTick ==
  /\ ticks < MaxTicks /\ age < Interval
  /\ timer' = (IF timer = TimerWrap - 1 THEN 0 ELSE timer + 1)
  /\ wraps' = (IF timer = TimerWrap - 1 THEN wraps + 1 ELSE wraps)
  /\ ticks' = ticks + 1 /\ age' = age + 1
  /\ nextAge' = (IF timerPc \in {"tick", "timer", "index"} THEN nextAge + 1 ELSE 0)
  /\ UNCHANGED <<timerPc, timerIndex, ctxTimer, ctxTick, nextTimer, setTimer>>

(* SetTime, once, some time after the PowerPC side read the timer for it   *)
(* (IPCLog.cpp:94-104); it starts the thread.                              *)
SetTime ==
  /\ timerPc = "none"
  /\ ctxTimer' = [ctxTimer EXCEPT ![timerIndex] = setTimer]
  /\ ctxTick' = [ctxTick EXCEPT ![timerIndex] = 0]
  /\ timerPc' = "sleep"
  /\ UNCHANGED <<timer, timerIndex, nextTimer, setTimer, ticks, age, nextAge, wraps>>

(* The thread wakes and reads the timer. *)
ReadTimer ==
  /\ timerPc = "sleep"
  /\ nextTimer' = timer /\ nextAge' = 0
  /\ timerPc' = "tick"
  /\ UNCHANGED <<timer, timerIndex, ctxTimer, ctxTick, setTimer, ticks, age, wraps>>

(* A variant of Other that counts on. *)
NextContext == timerIndex + 1

(* The context that is not in use. *)
Other == 1 - timerIndex

StoreTick ==
  /\ timerPc = "tick"
  /\ ctxTick' = [ctxTick EXCEPT ![Other] =
       ctxTick[timerIndex] + DiffTicks(ctxTimer[timerIndex], nextTimer)]
  /\ timerPc' = "timer"
  /\ UNCHANGED <<timer, timerIndex, ctxTimer, nextTimer, setTimer, ticks, age, nextAge, wraps>>

(* A variant of StoreTimer that makes the context the one in use first. *)
StoreTimerLate ==
  /\ timerPc = "timer"
  /\ timerIndex' = Other
  /\ timerPc' = "index"
  /\ UNCHANGED <<timer, ctxTimer, ctxTick, nextTimer, setTimer, ticks, age, nextAge, wraps>>

StoreTimer ==
  /\ timerPc = "timer"
  /\ ctxTimer' = [ctxTimer EXCEPT ![Other] = nextTimer]
  /\ timerPc' = "index"
  /\ UNCHANGED <<timer, timerIndex, ctxTick, nextTimer, setTimer, ticks, age, nextAge, wraps>>

Flip ==
  /\ timerPc = "index"
  /\ timerIndex' = Other
  /\ age' = nextAge /\ nextAge' = 0
  /\ timerPc' = "sleep"
  /\ UNCHANGED <<timer, ctxTimer, ctxTick, nextTimer, setTimer, ticks, wraps>>

TimerThread == ReadTimer \/ StoreTick \/ StoreTimer \/ Flip

(* The bound on the ticks is reached, and the thread sleeps. *)
ClockStops == ticks = MaxTicks /\ UNCHANGED clockVars

ClockNext == TimerTick \/ SetTime \/ TimerThread \/ ClockStops

ClockSpec == ClockInit /\ [][ClockNext]_clockVars

-----------------------------------------------------------------------------
(* timeNow of GetTime, in any state: a thread that asks runs before the    *)
(* timer thread goes on.                                                   *)
TimeNow == (ctxTick[timerIndex] + DiffTicks(ctxTimer[timerIndex], timer)) % TickWrap

ClockTypeOK ==
  /\ timer \in 0 .. TimerWrap - 1 /\ setTimer \in 0 .. TimerWrap - 1
  /\ timerPc \in {"none", "sleep", "tick", "timer", "index"}
  /\ timerIndex \in 0 .. 1
  /\ ctxTimer \in [0 .. 1 -> 0 .. TimerWrap - 1] /\ ctxTick \in [0 .. 1 -> Int]
  /\ nextTimer \in 0 .. TimerWrap - 1
  /\ ticks \in 0 .. MaxTicks /\ age \in 0 .. Interval /\ nextAge \in 0 .. age /\ wraps \in Nat

(* GetTime cannot tell whether the timer thread is at work: none of its     *)
(* steps changes what GetTime returns, though they renew one context while *)
(* the other is read, and a tick that does not wrap the timer adds one.    *)
ClockSteady ==
  [][timerPc # "none" =>
       /\ timer' = timer => TimeNow' = TimeNow
       /\ timer' > timer => TimeNow' = (TimeNow + 1) % TickWrap]_clockVars

(* The clock counts every tick of the timer.  TimerTick takes the sleep of *)
(* the thread for what its comment says, an "interval" shorter than a turn *)
(* of the timer, which serves to see each wrap (System.cpp:181-182), and   *)
(* diff_ticks has a case for the wrap (System.cpp:175-177).                *)
TicksCounted == timerPc # "none" => TimeNow = ticks % TickWrap
=============================================================================
