----------------------------- MODULE TimeProofs -----------------------------
(***************************************************************************)
(* What holds of the clock for timers and counters of any width, and of    *)
(* the time stamps of files for every day that FAT can store.              *)
(*                                                                         *)
(* The inductive invariant of the clock says how old each reading of the   *)
(* timer is, which is less than one turn of the timer, so that its         *)
(* difference to the timer tells the ticks since then, less the loss of a  *)
(* wrap.                                                                   *)
(*                                                                         *)
(* For the time stamps the days of the calendar are counted (DayNumber).   *)
(* The calendar advances by one day (SuccessorCounts), and the formula of  *)
(* the code finds the date that has the number (CivilFromDays).  Leaves    *)
(* with large numbers are for SMT: Zenon counts in unary.                  *)
(***************************************************************************)
EXTENDS Clock, FatTime, TLAPS

Loss == wraps * (TimerWrap + 1)

(* A reading r of the timer that is a ticks old. *)
Aged(r, a) == a = IF timer < r THEN timer - r + TimerWrap ELSE timer - r

(* The clock, from a context of m_tick x and m_timer r. *)
Exact(x, r) == x + DiffTicks(r, timer) = ticks - Loss

Pending == timerPc \in {"tick", "timer", "index"}

BeforeSet == timerPc = "none" => Aged(setTimer, age) /\ Exact(0, setTimer)

InUse ==
  timerPc # "none" =>
    /\ Aged(ctxTimer[timerIndex], age)
    /\ Exact(ctxTick[timerIndex], ctxTimer[timerIndex])

(* What the thread has stored of the next context. *)
InProgress ==
  /\ Pending => Aged(nextTimer, nextAge)
  /\ timerPc \in {"timer", "index"} => Exact(ctxTick[Other], nextTimer)
  /\ timerPc = "index" => ctxTimer[Other] = nextTimer

IInv == ClockTypeOK /\ BeforeSet /\ InUse /\ InProgress

-----------------------------------------------------------------------------
(* A difference of two readings, and of the second to the timer, is the    *)
(* difference of the first one to the timer: there is one wrap at most.    *)
LEMMA DiffAdds ==
  ASSUME NEW r \in 0 .. TimerWrap - 1, NEW q \in 0 .. TimerWrap - 1,
         timer \in 0 .. TimerWrap - 1, NEW a \in Nat, NEW b \in 0 .. a, a < TimerWrap,
         Aged(r, a), Aged(q, b)
  PROVE  DiffTicks(r, q) + DiffTicks(q, timer) = DiffTicks(r, timer)
BY ClockAssumption DEF DiffTicks, Aged, ClockAssumption

(* A tick makes a reading older, and the clock later, but for the loss of  *)
(* a wrap.                                                                 *)
LEMMA TickAges ==
  ASSUME ClockTypeOK, TimerTick, NEW r \in 0 .. TimerWrap - 1, NEW x \in Int,
         NEW a \in 0 .. age, Aged(r, a)
  PROVE  /\ a + 1 = IF timer' < r THEN timer' - r + TimerWrap ELSE timer' - r
         /\ x + DiffTicks(r, timer) = ticks - Loss
              => x + DiffTicks(r, timer') = ticks' - Loss'
<1>1. a + 1 < TimerWrap /\ timer \in 0 .. TimerWrap - 1 /\ TimerWrap \in Nat
  BY ClockAssumption DEF ClockTypeOK, TimerTick, ClockAssumption
<1>2. wraps \in Nat /\ ticks \in Nat /\ ticks' = ticks + 1
  BY ClockAssumption DEF ClockTypeOK, TimerTick, ClockAssumption
<1>3. CASE timer = TimerWrap - 1
  <2>1. timer' = 0 /\ wraps' = wraps + 1
    BY <1>3 DEF TimerTick
  <2>2. Loss' = Loss + TimerWrap + 1
    BY <1>1, <1>2, <2>1 DEF Loss
  <2>3. Loss \in Int
    BY <1>1, <1>2 DEF Loss
  <2>4. a = TimerWrap - 1 - r /\ r > 0
    BY <1>1, <1>3 DEF Aged
  <2> QED
    BY <1>1, <1>2, <1>3, <2>1, <2>2, <2>3, <2>4 DEF DiffTicks
<1>4. CASE timer # TimerWrap - 1
  <2>1. timer' = timer + 1 /\ Loss' = Loss
    BY <1>4 DEF TimerTick, Loss
  <2>2. Loss \in Int
    BY <1>1, <1>2 DEF Loss
  <2> QED
    BY <1>1, <1>2, <1>4, <2>1, <2>2 DEF DiffTicks, Aged
<1> QED
  BY <1>3, <1>4

-----------------------------------------------------------------------------
LEMMA InitInv == ClockInit => IInv
<1> SUFFICES ASSUME ClockInit PROVE IInv
  OBVIOUS
<1>1. ClockTypeOK
  BY ClockAssumption DEF ClockInit, ClockTypeOK, ClockAssumption
<1>2. BeforeSet
  <2>1. Loss = 0
    BY ClockAssumption DEF ClockInit, Loss, ClockAssumption
  <2> QED
    BY <2>1, ClockAssumption DEF ClockInit, BeforeSet, Aged, Exact, DiffTicks, ClockAssumption
<1>3. InUse /\ InProgress
  BY DEF ClockInit, InUse, InProgress, Pending
<1> QED
  BY <1>1, <1>2, <1>3 DEF IInv

LEMMA TypeStep == ClockTypeOK /\ [ClockNext]_clockVars => ClockTypeOK'
<1> SUFFICES ASSUME ClockTypeOK, [ClockNext]_clockVars PROVE ClockTypeOK'
  OBVIOUS
<1>1. CASE TimerTick
  BY <1>1, ClockAssumption DEF TimerTick, ClockTypeOK, ClockAssumption
<1>2. CASE SetTime
  BY <1>2, ClockAssumption DEF SetTime, ClockTypeOK, ClockAssumption
<1>3. CASE ReadTimer
  BY <1>3, ClockAssumption DEF ReadTimer, ClockTypeOK, ClockAssumption
<1>4. CASE StoreTick
  <2>1. DiffTicks(ctxTimer[timerIndex], nextTimer) \in Int
    BY ClockAssumption DEF ClockTypeOK, DiffTicks, ClockAssumption
  <2> QED
    BY <1>4, <2>1 DEF StoreTick, ClockTypeOK, Other
<1>5. CASE StoreTimer
  BY <1>5 DEF StoreTimer, ClockTypeOK, Other
<1>6. CASE Flip
  BY <1>6, ClockAssumption DEF Flip, ClockTypeOK, Other, ClockAssumption
<1>7. CASE UNCHANGED clockVars
  BY <1>7 DEF clockVars, ClockTypeOK
<1> QED
  BY <1>1, <1>2, <1>3, <1>4, <1>5, <1>6, <1>7 DEF ClockNext, TimerThread, ClockStops

(* The parts about time, one step at a time.  A tick makes every reading   *)
(* older; the other steps leave the timer alone.                           *)
LEMMA TimeStep == IInv /\ [ClockNext]_clockVars => (BeforeSet /\ InUse /\ InProgress)'
<1> SUFFICES ASSUME IInv, [ClockNext]_clockVars PROVE (BeforeSet /\ InUse /\ InProgress)'
  OBVIOUS
<1> USE DEF IInv
<1>0. ClockTypeOK'
  BY TypeStep
<1>1. CASE TimerTick
  <2>1. UNCHANGED <<timerPc, timerIndex, ctxTimer, ctxTick, nextTimer, setTimer>>
    BY <1>1 DEF TimerTick
  <2>2. age' = age + 1 /\ (Pending => nextAge' = nextAge + 1) /\ age \in Nat
    BY <1>1, ClockAssumption DEF TimerTick, Pending, ClockTypeOK, ClockAssumption
  <2>3. BeforeSet'
    <3>1. setTimer \in 0 .. TimerWrap - 1 /\ age \in 0 .. age
      BY <2>2 DEF ClockTypeOK
    <3> QED
      BY <1>1, <2>1, <2>2, <3>1, TickAges DEF BeforeSet, Aged, Exact
  <2>4. InUse'
    <3>1. /\ ctxTimer[timerIndex] \in 0 .. TimerWrap - 1 /\ ctxTick[timerIndex] \in Int
          /\ age \in 0 .. age
      BY <2>2 DEF ClockTypeOK
    <3> QED
      BY <1>1, <2>1, <2>2, <3>1, TickAges DEF InUse, Aged, Exact
  <2>5. InProgress'
    <3>1. /\ nextTimer \in 0 .. TimerWrap - 1 /\ ctxTick[Other] \in Int
          /\ nextAge \in 0 .. age
      BY DEF ClockTypeOK, Other
    <3>2. Pending' = Pending /\ ctxTick'[Other'] = ctxTick[Other] /\ ctxTimer'[Other'] = ctxTimer[Other]
      BY <2>1 DEF Pending, Other
    <3>3. CASE Pending
      <4>1. Aged(nextTimer, nextAge)
        BY <3>3 DEF InProgress
      <4>2. Aged(nextTimer, nextAge)'
        BY <1>1, <2>1, <2>2, <3>1, <3>3, <4>1, TickAges DEF Aged
      <4>3. timerPc \in {"timer", "index"} =>
              ctxTick[Other] + DiffTicks(nextTimer, timer') = ticks' - Loss'
        BY <1>1, <3>1, <4>1, TickAges DEF InProgress, Exact
      <4> QED
        BY <2>1, <3>2, <4>2, <4>3 DEF InProgress, Exact
    <3>4. CASE ~Pending
      BY <2>1, <3>2, <3>4 DEF InProgress, Pending
    <3> QED
      BY <3>3, <3>4
  <2> QED
    BY <2>3, <2>4, <2>5
<1>2. CASE SetTime
  <2>1. timerIndex \in DOMAIN ctxTimer /\ timerIndex \in DOMAIN ctxTick
    BY DEF ClockTypeOK
  <2>2. /\ ctxTimer'[timerIndex'] = setTimer /\ ctxTick'[timerIndex'] = 0
        /\ timer' = timer /\ age' = age /\ ticks' = ticks /\ wraps' = wraps
        /\ timerPc = "none" /\ timerPc' = "sleep"
    BY <1>2, <2>1 DEF SetTime
  <2> QED
    BY <2>2 DEF BeforeSet, InUse, InProgress, Pending, Aged, Exact, Loss
<1>3. CASE ReadTimer
  <2>1. /\ timerPc = "sleep" /\ timerPc' = "tick" /\ nextTimer' = timer /\ nextAge' = 0
        /\ UNCHANGED <<timer, timerIndex, ctxTimer, ctxTick, ticks, age, wraps>>
    BY <1>3 DEF ReadTimer
  <2>2. Aged(nextTimer, nextAge)'
    BY <2>1 DEF Aged, ClockTypeOK
  <2> QED
    BY <2>1, <2>2 DEF BeforeSet, InUse, InProgress, Aged, Exact, Loss
<1>4. CASE StoreTick
  <2>1. /\ timerPc = "tick" /\ timerPc' = "timer"
        /\ UNCHANGED <<timer, timerIndex, ctxTimer, nextTimer, ticks, age, nextAge, wraps>>
    BY <1>4 DEF StoreTick
  <2>2. /\ ctxTick'[Other] = ctxTick[timerIndex] + DiffTicks(ctxTimer[timerIndex], nextTimer)
        /\ ctxTick'[timerIndex] = ctxTick[timerIndex] /\ Other' = Other
    BY <1>4, <2>1 DEF StoreTick, ClockTypeOK, Other
  <2>3. /\ Aged(ctxTimer[timerIndex], age) /\ Aged(nextTimer, nextAge)
        /\ Exact(ctxTick[timerIndex], ctxTimer[timerIndex])
    BY <2>1 DEF InUse, InProgress, Pending
  <2>4. /\ ctxTimer[timerIndex] \in 0 .. TimerWrap - 1 /\ nextTimer \in 0 .. TimerWrap - 1
        /\ timer \in 0 .. TimerWrap - 1 /\ age \in Nat /\ nextAge \in 0 .. age
        /\ age < TimerWrap /\ ctxTick[timerIndex] \in Int
    BY ClockAssumption DEF ClockTypeOK, ClockAssumption
  <2>5. DiffTicks(ctxTimer[timerIndex], nextTimer) + DiffTicks(nextTimer, timer)
          = DiffTicks(ctxTimer[timerIndex], timer)
    BY <2>3, <2>4, DiffAdds
  <2>6. Exact(ctxTick'[Other], nextTimer)
    <3> DEFINE p == DiffTicks(ctxTimer[timerIndex], nextTimer)
               q == DiffTicks(nextTimer, timer)
    <3>1. p \in Int /\ q \in Int
      BY <2>4, ClockAssumption DEF DiffTicks, ClockAssumption
    <3>2. ctxTick[timerIndex] + (p + q) = ticks - Loss /\ ctxTick'[Other] = ctxTick[timerIndex] + p
      BY <2>2, <2>3, <2>5 DEF Exact
    <3> HIDE DEF p, q
    <3>3. ctxTick'[Other] + q = ticks - Loss
      BY <2>4, <3>1, <3>2
    <3> QED
      BY <3>3 DEF Exact, q
  <2>7. InUse'
    BY <2>1, <2>2, <2>3 DEF InUse, Aged, Exact, Loss
  <2>8. InProgress'
    BY <2>1, <2>2, <2>3, <2>6 DEF InProgress, Pending, Aged, Exact, Loss
  <2> QED
    BY <2>1, <2>7, <2>8 DEF BeforeSet
<1>5. CASE StoreTimer
  <2>1. /\ timerPc = "timer" /\ timerPc' = "index"
        /\ UNCHANGED <<timer, timerIndex, ctxTick, nextTimer, ticks, age, nextAge, wraps>>
    BY <1>5 DEF StoreTimer
  <2>2. /\ ctxTimer'[Other] = nextTimer /\ ctxTimer'[timerIndex] = ctxTimer[timerIndex]
        /\ Other' = Other
    BY <1>5, <2>1 DEF StoreTimer, ClockTypeOK, Other
  <2>3. InUse'
    BY <2>1, <2>2 DEF InUse, Aged, Exact, Loss
  <2>4. InProgress'
    BY <2>1, <2>2 DEF InProgress, Pending, Aged, Exact, Loss
  <2> QED
    BY <2>1, <2>3, <2>4 DEF BeforeSet
<1>6. CASE Flip
  <2>1. /\ timerPc = "index" /\ timerPc' = "sleep" /\ timerIndex' = Other /\ age' = nextAge
        /\ UNCHANGED <<timer, ctxTimer, ctxTick, nextTimer, ticks, wraps>>
    BY <1>6 DEF Flip
  <2>2. /\ Aged(nextTimer, nextAge) /\ Exact(ctxTick[Other], nextTimer)
        /\ ctxTimer[Other] = nextTimer
    BY <2>1 DEF InProgress, Pending
  <2>3. InUse'
    BY <2>1, <2>2 DEF InUse, Aged, Exact, Loss
  <2> QED
    BY <2>1, <2>3 DEF BeforeSet, InProgress, Pending
<1>7. CASE UNCHANGED clockVars
  BY <1>7 DEF clockVars, BeforeSet, InUse, InProgress, Pending, Aged, Exact, Loss, Other
<1> QED
  BY <1>1, <1>2, <1>3, <1>4, <1>5, <1>6, <1>7 DEF ClockNext, TimerThread, ClockStops

LEMMA Invariance == ClockSpec => []IInv
<1>1. IInv /\ [ClockNext]_clockVars => IInv'
  BY TypeStep, TimeStep DEF IInv
<1> QED
  BY InitInv, <1>1, PTL DEF ClockSpec

(* The type invariant of the clock holds for timers of any width: the      *)
(* index of the context in use, s_timerIndex, stays within the two.        *)
THEOREM TypeCorrect == ClockSpec => []ClockTypeOK
<1>1. IInv => ClockTypeOK
  BY DEF IInv
<1> QED
  BY Invariance, <1>1, PTL

(* For a timer and a counter of any width, and however the thread is       *)
(* delayed within a turn of the timer, the clock of GetTime is late by one *)
(* turn and one tick for each wrap of the timer, and by nothing else: what *)
(* diff_ticks returns after a wrap is short by that.  So the first wrap    *)
(* takes it below zero, which is the far end of 64 bits.                   *)
THEOREM WrapsLose ==
  ClockSpec =>
    [](timerPc # "none" => TimeNow = (ticks - wraps * (TimerWrap + 1)) % TickWrap)
<1>1. IInv => (timerPc # "none" => TimeNow = (ticks - wraps * (TimerWrap + 1)) % TickWrap)
  BY DEF IInv, InUse, Exact, TimeNow, Loss
<1> QED
  BY Invariance, <1>1, PTL

(* Until the first wrap the clock is right: it counts the ticks since the  *)
(* PowerPC side read the timer for SetTime.                                *)
THEOREM RightBeforeWrap == ClockSpec => [](wraps = 0 => TicksCounted)
<1>1. IInv /\ wraps = 0 => TicksCounted
  <2> SUFFICES ASSUME IInv, timerPc # "none", wraps = 0 PROVE TimeNow = ticks % TickWrap
    BY DEF TicksCounted
  <2>1. ticks \in Nat /\ Loss = 0
    BY ClockAssumption DEF IInv, ClockTypeOK, Loss, ClockAssumption
  <2>2. ctxTick[timerIndex] + DiffTicks(ctxTimer[timerIndex], timer) = ticks
    BY <2>1 DEF IInv, InUse, Exact
  <2> QED
    BY <2>2 DEF TimeNow
<1> QED
  BY Invariance, <1>1, PTL

(* Numbers with the same multiple taken away: what % returns is the only    *)
(* remainder.                                                              *)
LEMMA Remainder ==
  ASSUME NEW n \in Nat \ {0}, NEW q \in Int, NEW r \in Int, 0 <= r, r < n
  PROVE  (q * n + r) % n = r
<1> DEFINE x == q * n + r
           p == x \div n
<1>1. x \in Int /\ p \in Int /\ x % n \in 0 .. n - 1 /\ x = p * n + (x % n)
  OBVIOUS
<1>2. PICK y \in Int, t \in 0 .. n - 1, d \in Int : y = p /\ t = x % n /\ d = q - y
  BY <1>1
<1>3. d * n = t - r
  BY <1>1, <1>2
<1>4. d = 0
  <2>1. d >= 1 => d * n >= n
    OBVIOUS
  <2>2. d <= -1 => d * n <= -n
    OBVIOUS
  <2> QED
    BY <1>2, <1>3, <2>1, <2>2
<1> QED
  BY <1>2, <1>3, <1>4

LEMMA NextRemainder ==
  ASSUME NEW n \in Nat \ {0}, NEW x \in Int
  PROVE  ((x % n) + 1) % n = (x + 1) % n
<1> DEFINE q == x \div n
           r == x % n
<1>1. q \in Int /\ r \in Int /\ 0 <= r /\ r < n /\ x = q * n + r
  OBVIOUS
<1> HIDE DEF q, r
<1>2. CASE r + 1 < n
  <2>1. (q * n + (r + 1)) % n = r + 1 /\ (0 * n + (r + 1)) % n = r + 1
    BY <1>1, <1>2, Remainder
  <2>2. x + 1 = q * n + (r + 1) /\ 0 * n + (r + 1) = r + 1
    BY <1>1
  <2> QED
    BY <2>1, <2>2 DEF r
<1>3. CASE r + 1 = n
  <2>1. ((q + 1) * n + 0) % n = 0 /\ (1 * n + 0) % n = 0
    BY <1>1, Remainder
  <2>2. x + 1 = (q + 1) * n + 0 /\ 1 * n + 0 = r + 1
    BY <1>1, <1>3
  <2> QED
    BY <2>1, <2>2 DEF r
<1> QED
  BY <1>1, <1>2, <1>3

(* What the clock tells is the ticks less the loss, before and after.      *)
LEMMA SteadyStep ==
  ASSUME IInv, IInv', [ClockNext]_clockVars, timerPc # "none"
  PROVE  /\ timer' = timer => TimeNow' = TimeNow
         /\ timer' > timer => TimeNow' = (TimeNow + 1) % TickWrap
<1>1. ticks - Loss \in Int
  BY ClockAssumption DEF IInv, ClockTypeOK, Loss, ClockAssumption
<1>2. TimeNow = (ticks - Loss) % TickWrap
  BY DEF IInv, InUse, Exact, TimeNow
<1>3. timerPc' # "none" => TimeNow' = (ticks' - Loss') % TickWrap
  BY DEF IInv, InUse, Exact, TimeNow
<1>4. CASE TimerTick
  <2>1. timerPc' # "none" /\ timer \in 0 .. TimerWrap - 1 /\ TimerWrap \in Nat
    BY <1>4, ClockAssumption DEF TimerTick, IInv, ClockTypeOK, ClockAssumption
  <2>2. CASE timer = TimerWrap - 1
    <3>1. timer' = 0
      BY <1>4, <2>2 DEF TimerTick
    <3>2. timer' = timer => TimerWrap = 1
      BY <2>1, <2>2, <3>1
    <3>3. TimerWrap # 1
      BY <1>4, ClockAssumption DEF TimerTick, IInv, ClockTypeOK, ClockAssumption
    <3> QED
      BY <2>1, <3>1, <3>2, <3>3
  <2>3. CASE timer # TimerWrap - 1
    <3>1. /\ timer' = timer + 1 /\ ticks' = ticks + 1 /\ Loss' = Loss
          /\ ticks \in Int /\ Loss \in Int
      BY <1>4, <2>3, ClockAssumption DEF TimerTick, Loss, IInv, ClockTypeOK, ClockAssumption
    <3>2. (ticks - Loss) + 1 = ticks' - Loss'
      BY <3>1
    <3>3. (TimeNow + 1) % TickWrap = ((ticks - Loss) + 1) % TickWrap
      BY <1>1, <1>2, NextRemainder, ClockAssumption DEF ClockAssumption
    <3>4. timer' # timer
      BY <2>1, <3>1
    <3> QED
      BY <1>3, <2>1, <3>2, <3>3, <3>4
  <2> QED
    BY <2>2, <2>3
<1>5. CASE ~TimerTick
  <2>1. timerPc' # "none" /\ timer' = timer /\ ticks' = ticks /\ Loss' = Loss
    BY <1>5 DEF ClockNext, TimerThread, SetTime, ReadTimer, StoreTick, StoreTimer, Flip,
                ClockStops, clockVars, Loss
  <2>2. timer \in Int
    BY DEF IInv, ClockTypeOK
  <2> QED
    BY <1>2, <1>3, <2>1, <2>2
<1> QED
  BY <1>4, <1>5

(* Of a timer and a counter of any width, GetTime cannot tell whether the  *)
(* timer thread is at work.                                                *)
THEOREM RenewedUnseen == ClockSpec => ClockSteady
<1>1. /\ IInv /\ IInv' /\ [ClockNext]_clockVars
      => [timerPc # "none" =>
            /\ timer' = timer => TimeNow' = TimeNow
            /\ timer' > timer => TimeNow' = (TimeNow + 1) % TickWrap]_clockVars
  BY SteadyStep
<1> QED
  BY <1>1, Invariance, PTL DEF ClockSpec, ClockSteady

-----------------------------------------------------------------------------
(* The day count of a date, from a table of the months. *)
LeapDay(y) == IF Leap(y) THEN 1 ELSE 0

MonthDays == <<0, 31, 59, 90, 120, 151, 181, 212, 243, 273, 304, 334>>

DaysBefore(y, m) == MonthDays[m] + (IF m > 2 THEN LeapDay(y) ELSE 0)

DayNumber(c) == NewYearDay(c.year) + DaysBefore(c.year, c.month) + c.day - 1

IsDate(c) ==
  /\ c \in [year : Nat, month : 1 .. 12, day : Nat \ {0}]
  /\ c.year >= 1970 /\ c.day <= DaysIn(c.year, c.month)

LEMMA YearLength ==
  ASSUME NEW y \in Nat, y >= 1969
  PROVE  NewYearDay(y + 1) = NewYearDay(y) + 365 + LeapDay(y)
BY DEF NewYearDay, LeapDay, Leap

(* Z3 has to be told that these are numbers. *)
LEMMA CountTypes ==
  ASSUME NEW y \in Nat, NEW m \in 1 .. 12
  PROVE  /\ NewYearDay(y) \in Int /\ LeapDay(y) \in 0 .. 1
         /\ DaysBefore(y, m) \in Nat /\ DaysIn(y, m) \in 28 .. 31
<1>1. NewYearDay(y) \in Int /\ LeapDay(y) \in 0 .. 1 /\ DaysIn(y, m) \in 28 .. 31
  BY DEF NewYearDay, LeapDay, DaysIn
<1>2. MonthDays[m] \in Nat
  BY DEF MonthDays
<1>3. CASE m > 2
  <2>1. DaysBefore(y, m) = MonthDays[m] + LeapDay(y)
    BY <1>3 DEF DaysBefore
  <2> QED
    BY <1>1, <1>2, <2>1
<1>4. CASE m <= 2
  <2>1. DaysBefore(y, m) = MonthDays[m] + 0
    BY <1>4 DEF DaysBefore
  <2> QED
    BY <1>1, <1>2, <2>1
<1> QED
  BY <1>3, <1>4

(* The calendar counts days. *)
LEMMA SuccessorCounts ==
  ASSUME NEW c, IsDate(c)
  PROVE  IsDate(Successor(c)) /\ DayNumber(Successor(c)) = DayNumber(c) + 1
<1>1. PICK y \in Nat, m \in 1 .. 12, d \in Nat : c = Date(y, m, d)
  BY DEF IsDate, Date
<1>2. /\ c.year = y /\ c.month = m /\ c.day = d
      /\ y >= 1970 /\ d > 0 /\ d <= DaysIn(y, m)
  BY <1>1 DEF IsDate, Date
<1>3. /\ NewYearDay(y) \in Int /\ LeapDay(y) \in 0 .. 1
      /\ DaysIn(y, m) \in 28 .. 31 /\ DaysBefore(y, m) \in Nat
  BY CountTypes
<1>4. DayNumber(c) = NewYearDay(y) + DaysBefore(y, m) + d - 1
  BY <1>2 DEF DayNumber
<1>5. ASSUME NEW y1 \in Nat, NEW m1 \in 1 .. 12, NEW d1 \in Nat, Successor(c) = Date(y1, m1, d1)
      PROVE  /\ DayNumber(Successor(c)) = NewYearDay(y1) + DaysBefore(y1, m1) + d1 - 1
             /\ IsDate(Successor(c)) <=> y1 >= 1970 /\ d1 > 0 /\ d1 <= DaysIn(y1, m1)
  BY <1>5 DEF DayNumber, IsDate, Date
<1>6. CASE d < DaysIn(y, m)
  <2>1. Successor(c) = Date(y, m, d + 1)
    BY <1>2, <1>6 DEF Successor
  <2>2. d + 1 <= DaysIn(y, m)
    BY <1>3, <1>6
  <2>3. DayNumber(Successor(c)) = NewYearDay(y) + DaysBefore(y, m) + (d + 1) - 1
    BY <2>1, <1>5
  <2> QED
    BY <1>2, <1>3, <1>4, <1>5, <2>1, <2>2, <2>3
<1>7. CASE d = DaysIn(y, m) /\ m < 12
  <2>1. Successor(c) = Date(y, m + 1, 1)
    BY <1>2, <1>7 DEF Successor
  <2>2. DaysBefore(y, m + 1) = DaysBefore(y, m) + DaysIn(y, m) /\ DaysIn(y, m + 1) >= 1
    BY <1>7 DEF DaysBefore, MonthDays, DaysIn, LeapDay
  <2>3. DayNumber(Successor(c)) = NewYearDay(y) + DaysBefore(y, m + 1) + 1 - 1
    BY <2>1, <1>5, <1>7
  <2> QED
    BY <1>2, <1>3, <1>4, <1>5, <1>7, <2>1, <2>2, <2>3
<1>8. CASE d = DaysIn(y, m) /\ m = 12
  <2>1. Successor(c) = Date(y + 1, 1, 1)
    BY <1>2, <1>8 DEF Successor
  <2>2. d = 31 /\ DaysBefore(y, 12) = 334 + LeapDay(y) /\ DaysBefore(y + 1, 1) = 0
        /\ DaysIn(y + 1, 1) = 31
    BY <1>8 DEF DaysIn, DaysBefore, MonthDays
  <2>3. DayNumber(Successor(c)) = NewYearDay(y + 1) + 0 + 1 - 1
    BY <2>1, <2>2, <1>5
  <2> QED
    BY <1>2, <1>3, <1>4, <1>5, <1>8, <2>1, <2>2, <2>3, YearLength
<1> QED
  BY <1>2, <1>3, <1>6, <1>7, <1>8

-----------------------------------------------------------------------------
(* The first of March, in an era of 400 years that begins in March. *)
StartOfYear(yoe) == 365 * yoe + yoe \div 4 - yoe \div 100

(* yoe of the code is the year, whose last day may be a leap day. *)
LEMMA YearFound ==
  ASSUME NEW yoe \in Nat, NEW doy \in Nat, yoe < 400, doy < 366, doy = 365 => Leap(yoe + 1)
  PROVE  YearOfEra(StartOfYear(yoe) + doy) = yoe
<1> DEFINE doe == StartOfYear(yoe) + doy
<1>1. doe \in Int /\ doe = StartOfYear(yoe) + doy
  BY DEF StartOfYear
<1> HIDE DEF doe
<1> QED
  BY <1>1 DEF YearOfEra, StartOfYear, Leap

LEMMA YearStartNat ==
  ASSUME NEW yoe \in Nat
  PROVE  StartOfYear(yoe) \in Nat
BY DEF StartOfYear

LEMMA EraDivides ==
  ASSUME NEW era \in Nat, NEW doe \in Nat, doe < 146097
  PROVE  (146097 * era + doe) \div 146097 = era
BY SMT

LEMMA EraFound ==
  ASSUME NEW yoe \in Nat, NEW doy \in Nat, NEW era \in Nat, yoe < 400, doy < 366
  PROVE  (146097 * era + StartOfYear(yoe) + doy) \div 146097 = era
<1>1. StartOfYear(yoe) \in Nat /\ StartOfYear(yoe) < 145732
  BY DEF StartOfYear
<1>2. PICK doe \in Nat : doe = StartOfYear(yoe) + doy /\ doe < 146097
  BY <1>1, SMT
<1>3. 146097 * era + StartOfYear(yoe) + doy = 146097 * era + doe
  BY <1>1, <1>2, SMT
<1> QED
  BY <1>2, <1>3, EraDivides

(* mp of the code is the month, from March on, and (153 * mp + 2) \div 5   *)
(* are the days before it.                                                 *)
DayOfMonth(mp) == (153 * mp + 2) \div 5

LEMMA MonthFound ==
  ASSUME NEW mp \in 0 .. 11, NEW d \in 1 .. 31, mp = 11 => d <= 29,
         mp \in {1, 3, 6, 8} => d <= 30
  PROVE  (5 * (DayOfMonth(mp) + d - 1) + 2) \div 153 = mp
BY DEF DayOfMonth

(* The first of January in terms of eras. *)
LEMMA NewYearInEra ==
  ASSUME NEW era \in Nat, NEW yoe \in Nat, yoe < 400, 400 * era + yoe >= 1969
  PROVE  NewYearDay(400 * era + yoe + 1) = 146097 * era + StartOfYear(yoe) + 306 - 719468
<1>1. PICK y \in Nat : y = 400 * era + yoe
  OBVIOUS
<1> QED
  BY <1>1 DEF NewYearDay, StartOfYear

(* The local variables of civil_from_days, and the year that it returns. *)
Locals(days, era, doe, yoe, doy, mp, d, m) ==
  /\ days \in Int /\ era \in Int /\ doe \in Int /\ yoe \in Int
  /\ doy \in Int /\ mp \in Int /\ d \in Int /\ m \in Int
  /\ era = (days + 719468) \div 146097 /\ doe = days + 719468 - era * 146097
  /\ yoe = YearOfEra(doe) /\ doy = doe - (365 * yoe + yoe \div 4 - yoe \div 100)
  /\ mp = (5 * doy + 2) \div 153 /\ d = doy - (153 * mp + 2) \div 5 + 1
  /\ m = IF mp < 10 THEN mp + 3 ELSE mp - 9

YearFrom(yoe, era, m) == yoe + era * 400 + (IF m <= 2 THEN 1 ELSE 0)

LEMMA Returned ==
  ASSUME NEW days, NEW era, NEW doe, NEW yoe, NEW doy, NEW mp, NEW d, NEW m,
         Locals(days, era, doe, yoe, doy, mp, d, m)
  PROVE  civil_from_days(days) = Date(YearFrom(yoe, era, m), m, d)
BY SMT DEF Locals, YearFrom, civil_from_days

(* civil_from_days (FatFS.cpp:79-98) inverts the count of the days: for    *)
(* every date from 1970 on, asked for the number of its day, it gives back *)
(* the date.                                                               *)
THEOREM CivilFromDays ==
  ASSUME NEW c, IsDate(c)
  PROVE  civil_from_days(DayNumber(c)) = c
<1>1. PICK y \in Nat, m \in 1 .. 12, d \in Nat : c = Date(y, m, d)
  BY DEF IsDate, Date
<1>2. /\ c.year = y /\ c.month = m /\ c.day = d
      /\ y >= 1970 /\ d > 0 /\ d <= DaysIn(y, m)
  BY <1>1 DEF IsDate, Date
<1>3. /\ NewYearDay(y) \in Int /\ LeapDay(y) \in 0 .. 1 /\ DaysIn(y, m) \in 28 .. 31
      /\ DaysBefore(y, m) \in Nat
  BY CountTypes
(* The year and the month, from March on. *)
<1>4. PICK my \in Nat, mp \in 0 .. 11 :
        /\ my >= 1969
        /\ m <= 2 => my = y - 1 /\ mp = m + 9
        /\ m > 2 => my = y /\ mp = m - 3
  <2>1. CASE m <= 2
    BY <2>1, <1>2
  <2>2. CASE m > 2
    BY <2>2, <1>2
  <2> QED
    BY <2>1, <2>2
<1>5. PICK era \in Nat, yoe \in Nat : my = 400 * era + yoe /\ yoe < 400
  <2>1. my \div 400 \in Nat /\ my % 400 \in Nat /\ my % 400 < 400 /\ my = 400 * (my \div 400) + (my % 400)
    OBVIOUS
  <2> QED
    BY <2>1
<1>6. PICK doy \in Nat : doy = DayOfMonth(mp) + d - 1
  BY <1>2 DEF DayOfMonth
<1>7. DayOfMonth(mp) \in Nat /\ StartOfYear(yoe) \in Nat
  BY YearStartNat DEF DayOfMonth
<1>8. /\ d \in 1 .. 31
      /\ mp = 11 => d <= 29 /\ (d = 29 => Leap(y))
      /\ mp \in {1, 3, 6, 8} => d <= 30
  BY <1>2, <1>4 DEF DaysIn
<1>9. doy < 366 /\ (doy = 365 => Leap(yoe + 1))
  <2>1. doy < 366 /\ (doy = 365 => mp = 11 /\ d = 29)
    BY <1>6, <1>8 DEF DayOfMonth
  <2>2. ASSUME mp = 11, Leap(y) PROVE Leap(yoe + 1)
    <3>1. y = 400 * era + yoe + 1
      BY <2>2, <1>4, <1>5
    <3> QED
      BY <2>2, <3>1 DEF Leap
  <2> QED
    BY <2>1, <2>2, <1>8
<1>10. DayNumber(c) + 719468 = 146097 * era + StartOfYear(yoe) + doy
  <2>1. NewYearDay(my + 1) = 146097 * era + StartOfYear(yoe) + 306 - 719468
    BY <1>4, <1>5, NewYearInEra, SMT
  <2>2. NewYearDay(my + 1) = NewYearDay(my) + 365 + LeapDay(my)
    BY <1>4, YearLength
  <2>3. DayNumber(c) = NewYearDay(y) + DaysBefore(y, m) + d - 1
    BY <1>2 DEF DayNumber
  <2>4. CASE m <= 2
    <3>1. my + 1 = y /\ DayOfMonth(mp) = DaysBefore(y, m) + 306
      BY <2>4, <1>4 DEF DayOfMonth, DaysBefore, MonthDays
    <3>2. NewYearDay(my + 1) = NewYearDay(y)
      BY <3>1
    <3> QED
      BY <3>1, <3>2, <2>1, <2>3, <1>3, <1>6, <1>7, SMT
  <2>5. CASE m > 2
    <3>1. my = y /\ DaysBefore(y, m) = DayOfMonth(mp) + 59 + LeapDay(y)
      BY <2>5, <1>4 DEF DayOfMonth, DaysBefore, MonthDays, LeapDay
    <3>2. NewYearDay(y) + 365 + LeapDay(y) = 146097 * era + StartOfYear(yoe) + 306 - 719468
      BY <3>1, <2>1, <2>2
    <3> QED
      BY <3>1, <3>2, <2>3, <1>3, <1>6, <1>7, SMT
  <2> QED
    BY <2>4, <2>5
<1>11. DayNumber(c) \in Int
  BY <1>2, <1>3 DEF DayNumber
<1>12. PICK days \in Int, doe \in Int : days = DayNumber(c) /\ doe = StartOfYear(yoe) + doy
  BY <1>7, <1>11
<1>13. days + 719468 = 146097 * era + doe
  BY <1>7, <1>10, <1>12, SMT
<1>14. (days + 719468) \div 146097 = era
  <2>1. (146097 * era + StartOfYear(yoe) + doy) \div 146097 = era
    BY <1>5, <1>9, EraFound, SMT
  <2>2. days + 719468 = 146097 * era + StartOfYear(yoe) + doy
    BY <1>10, <1>12
  <2> QED
    BY <2>1, <2>2
<1>15. YearOfEra(doe) = yoe
  BY <1>5, <1>9, <1>12, YearFound, SMT
<1>16. doy = doe - (365 * yoe + yoe \div 4 - yoe \div 100)
  BY <1>12, SMT DEF StartOfYear
<1>17. mp = (5 * doy + 2) \div 153
  BY <1>6, <1>8, MonthFound
<1>18. d = doy - (153 * mp + 2) \div 5 + 1
  BY <1>6, <1>7 DEF DayOfMonth
<1>19. m = IF mp < 10 THEN mp + 3 ELSE mp - 9
  BY <1>4
<1>20. y = YearFrom(yoe, era, m)
  BY <1>4, <1>5 DEF YearFrom
<1>21. civil_from_days(days) = Date(y, m, d)
  <2>1. era = (days + 719468) \div 146097 /\ doe = days + 719468 - era * 146097
    BY <1>13, <1>14, SMT
  <2>2. Locals(days, era, doe, yoe, doy, mp, d, m)
    BY <2>1, <1>15, <1>16, <1>17, <1>18, <1>19, SMT DEF Locals
  <2>3. civil_from_days(days) = Date(YearFrom(yoe, era, m), m, d)
    BY <2>2, Returned, Zenon
  <2> QED
    BY <2>3, <1>20
<1> QED
  BY <1>21, <1>12, <1>1
-----------------------------------------------------------------------------
(* The day is the one of the calendar, and of a year that FAT can store. *)
DateInv ==
  /\ IsDate(calendar) /\ day \in Int /\ day = DayNumber(calendar)
  /\ NewYearDay(1980) <= day /\ day < FatEnd
  /\ second \in Seconds

LEMMA AnchorYear ==
  ASSUME NEW a \in Anchors
  PROVE  /\ \E y \in FatYears : a.day = NewYearDay(y) /\ a.date = Date(y, 1, 1)
         /\ Window \in Nat /\ a.day + Window < FatEnd
<1>1. PICK y \in FatYears : a = [day |-> NewYearDay(y), date |-> Date(y, 1, 1)]
  BY FatAssumption DEF FatAssumption
<1>2. Window \in Nat /\ a.day + Window < FatEnd
  BY FatAssumption DEF FatAssumption
<1> QED
  BY <1>1, <1>2

LEMMA YearTypes ==
  ASSUME NEW y \in FatYears
  PROVE  /\ y \in Nat /\ y >= 1980 /\ y < 2108 /\ NewYearDay(y) \in Int
         /\ NewYearDay(1980) \in Int /\ FatEnd \in Int
         /\ NewYearDay(1980) <= NewYearDay(y) /\ NewYearDay(y) < FatEnd
<1>1. y \in Nat /\ y >= 1980 /\ y < 2108
  BY SMT DEF FatYears
<1> QED
  BY <1>1, SMT DEF NewYearDay, FatEnd

LEMMA DateInit == FatInit => DateInv
<1> SUFFICES ASSUME FatInit PROVE DateInv
  OBVIOUS
<1>1. PICK a \in Anchors : day = a.day /\ calendar = a.date
  BY DEF FatInit
<1>2. PICK y \in FatYears : a.day = NewYearDay(y) /\ a.date = Date(y, 1, 1)
  BY AnchorYear
<1>3. day = NewYearDay(y) /\ calendar = Date(y, 1, 1)
  BY <1>1, <1>2
<1>4. y \in Nat /\ y >= 1980 /\ NewYearDay(y) \in Int
      /\ NewYearDay(1980) <= NewYearDay(y) /\ NewYearDay(y) < FatEnd
  BY YearTypes
<1>5. DaysBefore(y, 1) = 0 /\ DaysIn(y, 1) = 31
  BY DEF DaysBefore, MonthDays, DaysIn
<1>6. IsDate(calendar) /\ DayNumber(calendar) = NewYearDay(y) + DaysBefore(y, 1) + 1 - 1
  BY <1>3, <1>4, <1>5 DEF IsDate, DayNumber, Date
<1>7. second \in Seconds
  BY FatAssumption DEF FatInit, FatAssumption
<1> QED
  BY <1>3, <1>4, <1>5, <1>6, <1>7, SMT DEF DateInv

LEMMA DateStep == DateInv /\ [FatNext]_fatVars => DateInv'
<1> SUFFICES ASSUME DateInv, [FatNext]_fatVars PROVE DateInv'
  OBVIOUS
<1>1. CASE NextDay
  <2>1. PICK a \in Anchors : day \in a.day .. a.day + Window - 1
    BY <1>1 DEF NextDay
  <2>2. PICK y \in FatYears : a.day = NewYearDay(y)
    BY AnchorYear
  <2>3. /\ NewYearDay(y) \in Int /\ NewYearDay(1980) \in Int /\ FatEnd \in Int
        /\ Window \in Nat /\ NewYearDay(y) + Window < FatEnd
    BY <2>2, AnchorYear, YearTypes
  <2>4. day' = day + 1 /\ calendar' = Successor(calendar) /\ second' = second
    BY <1>1 DEF NextDay
  <2>5. IsDate(calendar)' /\ DayNumber(calendar)' = DayNumber(calendar) + 1
    BY <2>4, SuccessorCounts DEF DateInv
  <2>6. NewYearDay(1980) <= day' /\ day' < FatEnd /\ day' \in Int
    BY <2>1, <2>2, <2>3, <2>4, SMT DEF DateInv
  <2>7. NewYearDay(1980)' = NewYearDay(1980) /\ FatEnd' = FatEnd
    OBVIOUS
  <2> QED
    BY <2>4, <2>5, <2>6 DEF DateInv
<1>2. CASE UNCHANGED fatVars
  BY <1>2 DEF fatVars, DateInv, IsDate, DayNumber
<1> QED
  BY <1>1, <1>2 DEF FatNext, LastDay

(* The parts of the date, of a year that FAT can store: a year outside of  *)
(* those would have other days.                                            *)
LEMMA YearStored ==
  ASSUME DateInv
  PROVE  \E y \in Nat, m \in 1 .. 12, d \in 1 .. 31 :
           calendar = Date(y, m, d) /\ y >= 1980 /\ y < 2108
<1>1. PICK y \in Nat, m \in 1 .. 12, d \in Nat : calendar = Date(y, m, d)
  BY DEF DateInv, IsDate, Date
<1>2. /\ calendar.year = y /\ calendar.month = m /\ calendar.day = d
      /\ y >= 1970 /\ d > 0 /\ d <= DaysIn(y, m)
  BY <1>1 DEF DateInv, IsDate, Date
<1>3. day = NewYearDay(y) + DaysBefore(y, m) + d - 1
  BY <1>2 DEF DateInv, DayNumber
<1>4. NewYearDay(y) \in Int /\ LeapDay(y) \in 0 .. 1 /\ DaysBefore(y, m) \in Nat
      /\ DaysIn(y, m) \in 28 .. 31
  BY CountTypes
<1>5. DaysBefore(y, m) + DaysIn(y, m) <= 365 + LeapDay(y)
  BY DEF DaysBefore, MonthDays, DaysIn, LeapDay
<1>6. NewYearDay(y + 1) = NewYearDay(y) + 365 + LeapDay(y)
  BY <1>2, YearLength
<1>7. NewYearDay(y) <= day /\ day < NewYearDay(y + 1)
  BY <1>2, <1>3, <1>4, <1>5, <1>6, SMT
<1>8. NewYearDay(1980) < NewYearDay(y + 1) /\ NewYearDay(y) < FatEnd
  <2>1. NewYearDay(1980) \in Int /\ FatEnd \in Int /\ NewYearDay(y + 1) \in Int
    BY SMT DEF NewYearDay, FatEnd
  <2>2. day \in Int /\ NewYearDay(1980) <= day /\ day < FatEnd
    BY DEF DateInv
  <2> QED
    BY <2>1, <2>2, <1>4, <1>7, SMT
<1>9. y >= 1980 /\ y < 2108
  BY <1>8, SMT DEF NewYearDay, FatEnd
<1> QED
  BY <1>1, <1>2, <1>4, <1>9

LEMMA TimeFields ==
  ASSUME second \in Seconds
  PROVE  /\ (second \div 3600 % 24) % 32 = second \div 3600
         /\ (second \div 60 % 60) % 64 = second \div 60 % 60
<1>1. second \in Nat /\ second < 86400
  BY SMT DEF Seconds
<1> QED
  BY <1>1, SMT

(* From the first of 1980 to the end of 2107, the stamp of a file is the   *)
(* date of the calendar, and until 32 bits of seconds are used up in 2106, *)
(* the time of the day (get_fattime): no field overflows its bits.         *)
THEOREM StampsRight == FatSpec => []StampRight
<1>1. DateInv => StampRight
  <2> SUFFICES ASSUME DateInv PROVE StampRight
    OBVIOUS
  <2>1. PICK y \in Nat, m \in 1 .. 12, d \in 1 .. 31 :
          calendar = Date(y, m, d) /\ y >= 1980 /\ y < 2108
    BY YearStored
  <2>2. civil_from_days(day) = Date(y, m, d)
    BY <2>1, CivilFromDays DEF DateInv
  <2>3. /\ civil_from_days(day).year = y /\ civil_from_days(day).month = m
        /\ civil_from_days(day).day = d
    BY <2>2 DEF Date
  <2>4. 1980 + ((y - 1980) % 128) = y /\ m % 16 = m /\ d % 32 = d
    BY <2>1, SMT
  <2>5. /\ get_fattime.year = (y - 1980) % 128
        /\ get_fattime.month = m % 16 /\ get_fattime.day = d % 32
    BY <2>3, SMT DEF get_fattime
  <2>6. Date(1980 + get_fattime.year, get_fattime.month, get_fattime.day) = calendar
    BY <2>1, <2>4, <2>5
  <2>7. ASSUME day < 49710
        PROVE  get_fattime.hour = second \div 3600 /\ get_fattime.minute = second \div 60 % 60
    <3>1. day \in Int /\ second \in Seconds
      BY DEF DateInv
    <3>2. ~(day > 49710) /\ day # 49710
      BY <2>7, <3>1, SMT
    <3>3. SecondOf32 = second
      BY <3>2, SMT DEF SecondOf32
    <3>4. /\ get_fattime.hour = (SecondOf32 \div 3600 % 24) % 32
          /\ get_fattime.minute = (SecondOf32 \div 60 % 60) % 64
      BY SMT DEF get_fattime
    <3> QED
      BY <3>1, <3>3, <3>4, TimeFields
  <2> QED
    BY <2>6, <2>7, SMT DEF StampRight
<1> QED
  BY DateInit, DateStep, <1>1, PTL DEF FatSpec
=============================================================================
