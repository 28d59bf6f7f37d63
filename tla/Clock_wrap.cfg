\* A timer that wraps three times while the thread renews its readings in time.
SPECIFICATION ClockSpec
CONSTANTS
  TimerWrap = 4
  TickWrap = 32
  Interval = 3
  MaxTicks = 12
INVARIANT TicksCounted
CHECK_DEADLOCK TRUE
