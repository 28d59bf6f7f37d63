------------------------------ MODULE FatTime ------------------------------
(***************************************************************************)
(* The time stamps of files: civil_from_days and get_fattime of            *)
(* src/ios/Disk/FatFS.cpp.  A calendar that is advanced day by day is the  *)
(* reference for the closed formula of the code.                           *)
(***************************************************************************)
EXTENDS Integers

CONSTANTS
  Anchors,    \* days since 1970 whose date is known: records of day and date
  Window,     \* days to follow from an anchor
  Times       \* seconds of a day to look at

VARIABLES
  day,        \* days since 1970, of time64
  second,     \* seconds of the day
  calendar    \* the date, by counting days

fatVars == <<day, second, calendar>>

Date(y, m, d) == [year |-> y, month |-> m, day |-> d]

(* Days from 1970 to the first of January: leap years are counted by the   *)
(* rule of the Gregorian calendar.                                         *)
NewYearDay(y) ==
  365 * (y - 1970) + (y - 1969) \div 4 - (y - 1901) \div 100 + (y - 1601) \div 400

(* The years that the 7 bits of a stamp can tell, the day after them, and  *)
(* the seconds of a day.                                                   *)
FatYears == 1980 .. 2107
FatEnd == NewYearDay(2108)
Seconds == 0 .. 86399

(* An anchor is a first of January, and its window ends with the years     *)
(* that FAT can store.                                                     *)
ASSUME FatAssumption ==
  /\ Window \in Nat /\ Times \subseteq Seconds
  /\ \A a \in Anchors :
       /\ \E y \in FatYears : a = [day |-> NewYearDay(y), date |-> Date(y, 1, 1)]
       /\ a.day + Window < FatEnd

-----------------------------------------------------------------------------
(* The code.  C divides unsigned numbers downwards, as \div does; no day   *)
(* before 1970 is asked for, so era needs no correction.                   *)

(* A variant of YearOfEra that lets every century be a common year. *)
YearOfEraCommon(doe) == (doe - doe \div 1460 + doe \div 36524) \div 365

YearOfEra(doe) == (doe - doe \div 1460 + doe \div 36524 - doe \div 146096) \div 365

civil_from_days(days) ==
  LET z == days + 719468
      era == z \div 146097
      doe == z - era * 146097
      yoe == YearOfEra(doe)
      doy == doe - (365 * yoe + yoe \div 4 - yoe \div 100)
      mp == (5 * doy + 2) \div 153
      d == doy - (153 * mp + 2) \div 5 + 1
      m == IF mp < 10 THEN mp + 3 ELSE mp - 9
  IN Date(yoe + era * 400 + (IF m <= 2 THEN 1 ELSE 0), m, d)

(* time32 counts seconds modulo 2^32, which is 49710 days and 23296        *)
(* seconds: from then on its seconds of the day are 23296 behind.          *)
SecondOf32 ==
  IF day > 49710 \/ (day = 49710 /\ second >= 23296) THEN (second - 23296) % 86400 ELSE second

(* The fields of a stamp have 7, 4, 5, 5, 6 and 5 bits. *)
get_fattime ==
  LET date == civil_from_days(day)
      time32 == SecondOf32
  IN [year |-> (date.year - 1980) % 128, month |-> date.month % 16, day |-> date.day % 32,
      hour |-> (time32 \div 3600 % 24) % 32, minute |-> (time32 \div 60 % 60) % 64,
      second |-> (time32 % 60) % 32]

-----------------------------------------------------------------------------
(* The calendar. *)
Leap(y) == y % 4 = 0 /\ (y % 100 # 0 \/ y % 400 = 0)

DaysIn(y, m) ==
  IF m = 2 THEN (IF Leap(y) THEN 29 ELSE 28) ELSE IF m \in {4, 6, 9, 11} THEN 30 ELSE 31

Successor(c) ==
  IF c.day < DaysIn(c.year, c.month) THEN Date(c.year, c.month, c.day + 1)
  ELSE IF c.month < 12 THEN Date(c.year, c.month + 1, 1)
  ELSE Date(c.year + 1, 1, 1)

FatInit ==
  /\ \E a \in Anchors : day = a.day /\ calendar = a.date
  /\ second \in Times

NextDay ==
  /\ \E a \in Anchors : day \in a.day .. a.day + Window - 1
  /\ day' = day + 1 /\ calendar' = Successor(calendar)
  /\ UNCHANGED second

(* The end of the window. *)
LastDay ==
  /\ \A a \in Anchors : day \notin a.day .. a.day + Window - 1
  /\ UNCHANGED fatVars

FatNext == NextDay \/ LastDay

FatSpec == FatInit /\ [][FatNext]_fatVars

-----------------------------------------------------------------------------
(* A stamp, decoded as the FAT file system does but for the seconds, gives *)
(* the date of the calendar and the time of the day, in leap years, in     *)
(* centuries that are leap years and in those that are not, up to the end  *)
(* of time32 in February 2106.  (FAT counts seconds in twos; the code      *)
(* stores the seconds, less 32 in the second half of a minute.)            *)
StampRight ==
  LET stamp == get_fattime
  IN /\ Date(1980 + stamp.year, stamp.month, stamp.day) = calendar
     /\ day < 49710 => stamp.hour = second \div 3600 /\ stamp.minute = second \div 60 % 60
=============================================================================
