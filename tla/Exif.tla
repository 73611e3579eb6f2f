-------------------------------- MODULE Exif --------------------------------
(***************************************************************************)
(* When a picture was taken (dafs-extract exif.rs): its calendar fields as     *)
(* seconds since 1970, by an arithmetic that has no calendar in it. Here the   *)
(* calendar is walked day by day beside it.                                 *)
(***************************************************************************)
EXTENDS Integers, FiniteSets

CONSTANTS
  StartYears,     (* years whose first day a walk starts from               *)
  MaxDays         (* bound: days of a walk                                  *)

ASSUME ExifAssumption == StartYears \subseteq Nat /\ MaxDays \in Nat

VARIABLES
  date,           (* year, month and day                                    *)
  days,           (* how many there are from 1 January 1970 to it             *)
  walked

exifVars == <<date, days, walked>>

-----------------------------------------------------------------------------
(* The calendar, as it is defined.                                          *)
Leap(y) == y % 4 = 0 /\ (y % 100 # 0 \/ y % 400 = 0)

MonthLength(y, m) ==
  CASE m = 2 -> IF Leap(y) THEN 29 ELSE 28
    [] m \in {4, 6, 9, 11} -> 30
    [] OTHER -> 31

(* Days from the first of 1970 to that of year y.                            *)
DaysTo(y) ==
  IF y >= 1970 THEN 365 * (y - 1970) + Cardinality({z \in 1970 .. y - 1 : Leap(z)})
  ELSE 365 * (y - 1970) - Cardinality({z \in y .. 1969 : Leap(z)})

Tomorrow ==
  IF date.d < MonthLength(date.y, date.m) THEN [date EXCEPT !.d = @ + 1]
  ELSE IF date.m < 12 THEN [y |-> date.y, m |-> date.m + 1, d |-> 1]
  ELSE [y |-> date.y + 1, m |-> 1, d |-> 1]

ExifInit ==
  /\ date \in {[y |-> y, m |-> 1, d |-> 1] : y \in StartYears}
  /\ days = DaysTo(date.y)
  /\ walked = 0

NextDay ==
  /\ walked < MaxDays
  /\ date' = Tomorrow
  /\ days' = days + 1
  /\ walked' = walked + 1

ExifSpec == ExifInit /\ [][NextDay]_exifVars

-----------------------------------------------------------------------------
(* What the fields must be, or there is no time; the day of a month is not     *)
(* looked up, and 60 seconds are a leap second.                               *)
Plausible(m, d, hour, minute, second) ==
  m \in 1 .. 12 /\ d \in 1 .. 31 /\ hour <= 23 /\ minute <= 59 /\ second <= 60

(* civil_to_unix, before the time of day: a year begins in March, the leap     *)
(* day is its last. The division truncates.                                  *)
CivilToDays(year, month, day) ==
  LET y == IF month <= 2 THEN year - 1 ELSE year
      era == IF y >= 0 THEN y \div 400 ELSE -((399 - y) \div 400)
      yoe == y - era * 400
      mp == (month + 9) % 12
      doy == (153 * mp + 2) \div 5 + day - 1
      doe == yoe * 365 + yoe \div 4 - yoe \div 100 + doy
  IN era * 146097 + doe - 719468

CivilToUnix(y, m, d, hour, minute, second) ==
  IF Plausible(m, d, hour, minute, second)
  THEN <<CivilToDays(y, m, d), hour * 3600 + minute * 60 + second>>
  ELSE <<>>

(* Every day of the calendar is one more than the one before it, over ends of   *)
(* months, leap days and centuries, and no time of a day is in another one     *)
(* but for the leap second (exif.rs 76).                                     *)
CalendarExact ==
  /\ CivilToUnix(date.y, date.m, date.d, 0, 0, 0) = <<days, 0>>
  /\ CivilToUnix(date.y, date.m, date.d, 23, 59, 59) = <<days, 86399>>
  /\ CivilToUnix(date.y, date.m, date.d, 23, 59, 60) = <<days, 86400>>
=============================================================================
