--------------------------------- MODULE Dates ---------------------------------
(***************************************************************************)
(* The dates in the file stems of recovery snapshots (civil_from_days of   *)
(* format.rs, recovery_stem of session.rs), from a day since 1970-01-01    *)
(* and a second of it. Snapshots are listed and pruned in the order of     *)
(* their stems, which is that of their digits: each field but the process  *)
(* ID has a fixed width, for years of four digits.                         *)
(***************************************************************************)
EXTENDS Naturals, Sequences

CONSTANT Days  \* the days that are looked at

ASSUME DatesAssumption == \A day \in Days : day \in Nat

SecondsOfDay == 86400

\* Mutant: the last day of 400 years falls into a year of its own.
YearOfEraLong(doe) == (doe - doe \div 1460 + doe \div 36524) \div 365

\* Of the days of an era of 400 years.
YearOfEra(doe) == (doe - doe \div 1460 + doe \div 36524 - doe \div 146096) \div 365

\* civil_from_days: years begin in March.
CivilFromDays(days) ==
  LET z   == days + 719468
      era == z \div 146097
      doe == z - era * 146097
      yoe == YearOfEra(doe)
      doy == doe - (365 * yoe + yoe \div 4 - yoe \div 100)
      mp  == (5 * doy + 2) \div 153
      m   == IF mp < 10 THEN mp + 3 ELSE mp - 9
  IN  <<yoe + era * 400 + (IF m <= 2 THEN 1 ELSE 0), m, doy - (153 * mp + 2) \div 5 + 1>>

\* civil_utc and recovery_stem, but for the process ID.
CivilUtc(day, second) ==
  CivilFromDays(day) \o <<second \div 3600, (second % 3600) \div 60, second % 60>>

-----------------------------------------------------------------------------
(* Properties.                                                             *)

LeapYear(y) == y % 4 = 0 /\ (y % 100 # 0 \/ y % 400 = 0)
DaysInMonth(y, m) ==
  CASE m = 2 -> IF LeapYear(y) THEN 29 ELSE 28
    [] m \in {4, 6, 9, 11} -> 30
    [] OTHER -> 31

DateAfter(d) ==
  IF d[3] < DaysInMonth(d[1], d[2]) THEN <<d[1], d[2], d[3] + 1>>
  ELSE IF d[2] < 12 THEN <<d[1], d[2] + 1, 1>> ELSE <<d[1] + 1, 1, 1>>

Below(a, b) == \E n \in DOMAIN a : a[n] < b[n] /\ \A m \in 1 .. n - 1 : a[m] = b[m]

\* A daemon that starts a second later has the greater stem, over the ends of minutes, hours,
\* days, months, years and eras; and the stem is a date (recovery_stem, civil_from_days).
StemsAscend ==
  \A day \in Days :
    /\ CivilFromDays(day + 1) = DateAfter(CivilFromDays(day))
    /\ \A second \in {0, 59, 3599, 3600, SecondsOfDay - 1} :
         Below(CivilUtc(day, second),
               CivilUtc(day + (second + 1) \div SecondsOfDay, (second + 1) % SecondsOfDay))
=============================================================================
