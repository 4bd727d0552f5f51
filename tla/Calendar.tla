------------------------------ MODULE Calendar ------------------------------
(* Dates: days_from_civil and the arithmetic of parse_rfc3339, with which    *)
(* the venues' timestamps are read (ma-venues/src/venues/common.rs), and     *)
(* civil_from_days, date_hour and date_stamp, which name the directories of  *)
(* the archive (ma-persist/src/writer.rs) and a tape                         *)
(* (ma-server/src/bin/record.rs).  Text is left out: a timestamp is its      *)
(* fields, an instant is whole minutes since 1970 and a second.              *)
EXTENDS Integers

Bit(condition) == IF condition THEN 1 ELSE 0

\* Mutant: every fourth year is a leap year.
DaysFromJulian(year, month, day) ==
    LET y == year - Bit(month <= 2)
        era == y \div 400
        yearOfEra == y - era * 400
        dayOfYear == (153 * (month + (IF month > 2 THEN -3 ELSE 9)) + 2) \div 5 + day - 1
    IN  era * 146097 + yearOfEra * 365 + yearOfEra \div 4 + dayOfYear - 719468

\* Years begin in March, so that the leap day is the last of its year.
DaysFromCivil(year, month, day) ==
    LET y == year - Bit(month <= 2)
        era == y \div 400
        yearOfEra == y - era * 400
        dayOfYear == (153 * (month + (IF month > 2 THEN -3 ELSE 9)) + 2) \div 5 + day - 1
        dayOfEra == yearOfEra * 365 + yearOfEra \div 4 - yearOfEra \div 100 + dayOfYear
    IN  era * 146097 + dayOfEra - 719468

CivilFromDays(days) ==
    LET z == days + 719468
        era == z \div 146097
        doe == z - era * 146097
        yoe == (doe - doe \div 1460 + doe \div 36524 - doe \div 146096) \div 365
        doy == doe - (365 * yoe + yoe \div 4 - yoe \div 100)
        mp == (5 * doy + 2) \div 153
        month == IF mp < 10 THEN mp + 3 ELSE mp - 9
    IN  [year |-> yoe + era * 400 + Bit(month <= 2), month |-> month,
         day |-> doy - (153 * mp + 2) \div 5 + 1]

\* The date in the name of a tape: the same conversion, written out again.
DateStamp(minutes) == CivilFromDays((IF minutes < 0 THEN 0 ELSE minutes) \div 1440)

\* The directory of an instant, the epoch's for one before the epoch.
DateHour(minutes) ==
    LET since == IF minutes < 0 THEN 0 ELSE minutes
    IN  [date |-> CivilFromDays(since \div 1440), hour |-> (since % 1440) \div 60]

Unreadable == [minutes |-> 0, second |-> -1]

\* The fields of a timestamp, and its offset from UTC in minutes; a leap second
\* is clamped, a field out of range gives no timestamp.
ParseRfc3339(t) ==
    IF ~(t.month \in 1..12 /\ t.day \in 1..31 /\ t.hour \in 0..23 /\ t.minute \in 0..59
         /\ t.second \in 0..60 /\ t.offset \in -1439..1439)
    THEN Unreadable
    ELSE [minutes |-> DaysFromCivil(t.year, t.month, t.day) * 1440
                        + t.hour * 60 + t.minute - t.offset,
          second |-> IF t.second > 59 THEN 59 ELSE t.second]
=============================================================================
