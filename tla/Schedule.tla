------------------------------ MODULE Schedule ------------------------------
(***************************************************************************)
(* The times of src/src/schedule.c: srsTIME structs with the widths of     *)
(* their fields, the text strftime writes for them into added.txt and      *)
(* scheduled.txt, and what sscanf makes of such a text.  A text is the     *)
(* record of its five decimal fields, the last four of two digits (what    *)
(* follows is never read); a text of another shape is Garbage.  C does     *)
(* its arithmetic on the narrow fields in int.                             *)
(***************************************************************************)
EXTENDS Integers, Sequences

CONSTANT Garbage    \* a text srsTIME_SCAN_FORMAT does not match, "" included

Byte  == 0..255
Short == {n \in Nat : n < 65536}
Time  == [year : Short, month : Byte, day : Byte, hour : Byte, minute : Byte]

TwoDigits == 0..99
Text == [year : Nat, month : TwoDigits, day : TwoDigits, hour : TwoDigits, minute : TwoDigits]

ASSUME GarbageAssumption == Garbage \notin Text

YEAR_OFFSET  == 1900
MONTH_OFFSET == 1

-----------------------------------------------------------------------------
(* srsTime_ToString                                                        *)

\* The bounds checks.  A month is checked as if it still had to be shifted.
Writable(t) == /\ t.month + MONTH_OFFSET <= 12
               /\ t.day \in 1..31
               /\ t.hour < 24
               /\ t.minute < 60

\* The struct tm handed to strftime, whose years count from 1900 and whose
\* months count from 0.
Broken(t) == [tm_year |-> t.year - YEAR_OFFSET, tm_mon |-> t.month - MONTH_OFFSET,
              tm_mday |-> t.day, tm_hour |-> t.hour, tm_min |-> t.minute]

\* strftime with "%Y-%m-%d %H:%M" prints the calendar's year and month again.
Strftime(tm) == [year |-> tm.tm_year + 1900, month |-> tm.tm_mon + 1, day |-> tm.tm_mday,
                 hour |-> tm.tm_hour, minute |-> tm.tm_min]

\* What the caller's buffer holds afterwards; nothing is written on failure.
TimeToString_UnshiftedMonth(t, buffer) ==
    IF Writable(t) THEN Strftime([Broken(t) EXCEPT !.tm_mon = t.month]) ELSE buffer
TimeToString(t, buffer) == IF Writable(t) THEN Strftime(Broken(t)) ELSE buffer

-----------------------------------------------------------------------------
(* srsTime_FromString                                                      *)

\* "%04u-%02u-%02u %02u:%02u" finds its five numbers if the year has at most
\* four digits.
Scanned(text) == text # Garbage /\ text.year <= 9999

\* The checks on them: the minute is never bounded, the hour twice.
Readable_AnyDay(text) == /\ Scanned(text)
                         /\ text.year >= 1900
                         /\ text.month <= 12
                         /\ text.hour < 24
Readable(text) == /\ Scanned(text)
                  /\ text.year >= 1900
                  /\ text.month <= 12
                  /\ text.day \in 1..31
                  /\ text.hour < 24
                  /\ text.hour < 60

\* The numbers are stored into the narrow fields.
Stored(text) == [year |-> text.year % 65536, month |-> text.month % 256, day |-> text.day % 256,
                 hour |-> text.hour % 256, minute |-> text.minute % 256]

\* What *time holds afterwards; a text that is refused leaves it alone.
TimeFromString(text, time) == IF Readable(text) THEN Stored(text) ELSE time

-----------------------------------------------------------------------------
(* srsTime_Now and srsTime_Compare                                         *)

\* What localtime may return at one of the program's times.
LocalTime == [tm_year : Nat, tm_mon : 0..11, tm_mday : 1..31, tm_hour : 0..23, tm_min : 0..59]

FromTM(tm) == [year |-> (tm.tm_year + YEAR_OFFSET) % 65536, month |-> tm.tm_mon + MONTH_OFFSET,
               day |-> tm.tm_mday, hour |-> tm.tm_hour, minute |-> tm.tm_min]

\* The first field that differs decides.
Fields(t) == <<t.year, t.month, t.day, t.hour, t.minute>>
TimeCompare_NoHour(left, right) ==
    LET differ == {i \in 1..5 : i # 4 /\ Fields(left)[i] # Fields(right)[i]}
    IN  IF differ = {} THEN 0
        ELSE LET i == CHOOSE i \in differ : \A j \in differ : i <= j
             IN  Fields(left)[i] - Fields(right)[i]
TimeCompare(left, right) ==
    LET differ == {i \in 1..5 : Fields(left)[i] # Fields(right)[i]}
    IN  IF differ = {} THEN 0
        ELSE LET i == CHOOSE i \in differ : \A j \in differ : i <= j
             IN  Fields(left)[i] - Fields(right)[i]
=============================================================================
