----------------------------- MODULE MC_Schedule -----------------------------
(***************************************************************************)
(* A time of the program and a text of the user that are converted into    *)
(* each other while the clock is read.  Their fields come from sets around *)
(* every bound the code checks.                                            *)
(***************************************************************************)
EXTENDS Schedule, FiniteSets

CONSTANTS Years, Months, Days, Hours, Minutes

VARIABLES time, text, kind   \* kind: the step that came last

vars == <<time, text, kind>>

MCTimes == [year : Years, month : Months, day : Days, hour : Hours, minute : Minutes]
MCTexts == MCTimes \cup {Garbage}
Clock   == [tm_year : {y - YEAR_OFFSET : y \in Years \cap 1970..9999}, tm_mon : {0, 10, 11},
            tm_mday : {1, 30}, tm_hour : {0, 23}, tm_min : {0, 59}]

ASSUME ClockAssumption  == Clock \subseteq LocalTime
ASSUME FieldsAssumption == MCTimes \subseteq Time /\ MCTimes \subseteq Text

\* srsTIME_NONE
None == [year |-> 0, month |-> 0, day |-> 0, hour |-> 0, minute |-> 0]

Init == /\ \/ time \in MCTimes /\ text = Garbage
           \/ time = None /\ text \in MCTexts
        /\ kind = "made"

Now(tm) == time' = FromTM(tm) /\ kind' = "now" /\ UNCHANGED text
Write   == text' = TimeToString(time, text) /\ kind' = "written" /\ UNCHANGED time
Read    == time' = TimeFromString(text, time) /\ kind' = "read" /\ UNCHANGED text

Next == (\E tm \in Clock : Now(tm)) \/ Write \/ Read

Spec == Init /\ [][Next]_vars

-----------------------------------------------------------------------------
(* Properties                                                              *)

\* What ToString has written FromString reads back unchanged, when the year
\* fits both: added.txt and scheduled.txt keep the times they are given.
WrittenIsRead ==
    [][kind' = "written" /\ Writable(time) /\ time.year >= 1900 /\ time.year <= 9999 =>
          \A other \in {time, time'} : Readable(text') /\ TimeFromString(text', other) = time]_vars

\* A time read from a file is within its fields' widths, is a day and an hour
\* of the calendar, and writing it back reproduces the text unless the month
\* or the minute is one that ToString refuses.
ReadIsWritten ==
    [][kind' = "read" /\ Readable(text) =>
          /\ time' \in Time
          /\ time'.day \in 1..31 /\ time'.hour \in 0..23
          /\ time'.year >= 1900 /\ time'.year <= 9999
          /\ time'.month <= 11 /\ time'.minute <= 59 => TimeToString(time', Garbage) = text]_vars

\* Chronological order, field by field.
Earlier(s, t) ==
    \/ s.year < t.year
    \/ s.year = t.year /\ s.month < t.month
    \/ s.year = t.year /\ s.month = t.month /\ s.day < t.day
    \/ s.year = t.year /\ s.month = t.month /\ s.day = t.day /\ s.hour < t.hour
    \/ s.year = t.year /\ s.month = t.month /\ s.day = t.day /\ s.hour = t.hour /\ s.minute < t.minute

\* Compare orders the times a program has had chronologically, and calls only
\* equal times equal.
CompareIsChronological ==
    [][/\ TimeCompare(time, time') < 0 <=> Earlier(time, time')
       /\ TimeCompare(time', time) > 0 <=> Earlier(time, time')
       /\ TimeCompare(time, time') = 0 <=> time = time']_vars
=============================================================================
