--------------------------- MODULE ScheduleProofs ---------------------------
(***************************************************************************)
(* The two conversions of schedule.c undo each other, for every time and   *)
(* every text, and Compare is chronological: of single values, and of a    *)
(* time and a text that are converted into each other in any order while   *)
(* the clock is read, for every set of times the program may begin with.   *)
(***************************************************************************)
EXTENDS MC_Schedule, TLAPS

\* What the text of a time holds: the fields of the time.
FieldsOf(t) == [year |-> t.year, month |-> t.month, day |-> t.day, hour |-> t.hour,
                minute |-> t.minute]

\* The fields of a time and of a text.
LEMMA TimeFields ==
    ASSUME NEW t \in Time
    PROVE  /\ t.year \in Nat /\ t.year < 65536 /\ t.month \in 0..255 /\ t.day \in 0..255
           /\ t.hour \in 0..255 /\ t.minute \in 0..255
           /\ t = FieldsOf(t)
  BY DEF Time, Short, Byte, FieldsOf

LEMMA TextFields ==
    ASSUME NEW txt \in Text
    PROVE  /\ txt.year \in Nat /\ txt.month \in 0..99 /\ txt.day \in 0..99
           /\ txt.hour \in 0..99 /\ txt.minute \in 0..99
           /\ txt = FieldsOf(txt)
  BY DEF Text, TwoDigits, FieldsOf

\* What strftime prints of a broken-down time is the time.
LEMMA PrintedFields ==
    ASSUME NEW t \in Time
    PROVE  Strftime(Broken(t)) = t
<1> DEFINE tm == Broken(t)
<1>1. /\ tm.tm_year = t.year - 1900 /\ tm.tm_mon = t.month - 1
      /\ tm.tm_mday = t.day /\ tm.tm_hour = t.hour /\ tm.tm_min = t.minute
  BY DEF Broken, YEAR_OFFSET, MONTH_OFFSET
<1>2. t.year \in Int /\ t.month \in Int
  BY TimeFields
<1> HIDE DEF tm
<1>3. tm.tm_year + 1900 = t.year /\ tm.tm_mon + 1 = t.month
  BY <1>1, <1>2
<1>4. Strftime(tm) = FieldsOf(t)
  BY <1>1, <1>3 DEF Strftime, FieldsOf
<1>5. QED
  BY <1>4, TimeFields DEF tm

\* A struct keeps five numbers that are within its fields' widths.
LEMMA StoredFits ==
    ASSUME NEW n, n = FieldsOf(n), n.year \in Nat, n.year < 65536, n.month \in 0..255,
           n.day \in 0..255, n.hour \in 0..255, n.minute \in 0..255
    PROVE  Stored(n) = n /\ n \in Time
<1>1. /\ n.year % 65536 = n.year /\ n.month % 256 = n.month /\ n.day % 256 = n.day
      /\ n.hour % 256 = n.hour /\ n.minute % 256 = n.minute
  OBVIOUS
<1>2. Stored(n) = FieldsOf(n)
  BY <1>1 DEF Stored, FieldsOf
<1>3. FieldsOf(n) \in Time
  BY DEF FieldsOf, Time, Short, Byte
<1>4. QED
  BY <1>2, <1>3

\* Every time that srsTime_ToString accepts and whose year has four digits and
\* is not before 1900 is read back by srsTime_FromString as it was, whatever
\* the struct held before and whatever the buffer did.
THEOREM WriteThenRead ==
    ASSUME NEW t \in Time, Writable(t), t.year >= 1900, t.year <= 9999, NEW other, NEW buffer
    PROVE  /\ Readable(TimeToString(t, buffer))
           /\ TimeFromString(TimeToString(t, buffer), other) = t
<1>1. TimeToString(t, buffer) = t
  BY PrintedFields DEF TimeToString
<1>2. t.month + 1 <= 12 /\ t.day \in 1..31 /\ t.hour < 24 /\ t.minute < 60
  BY DEF Writable, MONTH_OFFSET
<1>3. /\ t.month \in 0..11 /\ t.hour \in 0..23 /\ t.minute \in 0..59
  BY <1>2, TimeFields
<1>4. t \in Text
  <2>1. FieldsOf(t) \in Text
    BY <1>2, <1>3, TimeFields DEF FieldsOf, Text, TwoDigits
  <2>2. QED
    BY <2>1, TimeFields
<1>5. Readable(t)
  BY <1>2, <1>3, <1>4, GarbageAssumption DEF Readable, Scanned
<1>6. Stored(t) = t
  BY TimeFields, StoredFits
<1>7. QED
  BY <1>1, <1>5, <1>6 DEF TimeFromString

\* Every text that srsTime_FromString accepts gives a time within the widths of
\* its fields, and is written back as it was unless its month is December or its
\* minute is past 59.
THEOREM ReadThenWrite ==
    ASSUME NEW txt \in Text, Readable(txt), NEW other, NEW buffer
    PROVE  LET t == TimeFromString(txt, other)
           IN  /\ t \in Time
               /\ txt.month # 12 /\ txt.minute <= 59 => TimeToString(t, buffer) = txt
<1>1. /\ txt.year <= 9999 /\ txt.year >= 1900 /\ txt.month <= 12
      /\ txt.day \in 1..31 /\ txt.hour < 24
  BY DEF Readable, Scanned
<1>2. /\ txt.year < 65536 /\ txt.month \in 0..255 /\ txt.day \in 0..255
      /\ txt.hour \in 0..255 /\ txt.minute \in 0..255
  BY <1>1, TextFields
<1>3. TimeFromString(txt, other) = txt /\ txt \in Time
  BY <1>2, TextFields, StoredFits DEF TimeFromString
<1>4. ASSUME txt.month # 12, txt.minute <= 59
      PROVE  TimeToString(txt, buffer) = txt
  <2>1. txt.month + 1 <= 12 /\ txt.hour < 24 /\ txt.minute < 60
    BY <1>1, <1>4, TextFields
  <2>2. Writable(txt)
    BY <1>1, <2>1 DEF Writable, MONTH_OFFSET
  <2>3. QED
    BY <1>3, <2>2, PrintedFields DEF TimeToString
<1>5. QED
  BY <1>3, <1>4

\* The clock gives a time of the program.
LEMMA ClockTime ==
    ASSUME NEW tm \in LocalTime
    PROVE  FromTM(tm) \in Time
<1>1. /\ tm.tm_year \in Nat /\ tm.tm_mon \in 0..11
      /\ tm.tm_mday \in Byte /\ tm.tm_hour \in Byte /\ tm.tm_min \in Byte
  BY DEF LocalTime, Byte
<1>2. \A n \in Nat : (n + 1900) % 65536 \in Short
  BY DEF Short
<1>3. \A n \in 0..11 : n + 1 \in Byte
  BY DEF Byte
<1>4. (tm.tm_year + 1900) % 65536 \in Short /\ tm.tm_mon + 1 \in Byte
  BY <1>1, <1>2, <1>3
<1>5. QED
  BY <1>1, <1>4 DEF FromTM, Time, YEAR_OFFSET, MONTH_OFFSET

\* A writable time's text has two digits in every field but the year.
LEMMA WrittenText ==
    ASSUME NEW t \in Time, Writable(t)
    PROVE  t \in Text
<1>1. t.month + 1 <= 12 /\ t.day \in 1..31 /\ t.hour < 24 /\ t.minute < 60
  BY DEF Writable, MONTH_OFFSET
<1>2. FieldsOf(t) \in Text
  BY <1>1, TimeFields DEF FieldsOf, Text, TwoDigits
<1>3. QED
  BY <1>2, TimeFields

\* What is read is a day and an hour of the calendar.
LEMMA ReadInRange ==
    ASSUME NEW txt \in Text, Readable(txt), NEW other
    PROVE  LET t == TimeFromString(txt, other)
           IN  /\ t \in Time
               /\ t.day \in 1..31 /\ t.hour \in 0..23
               /\ t.year >= 1900 /\ t.year <= 9999
               /\ t.month <= 11 /\ t.minute <= 59 => TimeToString(t, Garbage) = txt
<1> DEFINE t == TimeFromString(txt, other)
<1>1. /\ txt.year <= 9999 /\ txt.year >= 1900 /\ txt.month <= 12
      /\ txt.day \in 1..31 /\ txt.hour < 24
  BY DEF Readable, Scanned
<1>2. /\ txt.year < 65536 /\ txt.month \in 0..255 /\ txt.day \in 0..255
      /\ txt.hour \in 0..255 /\ txt.minute \in 0..255
  BY <1>1, TextFields
<1>3. t = txt
  BY <1>2, TextFields, StoredFits DEF TimeFromString
<1>4. /\ t \in Time
      /\ txt.month # 12 /\ txt.minute <= 59 => TimeToString(t, Garbage) = txt
  BY ReadThenWrite
<1>5. txt.hour \in 0..23
  BY <1>1, TextFields
<1>6. txt.month <= 11 => txt.month # 12
  OBVIOUS
<1>7. QED
  BY <1>1, <1>3, <1>4, <1>5, <1>6

-----------------------------------------------------------------------------
(* Comparing: the first field that differs decides.                        *)

LEMMA FirstDifference ==
    ASSUME NEW s \in Time, NEW t \in Time, NEW k \in 1..5,
           \A i \in 1..5 : i < k => Fields(s)[i] = Fields(t)[i],
           Fields(s)[k] # Fields(t)[k]
    PROVE  TimeCompare(s, t) = Fields(s)[k] - Fields(t)[k]
<1> DEFINE differ == {i \in 1..5 : Fields(s)[i] # Fields(t)[i]}
           least == CHOOSE i \in differ : \A j \in differ : i <= j
<1>1. k \in differ /\ \A j \in differ : k <= j
  OBVIOUS
<1>2. least \in differ /\ \A j \in differ : least <= j
  BY <1>1
<1>3. \A i \in differ : i \in Int
  OBVIOUS
<1> HIDE DEF differ, least
<1>4. least = k
  BY <1>1, <1>2, <1>3
<1>5. differ # {}
  BY <1>1
<1>6. QED
  BY <1>4, <1>5 DEF TimeCompare, differ, least

LEMMA NoDifference ==
    ASSUME NEW s \in Time, NEW t \in Time, \A i \in 1..5 : Fields(s)[i] = Fields(t)[i]
    PROVE  TimeCompare(s, t) = 0
<1>1. {i \in 1..5 : Fields(s)[i] # Fields(t)[i]} = {}
  OBVIOUS
<1>2. QED
  BY <1>1 DEF TimeCompare

LEMMA FieldAt ==
    ASSUME NEW t \in Time
    PROVE  /\ Fields(t)[1] = t.year /\ Fields(t)[2] = t.month /\ Fields(t)[3] = t.day
           /\ Fields(t)[4] = t.hour /\ Fields(t)[5] = t.minute
  BY DEF Fields

\* The order of any two times is that of the calendar, whatever their fields.
LEMMA CompareOrders ==
    ASSUME NEW s \in Time, NEW t \in Time
    PROVE  /\ TimeCompare(s, t) < 0 <=> Earlier(s, t)
           /\ TimeCompare(t, s) > 0 <=> Earlier(s, t)
           /\ TimeCompare(s, t) = 0 <=> s = t
<1> DEFINE Differ(k) == /\ \A i \in 1..5 : i < k => Fields(s)[i] = Fields(t)[i]
                        /\ Fields(s)[k] # Fields(t)[k]
<1>1. /\ s.year \in Int /\ s.month \in Int /\ s.day \in Int /\ s.hour \in Int /\ s.minute \in Int
      /\ t.year \in Int /\ t.month \in Int /\ t.day \in Int /\ t.hour \in Int /\ t.minute \in Int
  BY TimeFields
<1>2. /\ Fields(s)[1] = s.year /\ Fields(s)[2] = s.month /\ Fields(s)[3] = s.day
      /\ Fields(s)[4] = s.hour /\ Fields(s)[5] = s.minute
      /\ Fields(t)[1] = t.year /\ Fields(t)[2] = t.month /\ Fields(t)[3] = t.day
      /\ Fields(t)[4] = t.hour /\ Fields(t)[5] = t.minute
  BY FieldAt
<1>3. ASSUME NEW k \in 1..5, Differ(k)
      PROVE  /\ TimeCompare(s, t) = Fields(s)[k] - Fields(t)[k]
             /\ TimeCompare(t, s) = Fields(t)[k] - Fields(s)[k]
  BY <1>3, FirstDifference
<1> HIDE DEF Differ
<1>4. CASE s.year # t.year
  <2>1. Differ(1)
    BY <1>2, <1>4 DEF Differ
  <2>2. /\ TimeCompare(s, t) = s.year - t.year /\ TimeCompare(t, s) = t.year - s.year
    BY <1>2, <1>3, <2>1
  <2>3. (Earlier(s, t) <=> s.year < t.year) /\ s # t
    BY <1>1, <1>4 DEF Earlier
  <2>4. QED
    BY <1>1, <1>4, <2>2, <2>3
<1>5. CASE s.year = t.year /\ s.month # t.month
  <2>1. Differ(2)
    BY <1>2, <1>5 DEF Differ
  <2>2. TimeCompare(s, t) = s.month - t.month /\ TimeCompare(t, s) = t.month - s.month
    BY <1>2, <1>3, <2>1
  <2>3. (Earlier(s, t) <=> s.month < t.month) /\ s # t
    BY <1>1, <1>5 DEF Earlier
  <2>4. QED
    BY <1>1, <1>5, <2>2, <2>3
<1>6. CASE s.year = t.year /\ s.month = t.month /\ s.day # t.day
  <2>1. Differ(3)
    BY <1>2, <1>6 DEF Differ
  <2>2. TimeCompare(s, t) = s.day - t.day /\ TimeCompare(t, s) = t.day - s.day
    BY <1>2, <1>3, <2>1
  <2>3. (Earlier(s, t) <=> s.day < t.day) /\ s # t
    BY <1>1, <1>6 DEF Earlier
  <2>4. QED
    BY <1>1, <1>6, <2>2, <2>3
<1>7. CASE s.year = t.year /\ s.month = t.month /\ s.day = t.day /\ s.hour # t.hour
  <2>1. Differ(4)
    BY <1>2, <1>7 DEF Differ
  <2>2. TimeCompare(s, t) = s.hour - t.hour /\ TimeCompare(t, s) = t.hour - s.hour
    BY <1>2, <1>3, <2>1
  <2>3. (Earlier(s, t) <=> s.hour < t.hour) /\ s # t
    BY <1>1, <1>7 DEF Earlier
  <2>4. QED
    BY <1>1, <1>7, <2>2, <2>3
<1>8. CASE /\ s.year = t.year /\ s.month = t.month /\ s.day = t.day /\ s.hour = t.hour
           /\ s.minute # t.minute
  <2>1. Differ(5)
    BY <1>2, <1>8 DEF Differ
  <2>2. TimeCompare(s, t) = s.minute - t.minute /\ TimeCompare(t, s) = t.minute - s.minute
    BY <1>2, <1>3, <2>1
  <2>3. (Earlier(s, t) <=> s.minute < t.minute) /\ s # t
    BY <1>1, <1>8 DEF Earlier
  <2>4. QED
    BY <1>1, <1>8, <2>2, <2>3
<1>9. CASE /\ s.year = t.year /\ s.month = t.month /\ s.day = t.day /\ s.hour = t.hour
           /\ s.minute = t.minute
  <2>1. s = t
    BY <1>9, TimeFields DEF FieldsOf
  <2>2. TimeCompare(s, t) = 0 /\ TimeCompare(t, s) = 0
    BY <2>1, NoDifference
  <2>3. QED
    BY <1>1, <2>1, <2>2 DEF Earlier
<1>10. QED
  BY <1>4, <1>5, <1>6, <1>7, <1>8, <1>9

-----------------------------------------------------------------------------
(* A time and a text that are converted into each other.                   *)

Typed == time \in Time /\ text \in Text \cup {Garbage}

LEMMA TypedInit == Init => Typed
<1>1. None \in Time
  BY DEF None, Time, Short, Byte
<1>2. QED
  BY <1>1, FieldsAssumption DEF Init, Typed, MCTexts

LEMMA TypedStep == Typed /\ [Next]_vars => Typed'
<1> SUFFICES ASSUME Typed, [Next]_vars PROVE Typed'
  OBVIOUS
<1>1. ASSUME NEW tm \in Clock, Now(tm) PROVE Typed'
  BY <1>1, ClockAssumption, ClockTime DEF Now, Typed
<1>2. CASE Write
  BY <1>2, PrintedFields, WrittenText DEF Write, Typed, TimeToString
<1>3. CASE Read
  <2>1. CASE Readable(text)
    <3>1. text \in Text
      BY <2>1 DEF Typed, Readable, Scanned
    <3>2. TimeFromString(text, time) \in Time
      BY <2>1, <3>1, ReadThenWrite
    <3>3. QED
      BY <1>3, <3>2 DEF Read, Typed
  <2>2. CASE ~Readable(text)
    BY <1>3, <2>2 DEF Read, Typed, TimeFromString
  <2>3. QED
    BY <2>1, <2>2
<1>4. CASE UNCHANGED vars
  BY <1>4 DEF vars, Typed
<1>5. QED
  BY <1>1, <1>2, <1>3, <1>4 DEF Next

LEMMA TypedAlways == Spec => []Typed
  BY TypedInit, TypedStep, PTL DEF Spec

\* Whatever has been read, written and told by the clock before: what ToString
\* writes of a year from 1900 to 9999, FromString reads back unchanged.
THEOREM WrittenIsAlwaysRead == Spec => WrittenIsRead
<1>1. ASSUME Typed, [Next]_vars, ~UNCHANGED vars, kind' = "written", Writable(time),
             time.year >= 1900, time.year <= 9999
      PROVE  \A other \in {time, time'} : Readable(text') /\ TimeFromString(text', other) = time
  <2>1. text' = TimeToString(time, text)
    BY <1>1 DEF Next, Now, Read, Write
  <2>2. time \in Time
    BY <1>1 DEF Typed
  <2>3. \A other : /\ Readable(TimeToString(time, text))
                   /\ TimeFromString(TimeToString(time, text), other) = time
    BY <1>1, <2>2, WriteThenRead
  <2>4. QED
    BY <2>1, <2>3
<1>2. Typed /\ [Next]_vars =>
        [kind' = "written" /\ Writable(time) /\ time.year >= 1900 /\ time.year <= 9999 =>
           \A other \in {time, time'} : Readable(text') /\ TimeFromString(text', other) = time]_vars
  BY <1>1
<1>3. QED
  BY <1>2, TypedAlways, PTL DEF Spec, WrittenIsRead

\* Whatever came before: a time read from a text has the widths and the ranges
\* of its fields, and is written as that text again if ToString takes it.
THEOREM ReadIsAlwaysWritten == Spec => ReadIsWritten
<1>1. ASSUME Typed, [Next]_vars, ~UNCHANGED vars, kind' = "read", Readable(text)
      PROVE  /\ time' \in Time
             /\ time'.day \in 1..31 /\ time'.hour \in 0..23
             /\ time'.year >= 1900 /\ time'.year <= 9999
             /\ time'.month <= 11 /\ time'.minute <= 59 => TimeToString(time', Garbage) = text
  <2>1. Read
    BY <1>1 DEF Next, Now, Write
  <2>2. text \in Text /\ time' = TimeFromString(text, time)
    BY <1>1, <2>1 DEF Typed, Readable, Scanned, Read
  <2>3. QED
    BY <1>1, <2>2, ReadInRange
<1>2. Typed /\ [Next]_vars =>
        [kind' = "read" /\ Readable(text) =>
          /\ time' \in Time
          /\ time'.day \in 1..31 /\ time'.hour \in 0..23
             /\ time'.year >= 1900 /\ time'.year <= 9999
          /\ time'.month <= 11 /\ time'.minute <= 59 => TimeToString(time', Garbage) = text]_vars
  BY <1>1
<1>3. QED
  BY <1>2, TypedAlways, PTL DEF Spec, ReadIsWritten

\* Of any two times the program has had one after the other, Compare tells
\* which is the earlier, and calls them equal only if they are.
THEOREM ComparesChronologically == Spec => CompareIsChronological
<1>1. Typed /\ Typed' =>
        /\ TimeCompare(time, time') < 0 <=> Earlier(time, time')
        /\ TimeCompare(time', time) > 0 <=> Earlier(time, time')
        /\ TimeCompare(time, time') = 0 <=> time = time'
  BY CompareOrders DEF Typed
<1>2. Typed /\ Typed' =>
        [/\ TimeCompare(time, time') < 0 <=> Earlier(time, time')
         /\ TimeCompare(time', time) > 0 <=> Earlier(time, time')
         /\ TimeCompare(time, time') = 0 <=> time = time']_vars
  BY <1>1
<1>3. QED
  BY <1>2, TypedStep, TypedAlways, PTL DEF Spec, CompareIsChronological
=============================================================================
