---------------------------- MODULE TimesProofs ----------------------------
(***************************************************************************)
(* Proofs about Times, for every timedelta, datetime and column within the *)
(* limits of the TIME type, and every number of fractional digits.         *)
(***************************************************************************)
EXTENDS Times, TLAPS

(* Seconds and microseconds that have not carried. *)
SecondsOfDay == {n \in Nat : n < DaySeconds}
Fractions == {n \in Nat : n < Second}

(* What may be in a column, and what the program may write.                *)
TimeColumns == [neg : BOOLEAN, h : Nat, m : 0..59, s : 0..59, us : Fractions]
Timedeltas == [days : Int, seconds : SecondsOfDay, us : Fractions]
DatetimeColumns == [date : Dates \cup {ZeroDate}, seconds : SecondsOfDay, us : Fractions]
Datetimes == [date : Dates, seconds : SecondsOfDay, us : Fractions]

ColumnValues == IF kind = "time" THEN TimeColumns ELSE DatetimeColumns
ProgramValues == IF kind = "time" THEN Timedeltas ELSE Datetimes

(* The steps of the way. *)
Formatted(v) == IF kind = "time" THEN format_TIMEDELTA(v) ELSE format_TIMESTAMP(v)
Stored(l) == IF kind = "time" THEN StoredTime(l) ELSE StoredDatetime(l)
Sent(c) == IF kind = "time" THEN TimeText(c, width) ELSE DatetimeText(c, width)
Read(t) == IF kind = "time" THEN TimeDelta_or_None(t) ELSE DateTime_or_None(t)

(* A value is what the steps so far make of the one it began with.         *)
WayInv ==
  /\ kind \in {"time", "datetime"}
  /\ width \in 0..6
  /\ phase \in {"written", "formatted", "stored", "sent", "read"}
  /\ phase \in {"written", "formatted"} => value \in ProgramValues /\ Fits(value.us)
  /\ phase = "formatted" => lit = Formatted(value)
  /\ phase \in {"stored", "sent", "read"} =>
       /\ col \in ColumnValues /\ Fits(col.us)
       /\ value # None => value \in ProgramValues /\ col = Stored(Formatted(value))
  /\ phase = "sent" => text = Sent(col)
  /\ phase = "read" => back = Read(Sent(col))

-----------------------------------------------------------------------------
(* The digits of a fraction, and what is made of them.                     *)
LEMMA ScaleIs ==
  ASSUME NEW digits \in 0..6
  PROVE  /\ Scale(digits) \in {1, 10, 100, 1000, 10000, 100000, Second}
         /\ digits = 0 => Scale(digits) = Second
         /\ digits = 6 => Scale(digits) = 1
<1>1. digits \in {0, 1, 2, 3, 4, 5, 6}
  BY SMT
<1> QED
  BY <1>1, SMT DEF Scale, Second

LEMMA Divides ==
  ASSUME NEW us \in Fractions, NEW scale \in {1, 10, 100, 1000, 10000, 100000, Second},
         us % scale = 0
  PROVE  /\ us \div scale \in Nat /\ (us \div scale) * scale = us
         /\ scale = Second => us = 0
<1>1. us \in Nat
  BY SMT DEF Fractions
<1>2. CASE scale \in {1, 10, 100}
  BY <1>1, <1>2, SMT DEF Second
<1>3. CASE scale \in {1000, 10000, 100000}
  BY <1>1, <1>3, SMT DEF Second
<1>4. CASE scale = Second
  <2>1. us < 1000000 /\ us % 1000000 = 0
    BY <1>4, SMT DEF Second, Fractions
  <2>2. us = 0
    BY <1>1, <2>1, SMT
  <2> QED
    BY <1>4, <2>2, SMT DEF Second
<1> QED
  BY <1>2, <1>3, <1>4

(* A fraction that fits its column is the one that is read.                *)
LEMMA FractionBack ==
  ASSUME NEW us \in Fractions, NEW digits \in 0..6, us % Scale(digits) = 0
  PROVE  (IF digits = 0 THEN 0 ELSE Digits(us, digits) * Scale(digits)) = us
<1>1. PICK scale \in {1, 10, 100, 1000, 10000, 100000, Second} :
        scale = Scale(digits) /\ (digits = 0 => scale = Second)
  BY ScaleIs
<1>2. (us \div scale) * scale = us /\ (scale = Second => us = 0)
  BY <1>1, Divides
<1> QED
  BY <1>1, <1>2 DEF Digits

(* Hours, minutes and seconds of a day, and back.                          *)
LEMMA DayParts ==
  ASSUME NEW seconds \in SecondsOfDay
  PROVE  LET h == (seconds \div 3600) % 24
             m == (seconds \div 60) % 60
             s == seconds % 60
         IN /\ h \in 0..23 /\ m \in 0..59 /\ s \in 0..59
            /\ 3600 * h + 60 * m + s = seconds
<1>1. seconds \in Nat /\ seconds < 86400
  BY SMT DEF SecondsOfDay, DaySeconds
<1> QED
  BY <1>1, SMT

-----------------------------------------------------------------------------
(* What is stored fits its column.                                         *)
LEMMA StoredTimeIs ==
  ASSUME NEW v \in Timedeltas
  PROVE  LET c == StoredTime(format_TIMEDELTA(v))
         IN /\ c \in TimeColumns /\ c.us = 0 /\ (c.neg <=> v.days < 0)
            /\ v.days >= 0 => 3600 * c.h + 60 * c.m + c.s = v.days * DaySeconds + v.seconds
<1>1. v.days \in Int /\ v.seconds \in SecondsOfDay
  BY DEF Timedeltas
<1>2. PICK days \in Int, seconds \in SecondsOfDay : days = v.days /\ seconds = v.seconds
  BY <1>1
<1> DEFINE h == (seconds \div 3600) % 24
           m == (seconds \div 60) % 60
           s == seconds % 60
<1>3. h \in 0..23 /\ m \in 0..59 /\ s \in 0..59 /\ 3600 * h + 60 * m + s = seconds
  BY DayParts
<1>4. PICK hours \in Nat : hours = 24 * Absolute(days) + h
  <2>1. Absolute(days) \in Nat
    BY SMT DEF Absolute
  <2> HIDE DEF h
  <2> QED
    BY <1>3, <2>1, SMT
<1>5. StoredTime(format_TIMEDELTA(v)) =
        [neg |-> days < 0, h |-> hours, m |-> m, s |-> s, us |-> 0]
  BY <1>2, <1>4 DEF StoredTime, format_TIMEDELTA
<1> HIDE DEF h, m, s
<1>6. 0 \in Fractions
  BY SMT DEF Fractions, Second
<1>7. days >= 0 => 3600 * hours + 60 * m + s = days * DaySeconds + seconds
  <2>1. days >= 0 => hours = 24 * days + h
    BY <1>4, SMT DEF Absolute
  <2>2. seconds \in Int
    BY SMT DEF SecondsOfDay, DaySeconds
  <2> QED
    BY <1>3, <2>1, <2>2, SMT DEF DaySeconds
<1>8. PICK c : c = StoredTime(format_TIMEDELTA(v))
  OBVIOUS
<1>9. /\ c \in TimeColumns /\ c.us = 0 /\ (c.neg <=> days < 0)
      /\ c.h = hours /\ c.m = m /\ c.s = s
  <2>1. CASE days < 0
    <3>1. c = [neg |-> TRUE, h |-> hours, m |-> m, s |-> s, us |-> 0]
      BY <1>5, <1>8, <2>1
    <3> QED
      BY <1>3, <1>6, <2>1, <3>1 DEF TimeColumns
  <2>2. CASE ~(days < 0)
    <3>1. (days < 0) = FALSE
      BY <2>2
    <3>2. c = [neg |-> FALSE, h |-> hours, m |-> m, s |-> s, us |-> 0]
      BY <1>5, <1>8, <3>1
    <3> QED
      BY <1>3, <1>6, <2>2, <3>2 DEF TimeColumns
  <2> QED
    BY <2>1, <2>2
<1> QED
  BY <1>2, <1>7, <1>8, <1>9

LEMMA StoredDatetimeIs ==
  ASSUME NEW v \in Datetimes
  PROVE  StoredDatetime(format_TIMESTAMP(v)) = v
<1>1. v.us \in Nat /\ v = [date |-> v.date, seconds |-> v.seconds, us |-> v.us]
  BY SMT DEF Datetimes, Fractions, Second
<1>2. Scale(6) = 1
  BY ScaleIs
<1>3. Fraction(format_TIMESTAMP(v)) = v.us
  BY <1>1, <1>2 DEF Fraction, format_TIMESTAMP
<1> QED
  BY <1>1, <1>3 DEF StoredDatetime, format_TIMESTAMP

LEMMA StoredIs ==
  ASSUME NEW v \in ProgramValues, width \in 0..6, Fits(v.us)
  PROVE  Stored(Formatted(v)) \in ColumnValues /\ Fits(Stored(Formatted(v)).us)
<1>1. CASE kind = "time"
  <2>1. 0 % Scale(width) = 0
    <3>1. PICK scale \in {1, 10, 100, 1000, 10000, 100000, Second} : scale = Scale(width)
      BY ScaleIs
    <3>2. scale \in Nat \ {0}
      BY <3>1, SMT DEF Second
    <3> QED
      BY <3>1, <3>2, SMT
  <2> QED
    BY <1>1, <2>1, StoredTimeIs DEF ColumnValues, ProgramValues, Stored, Formatted, Fits
<1>2. CASE kind # "time"
  <2>1. v \in Datetimes
    BY <1>2 DEF ProgramValues
  <2>2. Stored(Formatted(v)) = v
    BY <1>2, <2>1, StoredDatetimeIs DEF Stored, Formatted
  <2> QED
    BY <1>2, <2>1, <2>2 DEF ColumnValues, DatetimeColumns, Datetimes
<1> QED
  BY <1>1, <1>2

-----------------------------------------------------------------------------
(* What is read is what the text says.                                     *)
LEMMA FractionOfText ==
  ASSUME width \in 0..6, NEW c, c.us \in Fractions, Fits(c.us)
  PROVE  Fraction(TimeText(c, width)) = c.us /\ Fraction(DatetimeText(c, width)) = c.us
<1>1. (IF width = 0 THEN 0 ELSE Digits(c.us, width) * Scale(width)) = c.us
  BY FractionBack DEF Fits
<1> QED
  BY <1>1 DEF Fraction, TimeText, DatetimeText

LEMMA TimedeltaIs ==
  ASSUME NEW seconds \in Int, NEW us
  PROVE  LET td == Timedelta(seconds, us)
         IN /\ td.days \in Int /\ td.seconds \in SecondsOfDay /\ td.us = us
            /\ td.days * DaySeconds + td.seconds = seconds
<1>1. PICK days : days = seconds \div DaySeconds
  OBVIOUS
<1>2. PICK rest : rest = seconds % DaySeconds
  OBVIOUS
<1>3. days = seconds \div 86400 /\ rest = seconds % 86400
  BY <1>1, <1>2, SMT DEF DaySeconds
<1>4. /\ days \in Int /\ rest \in Nat /\ rest < 86400
      /\ days * 86400 + rest = seconds
  BY <1>3, SMT
<1>5. /\ days \in Int /\ rest \in SecondsOfDay /\ days * DaySeconds + rest = seconds
  BY <1>4, SMT DEF DaySeconds, SecondsOfDay
<1>6. Timedelta(seconds, us) = [days |-> days, seconds |-> rest, us |-> us]
  BY <1>1, <1>2 DEF Timedelta
<1> QED
  BY <1>5, <1>6

LEMMA ReadTimeIs ==
  ASSUME width \in 0..6, NEW c \in TimeColumns, Fits(c.us)
  PROVE  LET td == TimeDelta_or_None(TimeText(c, width))
             seconds == td.days * DaySeconds + td.seconds
             magnitude == 3600 * c.h + 60 * c.m + c.s
         IN /\ td.days \in Int /\ td.seconds \in SecondsOfDay /\ td.us \in Fractions
            /\ td = [days |-> td.days, seconds |-> td.seconds, us |-> td.us]
            /\ IF c.neg
                 THEN /\ (td.us + c.us) % Second = 0
                      /\ seconds + magnitude = IF c.us = 0 THEN 0 ELSE -1
                 ELSE seconds = magnitude /\ td.us = c.us
<1>1. /\ c.us \in Fractions /\ c.neg \in BOOLEAN
      /\ c.h \in Nat /\ c.m \in 0..59 /\ c.s \in 0..59
  BY DEF TimeColumns
<1>2. PICK us \in Fractions : us = c.us
  BY <1>1
<1>3. PICK magnitude \in Nat : magnitude = 3600 * c.h + 60 * c.m + c.s
  <2>1. PICK h \in Nat, m \in 0..59, s \in 0..59 : h = c.h /\ m = c.m /\ s = c.s
    BY <1>1
  <2>2. 3600 * h + 60 * m + s \in Nat
    BY SMT
  <2> QED
    BY <2>1, <2>2
<1>4. PICK td : td = Timedelta(magnitude, us)
  OBVIOUS
<1>5. /\ td.days \in Int /\ td.seconds \in SecondsOfDay /\ td.us = us
      /\ td.days * DaySeconds + td.seconds = magnitude
      /\ td = [days |-> td.days, seconds |-> td.seconds, us |-> td.us]
  BY <1>4, TimedeltaIs DEF Timedelta
<1>6. TimeDelta_or_None(TimeText(c, width)) = IF c.neg THEN Negated(td) ELSE td
  BY <1>1, <1>2, <1>3, <1>4, FractionOfText DEF TimeDelta_or_None, TimeText
<1>7. CASE ~c.neg
  BY <1>2, <1>3, <1>5, <1>6, <1>7
<1>8. CASE c.neg
  <2>1. PICK other : other = Negated(td)
    OBVIOUS
  <2>2. /\ other.days \in Int /\ other.seconds \in SecondsOfDay /\ other.us \in Fractions
        /\ other = [days |-> other.days, seconds |-> other.seconds, us |-> other.us]
        /\ (other.us + us) % Second = 0
        /\ other.days * DaySeconds + other.seconds + magnitude = IF us = 0 THEN 0 ELSE -1
    <3>1. PICK seconds \in Int : seconds = -magnitude
      BY <1>3, SMT
    <3>2. CASE us = 0
      <4>1. other = Timedelta(seconds, 0)
        BY <1>5, <2>1, <3>1, <3>2 DEF Negated
      <4>2. /\ other.days \in Int /\ other.seconds \in SecondsOfDay /\ other.us = 0
            /\ other.days * DaySeconds + other.seconds = seconds
            /\ other = [days |-> other.days, seconds |-> other.seconds, us |-> other.us]
        BY <4>1, TimedeltaIs DEF Timedelta
      <4>3. 0 \in Fractions /\ 0 % Second = 0
        BY SMT DEF Fractions, Second
      <4>4. seconds + magnitude = 0
        BY <1>3, <3>1, SMT
      <4> QED
        BY <3>2, <4>2, <4>3, <4>4, SMT
    <3>3. CASE us # 0
      <4>1. other = Timedelta(seconds - 1, Second - us)
        BY <1>5, <2>1, <3>1, <3>3 DEF Negated
      <4>2. seconds - 1 \in Int
        BY SMT
      <4>3. /\ other.days \in Int /\ other.seconds \in SecondsOfDay
            /\ other.us = Second - us
            /\ other.days * DaySeconds + other.seconds = seconds - 1
            /\ other = [days |-> other.days, seconds |-> other.seconds, us |-> other.us]
        BY <4>1, <4>2, TimedeltaIs DEF Timedelta
      <4>4. Second - us \in Fractions /\ ((Second - us) + us) % Second = 0
        BY <3>3, SMT DEF Fractions, Second
      <4>5. (seconds - 1) + magnitude = -1
        BY <1>3, <3>1, SMT
      <4> QED
        BY <3>3, <4>3, <4>4, <4>5, SMT
    <3> QED
      BY <3>2, <3>3
  <2> QED
    BY <1>2, <1>3, <1>6, <1>8, <2>1, <2>2
<1> QED
  BY <1>1, <1>7, <1>8

LEMMA ReadDatetimeIs ==
  ASSUME width \in 0..6, NEW c \in DatetimeColumns, Fits(c.us)
  PROVE  DateTime_or_None(DatetimeText(c, width)) = IF c.date = ZeroDate THEN None ELSE c
<1>1. c.us \in Fractions /\ c = [date |-> c.date, seconds |-> c.seconds, us |-> c.us]
  BY DEF DatetimeColumns
<1> QED
  BY <1>1, FractionOfText DEF DateTime_or_None, DatetimeText


(* Days and seconds of a day are determined by the seconds in all.         *)
LEMMA OneTimedelta ==
  ASSUME NEW d \in Int, NEW e \in Int, NEW s \in SecondsOfDay, NEW t \in SecondsOfDay,
         d * DaySeconds + s = e * DaySeconds + t
  PROVE  d = e /\ s = t
<1>1. /\ s \in Nat /\ t \in Nat /\ s < 86400 /\ t < 86400
      /\ d * 86400 + s = e * 86400 + t
  BY SMT DEF SecondsOfDay, DaySeconds
<1> QED
  BY <1>1, SMT

(* The limits of the constants are those of the parts of a timedelta.      *)
LEMMA LimitsIn ==
  /\ Micros \subseteq Fractions /\ Seconds \subseteq SecondsOfDay
  /\ Days \subseteq Int /\ Hours \subseteq Nat
<1>1. Micros \subseteq 0..(Second - 1) /\ Seconds \subseteq 0..(DaySeconds - 1)
  BY TimesAssumption
<1>2. DaySeconds \in Nat /\ Second \in Nat
  BY SMT DEF DaySeconds, Second
<1>3. Days \subseteq Int /\ Hours \subseteq Nat
  BY TimesAssumption, SMT
<1>4. Micros \subseteq Fractions /\ Seconds \subseteq SecondsOfDay
  BY <1>1, <1>2, SMT DEF Fractions, SecondsOfDay
<1> QED
  BY <1>3, <1>4

-----------------------------------------------------------------------------
LEMMA InitWay == Init => WayInv
<1> SUFFICES ASSUME Init PROVE WayInv
  OBVIOUS
<1>1. /\ kind \in {"time", "datetime"} /\ width \in 0..6
      /\ phase \in {"written", "stored"}
  BY TimesAssumption DEF Init
<1>2. /\ Micros \subseteq Fractions /\ Seconds \subseteq SecondsOfDay
      /\ Days \subseteq Int /\ Hours \subseteq Nat
  BY LimitsIn
<1>3. CASE phase = "written"
  <2>1. value \in Values /\ Fits(value.us)
    BY <1>3 DEF Init
  <2>2. value \in ProgramValues
    <3>1. CASE kind = "time"
      BY <1>2, <2>1, <3>1 DEF Values, ProgramValues, Timedeltas
    <3>2. CASE kind # "time"
      BY <1>2, <2>1, <3>2 DEF Values, ProgramValues, Datetimes
    <3> QED
      BY <3>1, <3>2
  <2> QED
    BY <1>1, <1>3, <2>1, <2>2 DEF WayInv
<1>4. CASE phase = "stored"
  <2>1. col \in Columns /\ Fits(col.us) /\ value = None
    BY <1>4 DEF Init
  <2>2. col \in ColumnValues
    <3>1. CASE kind = "time"
      <4>1. col \in [neg : BOOLEAN, h : Hours, m : Minutes, s : MinuteSeconds, us : Micros]
        BY <2>1, <3>1 DEF Columns
      <4>2. Minutes \subseteq 0..59 /\ MinuteSeconds \subseteq 0..59
        BY TimesAssumption
      <4> QED
        BY <1>2, <3>1, <4>1, <4>2 DEF ColumnValues, TimeColumns
    <3>2. CASE kind # "time"
      BY <1>2, <2>1, <3>2 DEF Columns, ColumnValues, DatetimeColumns
    <3> QED
      BY <3>1, <3>2
  <2> QED
    BY <1>1, <1>4, <2>1, <2>2 DEF WayInv
<1> QED
  BY <1>1, <1>3, <1>4

LEMMA NextWay == WayInv /\ [Next]_vars => WayInv'
<1> SUFFICES ASSUME WayInv, [Next]_vars PROVE WayInv'
  OBVIOUS
<1> USE DEF Fits, ProgramValues, ColumnValues, Formatted, Stored, Sent, Read
<1>1. CASE UNCHANGED vars
  BY <1>1 DEF WayInv, vars
<1>2. CASE Format
  BY <1>2 DEF WayInv, Format
<1>3. CASE Store
  <2>1. Stored(lit) \in ColumnValues /\ Fits(Stored(lit).us)
    BY <1>3, StoredIs DEF WayInv, Store
  <2> QED
    BY <1>3, <2>1 DEF WayInv, Store
<1>4. CASE Send
  BY <1>4 DEF WayInv, Send
<1>5. CASE Convert
  BY <1>5 DEF WayInv, Convert
<1> QED
  BY <1>1, <1>2, <1>3, <1>4, <1>5 DEF Next

(* Whatever goes on, a value is what the steps so far make of it.          *)
LEMMA WayHolds == Spec => []WayInv
  BY InitWay, NextWay, PTL DEF Spec

(* A time is read as the server means it, its sign and its fraction        *)
(* included (TimeDelta_or_None).                                           *)
THEOREM TimesAreRead == Spec => []TimesRead
<1>1. WayInv => TimesRead
  <2> SUFFICES ASSUME WayInv, phase = "read", kind = "time" PROVE TimesRead
    BY DEF TimesRead
  <2>1. /\ width \in 0..6 /\ col \in TimeColumns /\ Fits(col.us)
        /\ back = TimeDelta_or_None(TimeText(col, width))
    BY DEF WayInv, ColumnValues, Read, Sent
  <2>2. LET seconds == back.days * DaySeconds + back.seconds
            magnitude == 3600 * col.h + 60 * col.m + col.s
        IN /\ back.seconds \in SecondsOfDay /\ back.us \in Fractions
           /\ IF col.neg
                THEN /\ (back.us + col.us) % Second = 0
                     /\ seconds + magnitude = IF col.us = 0 THEN 0 ELSE -1
                ELSE seconds = magnitude /\ back.us = col.us
    BY <2>1, ReadTimeIs
  <2>3. back.seconds \in 0..(DaySeconds - 1) /\ back.us \in 0..(Second - 1)
    <3>1. DaySeconds \in Nat /\ Second \in Nat
      BY SMT DEF DaySeconds, Second
    <3>2. PICK s \in SecondsOfDay, us \in Fractions : s = back.seconds /\ us = back.us
      BY <2>2
    <3>3. s \in Nat /\ s < DaySeconds /\ us \in Nat /\ us < Second
      BY DEF SecondsOfDay, Fractions
    <3>4. s \in 0..(DaySeconds - 1) /\ us \in 0..(Second - 1)
      BY <3>1, <3>3, SMT
    <3> QED
      BY <3>2, <3>4
  <2> QED
    BY <2>2, <2>3 DEF TimesRead
<1> QED
  BY <1>1, WayHolds, PTL

(* A datetime comes back, whatever the digits of its column                *)
(* (format_TIMESTAMP and DateTime_or_None).                                *)
THEOREM DatetimesReturn == Spec => []DatetimesComeBack
<1>1. WayInv => DatetimesComeBack
  <2> SUFFICES ASSUME WayInv, phase = "read", kind = "datetime"
               PROVE  /\ back = IF col.date = ZeroDate THEN None ELSE col
                      /\ value # None => back = value
    BY DEF DatetimesComeBack
  <2>1. /\ width \in 0..6 /\ col \in DatetimeColumns /\ Fits(col.us)
        /\ back = DateTime_or_None(DatetimeText(col, width))
        /\ value # None => value \in Datetimes /\ col = StoredDatetime(format_TIMESTAMP(value))
    BY DEF WayInv, ColumnValues, ProgramValues, Read, Sent, Stored, Formatted
  <2>2. back = IF col.date = ZeroDate THEN None ELSE col
    BY <2>1, ReadDatetimeIs
  <2>3. ASSUME value # None PROVE back = value
    <3>1. value \in Datetimes /\ col = value
      BY <2>1, <2>3, StoredDatetimeIs
    <3>2. col.date # ZeroDate
      BY <3>1, TimesAssumption DEF Datetimes
    <3> QED
      BY <2>2, <3>1, <3>2
  <2> QED
    BY <2>2, <2>3
<1> QED
  BY <1>1, WayHolds, PTL

(* A timedelta that is not negative comes back but for its microseconds    *)
(* (format_TIMEDELTA and TimeDelta_or_None).                               *)
THEOREM TimedeltasReturn == Spec => []TimedeltasComeBack
<1>1. WayInv => TimedeltasComeBack
  <2> SUFFICES ASSUME WayInv, phase = "read", kind = "time",
                      value # None, value.days >= 0
               PROVE  back = [value EXCEPT !.us = 0]
    BY DEF TimedeltasComeBack
  <2>1. /\ width \in 0..6 /\ col \in TimeColumns /\ Fits(col.us)
        /\ back = TimeDelta_or_None(TimeText(col, width))
        /\ value \in Timedeltas /\ col = StoredTime(format_TIMEDELTA(value))
    BY DEF WayInv, ColumnValues, ProgramValues, Read, Sent, Stored, Formatted
  <2>2. /\ col.us = 0 /\ ~col.neg
        /\ 3600 * col.h + 60 * col.m + col.s = value.days * DaySeconds + value.seconds
    <3>1. value.days \in Int
      BY <2>1 DEF Timedeltas
    <3> QED
      BY <2>1, <3>1, StoredTimeIs
  <2>3. /\ back.days \in Int /\ back.seconds \in SecondsOfDay
        /\ back.days * DaySeconds + back.seconds = value.days * DaySeconds + value.seconds
        /\ back = [days |-> back.days, seconds |-> back.seconds, us |-> 0]
    <3>1. LET seconds == back.days * DaySeconds + back.seconds
              magnitude == 3600 * col.h + 60 * col.m + col.s
          IN /\ back.days \in Int /\ back.seconds \in SecondsOfDay
             /\ back = [days |-> back.days, seconds |-> back.seconds, us |-> back.us]
             /\ IF col.neg
                  THEN /\ (back.us + col.us) % Second = 0
                       /\ seconds + magnitude = IF col.us = 0 THEN 0 ELSE -1
                  ELSE seconds = magnitude /\ back.us = col.us
      BY <2>1, ReadTimeIs
    <3> QED
      BY <2>2, <3>1
  <2>4. value.days \in Int /\ value.seconds \in SecondsOfDay
    BY <2>1 DEF Timedeltas
  <2>5. back.days = value.days /\ back.seconds = value.seconds
    BY <2>3, <2>4, OneTimedelta
  <2>6. value = [days |-> value.days, seconds |-> value.seconds, us |-> value.us]
    BY <2>1 DEF Timedeltas
  <2> QED
    BY <2>3, <2>5, <2>6
<1> QED
  BY <1>1, WayHolds, PTL
=============================================================================
