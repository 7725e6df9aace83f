------------------------------- MODULE Times -------------------------------
(***************************************************************************)
(* A timedelta or a datetime on its way to a column and back (times.py):   *)
(* the literal it is written as, what the server makes of that, the text   *)
(* that the server sends, and the object that is made of the text.  The    *)
(* way may also begin with what is in the column already.                  *)
(*                                                                         *)
(* A text is a record of its fields: the digits between two separators are *)
(* a number, and those of a fraction a number and how many they are.       *)
(***************************************************************************)
EXTENDS Integers

CONSTANTS
  Days,        \* days of the timedeltas that the program writes
  Seconds,     \* seconds of a day
  Micros,      \* microseconds
  Hours,       \* hours of the times in a column
  Minutes,     \* minutes of an hour
  MinuteSeconds, \* seconds of a minute
  Dates,       \* the dates of datetimes, each a model value
  ZeroDate,    \* 0000-00-00, that the server has and Python has not
  Precisions,  \* the fractional digits of a column
  None

Second == 1000000
DaySeconds == 86400

(* A TIME column holds times up to 838:59:59. *)
ASSUME TimesAssumption ==
  /\ Days \subseteq -33..33
  /\ Seconds \subseteq 0..(DaySeconds - 1)
  /\ Micros \subseteq 0..(Second - 1)
  /\ Hours \subseteq 0..838
  /\ Minutes \subseteq 0..59
  /\ MinuteSeconds \subseteq 0..59
  /\ Precisions \subseteq 0..6
  /\ ZeroDate \notin Dates

VARIABLES
  kind,   \* "time" or "datetime": the type of the column
  width,  \* its fractional digits
  phase,  \* how far the value has come
  value,  \* what the program wrote, None when it did not
  lit,    \* the fields of the literal
  col,    \* what is in the column
  text,   \* the fields of the text that the server sends
  back    \* what the program reads

vars == <<kind, width, phase, value, lit, col, text, back>>

-----------------------------------------------------------------------------
(* timedelta: seconds and microseconds are not negative, days may be. *)
Timedelta(seconds, us) ==
  [days |-> seconds \div DaySeconds, seconds |-> seconds % DaySeconds, us |-> us]

Negated(td) ==
  LET seconds == -(td.days * DaySeconds + td.seconds)
  IN IF td.us = 0 THEN Timedelta(seconds, 0) ELSE Timedelta(seconds - 1, Second - td.us)

(* Mutant: the days are left out. *)
FormatHoursOnly(v) ==
  [days |-> 0,
   h    |-> (v.seconds \div 3600) % 24,
   m    |-> (v.seconds \div 60) % 60,
   s    |-> v.seconds % 60]

(* "%d %d:%d:%d" % (v.days, hours, minutes, seconds) *)
format_TIMEDELTA(v) ==
  [days |-> v.days,
   h    |-> (v.seconds \div 3600) % 24,
   m    |-> (v.seconds \div 60) % 60,
   s    |-> v.seconds % 60]

(* The fraction is written in six digits, or not at all. *)
format_TIMESTAMP(d) ==
  [date |-> d.date, seconds |-> d.seconds, frac |-> d.us,
   digits |-> IF d.us = 0 THEN 0 ELSE 6]

(* Mutant: the digits are taken for microseconds. *)
FractionAsIs(t) == IF t.digits = 0 THEN 0 ELSE t.frac

(* 10 ** (6 - digits) *)
Scale(digits) == <<1000000, 100000, 10000, 1000, 100, 10, 1>>[digits + 1]

(* The fraction is filled up to six digits. *)
Fraction(t) == IF t.digits = 0 THEN 0 ELSE t.frac * Scale(t.digits)

(* The server: the sign of 'D H:M:S' is that of all of it. *)
Absolute(n) == IF n < 0 THEN -n ELSE n

StoredTime(l) ==
  [neg |-> l.days < 0, h |-> 24 * Absolute(l.days) + l.h, m |-> l.m, s |-> l.s, us |-> 0]

StoredDatetime(l) ==
  [date |-> l.date, seconds |-> l.seconds, us |-> Fraction(l)]

(* [-]H:M:S[.f], and Y-M-D H:M:S[.f] *)
Digits(us, digits) == us \div Scale(digits)

TimeText(c, digits) ==
  [neg |-> c.neg, h |-> c.h, m |-> c.m, s |-> c.s,
   frac |-> Digits(c.us, digits), digits |-> digits]

DatetimeText(c, digits) ==
  [date |-> c.date, seconds |-> c.seconds,
   frac |-> Digits(c.us, digits), digits |-> digits]

(* Mutant: the sign is that of the hours. *)
TimeDeltaByHours(t) ==
  LET hours == IF t.neg THEN -t.h ELSE t.h
      td == Timedelta(3600 * t.h + 60 * t.m + t.s, Fraction(t))
  IN IF hours < 0 THEN Negated(td) ELSE td

(* The sign is taken from the text: int("-00") would lose it. *)
TimeDelta_or_None(t) ==
  LET td == Timedelta(3600 * t.h + 60 * t.m + t.s, Fraction(t))
  IN IF t.neg THEN Negated(td) ELSE td

DateTime_or_None(t) ==
  IF t.date = ZeroDate THEN None
  ELSE [date |-> t.date, seconds |-> t.seconds, us |-> Fraction(t)]

-----------------------------------------------------------------------------
Fits(us) == us % Scale(width) = 0

Values ==
  IF kind = "time" THEN [days : Days, seconds : Seconds, us : Micros]
                   ELSE [date : Dates, seconds : Seconds, us : Micros]

Columns ==
  IF kind = "time"
    THEN {c \in [neg : BOOLEAN, h : Hours, m : Minutes, s : MinuteSeconds, us : Micros] :
            c.neg => c.h + c.m + c.s + c.us > 0}
    ELSE [date : Dates \cup {ZeroDate}, seconds : Seconds, us : Micros]

Init ==
  /\ kind \in {"time", "datetime"}
  /\ width \in Precisions
  /\ lit = None /\ text = None /\ back = None
  /\ \/ /\ phase = "written"
        /\ value \in {v \in Values : Fits(v.us)}
        /\ col = None
     \/ /\ phase = "stored"
        /\ col \in {c \in Columns : Fits(c.us)}
        /\ value = None

(* DateTimeDelta2literal and DateTime2literal *)
Format ==
  /\ phase = "written"
  /\ phase' = "formatted"
  /\ lit' = IF kind = "time" THEN format_TIMEDELTA(value) ELSE format_TIMESTAMP(value)
  /\ UNCHANGED <<kind, width, value, col, text, back>>

Store ==
  /\ phase = "formatted"
  /\ phase' = "stored"
  /\ col' = IF kind = "time" THEN StoredTime(lit) ELSE StoredDatetime(lit)
  /\ UNCHANGED <<kind, width, value, lit, text, back>>

Send ==
  /\ phase = "stored"
  /\ phase' = "sent"
  /\ text' = IF kind = "time" THEN TimeText(col, width) ELSE DatetimeText(col, width)
  /\ UNCHANGED <<kind, width, value, lit, col, back>>

Convert ==
  /\ phase = "sent"
  /\ phase' = "read"
  /\ back' = IF kind = "time" THEN TimeDelta_or_None(text) ELSE DateTime_or_None(text)
  /\ UNCHANGED <<kind, width, value, lit, col, text>>

Next == Format \/ Store \/ Send \/ Convert

Spec == Init /\ [][Next]_vars

-----------------------------------------------------------------------------
(* A time is read as the server means it: negative ones of less than an    *)
(* hour, and fractions of any number of digits.                            *)
TimesRead ==
  phase = "read" /\ kind = "time" =>
    LET seconds == back.days * DaySeconds + back.seconds
        magnitude == 3600 * col.h + 60 * col.m + col.s
    IN /\ back.seconds \in 0..(DaySeconds - 1) /\ back.us \in 0..(Second - 1)
       /\ IF col.neg
            THEN /\ (back.us + col.us) % Second = 0
                 /\ seconds + magnitude = IF col.us = 0 THEN 0 ELSE -1
            ELSE seconds = magnitude /\ back.us = col.us

(* A datetime that the program writes comes back, whatever the digits of   *)
(* the column; a date that Python does not have comes back as None.        *)
DatetimesComeBack ==
  phase = "read" /\ kind = "datetime" =>
    /\ back = IF col.date = ZeroDate THEN None ELSE col
    /\ value # None => back = value

(* A timedelta that the program writes is the time that it reads, whole    *)
(* seconds and not negative.                                               *)
TimedeltasComeBack ==
  /\ phase = "read" /\ kind = "time"
  /\ value # None /\ value.days >= 0
  => back = [value EXCEPT !.us = 0]
=============================================================================
