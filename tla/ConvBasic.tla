----------------------------- MODULE ConvBasic -----------------------------
(***************************************************************************)
(* Numbers and times between the backend and Ruby:                         *)
(* src/conversions/basic/plruby_basic.c, with integer timestamps, and a    *)
(* part of src/conversions/datetime.                                       *)
(*                                                                         *)
(* A Time is the number of microseconds since the epoch.  The constants    *)
(* stand for the sizes of the code, scaled down: 2^16 values, 1000000      *)
(* microseconds, 86400 seconds, 2^64 values.                               *)
(***************************************************************************)
EXTENDS Integers

CONSTANTS
  Short,    \* values of an int2
  Second,   \* microseconds in a second
  Day,      \* seconds in a day
  ULong,    \* values of an unsigned long
  Error     \* a Ruby exception or an ERROR, instead of a value

(* A number of microseconds less than a second is a positive long.         *)
ASSUME BasicAssumption ==
  /\ {Short, Second, Day, ULong} \subseteq Nat \ {0} /\ Short % 2 = 0
  /\ Second <= ULong \div 2
  /\ Error \notin Int

(* The / and the % of C round towards zero.                                *)
Quot(n, d) == IF n < 0 THEN -((-n) \div d) ELSE n \div d

Rem(n, d) == n - d * Quot(n, d)

-----------------------------------------------------------------------------
(* Int16GetDatum(NUM2INT(obj)) keeps the low bits.                         *)
Int2(n) ==
  LET low == n % Short IN IF low < Short \div 2 THEN low ELSE low - Short

FitsInt2(n) == n \in -(Short \div 2) .. (Short \div 2 - 1)

-----------------------------------------------------------------------------
(* pl_time_s_datum: Time.at(ts / 1000000, ts % 1000000), the second        *)
(* argument as an unsigned number.  One too big is a RangeError.           *)
TimeAt(ts) ==
  LET usec == Rem(ts, Second) % ULong IN
  IF usec >= ULong \div 2 THEN Error ELSE Quot(ts, Second) * Second + usec

(* date_timestamptz, for a session whose time zone is zone seconds ahead.  *)
Midnight(date, zone) == (date * Day - zone) * Second

TimeFrom(type, value, zone) ==
  TimeAt(IF type = "date" THEN Midnight(value, zone) ELSE value)

(* timestamptz_timestamp, timestamptz_date, timestamptz_time               *)
Local(time, zone) == time + zone * Second

DateOf(time, zone) == Local(time, zone) \div (Day * Second)

TimeOfDay(time, zone) == Local(time, zone) % (Day * Second)

(* Time#to_s, and timestamptz_in of it                                     *)
TimeText(time) == (time \div Second) * Second

(* pl_time_to_datum: the conv function of the type.  There is none for     *)
(* timestamptz, so the answer is nil and the text of the Time is parsed.   *)
TimeConv(type, time, zone) ==
  CASE type = "timestamp" -> Local(time, zone)
    [] type = "date" -> DateOf(time, zone)
    [] type = "time" -> TimeOfDay(time, zone)
    [] type = "timestamptz" -> TimeText(time)

(* pl_tint_s_datum of plruby_datetime.c: the microseconds of both ends are *)
(* given to Time.at as seconds, and an Array of the Times is the answer.   *)
TwoTimes(ends) == [i \in 1..2 |-> ends[i] * Second * Second]

-----------------------------------------------------------------------------
(* An interval is a Float, the seconds of its months and of its time; it   *)
(* goes back as the text of that number.                                   *)
Seconds(interval) == interval.month * 30 * Day + interval.time

FromSeconds(seconds) == [month |-> 0, day |-> 0, time |-> seconds]

=============================================================================
