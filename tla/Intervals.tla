------------------------------ MODULE Intervals ------------------------------
(***************************************************************************)
(* The windows of the kline intervals: alignment of a time to the start of *)
(* its window, the close time the aggregator and the checker write, and    *)
(* the length of a window the checker steps by, which the code computes    *)
(* apart, over a clock that ticks.  The calendar of package time is        *)
(* modelled by the Gregorian rules from 1970 on.                           *)
(***************************************************************************)
EXTENDS Integers

CONSTANTS
    Widths,  \* the widths of the intervals below a day, in ticks
    Day,     \* ticks of a day
    Starts,  \* the times the clock may start at
    Horizon, \* bound on the clock
    LastYear \* a year beyond the horizon

Week == "1w"
Month == "1mon"
Year == "1y"

VARIABLE now \* the clock, in ticks since the start of 1970

ASSUME IntervalsAssumption ==
    /\ Day \in Nat \ {0}
    /\ \A name \in DOMAIN Widths : Widths[name] \in 1..Day /\ Day % Widths[name] = 0
    /\ DOMAIN Widths \cap {Week, Month, Year} = {}
    /\ Horizon \in Nat /\ Starts \subseteq 0..Horizon
    /\ LastYear \in Nat /\ Horizon < 365 * Day * (LastYear - 1970)

(* The calendar, in days since the start of 1970. *)
YearStart(y) ==
    365 * (y - 1970) + (y - 1969) \div 4 - (y - 1901) \div 100 + (y - 1601) \div 400
Leap(y) == YearStart(y + 1) - YearStart(y) = 366
YearOf(d) == CHOOSE y \in 1970..LastYear : YearStart(y) <= d /\ d < YearStart(y + 1)
DaysBefore == <<0, 31, 59, 90, 120, 151, 181, 212, 243, 273, 304, 334>>
(* The start of a month; month 13 is the first of the next year. *)
MonthStart(y, m) ==
    IF m = 13 THEN YearStart(y + 1)
    ELSE YearStart(y) + DaysBefore[m] + (IF m > 2 /\ Leap(y) THEN 1 ELSE 0)
MonthOf(d) ==
    CHOOSE m \in 1..12 : MonthStart(YearOf(d), m) <= d /\ d < MonthStart(YearOf(d), m + 1)
(* Sunday is 0; the clock starts on a Thursday. *)
Weekday(d) == (d + 4) % 7

-----------------------------------------------------------------------------
Names == DOMAIN Widths \cup {Week, Month, Year}

(* The width of an interval, 0 when it follows the calendar. *)
Width(name) ==
    CASE name \in DOMAIN Widths -> Widths[name]
      [] name = Week -> 7 * Day
      [] OTHER -> 0

AlignN(t, width) == (t \div width) * width

(* alignWeek of a variant in which Sunday begins a week. *)
AlignWeekAtSunday(t) == (t \div Day - (Weekday(t \div Day) - 1)) * Day

(* Back to Monday, Sunday being the seventh day. *)
AlignWeek(t) ==
    LET d == t \div Day
        weekday == IF Weekday(d) = 0 THEN 7 ELSE Weekday(d)
    IN  (d - (weekday - 1)) * Day

AlignMonth(t) == LET d == t \div Day IN MonthStart(YearOf(d), MonthOf(d)) * Day

AlignYear(t) == YearStart(YearOf(t \div Day)) * Day

Align(name, t) ==
    CASE name \in DOMAIN Widths -> AlignN(t, Widths[name])
      [] name = Week -> AlignWeek(t)
      [] name = Month -> AlignMonth(t)
      [] name = Year -> AlignYear(t)

(* The start of the next month or year. *)
NextMonth(start) == MonthStart(YearOf(start \div Day), MonthOf(start \div Day) + 1) * Day
NextYear(start) == YearStart(YearOf(start \div Day) + 1) * Day

(* calcCloseTime of a variant that gives every month 31 days. *)
CloseTimeOfLongMonths(name, start) ==
    CASE Width(name) > 0 -> start + Width(name) - 1
      [] name = Month -> start + 31 * Day - 1
      [] OTHER -> NextYear(start) - 1

(* calcCloseTime *)
CloseTime(name, start) ==
    CASE Width(name) > 0 -> start + Width(name) - 1
      [] name = Month -> NextMonth(start) - 1
      [] OTHER -> NextYear(start) - 1

(* intervalMs *)
Length(name, start) ==
    CASE Width(name) > 0 -> Width(name)
      [] name = Month -> NextMonth(start) - start
      [] OTHER -> NextYear(start) - start

-----------------------------------------------------------------------------
ClockInit == now \in Starts

Tick ==
    /\ now < Horizon
    /\ now' = now + 1

ClockSpec == ClockInit /\ [][Tick]_now

-----------------------------------------------------------------------------
(* Properties *)

(* The windows of every interval tile time: a time lies between the start and
   the close of its window, a start is aligned to itself, the tick after the
   close starts the next window, and the length the checker steps by
   (intervalMs) leads there too.  The stored close times neither overlap nor
   leave a gap, across the ends of weeks, months, leap Februaries and years.
   The first week, begun before 1970, has a negative start. *)
WindowsTile ==
    \A name \in Names :
        LET start == Align(name, now)
            close == CloseTime(name, start)
        IN  /\ start <= now /\ now <= close
            /\ start >= 0 => Align(name, start) = start
            /\ Align(name, close + 1) = close + 1
            /\ Length(name, start) = close + 1 - start

(* As time passes a window is left exactly after its close time: the bucket
   the aggregator replaces is the one whose close time has passed. *)
WindowsTurn ==
    [][\A name \in Names :
           LET start == Align(name, now)
           IN  Align(name, now') # start <=> now' > CloseTime(name, start)]_now
=============================================================================
