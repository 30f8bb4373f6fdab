------------------------------ MODULE Calendars ------------------------------
(***************************************************************************)
(* From calendar rows and cargo orders to the windows of a route node: the *)
(* weekly calendar reader, Calendar::intersection, the window part of the  *)
(* Order constructor and TimeWindowUntils, with the date arithmetic of     *)
(* chrono_util they stand on.                                              *)
(*                                                                         *)
(* A day is DayLen units long; everything else about dates is the code's.  *)
(* Times are those of the plan ranges the scenarios use, after 1970.       *)
(***************************************************************************)
EXTENDS Integers, Sequences, SequencesExt

CONSTANTS
  DayLen,      \* 86400
  Gap,         \* INTERVAL_SECS_CONTINUOUS_TIME_BUCKET
  FullDay,     \* DEFAULT_CALENDAR_TIME_RANGE
  UtcOffset    \* of the default time zone

ASSUME DayAssumption == DayLen \in Nat \ {0} /\ UtcOffset \in Int

Window(early, late) == [early |-> early, late |-> late]

----------------------------------------------------------------------------
(* chrono_util *)

March == 3

\* Days since 1970-01-01 of a civil date: years start in March, eras of 400.
DaysFromCivil(date) ==
  LET y == IF date.month < March THEN date.year - 1 ELSE date.year
      era == y \div 400
      yoe == y - era * 400
      shifted == IF date.month < March THEN date.month + 9 ELSE date.month - March
      doy == (153 * shifted + 2) \div 5 + date.day - 1
  IN  era * 146097 + yoe * 365 + yoe \div 4 - yoe \div 100 + doy - 719468

CivilFromDays(days) ==
  LET z == days + 719468
      era == z \div 146097
      doe == z - era * 146097
      yoe == (doe - doe \div 1460 + doe \div 36524 - doe \div 146096) \div 365
      doy == doe - (365 * yoe + yoe \div 4 - yoe \div 100)
      mp == (5 * doy + 2) \div 153
      month == IF mp < 10 THEN mp + March ELSE mp - 9
      year == yoe + era * 400
  IN  [year  |-> IF month < March THEN year + 1 ELSE year,
       month |-> month,
       day   |-> doy - (153 * mp + 2) \div 5 + 1]

\* from_unix_date, to_unix and add_days in the default time zone.
DateOf(t) == CivilFromDays((t + UtcOffset) \div DayLen)

Midnight(date) == DaysFromCivil(date) * DayLen - UtcOffset

NextDay(date) == DateOf(Midnight(date) + DayLen)

\* 0 is Sunday.
DayOfWeek(date) == (DaysFromCivil(date) + 4) % 7

----------------------------------------------------------------------------
(* TimeWindowUntils and Calendar *)

Overlap(a, b) == Window(Max({a.early, b.early}), Min({a.late, b.late}))

Intersection(a, b) ==
  IF Overlap(a, b).early > Overlap(a, b).late THEN <<>> ELSE <<Overlap(a, b)>>

\* (mutant) A pause as long as Gap is kept.
MergeTimeWindowsBelow(tws) ==
  FoldLeft(LAMBDA res, tw:
             IF res # <<>> /\ tw.early - Last(res).late < Gap
             THEN Append(Front(res), Window(Last(res).early, tw.late))
             ELSE Append(res, tw),
           <<>>, tws)

\* A window that starts within Gap of the last one's end extends it.
MergeTimeWindows(tws) ==
  FoldLeft(LAMBDA res, tw:
             IF res # <<>> /\ tw.early - Last(res).late <= Gap
             THEN Append(Front(res), Window(Last(res).early, tw.late))
             ELSE Append(res, tw),
           <<>>, tws)

\* What the groups have in common.  One reading position per group; the group
\* whose window ends first, the first of them on a tie, moves on.
IntersectionTwsArr(groups) ==
  LET sweep[idx \in [DOMAIN groups -> Nat]] ==
        LET heads == [u \in DOMAIN groups |-> groups[u][idx[u]]]
            early == Max({heads[u].early : u \in DOMAIN heads})
            late == Min({heads[u].late : u \in DOMAIN heads})
            first == Min({u \in DOMAIN heads : heads[u].late = late})
        IN  (IF late > early THEN <<Window(early, late)>> ELSE <<>>)
            \o (IF idx[first] < Len(groups[first])
                THEN sweep[[idx EXCEPT ![first] = @ + 1]] ELSE <<>>)
  IN  IF groups = <<>> \/ <<>> \in Range(groups) THEN <<>>
      ELSE sweep[[u \in DOMAIN groups |-> 1]]

\* One row of WorkCalendarWeekly.csv: the ranges of Monday to Sunday.  A range
\* that is empty or reversed stops the program.
RowAccepted(row) == \A cell \in Range(row) : \A r \in Range(cell) : r[1] < r[2]

\* Each cell sets the day of its position, and a day left empty is open all day.
WeeklyCalendar(row) ==
  [day \in 0 .. 6 |->
     IF row[day + 1] = <<>> THEN <<FullDay>>
     ELSE SortSeq(row[day + 1], LAMBDA a, b : a[1] < b[1])]

NoCalendar == <<>>   \* the null pointer

\* A window cut into the calendar's open hours, from the date it starts on to
\* the date it ends on.
CalendarIntersection(calendar, tw) ==
  LET cut(date) ==
        [k \in DOMAIN calendar[DayOfWeek(date)] |->
           LET r == calendar[DayOfWeek(date)][k]
           IN  Overlap(Window(Midnight(date) + r[1], Midnight(date) + r[2]), tw)]
      from[date \in [year : Nat, month : 1 .. 12, day : 1 .. 31]] ==
        IF Midnight(date) > Midnight(DateOf(tw.late)) THEN <<>>
        ELSE cut(date) \o from[NextDay(date)]
  IN  MergeTimeWindows(SelectSeq(from[DateOf(tw.early)], LAMBDA w : w.early < w.late))

----------------------------------------------------------------------------
(* Order and Node *)

\* The pick (or drop) windows of an order: the plan range cut by the window of
\* each of its cargo orders, then by the calendar of the location.
OrderWindows(range, cargoWindows, calendar) ==
  LET common == FoldLeft(LAMBDA tws, c :
                           FlattenSeq([k \in DOMAIN tws |-> Intersection(c, tws[k])]),
                         <<range>>, cargoWindows)
  IN  IF calendar = NoCalendar THEN common
      ELSE MergeTimeWindows(FlattenSeq([k \in DOMAIN common |->
                                          CalendarIntersection(calendar, common[k])]))

\* The activities are walked from the last to the first; start and end nodes
\* are open for the plan range.
NodeTimeWindows(range, stop, calendar) ==
  IF stop.kind \in {"START", "END"} THEN <<range>>
  ELSE IntersectionTwsArr(
         FoldLeft(LAMBDA groups, order : <<OrderWindows(range, order, calendar)>> \o groups,
                  <<>>, stop.orders))
=============================================================================
