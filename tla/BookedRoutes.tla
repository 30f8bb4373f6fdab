---------------------------- MODULE BookedRoutes ----------------------------
(***************************************************************************)
(* RouteTimes on the windows Calendars derives: a route of the bookings a  *)
(* scenario holds, from calendar rows and cargo orders to the schedule.    *)
(***************************************************************************)
EXTENDS RouteTimes, Calendars

CONSTANT Bookings   \* what the scenario says of each route

\* A node of a booking: its kind, the calendar row of its location, the windows
\* of the cargo orders of each of its orders, and its times.
Calendar(stop) == IF stop.row = NoCalendar THEN NoCalendar ELSE WeeklyCalendar(stop.row)

\* Node::get_work_time: the fixed time of the location and each order's work.
WorkTime(stop) ==
  IF stop.kind \in {"START", "END"} THEN 0
  ELSE FoldLeft(+, stop.fixed, stop.orderWork)

Accepted(b) == \A n \in DOMAIN b.nodes :
                 b.nodes[n].row # NoCalendar => RowAccepted(b.nodes[n].row)

\* The route of a booking; the booking stays with it for the properties.
RouteOf(b) ==
  [windows |-> [n \in DOMAIN b.nodes |->
                  NodeTimeWindows(b.range, b.nodes[n], Calendar(b.nodes[n]))],
   travel  |-> [n \in DOMAIN b.nodes |-> b.nodes[n].travel],
   work    |-> [n \in DOMAIN b.nodes |-> WorkTime(b.nodes[n])],
   booking |-> b]

ScenarioRoutes == {RouteOf(b) : b \in {c \in Bookings : Accepted(c)}}

----------------------------------------------------------------------------
(* Properties *)

\* The day, from midnight to midnight where the scenario is, that holds t.
DayAt(t) == (t + UtcOffset) \div DayLen

OpenHours(ranges, t) ==
  \E k \in DOMAIN ranges :
    LET time == (t + UtcOffset) % DayLen
    IN  ranges[k][1] <= time /\ time < ranges[k][2]

\* The unit of time from t on is open to an order with these cargo windows: in
\* the plan range, in each of them and in the calendar's hours of its day.
OpenAt(range, cargoWindows, calendar, t) ==
  /\ range.early <= t /\ t < range.late
  /\ \A c \in DOMAIN cargoWindows : cargoWindows[c].early <= t /\ t < cargoWindows[c].late
  /\ calendar # NoCalendar => OpenHours(calendar[(DayAt(t) + 4) % 7], t)

\* Closed, but in a pause of at most Gap between open times.
PausedAt(range, cargoWindows, calendar, t) ==
  /\ calendar # NoCalendar
  /\ \E a, b \in 1 .. Gap : /\ a + b - 1 <= Gap
                            /\ OpenAt(range, cargoWindows, calendar, t - a)
                            /\ OpenAt(range, cargoWindows, calendar, t + b)

Within(tws, t) == \E v \in DOMAIN tws : tws[v].early <= t /\ t < tws[v].late

Work == {n \in Nodes : route.booking.nodes[n].kind \in {"PICK", "DROP"}}

\* The windows of a node are exactly the times at which all its orders may be
\* served, short pauses included.
WindowsExact ==
  \A n \in Work :
    LET b == route.booking
        calendar == Calendar(b.nodes[n])
    IN  \A t \in b.range.early - DayLen .. b.range.late + DayLen :
          Within(route.windows[n], t) <=>
            \A o \in DOMAIN b.nodes[n].orders :
              \/ OpenAt(b.range, b.nodes[n].orders[o], calendar, t)
              \/ PausedAt(b.range, b.nodes[n].orders[o], calendar, t)

\* docs/scenario_schema_reference.md: the columns of the weekly calendar hold
\* the ranges of Monday to Sunday.  A node is not open on a day for which its
\* row names other hours (1970-01-01 was a Thursday).
OpenOnNamedDay ==
  \A n \in Work :
    LET row == route.booking.nodes[n].row
    IN  row # NoCalendar =>
          \A v \in DOMAIN route.windows[n] :
            LET t == route.windows[n][v].early
                hours == row[((DayAt(t) + 3) % 7) + 1]
            IN  hours = <<>> \/ OpenHours(hours, t)
=============================================================================
