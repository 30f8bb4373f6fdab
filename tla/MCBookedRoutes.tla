--------------------------- MODULE MCBookedRoutes ---------------------------
(***************************************************************************)
(* BookedRoutes for TLC: a route of two stops on three days of eight units *)
(* each, over a leap day, a century's end of February and a new year.      *)
(***************************************************************************)
EXTENDS BookedRoutes

MCFullDay == <<0, 7>>

\* Wednesday 2024-02-28, Sunday 2100-02-28 and Wednesday 2025-12-31.
FirstDays == {19781, 47540, 20453}

Hours(day, from, to) == Window(day * DayLen - UtcOffset + from, day * DayLen - UtcOffset + to)

\* Rows: a lunch break, mornings and evenings out of order on some days with a
\* pause of one unit, short days, and one that is refused.
Lunch == [d \in 1 .. 7 |-> <<<<1, 3>>, <<6, 7>>>>]
Mixed == [d \in 1 .. 7 |-> IF d \in {2, 3} THEN <<<<5, 6>>, <<2, 4>>>>
                           ELSE IF d \in {1, 4, 6} THEN <<<<0, 2>>, <<3, 7>>>> ELSE <<>>]
Short == [d \in 1 .. 7 |-> <<<<d % 3, (d % 3) + 2>>>>]
Reversed == [d \in 1 .. 7 |-> <<<<4, 2>>>>]

Node(kind, row, orders, travel, fixed) ==
  [kind |-> kind, row |-> row, orders |-> orders, travel |-> travel, fixed |-> fixed,
   orderWork |-> [o \in DOMAIN orders |-> 1]]

\* Two orders are picked together, at the latest at `until`, and dropped one
\* after the other, the first at the latest at `by`, the second on the next day.
Booking(day, pickRow, dropRow, until, by, out, leg) ==
  LET pick == <<<<Hours(day, 0, until)>>, <<Hours(day, 1, 24), Hours(day, 2, 20)>>>>
  IN  [range |-> Hours(day, 2, 22),
       nodes |-> <<Node("START", NoCalendar, <<>>, 0, 0),
                   Node("PICK", pickRow, pick, out, 1),
                   Node("DROP", dropRow, <<<<Hours(day, 6, by)>>>>, leg, 0),
                   Node("DROP", Lunch, <<<<Hours(day, 8, 22)>>>>, 1, 1),
                   Node("END", NoCalendar, <<>>, out, 0)>>]

MCBookings ==
  {Booking(day, pickRow, dropRow, until, by, out, leg) :
     day \in FirstDays, pickRow \in {NoCalendar, Lunch, Mixed, Reversed},
     dropRow \in {NoCalendar, Lunch, Short}, until \in {2, 14}, by \in {11, 20},
     out \in {0, 5}, leg \in {0, 3, 6}}
=============================================================================
