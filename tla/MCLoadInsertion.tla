-------------------------- MODULE MCLoadInsertion --------------------------
(***************************************************************************)
(* LoadInsertion for TLC.  Locations lie on a line: a van drives to the far*)
(* depot, a truck starts there and detours, a bike has room for one order. *)
(* Four orders start at p, two of them end at a; one starts at q.          *)
(***************************************************************************)
EXTENDS LoadInsertion

Fleet == <<"van", "truck", "bike">>

Position == [h |-> 0, g |-> 6, p |-> 1, q |-> 1, a |-> 3, b |-> 5, c |-> 4]

Away(factor) ==
  LET Span(x, y) == IF Position[x] < Position[y] THEN Position[y] - Position[x]
                    ELSE Position[x] - Position[y]
  IN [x \in Locations |-> [y \in Locations |-> factor * Span(x, y)]]

Places == {"h", "g", "p", "q", "a", "b", "c"}
Picks == [o1 |-> "p", o2 |-> "p", o3 |-> "p", o4 |-> "p", o5 |-> "q"]
Drops == [o1 |-> "a", o2 |-> "b", o3 |-> "a", o4 |-> "c", o5 |-> "b"]
Starts == [van |-> "h", truck |-> "g", bike |-> "h"]
Ends == [van |-> "g", truck |-> "h", bike |-> "h"]
Codes == [van |-> "road", truck |-> "detour", bike |-> "road"]
Distances == [road |-> Away(1), detour |-> Away(2)]
Room == [van |-> 2, truck |-> 3, bike |-> 1]
Reaches == [van |-> Places, truck |-> Places \ {"q"}, bike |-> Places \ {"b"}]
Tiers == [van |-> 8, truck |-> 27, bike |-> 9]
Prices == [van |-> 2, truck |-> 1, bike |-> 1]
=============================================================================
