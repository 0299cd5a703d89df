------------------------------- MODULE Seats -------------------------------
(***************************************************************************)
(* What the sale of an event with a fixed number of places promises: a     *)
(* booking, of one or more seats, takes all of its seats at once, only if  *)
(* they are all there, and may be given back.                              *)
(***************************************************************************)
CONSTANTS
    Bookings,   \* bookings that may be asked for
    Fits(_)     \* whether there are places for all the seats of some bookings

VARIABLE taken  \* the bookings that hold their seats

Init == taken = {}

Take(b) ==
    /\ b \notin taken
    /\ Fits(taken \cup {b})
    /\ taken' = taken \cup {b}

GiveBack(B) == taken' = taken \ B

Next == \/ \E b \in Bookings : Take(b)
        \/ \E B \in SUBSET taken : GiveBack(B)

Spec == Init /\ [][Next]_taken

\* There are never more seats taken than places.
NeverOverbooked == Fits(taken)
=============================================================================
