----------------------------- MODULE MCBooking -----------------------------
(***************************************************************************)
(* Booking and Keyboard on small instances.  Users that are not            *)
(* administrators are interchangeable; the arithmetic of unsigned integers *)
(* wraps at U64 = 16 here, far above every limit and clock value.          *)
(***************************************************************************)
EXTENDS Keyboard, TLC

Symmetry == Permutations(Users \ Admins)

Offer(maxA, maxC, perA, perC, start) ==
    [max |-> [adult |-> maxA, child |-> maxC],
     perUser |-> [adult |-> perA, child |-> perC], ts |-> start, open |-> TRUE]

\* Limits that are cut, raised, and cut to nothing (an announcement).
BothKinds == {Offer(1, 1, 2, 1, 0), Offer(1, 0, 1, 1, 0), Offer(2, 1, 2, 2, 0),
              Offer(0, 0, 1, 1, 0)}
\* Two places for adults, one per user, and two starting times.
TwoStarts == {Offer(2, 0, 1, 0, 1), Offer(2, 0, 1, 0, 2)}
\* One adult, one event that starts at 1.
OneSeat == {Offer(1, 0, 1, 0, 1)}

\* Bound of the run with two events: one row in the tables beside the
\* reservations and the black list, and at most one event closed.
OneAside ==
    /\ Cardinality(leaders) + Cardinality(presence) + Cardinality(prompts) <= 1
    /\ \A e, f \in Live : events[e].open \/ events[f].open \/ e = f
=============================================================================
