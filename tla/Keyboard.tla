------------------------------ MODULE Keyboard ------------------------------
(***************************************************************************)
(* The buttons under a free event, which show_event draws from the         *)
(* counters of get_event.  Which button is there is decided here, what     *)
(* pressing it does is decided again by sign_up and cancel, from other     *)
(* conditions: the properties say that a button pressed before anything    *)
(* else happens does what it offers.                                       *)
(*                                                                         *)
(* A message is not redrawn when other users act, so that a button may be  *)
(* pressed in any later state; Booking lets every press happen always.     *)
(***************************************************************************)
EXTENDS Booking

\* free_adults and free_children are signed: negative when overbooked.
FreeSeats(e, k) == events[e].max[k] - Cardinality(Booked(rows, e, k))

MySeats(u, e, k) == Cardinality(BookedBy(rows, u, e, k))
MyPlaces(u, e, k) == Cardinality(WaitingBy(rows, u, e, k))

\* No button to sign up while the event is closed, to administrators either.
MoreOffered(u, e, k) == events[e].open /\ MySeats(u, e, k) < events[e].perUser[k]

\* Faulty variant: the button stays for one seat too many.
SeatOfferedOffByOne(u, e, k) == MoreOffered(u, e, k) /\ FreeSeats(e, k) >= 0

\* "Sign up +1"
SeatOffered(u, e, k) == MoreOffered(u, e, k) /\ FreeSeats(e, k) > 0

\* Faulty variant: the places one waits for already are not counted.
PlaceOfferedAgain(u, e, k) == MoreOffered(u, e, k) /\ FreeSeats(e, k) <= 0

\* "To the waiting list +1"
PlaceOffered(u, e, k) ==
    /\ MoreOffered(u, e, k)
    /\ FreeSeats(e, k) <= 0
    /\ MySeats(u, e, k) + MyPlaces(u, e, k) < events[e].perUser[k]

\* "Cancel -1"
CancelOffered(u, e, k) == MySeats(u, e, k) > 0 \/ MyPlaces(u, e, k) > 0

-----------------------------------------------------------------------------
(* Properties *)

\* The other kind of seat is over its limit per user: only after an edit that
\* cut the limits.  sign_up then looks at that kind, whatever was pressed.
OtherOverLimit(u, e, k) == \E j \in Kinds \ {k} : OverLimit(u, e, k, j)

\* An offered seat is only refused for a reason the keyboard does not show: the
\* event has begun, a ban, an event at the same time, or more seats of the
\* other kind booked than there are, which refuses both kinds.
OfferAdmitted ==
    \A u \in Users, e \in Live, k \in Kinds :
        SeatOffered(u, e, k) =>
            \/ Admitted(u, e, k, FALSE)
            \/ now > events[e].ts \/ u \in blackList \/ TimeTaken(u, e)
            \/ \E j \in Kinds \ {k} : FreeSeats(e, j) < 0

\* An offered seat that is taken is one booked seat of that kind more, be it a
\* new one or one the user waited for, and within the capacity.
OfferedSeatTaken ==
    [][\A u \in Users, e \in Live, k \in Kinds :
        /\ SeatOffered(u, e, k) /\ ~OtherOverLimit(u, e, k)
        /\ SignUp(u, e, k, FALSE)
        => /\ Cardinality(BookedBy(rows', u, e, k)) = MySeats(u, e, k) + 1
           /\ Cardinality(Booked(rows', e, k)) <= events'[e].max[k]]_vars

\* An offered place on the waiting list never turns into a seat: sign_up does
\* not look for one, and moves a waiting row of a user over the limit.
OfferedPlaceWaits ==
    [][\A u \in Users, e \in Live, k \in Kinds :
        /\ PlaceOffered(u, e, k) /\ ~OtherOverLimit(u, e, k)
        /\ SignUp(u, e, k, TRUE)
        => /\ \A j \in Kinds : Booked(rows', e, j) = Booked(rows, e, j)
           /\ Cardinality(WaitingBy(rows', u, e, k)) = MyPlaces(u, e, k) + 1]_vars

\* A Cancel button gives back one seat or place of its kind, a place first, and
\* nothing of the other kind; a ban for a late cancellation may take the rest.
OfferedCancelGivesBack ==
    [][\A u \in Users, e \in Live, k \in Kinds :
        /\ CancelOffered(u, e, k)
        /\ Cancel(u, e, k)
        /\ blackList' = blackList
        => /\ Cardinality(Held(rows \ rows', u, e, k)) = 1
           /\ Cardinality(rows \ rows') = 1
           /\ MyPlaces(u, e, k) > 0 => BookedBy(rows', u, e, k) = BookedBy(rows, u, e, k)]_vars
=============================================================================
