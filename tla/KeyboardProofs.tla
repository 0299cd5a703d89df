--------------------------- MODULE KeyboardProofs ---------------------------
(***************************************************************************)
(* What the buttons of a free event do when they are pressed at once, for  *)
(* any users, events and limits; and the ban for a late cancellation.      *)
(***************************************************************************)
EXTENDS Keyboard, BookingProofs

-----------------------------------------------------------------------------
(* Counting *)

\* The parts of what a user holds are finite and add up.
LEMMA MineCounted ==
  ASSUME TypeOK, NEW u, NEW e, NEW k
  PROVE  /\ IsFiniteSet(BookedBy(rows, u, e, k)) /\ MySeats(u, e, k) \in Nat
         /\ IsFiniteSet(WaitingBy(rows, u, e, k)) /\ MyPlaces(u, e, k) \in Nat
         /\ Cardinality(Held(rows, u, e, k)) = MySeats(u, e, k) + MyPlaces(u, e, k)
<1> DEFINE B == BookedBy(rows, u, e, k)
           W == WaitingBy(rows, u, e, k)
<1>1. B \cup W = Held(rows, u, e, k) /\ B \cap W = {}
  BY DEF BookedBy, WaitingBy
<1>2. IsFiniteSet(Held(rows, u, e, k))
  BY FiniteParts DEF TypeOK
<1>3. B \subseteq Held(rows, u, e, k) /\ W \subseteq Held(rows, u, e, k)
  BY <1>1
<1>4. IsFiniteSet(B) /\ IsFiniteSet(W)
  BY <1>2, <1>3, FS_Subset
<1> HIDE DEF B, W
<1>5. Cardinality(B \cup W) = Cardinality(B) + Cardinality(W) - Cardinality(B \cap W)
  BY <1>4, FS_Union
<1>6. Cardinality(B \cap W) = 0
  BY <1>1, FS_EmptySet
<1>7. Cardinality(B) \in Nat /\ Cardinality(W) \in Nat
  BY <1>4, FS_CardinalityType
<1>8. Cardinality(Held(rows, u, e, k)) = Cardinality(B) + Cardinality(W)
  BY <1>1, <1>5, <1>6, <1>7
<1> QED
  BY <1>4, <1>7, <1>8 DEF B, W, MySeats, MyPlaces

\* Seats and limits are numbers, and the sets are those of the table.
LEMMA Numbers ==
  ASSUME TypeOK, NEW e \in Live, NEW k \in Kinds
  PROVE  /\ events[e].max[k] \in Nat /\ events[e].perUser[k] \in Nat
         /\ Cardinality(Booked(rows, e, k)) \in Nat /\ IsFiniteSet(Booked(rows, e, k))
<1>1. events[e].max[k] \in Unsigned /\ events[e].perUser[k] \in Unsigned
  BY DEF TypeOK, Live, EventRow
<1>2. Unsigned \subseteq Nat
  BY ClockAssumption DEF Unsigned
<1> QED
  BY <1>1, <1>2, FiniteParts DEF TypeOK

-----------------------------------------------------------------------------
(* The keys of rows *)

\* Rows of one event, user and kind have keys of their own: two seats are
\* never taken for one.
KeysDiffer ==
  \A r, s \in rows : /\ r.event = s.event /\ r.user = s.user
                     /\ r.kind = s.kind /\ r.id = s.id
                     => r = s

\* sign_up gives its row a new key, and a promoted row keeps its own.
LEMMA SignUpKeysDiffer ==
  ASSUME TypeOK, KeysDiffer, NEW u \in Users, NEW e \in Live, NEW k \in Kinds,
         NEW wait \in BOOLEAN, SignUp(u, e, k, wait)
  PROVE  KeysDiffer'
<1>1. CASE Insert(u, e, k, wait)
  <2> DEFINE new == [id |-> CHOOSE id \in FreeIds(u, e, k) : TRUE,
                     event |-> e, user |-> u, kind |-> k, waiting |-> wait]
  <2>1. rows' = rows \cup {new} /\ new.id \in FreeIds(u, e, k)
    BY <1>1 DEF Insert
  <2>2. new.event = e /\ new.user = u /\ new.kind = k
    OBVIOUS
  <2> HIDE DEF new
  <2>3. \A r \in rows : r.event = e /\ r.user = u /\ r.kind = k => r.id # new.id
    BY <2>1 DEF FreeIds, Held
  <2> QED
    BY <2>1, <2>2, <2>3 DEF KeysDiffer
<1>2. ASSUME NEW j \in Kinds, MoveFromWaitingList(u, e, j) PROVE KeysDiffer'
  <2>1. CASE UNCHANGED rows
    BY <2>1 DEF KeysDiffer
  <2>2. CASE WaitingBy(rows, u, e, j) # {}
    <3>1. PICK r \in WaitingBy(rows, u, e, j) :
                rows' = (rows \ {r}) \cup {[r EXCEPT !.waiting = FALSE]}
      BY <1>2, <2>2 DEF MoveFromWaitingList
    <3> DEFINE new == [r EXCEPT !.waiting = FALSE]
    <3>2. r \in rows /\ r \in Row
      BY DEF WaitingBy, Held, TypeOK
    <3>3. new.event = r.event /\ new.user = r.user /\ new.kind = r.kind /\ new.id = r.id
      BY <3>2 DEF Row
    <3> HIDE DEF new
    <3>4. rows' = (rows \ {r}) \cup {new}
      BY <3>1 DEF new
    <3> QED
      BY <3>2, <3>3, <3>4 DEF KeysDiffer
  <2> QED
    BY <1>2, <2>1, <2>2 DEF MoveFromWaitingList
<1> QED
  BY <1>1, <1>2 DEF SignUp

\* No two reservations of one event, user and kind ever have the same key, so
\* that a promoted row never falls together with a booked one.
THEOREM KeysStayDifferent == Spec => []KeysDiffer
<1>1. Init => KeysDiffer
  BY DEF Init, KeysDiffer
<1>2. TypeOK /\ KeysDiffer /\ [Next]_vars => KeysDiffer'
  <2> SUFFICES ASSUME TypeOK, KeysDiffer, [Next]_vars PROVE KeysDiffer'
    OBVIOUS
  <2>1. CASE SomeSignUp
    BY <2>1, SignUpKeysDiffer DEF SomeSignUp
  <2>2. CASE ~SomeSignUp
    BY <2>2, OtherSteps DEF DropsRows, KeysDiffer
  <2> QED
    BY <2>1, <2>2
<1> QED
  BY <1>1, <1>2, TypeCorrect, PTL DEF Spec

-----------------------------------------------------------------------------
(* Offers *)

\* sign_up refuses an offered seat only for what the keyboard does not show: an
\* event that has begun, a ban, another event, or an overbooked other kind.
THEOREM OffersAdmitted == Spec => []OfferAdmitted
<1>1. TypeOK => OfferAdmitted
  <2> SUFFICES ASSUME TypeOK, NEW u \in Users, NEW e \in Live, NEW k \in Kinds,
                      SeatOffered(u, e, k),
                      ~(now > events[e].ts), u \notin blackList, ~TimeTaken(u, e),
                      \A j \in Kinds \ {k} : ~(FreeSeats(e, j) < 0)
               PROVE  Admitted(u, e, k, FALSE)
    BY DEF OfferAdmitted
  <2>1. events[e].open /\ FreeSeats(e, k) > 0
    BY DEF SeatOffered, MoreOffered
  <2>2. now \in Nat /\ events[e].ts \in Nat
    <3>1. events[e].ts \in Unsigned /\ now \in Nat
      BY DEF TypeOK, Live, EventRow
    <3> QED
      BY <3>1, ClockAssumption DEF Unsigned
  <2>3. SignUpOpen(u, e)
    BY <2>1, <2>2 DEF SignUpOpen
  <2>4. Room(e, k, FALSE)
    <3>1. ASSUME NEW j \in Kinds
          PROVE  Asked(k, j) <= events[e].max[j] - Cardinality(Booked(rows, e, j))
      <4>1. FreeSeats(e, j) \in Int /\ FreeSeats(e, j) = events[e].max[j] - Cardinality(Booked(rows, e, j))
        BY Numbers DEF FreeSeats
      <4>2. CASE j = k
        BY <2>1, <4>1, <4>2 DEF Asked
      <4>3. CASE j # k
        BY <4>1, <4>3 DEF Asked
      <4> QED
        BY <4>2, <4>3
    <3> QED
      BY <3>1 DEF Room
  <2>5. IsFree(e)
    <3>1. events[e].max[k] # 0
      BY <2>1, Numbers DEF FreeSeats
    <3> QED
      BY <3>1 DEF IsFree
  <2> QED
    BY <2>3, <2>4, <2>5 DEF Admitted, BlackListed
<1> QED
  BY <1>1, TypeCorrect, PTL

\* A sign-up to which no limit per user is opposed adds one row for what was
\* pressed, and nothing else.
Adds(new, u, e, k) ==
  /\ rows' = rows \cup {new} /\ new \notin rows
  /\ new.event = e /\ new.user = u /\ new.kind = k

\* An insert adds one row, on the list that was asked for.
LEMMA InsertOnly ==
  ASSUME NEW u, NEW e, NEW k
  PROVE  /\ Insert(u, e, k, TRUE) => \E new : Adds(new, u, e, k) /\ new.waiting
         /\ Insert(u, e, k, FALSE) => \E new : Adds(new, u, e, k) /\ ~new.waiting
<1> DEFINE new(wait) == [id |-> CHOOSE id \in FreeIds(u, e, k) : TRUE,
                         event |-> e, user |-> u, kind |-> k, waiting |-> wait]
<1>1. ASSUME Insert(u, e, k, TRUE)
      PROVE  \E r : Adds(r, u, e, k) /\ r.waiting
  <2>1. rows' = rows \cup {new(TRUE)} /\ new(TRUE).id \in FreeIds(u, e, k)
    BY <1>1 DEF Insert
  <2>2. new(TRUE).event = e /\ new(TRUE).user = u /\ new(TRUE).kind = k
    OBVIOUS
  <2>3. new(TRUE).waiting
    OBVIOUS
  <2> HIDE DEF new
  <2>4. new(TRUE) \notin rows
    BY <2>1, <2>2 DEF FreeIds, Held
  <2> QED
    BY <2>1, <2>2, <2>3, <2>4 DEF Adds
<1>2. ASSUME Insert(u, e, k, FALSE)
      PROVE  \E r : Adds(r, u, e, k) /\ ~r.waiting
  <2>1. rows' = rows \cup {new(FALSE)} /\ new(FALSE).id \in FreeIds(u, e, k)
    BY <1>2 DEF Insert
  <2>2. new(FALSE).event = e /\ new(FALSE).user = u /\ new(FALSE).kind = k
    OBVIOUS
  <2>3. ~new(FALSE).waiting
    OBVIOUS
  <2> HIDE DEF new
  <2>4. new(FALSE) \notin rows
    BY <2>1, <2>2 DEF FreeIds, Held
  <2> QED
    BY <2>1, <2>2, <2>3, <2>4 DEF Adds
<1> QED
  BY <1>1, <1>2

\* A place on the waiting list that is offered never becomes a seat: with it
\* the user is within the limit, so that sign_up inserts and moves nothing.
THEOREM OfferedPlacesWait == Spec => OfferedPlaceWaits
<1> DEFINE Step == \A u \in Users, e \in Live, k \in Kinds :
        /\ PlaceOffered(u, e, k) /\ ~OtherOverLimit(u, e, k)
        /\ SignUp(u, e, k, TRUE)
        => /\ \A j \in Kinds : Booked(rows', e, j) = Booked(rows, e, j)
           /\ Cardinality(WaitingBy(rows', u, e, k)) = MyPlaces(u, e, k) + 1
<1>1. TypeOK => Step
  <2> SUFFICES ASSUME TypeOK, NEW u \in Users, NEW e \in Live, NEW k \in Kinds,
                      PlaceOffered(u, e, k), ~OtherOverLimit(u, e, k),
                      SignUp(u, e, k, TRUE)
               PROVE  /\ \A j \in Kinds : Booked(rows', e, j) = Booked(rows, e, j)
                      /\ Cardinality(WaitingBy(rows', u, e, k)) = MyPlaces(u, e, k) + 1
    OBVIOUS
  <2>1. ~OverLimit(u, e, k, k)
    BY MineCounted, Numbers DEF PlaceOffered, OverLimit, Asked
  <2>2. \A j \in Kinds : ~OverLimit(u, e, k, j)
    BY <2>1 DEF OtherOverLimit
  <2>3. Insert(u, e, k, TRUE)
    BY <2>2 DEF SignUp, FirstOver
  <2>4. PICK new : Adds(new, u, e, k) /\ new.waiting
    BY <2>3, InsertOnly
  <2> USE DEF Adds
  <2>5. \A j \in Kinds : Booked(rows', e, j) = Booked(rows, e, j)
    BY <2>4 DEF Booked
  <2>6. /\ WaitingBy(rows', u, e, k) = WaitingBy(rows, u, e, k) \cup {new}
        /\ new \notin WaitingBy(rows, u, e, k)
    BY <2>4 DEF WaitingBy, Held
  <2>7. Cardinality(WaitingBy(rows', u, e, k)) = Cardinality(WaitingBy(rows, u, e, k)) + 1
    BY <2>6, MineCounted, FS_AddElement
  <2> QED
    BY <2>5, <2>7 DEF MyPlaces
<1> HIDE DEF Step
<1>2. Spec => [][Step]_vars
  BY <1>1, TypeCorrect, PTL
<1> QED
  BY <1>2 DEF OfferedPlaceWaits, Step

\* An offered seat is one booked seat more for the user, within the capacity,
\* be it a new row or a promoted one.  A promoted row is not mistaken for one
\* that is booked already, for their keys differ.
THEOREM OfferedSeatsTaken == Spec => OfferedSeatTaken
<1> DEFINE Step == \A u \in Users, e \in Live, k \in Kinds :
        /\ SeatOffered(u, e, k) /\ ~OtherOverLimit(u, e, k)
        /\ SignUp(u, e, k, FALSE)
        => /\ Cardinality(BookedBy(rows', u, e, k)) = MySeats(u, e, k) + 1
           /\ Cardinality(Booked(rows', e, k)) <= events'[e].max[k]
<1>1. TypeOK /\ KeysDiffer => Step
  <2> SUFFICES ASSUME TypeOK, KeysDiffer, NEW u \in Users, NEW e \in Live, NEW k \in Kinds,
                      SeatOffered(u, e, k), ~OtherOverLimit(u, e, k),
                      SignUp(u, e, k, FALSE)
               PROVE  /\ Cardinality(BookedBy(rows', u, e, k)) = MySeats(u, e, k) + 1
                      /\ Cardinality(Booked(rows', e, k)) <= events'[e].max[k]
    OBVIOUS
  <2>1. ASSUME NEW new, new \notin Booked(rows, e, k),
               Booked(rows', e, k) = Booked(rows, e, k) \cup {new},
               BookedBy(rows', u, e, k) = BookedBy(rows, u, e, k) \cup {new}
        PROVE  /\ Cardinality(BookedBy(rows', u, e, k)) = MySeats(u, e, k) + 1
               /\ Cardinality(Booked(rows', e, k)) <= events'[e].max[k]
    <3>1. new \notin BookedBy(rows, u, e, k)
      BY <2>1 DEF Booked, BookedBy, Held
    <3>2. Cardinality(BookedBy(rows', u, e, k)) = MySeats(u, e, k) + 1
      BY <2>1, <3>1, MineCounted, FS_AddElement DEF MySeats
    <3>3. Cardinality(Booked(rows', e, k)) = Cardinality(Booked(rows, e, k)) + 1
      BY <2>1, Numbers, FS_AddElement
    <3>4. FreeSeats(e, k) > 0 /\ UNCHANGED events
      BY DEF SeatOffered, SignUp
    <3>5. Cardinality(Booked(rows, e, k)) + 1 <= events'[e].max[k]
      BY <3>4, Numbers DEF FreeSeats
    <3> QED
      BY <3>2, <3>3, <3>5
  <2>2. CASE Insert(u, e, k, FALSE)
    <3>1. PICK new : Adds(new, u, e, k) /\ ~new.waiting
      BY <2>2, InsertOnly
    <3> USE DEF Adds
    <3>2. new \notin Booked(rows, e, k) /\ Booked(rows', e, k) = Booked(rows, e, k) \cup {new}
      BY <3>1 DEF Booked
    <3>3. BookedBy(rows', u, e, k) = BookedBy(rows, u, e, k) \cup {new}
      BY <3>1 DEF BookedBy, Held
    <3> QED
      BY <2>1, <3>2, <3>3
  <2>3. ASSUME NEW j \in Kinds, FirstOver(u, e, k, j), MoveFromWaitingList(u, e, j)
        PROVE  /\ Cardinality(BookedBy(rows', u, e, k)) = MySeats(u, e, k) + 1
               /\ Cardinality(Booked(rows', e, k)) <= events'[e].max[k]
    <3>1. j = k /\ OverLimit(u, e, k, k)
      BY <2>3 DEF FirstOver, OtherOverLimit
    <3>2. MyPlaces(u, e, k) > 0
      BY <3>1, MineCounted, Numbers DEF OverLimit, Asked, SeatOffered, MoreOffered
    <3>3. WaitingBy(rows, u, e, k) # {}
      BY <3>2, FS_EmptySet DEF MyPlaces
    <3>4. PICK r \in WaitingBy(rows, u, e, k) :
                rows' = (rows \ {r}) \cup {[r EXCEPT !.waiting = FALSE]}
      BY <2>3, <3>1, <3>3 DEF MoveFromWaitingList
    <3> DEFINE new == [r EXCEPT !.waiting = FALSE]
    <3>5. /\ r \in rows /\ r \in Row /\ r.waiting
          /\ r.event = e /\ r.user = u /\ r.kind = k
      BY DEF WaitingBy, Held, TypeOK
    <3>6. /\ new.event = e /\ new.user = u /\ new.kind = k
          /\ new.id = r.id /\ new.waiting = FALSE
      BY <3>5 DEF Row
    <3> HIDE DEF new
    <3>7. rows' = (rows \ {r}) \cup {new}
      BY <3>4 DEF new
    <3>8. new \notin rows
      BY <3>5, <3>6 DEF KeysDiffer
    <3>9. new \notin Booked(rows, e, k) /\ Booked(rows', e, k) = Booked(rows, e, k) \cup {new}
      BY <3>5, <3>6, <3>7, <3>8 DEF Booked
    <3>10. BookedBy(rows', u, e, k) = BookedBy(rows, u, e, k) \cup {new}
      BY <3>5, <3>6, <3>7 DEF BookedBy, Held
    <3> QED
      BY <2>1, <3>9, <3>10
  <2> QED
    BY <2>2, <2>3 DEF SignUp
<1> HIDE DEF Step
<1>2. Spec => [][Step]_vars
  BY <1>1, TypeCorrect, KeysStayDifferent, PTL
<1> QED
  BY <1>2 DEF OfferedSeatTaken, Step

-----------------------------------------------------------------------------
(* Cancellations *)

\* A Cancel button that is offered gives back one row of its kind, one that
\* waits before one that is booked.
THEOREM OfferedCancelsGiveBack == Spec => OfferedCancelGivesBack
<1> DEFINE Step == \A u \in Users, e \in Live, k \in Kinds :
        /\ CancelOffered(u, e, k)
        /\ Cancel(u, e, k)
        /\ blackList' = blackList
        => /\ Cardinality(Held(rows \ rows', u, e, k)) = 1
           /\ Cardinality(rows \ rows') = 1
           /\ MyPlaces(u, e, k) > 0 => BookedBy(rows', u, e, k) = BookedBy(rows, u, e, k)
<1>1. TypeOK => Step
  <2> SUFFICES ASSUME TypeOK, NEW u \in Users, NEW e \in Live, NEW k \in Kinds,
                      CancelOffered(u, e, k), Cancel(u, e, k), blackList' = blackList
               PROVE  /\ Cardinality(Held(rows \ rows', u, e, k)) = 1
                      /\ Cardinality(rows \ rows') = 1
                      /\ MyPlaces(u, e, k) > 0
                         => BookedBy(rows', u, e, k) = BookedBy(rows, u, e, k)
    OBVIOUS
  <2>1. PICK gone \in GivenBack(u, e, k), banned \in SUBSET ({u} \ blackList) :
              /\ rows' = Without(rows \ gone, banned)
              /\ blackList' = blackList \cup banned
    BY DEF Cancel
  <2>2. banned = {}
    BY <2>1
  <2>3. rows' = rows \ gone
    BY <2>1, <2>2 DEF Without
  <2> DEFINE waiting == WaitingBy(rows, u, e, k)
             seats == IF waiting # {} THEN waiting ELSE BookedBy(rows, u, e, k)
  <2>4. seats # {}
    BY FS_EmptySet DEF CancelOffered, MySeats, MyPlaces
  <2>5. PICK r \in seats : gone = {r}
    BY <2>1, <2>4 DEF GivenBack
  <2>6. r \in rows /\ r \in Held(rows, u, e, k) /\ (waiting # {} => r.waiting)
    BY <2>5 DEF WaitingBy, BookedBy, Held
  <2>7. rows \ rows' = {r} /\ Held(rows \ rows', u, e, k) = {r}
    BY <2>3, <2>5, <2>6 DEF Held
  <2>8. Cardinality({r}) = 1
    BY FS_Singleton
  <2>9. ASSUME MyPlaces(u, e, k) > 0
        PROVE  BookedBy(rows', u, e, k) = BookedBy(rows, u, e, k)
    <3>1. r.waiting
      BY <2>6, <2>9, FS_EmptySet DEF MyPlaces
    <3> QED
      BY <2>3, <2>5, <3>1 DEF BookedBy, Held
  <2> QED
    BY <2>7, <2>8, <2>9
<1> HIDE DEF Step
<1>2. Spec => [][Step]_vars
  BY <1>1, TypeCorrect, PTL
<1> QED
  BY <1>2 DEF OfferedCancelGivesBack, Step

\* Until the start of the event the unsigned difference is the difference, and
\* whoever gives back the last seat too late is on the black list.
THEOREM LateCancelsBan == Spec => LateCancelBansUntilStart
<1> DEFINE Step == \A u \in Users, e \in Live, k \in Kinds :
        /\ Cancel(u, e, k)
        /\ HasSeat(rows, u, e) /\ ~HasSeat(rows', u, e)
        /\ now <= events[e].ts /\ events[e].ts < now + TooLate
        => u \in blackList'
<1>1. TypeOK => Step
  <2> SUFFICES ASSUME TypeOK, NEW u \in Users, NEW e \in Live, NEW k \in Kinds,
                      Cancel(u, e, k), ~HasSeat(rows', u, e),
                      now <= events[e].ts, events[e].ts < now + TooLate
               PROVE  u \in blackList'
    OBVIOUS
  <2>1. TooLateToCancel(e)
    <3>1. events[e].ts \in Unsigned /\ now \in Nat
      BY DEF TypeOK, Live, EventRow
    <3> DEFINE d == events[e].ts - now
    <3>2. d \in 0..(U64 - 1) /\ d < TooLate /\ U64 \in Nat \ {0}
      BY <3>1, ClockAssumption DEF Unsigned
    <3> HIDE DEF d
    <3>3. d % U64 = d
      BY <3>2
    <3> QED
      BY <3>2, <3>3 DEF TooLateToCancel, d
  <2>2. PICK gone \in GivenBack(u, e, k) :
          LET left == rows \ gone
              banned == IF TooLateToCancel(e) /\ ~HasSeat(left, u, e)
                        THEN {u} \ blackList ELSE {}
          IN  /\ rows' = Without(left, banned)
              /\ blackList' = blackList \cup banned
    BY DEF Cancel
  <2>3. CASE HasSeat(rows \ gone, u, e)
    <3>1. rows' = Without(rows \ gone, {})
      BY <2>2, <2>3
    <3>2. rows' = rows \ gone
      BY <3>1 DEF Without
    <3> QED
      BY <2>3, <3>2
  <2>4. CASE ~HasSeat(rows \ gone, u, e)
    <3>1. blackList' = blackList \cup ({u} \ blackList)
      BY <2>1, <2>2, <2>4
    <3> QED
      BY <3>1
  <2> QED
    BY <2>3, <2>4
<1> HIDE DEF Step
<1>2. Spec => [][Step]_vars
  BY <1>1, TypeCorrect, PTL
<1> QED
  BY <1>2 DEF LateCancelBansUntilStart, Step
=============================================================================
