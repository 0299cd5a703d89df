--------------------------- MODULE BookingProofs ---------------------------
(***************************************************************************)
(* Proofs about Booking for any users, events, limits and clock: its types *)
(* and the two invariants that relate its tables are inductive together,   *)
(* and from them follow the action properties.                             *)
(***************************************************************************)
EXTENDS Booking, FiniteSetTheorems, TLAPS

-----------------------------------------------------------------------------
(* Types *)

\* The empty database is well-formed.
LEMMA InitTypeOK == Init => TypeOK
<1> SUFFICES ASSUME Init PROVE TypeOK
  OBVIOUS
<1>1. IsFiniteSet(rows)
  BY FS_EmptySet DEF Init
<1>2. events \in [DOMAIN events -> EventRow] /\ DOMAIN events = {}
  BY DEF Init
<1> QED
  BY <1>1, <1>2, SetsAssumption, ClockAssumption DEF Init, TypeOK

\* What a handler may do to the rows: drop some, add one, or take one off the
\* waiting list.
LEMMA RowsStayRows ==
  ASSUME NEW rs, rs \subseteq Row, IsFiniteSet(rs), NEW less, less \subseteq rs,
         NEW r \in Row
  PROVE  /\ less \subseteq Row /\ IsFiniteSet(less)
         /\ rs \cup {r} \subseteq Row /\ IsFiniteSet(rs \cup {r})
         /\ less \cup {r} \subseteq Row /\ IsFiniteSet(less \cup {r})
  BY FS_Subset, FS_AddElement

\* sign_up, with its promotion, writes well-formed rows.
LEMMA SignUpTypeOK ==
  ASSUME TypeOK, NEW u \in Users, NEW e \in Live, NEW k \in Kinds,
         NEW wait \in BOOLEAN, SignUp(u, e, k, wait)
  PROVE  TypeOK'
<1>1. rows' \subseteq Row /\ IsFiniteSet(rows')
  <2>1. CASE Insert(u, e, k, wait)
    <3> DEFINE id == CHOOSE i \in FreeIds(u, e, k) : TRUE
               new == [id |-> id, event |-> e, user |-> u, kind |-> k,
                       waiting |-> wait]
    <3>1. id \in RowIds
      BY <2>1 DEF Insert, FreeIds
    <3>2. e \in EventIds
      BY SetsAssumption DEF TypeOK, Live, EventIds
    <3>3. new \in Row
      BY <3>1, <3>2 DEF Row
    <3>4. rows' = rows \cup {new}
      BY <2>1 DEF Insert
    <3> HIDE DEF new
    <3> QED
      BY <3>3, <3>4, RowsStayRows DEF TypeOK
  <2>2. ASSUME NEW j \in Kinds, MoveFromWaitingList(u, e, j)
        PROVE  rows' \subseteq Row /\ IsFiniteSet(rows')
    <3>1. CASE WaitingBy(rows, u, e, j) = {}
      BY <2>2, <3>1 DEF MoveFromWaitingList, TypeOK
    <3>2. CASE WaitingBy(rows, u, e, j) # {}
      <4>1. PICK r \in WaitingBy(rows, u, e, j) :
                  rows' = (rows \ {r}) \cup {[r EXCEPT !.waiting = FALSE]}
        BY <2>2, <3>2 DEF MoveFromWaitingList
      <4>2. [r EXCEPT !.waiting = FALSE] \in Row
        BY DEF WaitingBy, Held, Row, TypeOK
      <4> QED
        BY <4>1, <4>2, RowsStayRows DEF TypeOK
    <3> QED
      BY <3>1, <3>2
  <2> QED
    BY <2>1, <2>2 DEF SignUp
<1> QED
  BY <1>1 DEF SignUp, TypeOK, Live

\* Handlers that drop rows and change the black list and the prompts.
LEMMA RowsDroppedTypeOK ==
  ASSUME TypeOK, rows' \subseteq rows,
         blackList' \subseteq Users, prompts' \subseteq EventIds,
         UNCHANGED <<now, lastId, events, presence, leaders>>
  PROVE  TypeOK'
<1>1. rows' \subseteq Row /\ IsFiniteSet(rows')
  BY FS_Subset DEF TypeOK
<1> QED
  BY <1>1 DEF TypeOK

\* Events that are there have ids that were given.
LEMMA LiveIds ==
  ASSUME TypeOK
  PROVE  Live \subseteq EventIds
  BY SetsAssumption DEF TypeOK, Live, EventIds

\* Only events are prompted.
LEMMA PromptsAfterType ==
  ASSUME TypeOK, NEW e \in Live, NEW evs, NEW rs
  PROVE  PromptsAfter(evs, rs, e) \subseteq EventIds
  BY LiveIds DEF PromptsAfter, TypeOK

\* The two ways to give a seat back keep the types.
LEMMA HandlersTypeOK ==
  ASSUME TypeOK, NEW u \in Users, NEW e \in Live
  PROVE  /\ \A k \in Kinds : Cancel(u, e, k) => TypeOK'
         /\ DeleteReservation(u, e) => TypeOK'
<1>1. ASSUME NEW k \in Kinds, Cancel(u, e, k) PROVE TypeOK'
  <2>1. PICK gone \in GivenBack(u, e, k) :
          LET left == rows \ gone
              banned == IF TooLateToCancel(e) /\ ~HasSeat(left, u, e)
                        THEN {u} \ blackList ELSE {}
          IN  /\ rows' = Without(left, banned)
              /\ blackList' = blackList \cup banned
              /\ prompts' = PromptsAfter(events, left, e)
    BY <1>1 DEF Cancel
  <2>2. rows' \subseteq rows /\ blackList' \subseteq Users
    BY <2>1 DEF Without, TypeOK
  <2>3. prompts' \subseteq EventIds
    BY <2>1, PromptsAfterType
  <2> QED
    BY <1>1, <2>2, <2>3, RowsDroppedTypeOK DEF Cancel
<1>2. ASSUME DeleteReservation(u, e) PROVE TypeOK'
  <2>1. prompts' \subseteq EventIds
    BY <1>2, PromptsAfterType DEF DeleteReservation
  <2> QED
    BY <1>2, <2>1, RowsDroppedTypeOK DEF DeleteReservation, TypeOK
<1> QED
  BY <1>1, <1>2

\* Handlers that write the table of events.
LEMMA EventsTypeOK ==
  ASSUME TypeOK
  PROVE  /\ CreateEvent => TypeOK'
         /\ \A e \in Live : EditEvent(e) => TypeOK'
         /\ \A e \in Live : SetEventLimits(e) => TypeOK'
         /\ \A e \in Live : ChangeEventState(e) => TypeOK'
<1> USE OffersAssumption DEF Live, NextId
<1>1. ASSUME CreateEvent PROVE TypeOK'
  <2>1. PICK row \in Offers :
          events' = [e \in Live \cup {NextId} |-> IF e = NextId THEN row ELSE events[e]]
    BY <1>1 DEF CreateEvent
  <2>2. row \in EventRow
    OBVIOUS
  <2>3. lastId' \in 0..MaxEvents /\ lastId' = lastId + 1
    BY <1>1, SetsAssumption DEF CreateEvent, TypeOK
  <2>4. DOMAIN events' = Live \cup {lastId + 1}
    BY <2>1
  <2>5. DOMAIN events' \subseteq 1..lastId'
    BY <2>3, <2>4, SetsAssumption DEF TypeOK
  <2>6. events' \in [DOMAIN events' -> EventRow]
    BY <2>1, <2>2, <2>4 DEF TypeOK
  <2> QED
    BY <1>1, <2>3, <2>5, <2>6 DEF CreateEvent, TypeOK
<1>2. ASSUME NEW e \in Live, EditEvent(e) PROVE TypeOK'
  <2>1. PICK row \in Offers :
          events' = [events EXCEPT ![e] = [row EXCEPT !.open = events[e].open]]
    BY <1>2 DEF EditEvent
  <2>2. [row EXCEPT !.open = events[e].open] \in EventRow
    BY DEF EventRow, TypeOK
  <2>3. events' \in [DOMAIN events -> EventRow]
    BY <2>1, <2>2 DEF TypeOK
  <2> QED
    BY <1>2, <2>3 DEF EditEvent, TypeOK
<1>3. ASSUME NEW e \in Live, SetEventLimits(e) PROVE TypeOK'
  <2>1. PICK row \in Offers : events' = [events EXCEPT ![e].max = row.max]
    BY <1>3 DEF SetEventLimits
  <2>2. [events[e] EXCEPT !.max = row.max] \in EventRow
    BY DEF EventRow, TypeOK
  <2>3. events' \in [DOMAIN events -> EventRow]
    BY <2>1, <2>2 DEF TypeOK
  <2>4. prompts' \subseteq EventIds
    BY <1>3, PromptsAfterType DEF SetEventLimits
  <2> QED
    BY <1>3, <2>3, <2>4 DEF SetEventLimits, TypeOK
<1>4. ASSUME NEW e \in Live, ChangeEventState(e) PROVE TypeOK'
  <2>1. events' = [events EXCEPT ![e].open = ~@]
    BY <1>4 DEF ChangeEventState
  <2>2. [events[e] EXCEPT !.open = ~@] \in EventRow
    BY DEF EventRow, TypeOK
  <2>3. events' \in [DOMAIN events -> EventRow]
    BY <2>1, <2>2 DEF TypeOK
  <2> QED
    BY <1>4, <2>3 DEF ChangeEventState, TypeOK
<1> QED
  BY <1>1, <1>2, <1>3, <1>4

\* A deletion keeps the types, through or half-way.
LEMMA DeletionTypeOK ==
  ASSUME TypeOK, NEW e \in Live
  PROVE  /\ DeleteEvent(e) => TypeOK'
         /\ DeleteEventFails(e) => TypeOK'
         /\ DeleteLink(e) => TypeOK'
<1>1. ASSUME NEW rs, rs \subseteq rows, Purge(e, rs), UNCHANGED <<now, lastId>>,
             blackList' \subseteq Users
      PROVE  TypeOK'
  <2>1. rows' \subseteq Row /\ IsFiniteSet(rows')
    BY <1>1, FS_Subset DEF Purge, RowsAfterPurge, TypeOK
  <2>2. DOMAIN events' \subseteq 1..lastId' /\ events' \in [DOMAIN events' -> EventRow]
    BY <1>1 DEF Purge, RowsAfterPurge, TypeOK, Live
  <2> QED
    BY <1>1, <2>1, <2>2 DEF Purge, RowsAfterPurge, TypeOK
<1>2. NoShows(e) \subseteq Users
  BY DEF NoShows, Holders
<1>3. \A banned : Without(rows, banned) \subseteq rows
  BY DEF Without
<1>4. DeleteEvent(e) => TypeOK'
  BY <1>1, <1>2, <1>3 DEF DeleteEvent, TypeOK
<1>5. DeleteLink(e) => TypeOK'
  BY <1>1 DEF DeleteLink, TypeOK
<1>6. DeleteEventFails(e) => TypeOK'
  BY <1>2, <1>3, RowsDroppedTypeOK DEF DeleteEventFails, TypeOK
<1> QED
  BY <1>4, <1>5, <1>6

\* Group leaders and ticks are of users and of ids that were given.
LEMMA PeopleTypeOK ==
  ASSUME TypeOK, NEW u \in Users, NEW e \in 1..lastId, NEW actor \in Users
  PROVE  /\ SetGroupLeader(e, u) => TypeOK'
         /\ ConfirmPresence(actor, e, u) => TypeOK'
<1>1. e \in EventIds
  BY SetsAssumption DEF TypeOK, EventIds
<1> QED
  BY <1>1 DEF SetGroupLeader, ConfirmPresence, TypeOK

\* Every step keeps the types.
LEMMA NextTypeOK == TypeOK /\ [Next]_vars => TypeOK'
<1> SUFFICES ASSUME TypeOK, [Next]_vars PROVE TypeOK'
  OBVIOUS
<1>1. CASE UNCHANGED vars
  BY <1>1 DEF TypeOK, vars
<1>2. ASSUME NEW e \in Live,
             \/ EditEvent(e) \/ SetEventLimits(e) \/ ChangeEventState(e)
             \/ DeleteEvent(e) \/ DeleteEventFails(e) \/ DeleteLink(e)
      PROVE  TypeOK'
  BY <1>2, EventsTypeOK, DeletionTypeOK
<1>3. ASSUME NEW u \in Users, NEW e \in Live,
             (\E k \in Kinds : Cancel(u, e, k)) \/ DeleteReservation(u, e)
      PROVE  TypeOK'
  BY <1>3, HandlersTypeOK
<1>4. ASSUME NEW u \in Users, Ban(u) \/ Unban(u) PROVE TypeOK'
  BY <1>4, RowsDroppedTypeOK DEF Ban, Unban, Without, TypeOK
<1>5. ASSUME NEW e \in Live, MailerDone(e) PROVE TypeOK'
  BY <1>5, RowsDroppedTypeOK DEF MailerDone, TypeOK
<1>6. Tick => TypeOK'
  BY DEF Tick, TypeOK
<1> QED
  BY <1>1, <1>2, <1>3, <1>4, <1>5, <1>6, EventsTypeOK, SignUpTypeOK, PeopleTypeOK
     DEF Next

\* Every table keeps its type for every value of the constants.
THEOREM TypeCorrect == Spec => []TypeOK
<1> QED
  BY InitTypeOK, NextTypeOK, PTL DEF Spec

-----------------------------------------------------------------------------
(* What a step does to the rows *)

\* A row that a sign-up leaves behind was there, or belongs to the event and
\* the user of the sign-up.
LEMMA SignUpRows ==
  ASSUME NEW u \in Users, NEW e \in Live, NEW k \in Kinds,
         NEW wait \in BOOLEAN, SignUp(u, e, k, wait), rows \subseteq Row
  PROVE  \A r \in rows' : r \in rows \/ (r.event = e /\ r.user = u)
<1>1. CASE Insert(u, e, k, wait)
  <2> DEFINE new == [id |-> CHOOSE id \in FreeIds(u, e, k) : TRUE,
                     event |-> e, user |-> u, kind |-> k, waiting |-> wait]
  <2>1. rows' = rows \cup {new}
    BY <1>1 DEF Insert
  <2>2. new.event = e /\ new.user = u
    OBVIOUS
  <2> QED
    BY <2>1, <2>2
<1>2. ASSUME NEW j \in Kinds, MoveFromWaitingList(u, e, j)
      PROVE  \A r \in rows' : r \in rows \/ (r.event = e /\ r.user = u)
  <2>1. CASE WaitingBy(rows, u, e, j) = {}
    BY <1>2, <2>1 DEF MoveFromWaitingList
  <2>2. CASE WaitingBy(rows, u, e, j) # {}
    <3>1. PICK r \in WaitingBy(rows, u, e, j) :
                rows' = (rows \ {r}) \cup {[r EXCEPT !.waiting = FALSE]}
      BY <1>2, <2>2 DEF MoveFromWaitingList
    <3>2. r \in Row /\ r.event = e /\ r.user = u
      BY DEF WaitingBy, Held
    <3>3. /\ [r EXCEPT !.waiting = FALSE].event = e
          /\ [r EXCEPT !.waiting = FALSE].user = u
      BY <3>2 DEF Row
    <3> QED
      BY <3>1, <3>3
  <2> QED
    BY <2>1, <2>2
<1> QED
  BY <1>1, <1>2 DEF SignUp

\* Every other step only drops rows, and it bans a user only together with
\* the rows of that user when reservations do not survive a ban.
SomeSignUp ==
    \E u \in Users, e \in Live, k \in Kinds, wait \in BOOLEAN :
        SignUp(u, e, k, wait)

DropsRows ==
    /\ rows' \subseteq rows
    /\ CancelOnBan => \A r \in rows' : r.user \in blackList' => r.user \in blackList

\* Whatever is not a sign-up only takes reservations away, and where bans cancel
\* a new ban takes all of its user.
LEMMA OtherSteps ==
  ASSUME [Next]_vars, ~SomeSignUp
  PROVE  DropsRows
<1> USE DEF DropsRows
<1>1. CASE UNCHANGED vars
  BY <1>1 DEF vars
<1>2. ASSUME NEW u \in Users, NEW e \in Live, NEW k \in Kinds, Cancel(u, e, k)
      PROVE  DropsRows
  BY <1>2 DEF Cancel, Without
<1>3. ASSUME NEW e \in Live, DeleteEvent(e) \/ DeleteEventFails(e) \/ DeleteLink(e)
      PROVE  DropsRows
  BY <1>3 DEF DeleteEvent, DeleteEventFails, DeleteLink, Purge, RowsAfterPurge, Without
<1>4. ASSUME NEW u \in Users, Ban(u) \/ Unban(u)
      PROVE  DropsRows
  BY <1>4 DEF Ban, Unban, Without
<1>5. ASSUME NEW u \in Users, NEW e \in Live, DeleteReservation(u, e)
      PROVE  DropsRows
  BY <1>5 DEF DeleteReservation
<1>6. ASSUME NEW e \in Live,
             EditEvent(e) \/ SetEventLimits(e) \/ ChangeEventState(e) \/ MailerDone(e)
      PROVE  DropsRows
  BY <1>6 DEF EditEvent, SetEventLimits, ChangeEventState, MailerDone
<1>7. CASE CreateEvent \/ Tick
  BY <1>7 DEF CreateEvent, Tick
<1>8. ASSUME NEW u \in Users, NEW e \in 1..lastId, NEW actor \in Users,
             SetGroupLeader(e, u) \/ ConfirmPresence(actor, e, u)
      PROVE  DropsRows
  BY <1>8 DEF SetGroupLeader, ConfirmPresence
<1> QED
  BY <1>1, <1>2, <1>3, <1>4, <1>5, <1>6, <1>7, <1>8 DEF Next, SomeSignUp

-----------------------------------------------------------------------------
(* Invariants *)

\* An event disappears only in a deletion, and its rows with it.
LEMMA EventsKept ==
  ASSUME TypeOK, RowsOfLiveEvents, [Next]_vars, ~SomeSignUp
  PROVE  RowsOfLiveEvents'
<1>1. CASE Live \subseteq Live'
  BY <1>1, OtherSteps DEF RowsOfLiveEvents, DropsRows
<1>2. ASSUME NEW e \in Live, DeleteEvent(e) \/ DeleteLink(e)
      PROVE  RowsOfLiveEvents'
  BY <1>2 DEF DeleteEvent, DeleteLink, Purge, RowsAfterPurge, Without, Live, RowsOfLiveEvents
<1>3. CASE \E e \in Live : DeleteEvent(e) \/ DeleteLink(e)
  BY <1>2, <1>3
<1>4. CASE ~\E e \in Live : DeleteEvent(e) \/ DeleteLink(e)
  <2> USE DEF Live
  <2>1. CASE UNCHANGED events
    BY <1>1, <2>1
  <2>2. CASE CreateEvent
    BY <1>1, <2>2 DEF CreateEvent
  <2>3. ASSUME NEW e \in Live, EditEvent(e) \/ SetEventLimits(e) \/ ChangeEventState(e)
        PROVE  RowsOfLiveEvents'
    BY <1>1, <2>3 DEF EditEvent, SetEventLimits, ChangeEventState
  <2> QED
    BY <1>4, <2>1, <2>2, <2>3
    DEF Next, vars, SomeSignUp, Tick, DeleteEventFails, MailerDone, Ban, Unban,
        Cancel, DeleteReservation, SetGroupLeader, ConfirmPresence
<1> QED
  BY <1>3, <1>4

\* No step leaves a reservation without its event.
LEMMA NextRowsOfLiveEvents ==
  TypeOK /\ RowsOfLiveEvents /\ [Next]_vars => RowsOfLiveEvents'
<1> SUFFICES ASSUME TypeOK, RowsOfLiveEvents, [Next]_vars PROVE RowsOfLiveEvents'
  OBVIOUS
<1>1. CASE SomeSignUp
  <2>1. PICK u \in Users, e \in Live, k \in Kinds, wait \in BOOLEAN :
              SignUp(u, e, k, wait)
    BY <1>1 DEF SomeSignUp
  <2>2. \A r \in rows' : r \in rows \/ r.event = e
    BY <2>1, SignUpRows DEF TypeOK
  <2>3. UNCHANGED events
    BY <2>1 DEF SignUp
  <2> QED
    BY <2>2, <2>3 DEF RowsOfLiveEvents, Live
<1> QED
  BY <1>1, EventsKept

\* With cancellation on a ban, no step leaves a banned user a seat.
LEMMA NextBannedHoldNothing ==
  TypeOK /\ BannedHoldNothing /\ [Next]_vars => BannedHoldNothing'
<1> SUFFICES ASSUME TypeOK, BannedHoldNothing, [Next]_vars PROVE BannedHoldNothing'
  OBVIOUS
<1>1. CASE SomeSignUp
  <2>1. PICK u \in Users, e \in Live, k \in Kinds, wait \in BOOLEAN :
              SignUp(u, e, k, wait)
    BY <1>1 DEF SomeSignUp
  <2>2. \A r \in rows' : r \in rows \/ r.user = u
    BY <2>1, SignUpRows DEF TypeOK
  <2>3. u \notin blackList /\ UNCHANGED blackList
    BY <2>1 DEF SignUp, Admitted, BlackListed
  <2> QED
    BY <2>2, <2>3 DEF BannedHoldNothing
<1> QED
  BY <1>1, OtherSteps DEF DropsRows, BannedHoldNothing

\* No reservation outlives its event, whatever the order of sign-ups, bans,
\* edits and deletions.
THEOREM NoOrphans == Spec => []RowsOfLiveEvents
<1>1. Init => RowsOfLiveEvents
  BY DEF Init, RowsOfLiveEvents
<1> QED
  BY <1>1, TypeCorrect, NextRowsOfLiveEvents, PTL DEF Spec

\* With cancel_future_reservations_on_ban nobody on the black list holds a
\* reservation.
THEOREM BansCancel == Spec => []BannedHoldNothing
<1>1. Init => BannedHoldNothing
  BY DEF Init, BannedHoldNothing
<1> QED
  BY <1>1, TypeCorrect, NextBannedHoldNothing, PTL DEF Spec

-----------------------------------------------------------------------------
(* Steps *)

\* The rows a user gains, in any way, are gained in a sign-up of that user.
LEMMA GainsAreSignUps ==
  ASSUME TypeOK, [Next]_vars, NEW r \in rows', r \notin rows
  PROVE  /\ r.event \in Live
         /\ \E k \in Kinds, wait \in BOOLEAN :
              r.user \in Users /\ SignUp(r.user, r.event, k, wait)
<1>1. SomeSignUp
  BY OtherSteps DEF DropsRows
<1>2. PICK u \in Users, e \in Live, k \in Kinds, wait \in BOOLEAN :
            SignUp(u, e, k, wait)
  BY <1>1 DEF SomeSignUp
<1>3. r.event = e /\ r.user = u
  BY <1>2, SignUpRows DEF TypeOK
<1> QED
  BY <1>2, <1>3

\* A ban keeps a user from every new and every promoted seat.
THEOREM BansHold == Spec => BannedGainNothing
<1> DEFINE Step == \A u \in blackList, e \in EventIds, k \in Kinds :
                      BookedBy(rows', u, e, k) \subseteq BookedBy(rows, u, e, k)
<1>1. TypeOK /\ [Next]_vars => Step
  <2> SUFFICES ASSUME TypeOK, [Next]_vars, NEW u \in blackList,
                      NEW e \in EventIds, NEW k \in Kinds,
                      NEW r \in BookedBy(rows', u, e, k)
               PROVE  r \in BookedBy(rows, u, e, k)
    OBVIOUS
  <2>1. r \in rows' /\ r.user = u
    BY DEF BookedBy, Held
  <2>2. r \in rows
    BY <2>1, GainsAreSignUps DEF SignUp, Admitted, BlackListed
  <2> QED
    BY <2>2 DEF BookedBy, Held
<1> HIDE DEF Step
<1>2. Spec => [][Step]_vars
  BY <1>1, TypeCorrect, PTL DEF Spec
<1> QED
  BY <1>2 DEF BannedGainNothing, Step

\* Only administrators get seats at an event that is closed or has begun.
THEOREM StoppedMeansStopped == Spec => NoSeatWhenStopped
<1> DEFINE Step == \A u \in Users \ Admins, e \in EventIds :
        (\E k \in Kinds : ~(Held(rows', u, e, k) \subseteq Held(rows, u, e, k)))
        => events[e].open /\ now <= events[e].ts
<1>1. TypeOK /\ [Next]_vars => Step
  <2> SUFFICES ASSUME TypeOK, [Next]_vars, NEW u \in Users \ Admins,
                      NEW e \in EventIds, NEW k \in Kinds,
                      NEW r \in Held(rows', u, e, k), r \notin Held(rows, u, e, k)
               PROVE  events[e].open /\ now <= events[e].ts
    OBVIOUS
  <2>1. r \in rows' /\ r \notin rows /\ r.user = u /\ r.event = e
    BY DEF Held
  <2> QED
    BY <2>1, GainsAreSignUps DEF SignUp, Admitted, SignUpOpen
<1> HIDE DEF Step
<1>2. Spec => [][Step]_vars
  BY <1>1, TypeCorrect, PTL DEF Spec
<1> QED
  BY <1>2 DEF NoSeatWhenStopped, Step

\* Two reservations of a user collide in time only after an event was moved.
THEOREM ClashesAreEdits == Spec => ClashOnlyByEdit
<1> DEFINE Step == \A u \in Users, e, f \in EventIds :
        Clash(events', rows', u, e, f) =>
            \/ Clash(events, rows, u, e, f)
            \/ events'[e].ts # events[e].ts
            \/ events'[f].ts # events[f].ts
<1>1. TypeOK /\ RowsOfLiveEvents /\ [Next]_vars => Step
  <2> SUFFICES ASSUME TypeOK, RowsOfLiveEvents, [Next]_vars, NEW u \in Users,
                      NEW e \in EventIds, NEW f \in EventIds,
                      Clash(events', rows', u, e, f),
                      events'[e].ts = events[e].ts, events'[f].ts = events[f].ts
               PROVE  Clash(events, rows, u, e, f)
    OBVIOUS
  <2>1. PICK r \in rows', s \in rows' :
              r.user = u /\ s.user = u /\ r.event = e /\ s.event = f
    BY DEF Clash
  <2>2. e # f /\ events[e].ts = events[f].ts
    BY DEF Clash
  <2>3. e \in Live /\ f \in Live
    BY <2>1, GainsAreSignUps DEF RowsOfLiveEvents
  <2>4. CASE r \in rows /\ s \in rows
    BY <2>1, <2>2, <2>3, <2>4 DEF Clash, Live
  <2>5. ASSUME NEW x \in rows', NEW y \in rows', x \notin rows, x.event # y.event,
               x.user = y.user, events[x.event].ts = events[y.event].ts,
               x.event \in Live, y.event \in Live
        PROVE  FALSE
    <3>1. PICK k \in Kinds, wait \in BOOLEAN :
                x.user \in Users /\ SignUp(x.user, x.event, k, wait)
      BY <2>5, GainsAreSignUps
    <3>2. y \in rows
      BY <2>5, <3>1, SignUpRows DEF TypeOK
    <3> QED
      BY <2>5, <3>1, <3>2 DEF SignUp, Admitted, TimeTaken
  <2> QED
    BY <2>1, <2>2, <2>3, <2>4, <2>5
<1> HIDE DEF Step
<1>2. Spec => [][Step]_vars
  BY <1>1, TypeCorrect, NoOrphans, PTL DEF Spec
<1> QED
  BY <1>2 DEF ClashOnlyByEdit, Step

-----------------------------------------------------------------------------
(* Counting seats *)

\* What a user holds and what is booked can be counted.
LEMMA FiniteParts ==
  ASSUME NEW rs, IsFiniteSet(rs), NEW u, NEW e, NEW k
  PROVE  /\ IsFiniteSet(Held(rs, u, e, k)) /\ Cardinality(Held(rs, u, e, k)) \in Nat
         /\ IsFiniteSet(Booked(rs, e, k)) /\ Cardinality(Booked(rs, e, k)) \in Nat
<1>1. Held(rs, u, e, k) \subseteq rs /\ Booked(rs, e, k) \subseteq rs
  BY DEF Held, Booked
<1> QED
  BY <1>1, FS_Subset, FS_CardinalityType

\* Taking one element out and putting one in does not make a set larger.
LEMMA Exchange ==
  ASSUME NEW S, IsFiniteSet(S), NEW x \in S, NEW y
  PROVE  Cardinality((S \ {x}) \cup {y}) <= Cardinality(S)
<1>1. IsFiniteSet(S \ {x}) /\ Cardinality(S \ {x}) = Cardinality(S) - 1
  BY FS_RemoveElement
<1>2. Cardinality((S \ {x}) \cup {y}) \in {Cardinality(S) - 1, Cardinality(S)}
  <2>1. Cardinality(S \ {x}) \in Nat /\ Cardinality(S) \in Nat
    BY <1>1, FS_CardinalityType
  <2>2. \/ Cardinality((S \ {x}) \cup {y}) = Cardinality(S \ {x})
        \/ Cardinality((S \ {x}) \cup {y}) = Cardinality(S \ {x}) + 1
    BY <1>1, FS_AddElement
  <2> QED
    BY <1>1, <2>1, <2>2
<1> QED
  BY <1>2, FS_CardinalityType

\* The new row of an insert is not among the rows it is added to, and it is
\* counted for its own event, user and kind only.
LEMMA InsertHeld ==
  ASSUME NEW u, NEW e, NEW k, NEW wait, Insert(u, e, k, wait),
         IsFiniteSet(rows), NEW v, NEW f, NEW j
  PROVE  \/ Held(rows', v, f, j) = Held(rows, v, f, j)
         \/ /\ v = u /\ f = e /\ j = k
            /\ Cardinality(Held(rows', v, f, j)) = Cardinality(Held(rows, v, f, j)) + 1
<1> DEFINE new == [id |-> CHOOSE id \in FreeIds(u, e, k) : TRUE,
                   event |-> e, user |-> u, kind |-> k, waiting |-> wait]
<1>1. rows' = rows \cup {new}
  BY DEF Insert
<1>2. new.id \in FreeIds(u, e, k)
  BY DEF Insert
<1>3. new \notin Held(rows, u, e, k)
  BY <1>2 DEF FreeIds
<1>4. /\ new.event = e /\ new.user = u /\ new.kind = k
  OBVIOUS
<1> HIDE DEF new
<1>5. CASE v = u /\ f = e /\ j = k
  <2>1. Held(rows', v, f, j) = Held(rows, v, f, j) \cup {new}
    BY <1>1, <1>4, <1>5 DEF Held
  <2> QED
    BY <1>3, <1>5, <2>1, FiniteParts, FS_AddElement
<1>6. CASE ~(v = u /\ f = e /\ j = k)
  BY <1>1, <1>4, <1>6 DEF Held
<1> QED
  BY <1>5, <1>6

\* A promotion gives nobody more rows.
LEMMA MoveHeld ==
  ASSUME NEW u, NEW e, NEW k, MoveFromWaitingList(u, e, k),
         rows \subseteq Row, IsFiniteSet(rows), NEW v, NEW f, NEW j
  PROVE  Cardinality(Held(rows', v, f, j)) <= Cardinality(Held(rows, v, f, j))
<1>1. CASE WaitingBy(rows, u, e, k) = {}
  BY <1>1, FiniteParts DEF MoveFromWaitingList
<1>2. CASE WaitingBy(rows, u, e, k) # {}
  <2>1. PICK r \in WaitingBy(rows, u, e, k) :
              rows' = (rows \ {r}) \cup {[r EXCEPT !.waiting = FALSE]}
    BY <1>2 DEF MoveFromWaitingList
  <2> DEFINE new == [r EXCEPT !.waiting = FALSE]
  <2>2. r \in rows /\ r.user = u /\ r.event = e /\ r.kind = k
    BY DEF WaitingBy, Held
  <2>3. new.user = u /\ new.event = e /\ new.kind = k
    BY <2>2 DEF Row
  <2> HIDE DEF new
  <2>4. rows' = (rows \ {r}) \cup {new}
    BY <2>1 DEF new
  <2>5. CASE v = u /\ f = e /\ j = k
    <3>1. Held(rows', v, f, j) = (Held(rows, v, f, j) \ {r}) \cup {new}
      BY <2>2, <2>3, <2>4, <2>5 DEF Held
    <3>2. r \in Held(rows, v, f, j)
      BY <2>2, <2>5 DEF Held
    <3> QED
      BY <3>1, <3>2, FiniteParts, Exchange
  <2>6. CASE ~(v = u /\ f = e /\ j = k)
    <3>1. Held(rows', v, f, j) = Held(rows, v, f, j)
      BY <2>2, <2>3, <2>4, <2>6 DEF Held
    <3> QED
      BY <3>1, FiniteParts
  <2> QED
    BY <2>5, <2>6
<1> QED
  BY <1>1, <1>2

\* Whoever gets one more seat of a kind, waiting seats included, is within the
\* limit per user.
THEOREM LimitsHold == Spec => HoldingsWithinLimit
<1> DEFINE Step == \A u \in Users, e \in EventIds, k \in Kinds :
        Cardinality(Held(rows', u, e, k)) > Cardinality(Held(rows, u, e, k))
        => Cardinality(Held(rows', u, e, k)) <= events'[e].perUser[k]
<1>1. TypeOK /\ [Next]_vars => Step
  <2> SUFFICES ASSUME TypeOK, [Next]_vars, NEW u \in Users, NEW e \in EventIds,
                      NEW k \in Kinds,
                      Cardinality(Held(rows', u, e, k)) > Cardinality(Held(rows, u, e, k))
               PROVE  Cardinality(Held(rows', u, e, k)) <= events'[e].perUser[k]
    OBVIOUS
  <2>1. IsFiniteSet(rows) /\ rows \subseteq Row
    BY DEF TypeOK
  <2>2. CASE ~SomeSignUp
    <3>1. Held(rows', u, e, k) \subseteq Held(rows, u, e, k)
      BY <2>2, OtherSteps DEF DropsRows, Held
    <3>2. Cardinality(Held(rows', u, e, k)) <= Cardinality(Held(rows, u, e, k))
      BY <2>1, <3>1, FiniteParts, FS_Subset
    <3>3. Cardinality(Held(rows', u, e, k)) \in Nat
      BY <2>1, <3>1, FiniteParts, FS_Subset, FS_CardinalityType
    <3> QED
      BY <2>1, <3>2, <3>3, FiniteParts
  <2>3. CASE SomeSignUp
    <3>1. PICK v \in Users, f \in Live, j \in Kinds, wait \in BOOLEAN :
                SignUp(v, f, j, wait)
      BY <2>3 DEF SomeSignUp
    <3>2. ASSUME NEW i \in Kinds, MoveFromWaitingList(v, f, i)
          PROVE  FALSE
      <4>1. Cardinality(Held(rows', u, e, k)) <= Cardinality(Held(rows, u, e, k))
        BY <2>1, <3>2, MoveHeld
      <4>2. IsFiniteSet(rows')
        BY <3>1, SignUpTypeOK DEF TypeOK
      <4> QED
        BY <2>1, <4>1, <4>2, FiniteParts
    <3>3. Insert(v, f, j, wait) /\ \A i \in Kinds : ~OverLimit(v, f, j, i)
      BY <3>1, <3>2 DEF SignUp
    <3>4. \/ Held(rows', u, e, k) = Held(rows, u, e, k)
          \/ /\ u = v /\ e = f /\ k = j
             /\ Cardinality(Held(rows', u, e, k)) = Cardinality(Held(rows, u, e, k)) + 1
      BY <2>1, <3>3, InsertHeld
    <3>5. /\ u = v /\ e = f /\ k = j
          /\ Cardinality(Held(rows', u, e, k)) = Cardinality(Held(rows, u, e, k)) + 1
      BY <2>1, <3>4, FiniteParts
    <3>6. ~(Cardinality(Held(rows, u, e, k)) + 1 > events[e].perUser[k])
      BY <3>3, <3>5 DEF OverLimit, Asked
    <3>7. events[e] \in EventRow /\ events[e].perUser[k] \in Int
      BY <3>1, <3>5, ClockAssumption DEF TypeOK, Live, EventRow, Unsigned
    <3>8. UNCHANGED events
      BY <3>1 DEF SignUp
    <3>9. Cardinality(Held(rows, u, e, k)) \in Nat
      BY <2>1, FiniteParts
    <3> QED
      BY <3>5, <3>6, <3>7, <3>8, <3>9
  <2> QED
    BY <2>2, <2>3
<1> HIDE DEF Step
<1>2. Spec => [][Step]_vars
  BY <1>1, TypeCorrect, PTL DEF Spec
<1> QED
  BY <1>2 DEF HoldingsWithinLimit, Step

\* Places beyond the capacity go to the waiting list only.
THEOREM NewcomersFit == Spec => NoNewcomerBeyondCapacity
<1> DEFINE Step == \A e \in EventIds, k \in Kinds :
        \A r \in Booked(rows', e, k) \ rows :
            \/ Cardinality(Booked(rows', e, k)) <= events'[e].max[k]
            \/ [r EXCEPT !.waiting = TRUE] \in rows
<1>1. TypeOK /\ [Next]_vars => Step
  <2> SUFFICES ASSUME TypeOK, [Next]_vars, NEW e \in EventIds, NEW k \in Kinds,
                      NEW r \in Booked(rows', e, k) \ rows,
                      [r EXCEPT !.waiting = TRUE] \notin rows
               PROVE  Cardinality(Booked(rows', e, k)) <= events'[e].max[k]
    OBVIOUS
  <2>1. r \in rows' /\ r \notin rows /\ r.event = e /\ r.kind = k /\ ~r.waiting
    BY DEF Booked
  <2>2. PICK j \in Kinds, wait \in BOOLEAN : SignUp(r.user, e, j, wait)
    BY <2>1, GainsAreSignUps
  <2>3. ASSUME NEW i \in Kinds, MoveFromWaitingList(r.user, e, i)
        PROVE  FALSE
    <3>1. PICK q \in WaitingBy(rows, r.user, e, i) :
                rows' = (rows \ {q}) \cup {[q EXCEPT !.waiting = FALSE]}
      BY <2>1, <2>3 DEF MoveFromWaitingList
    <3>2. r = [q EXCEPT !.waiting = FALSE]
      BY <2>1, <3>1
    <3>3. q \in Row /\ q.waiting = TRUE /\ q \in rows
      BY DEF WaitingBy, Held, TypeOK, Row
    <3>4. [r EXCEPT !.waiting = TRUE] = q
      BY <3>2, <3>3 DEF Row
    <3> QED
      BY <3>3, <3>4
  <2>4. Insert(r.user, e, j, wait)
    BY <2>2, <2>3 DEF SignUp
  <2> DEFINE new == [id |-> CHOOSE id \in FreeIds(r.user, e, j) : TRUE,
                     event |-> e, user |-> r.user, kind |-> j, waiting |-> wait]
  <2>5. rows' = rows \cup {new}
    BY <2>4 DEF Insert
  <2>6. r = new
    BY <2>1, <2>5
  <2>7. j = k /\ ~wait
    BY <2>1, <2>6
  <2> HIDE DEF new
  <2>8. Booked(rows', e, k) = Booked(rows, e, k) \cup {r} /\ r \notin Booked(rows, e, k)
    BY <2>1, <2>5, <2>6 DEF Booked
  <2>9. Cardinality(Booked(rows', e, k)) = Cardinality(Booked(rows, e, k)) + 1
    BY <2>8, FiniteParts, FS_AddElement DEF TypeOK
  <2>10. 1 <= events[e].max[k] - Cardinality(Booked(rows, e, k))
    BY <2>2, <2>7 DEF SignUp, Admitted, Room, Asked
  <2>11. e \in Live /\ events[e].max[k] \in Int /\ UNCHANGED events
    <3>1. e \in Live /\ UNCHANGED events
      BY <2>2 DEF SignUp, Admitted, BlackListed
    <3>2. events[e].max[k] \in Unsigned
      BY <3>1 DEF TypeOK, Live, EventRow
    <3> QED
      BY <3>1, <3>2, ClockAssumption DEF Unsigned
  <2>12. Cardinality(Booked(rows, e, k)) \in Nat
    BY FiniteParts DEF TypeOK
  <2> QED
    BY <2>9, <2>10, <2>11, <2>12
<1> HIDE DEF Step
<1>2. Spec => [][Step]_vars
  BY <1>1, TypeCorrect, PTL DEF Spec
<1> QED
  BY <1>2 DEF NoNewcomerBeyondCapacity, Step

-----------------------------------------------------------------------------
(* Deletions *)

\* An event goes only by one of the two deletions that run through.
LEMMA OnlyDeletionsRemoveEvents ==
  ASSUME TypeOK, [Next]_vars, NEW e \in Live, e \notin DOMAIN events'
  PROVE  DeleteEvent(e) \/ DeleteLink(e)
<1> USE DEF Live
<1>1. ASSUME NEW f \in Live, EditEvent(f) \/ SetEventLimits(f) \/ ChangeEventState(f)
      PROVE  FALSE
  BY <1>1 DEF EditEvent, SetEventLimits, ChangeEventState
<1>2. ~CreateEvent
  BY DEF CreateEvent
<1>3. ASSUME NEW f \in Live, DeleteEvent(f) \/ DeleteLink(f)
      PROVE  f = e
  BY <1>3 DEF DeleteEvent, DeleteLink, Purge
<1> QED
  BY <1>1, <1>2, <1>3
  DEF Next, vars, Tick, DeleteEventFails, MailerDone, Ban, Unban, SignUp,
      Cancel, DeleteReservation, SetGroupLeader, ConfirmPresence

\* The deletion of an event bans only holders of a booked seat who were not
\* ticked off while somebody else was.
THEOREM DeletionBansNoShows == Spec => OnlyNoShowsBanned
<1> DEFINE Step == \A e \in Live \ DOMAIN events' : \A u \in blackList' \ blackList :
        /\ u \notin Admins
        /\ \E k \in Kinds : BookedBy(rows, u, e, k) # {}
        /\ <<e, u>> \notin presence
        /\ \E k \in Kinds : \E r \in Booked(rows, e, k) : <<e, r.user>> \in presence
<1>1. TypeOK /\ [Next]_vars => Step
  <2> SUFFICES ASSUME TypeOK, [Next]_vars, NEW e \in Live \ DOMAIN events',
                      NEW u \in blackList' \ blackList
               PROVE  /\ u \notin Admins
                      /\ \E k \in Kinds : BookedBy(rows, u, e, k) # {}
                      /\ <<e, u>> \notin presence
                      /\ \E k \in Kinds : \E r \in Booked(rows, e, k) :
                            <<e, r.user>> \in presence
    OBVIOUS
  <2>1. u \in NoShows(e)
    BY OnlyDeletionsRemoveEvents DEF DeleteEvent, DeleteLink
  <2>2. /\ u \in Holders(e) /\ u \notin Present(e) /\ u \notin Admins
        /\ Holders(e) \cap Present(e) # {}
    BY <2>1 DEF NoShows
  <2>3. ASSUME NEW v \in Holders(e)
        PROVE  \E k \in Kinds : \E r \in BookedBy(rows, v, e, k) :
                 r \in Booked(rows, e, k) /\ r.user = v
    <3>1. PICK r \in rows : r.event = e /\ r.user = v /\ ~r.waiting
      BY DEF Holders, HasSeat
    <3>2. r.kind \in Kinds
      BY DEF TypeOK, Row
    <3> QED
      BY <3>1, <3>2 DEF BookedBy, Booked, Held
  <2>4. <<e, u>> \notin presence
    BY <2>2 DEF Present, Holders
  <2>5. PICK v \in Holders(e) : <<e, v>> \in presence
    BY <2>2 DEF Present
  <2> QED
    BY <2>2, <2>3, <2>4, <2>5
<1> HIDE DEF Step
<1>2. Spec => [][Step]_vars
  BY <1>1, TypeCorrect, PTL DEF Spec
<1> QED
  BY <1>2 DEF OnlyNoShowsBanned, Step
=============================================================================
