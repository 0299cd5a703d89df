------------------------------ MODULE Booking ------------------------------
(***************************************************************************)
(* Free events: the tables events, reservations, black_list, presence and  *)
(* group_leaders, and every handler of a user, an administrator or the     *)
(* housekeeping task that changes them.  Each action is one handler run to *)
(* its end, as when a single connection is in use; SignUpRace splits the   *)
(* handlers that matter into their SQL statements.                         *)
(*                                                                         *)
(* A button press books one seat at a time and events are free of charge,  *)
(* so every row of reservations is one seat of one kind: sums over the     *)
(* adults and children columns are cardinalities.                          *)
(***************************************************************************)
EXTENDS Integers, FiniteSets

CONSTANTS
    Users,          \* Telegram users, administrators included
    Admins,         \* Config::admins
    MaxEvents,      \* bound: how many events are ever created
    RowIds,         \* keys that tell otherwise equal reservations apart
    Offers,         \* the event descriptions administrators enter
    FirstTs,        \* clock at start-up
    LastTs,         \* bound: last clock value
    TooLate,        \* too_late_to_cancel_hours, in clock units
    AutoBlacklist,  \* Config::automatic_blacklisting
    CancelOnBan,    \* Config::cancel_future_reservations_on_ban
    U64             \* number of values of an unsigned integer (2^64)

ASSUME SetsAssumption == Admins \subseteq Users /\ MaxEvents \in Nat
ASSUME ClockAssumption == /\ FirstTs \in Nat /\ LastTs \in Nat
                          /\ TooLate \in Nat /\ U64 \in Nat \ {0}
ASSUME ConfigAssumption == AutoBlacklist \in BOOLEAN /\ CancelOnBan \in BOOLEAN

VARIABLES
    now,        \* get_unix_time()
    lastId,     \* AUTOINCREMENT counter of events
    events,     \* live rows of events, by id
    rows,       \* reservations
    blackList,  \* users in black_list
    presence,   \* rows of presence: <<event, user>>
    leaders,    \* rows of group_leaders: <<event, user>>
    prompts     \* events with a waiting-list prompt in message_outbox

vars == <<now, lastId, events, rows, blackList, presence, leaders, prompts>>

Kinds == {"adult", "child"}
EventIds == 1..MaxEvents
Unsigned == 0..(U64 - 1)
EventRow == [max : [Kinds -> Unsigned], perUser : [Kinds -> Unsigned],
             ts : Unsigned, open : BOOLEAN]
Row == [id : RowIds, event : EventIds, user : Users, kind : Kinds,
        waiting : BOOLEAN]

\* What is entered becomes a row whose state defaults to open.
ASSUME OffersAssumption == Offers \subseteq {row \in EventRow : row.open}

TypeOK ==
    /\ now \in Nat
    /\ lastId \in 0..MaxEvents
    /\ DOMAIN events \subseteq 1..lastId
    /\ events \in [DOMAIN events -> EventRow]
    /\ rows \subseteq Row
    /\ IsFiniteSet(rows)
    /\ blackList \subseteq Users
    /\ presence \subseteq EventIds \X Users
    /\ leaders \subseteq EventIds \X Users
    /\ prompts \subseteq EventIds

Init ==
    /\ now = FirstTs
    /\ lastId = 0
    /\ events = [e \in {} |-> {}]
    /\ rows = {}
    /\ blackList = {}
    /\ presence = {}
    /\ leaders = {}
    /\ prompts = {}

-----------------------------------------------------------------------------
(* Queries *)

Live == DOMAIN events

\* Seats of e of kind k in the rows rs, and those of one user.
Booked(rs, e, k) == {r \in rs : r.event = e /\ r.kind = k /\ ~r.waiting}
Held(rs, u, e, k) == {r \in rs : r.event = e /\ r.kind = k /\ r.user = u}
BookedBy(rs, u, e, k) == {r \in Held(rs, u, e, k) : ~r.waiting}
WaitingBy(rs, u, e, k) == {r \in Held(rs, u, e, k) : r.waiting}
HasSeat(rs, u, e) == \E r \in rs : r.event = e /\ r.user = u /\ ~r.waiting

\* Event::get_type; prices are zero here.
IsFree(e) == \E k \in Kinds : events[e].max[k] # 0

\* get_vacancies subtracts and have_vacancies adds unsigned integers, which
\* wrap in the release build.
Vacancies(evs, rs, e, k) ==
    (evs[e].max[k] - Cardinality(Booked(rs, e, k))) % U64
HaveVacancies(evs, rs, e) ==
    (Vacancies(evs, rs, e, "adult") + Vacancies(evs, rs, e, "child")) % U64 > 0

\* Faulty variant: the hour itself is still in time.
LateAfterTheHour(e) == (events[e].ts - now) % U64 < TooLate - 1

\* is_too_late_to_cancel: also an unsigned subtraction.
TooLateToCancel(e) == (events[e].ts - now) % U64 < TooLate

\* The handlers that free seats look before and prompt_waiting_list looks
\* again after: the prompt is queued when the event stops being full.
PromptsAfter(evs, rs, e) ==
    IF ~HaveVacancies(events, rows, e) /\ HaveVacancies(evs, rs, e)
    THEN prompts \cup {e}
    ELSE prompts

-----------------------------------------------------------------------------
(* sign_up, for one seat of kind k *)

\* Faulty variant: an administrator's privilege replaced by a wrong operator.
SignUpOpenOr(u, e) == now <= events[e].ts \/ events[e].open \/ u \in Admins

\* Time and state of the event; administrators may sign up to a closed one.
SignUpOpen(u, e) == now <= events[e].ts /\ (events[e].open \/ u \in Admins)

\* Seats of kind j that a request for a seat of kind k adds.
Asked(k, j) == IF j = k THEN 1 ELSE 0

\* Faulty variant: the last seat is given twice.
RoomOffByOne(e, k, wait) ==
    wait \/ \A j \in Kinds :
               Asked(k, j) <= events[e].max[j] - Cardinality(Booked(rows, e, j)) + 1

\* The seat check; a request for the waiting list skips it.
Room(e, k, wait) ==
    wait \/ \A j \in Kinds :
               Asked(k, j) <= events[e].max[j] - Cardinality(Booked(rows, e, j))

\* Faulty variant: a failed query counts as "not banned".
NeverBlackListed(u) == FALSE

\* is_in_black_list
BlackListed(u) == u \in blackList

\* Faulty variant: waiting rows are not looked at.
BookedTimeTaken(u, e) ==
    \E r \in rows : /\ r.user = u /\ r.event # e /\ ~r.waiting
                   /\ r.event \in Live /\ events[r.event].ts = events[e].ts

\* A row of the user, waiting or not, at another event that starts then.
TimeTaken(u, e) ==
    \E r \in rows : /\ r.user = u /\ r.event # e
                   /\ r.event \in Live /\ events[r.event].ts = events[e].ts

Admitted(u, e, k, wait) ==
    /\ e \in Live
    /\ SignUpOpen(u, e)
    /\ Room(e, k, wait)
    /\ IsFree(e)
    /\ ~BlackListed(u)
    /\ ~TimeTaken(u, e)

\* Faulty variant: waiting seats are not counted.
BookedOverLimit(u, e, k, j) ==
    Cardinality(BookedBy(rows, u, e, j)) + Asked(k, j) > events[e].perUser[j]

\* The user limit of kind j counts waiting seats too.
OverLimit(u, e, k, j) ==
    Cardinality(Held(rows, u, e, j)) + Asked(k, j) > events[e].perUser[j]

\* The kinds are checked in this order, the second if the first passes.
FirstOver(u, e, k, j) ==
    OverLimit(u, e, k, j) /\ (j = "child" => ~OverLimit(u, e, k, "adult"))

\* The keys not in use by rows of the same event, user and kind.
FreeIds(u, e, k) == RowIds \ {r.id : r \in Held(rows, u, e, k)}

\* A new row; the choice of its key is never observed.
Insert(u, e, k, wait) ==
    /\ FreeIds(u, e, k) # {}
    /\ rows' = rows \cup {[id |-> CHOOSE id \in FreeIds(u, e, k) : TRUE,
                           event |-> e, user |-> u, kind |-> k, waiting |-> wait]}

\* Faulty variant: the update lacks its LIMIT.
MoveAllFromWaitingList(u, e, j) ==
    rows' = (rows \ WaitingBy(rows, u, e, j))
              \cup {[r EXCEPT !.waiting = FALSE] : r \in WaitingBy(rows, u, e, j)}

\* move_from_waiting_list: one waiting row, if any, becomes a booked one.
MoveFromWaitingList(u, e, j) ==
    IF WaitingBy(rows, u, e, j) = {}
    THEN UNCHANGED rows
    ELSE \E r \in WaitingBy(rows, u, e, j) :
            rows' = (rows \ {r}) \cup {[r EXCEPT !.waiting = FALSE]}

SignUp(u, e, k, wait) ==
    /\ Admitted(u, e, k, wait)
    /\ \/ /\ \A j \in Kinds : ~OverLimit(u, e, k, j)
          /\ Insert(u, e, k, wait)
       \/ \E j \in Kinds :
            /\ FirstOver(u, e, k, j)
            /\ Cardinality(BookedBy(rows, u, e, j)) + Asked(k, j)
                 <= events[e].perUser[j]
            /\ MoveFromWaitingList(u, e, j)
    /\ UNCHANGED <<now, lastId, events, blackList, presence, leaders, prompts>>

-----------------------------------------------------------------------------
(* Giving seats back *)

\* Faulty variant: places on waiting lists survive the ban.
WithoutBooked(rs, banned) ==
    {r \in rs : ~(CancelOnBan /\ ~r.waiting /\ r.user \in banned)}

\* ban_user: the insert, and with cancel_future_reservations the delete.
Without(rs, banned) ==
    {r \in rs : ~(CancelOnBan /\ r.user \in banned)}

\* Faulty variant: the order of the DELETE is lost.
AnyGivenBack(u, e, k) ==
    LET seats == Held(rows, u, e, k)
    IN  IF seats = {} THEN {{}} ELSE {{r} : r \in seats}

\* DELETE ... ORDER BY waiting_list DESC LIMIT 1: the seat given back.
GivenBack(u, e, k) ==
    LET waiting == WaitingBy(rows, u, e, k)
        seats == IF waiting # {} THEN waiting ELSE BookedBy(rows, u, e, k)
    IN  IF seats = {} THEN {{}} ELSE {{r} : r \in seats}

\* The Cancel button.  A user who keeps no seat and is too late is banned,
\* whatever the row was; the ban of a banned user fails and stops there.
Cancel(u, e, k) ==
    /\ e \in Live
    /\ \E gone \in GivenBack(u, e, k) :
        LET left == rows \ gone
            banned == IF TooLateToCancel(e) /\ ~HasSeat(left, u, e)
                      THEN {u} \ blackList ELSE {}
        IN  /\ rows' = Without(left, banned)
            /\ blackList' = blackList \cup banned
            /\ prompts' = PromptsAfter(events, left, e)
    /\ UNCHANGED <<now, lastId, events, presence, leaders>>

\* The WontGo callback and /delete_reservation: every row of the user.
DeleteReservation(u, e) ==
    /\ e \in Live
    /\ rows' = {r \in rows : ~(r.event = e /\ r.user = u)}
    /\ prompts' = PromptsAfter(events, rows', e)
    /\ UNCHANGED <<now, lastId, events, blackList, presence, leaders>>

-----------------------------------------------------------------------------
(* Administration.  The HTTP API creates and edits events too; the commands *)
(* of the chat need an administrator.                                      *)

\* Faulty variant: the counter is read before it is advanced.
StaleId == lastId

\* AUTOINCREMENT: ids are never used again.
NextId == lastId + 1

\* The INSERT of mutate_event.
CreateEvent ==
    /\ lastId < MaxEvents
    /\ lastId' = NextId
    /\ \E row \in Offers :
        events' = [e \in Live \cup {NextId} |-> IF e = NextId THEN row ELSE events[e]]
    /\ UNCHANGED <<now, rows, blackList, presence, leaders, prompts>>

\* The UPDATE of mutate_event; it does not look at the waiting list.
EditEvent(e) ==
    /\ e \in Live
    /\ \E row \in Offers :
        events' = [events EXCEPT ![e] = [row EXCEPT !.open = events[e].open]]
    /\ UNCHANGED <<now, lastId, rows, blackList, presence, leaders, prompts>>

SetEventLimits(e) ==
    /\ Admins # {}
    /\ e \in Live
    /\ \E row \in Offers : events' = [events EXCEPT ![e].max = row.max]
    /\ prompts' = PromptsAfter(events', rows, e)
    /\ UNCHANGED <<now, lastId, rows, blackList, presence, leaders>>

ChangeEventState(e) ==
    /\ Admins # {}
    /\ e \in Live
    /\ events' = [events EXCEPT ![e].open = ~@]
    /\ UNCHANGED <<now, lastId, rows, blackList, presence, leaders, prompts>>

SetGroupLeader(e, u) ==
    /\ Admins # {}
    /\ leaders' = leaders \cup {<<e, u>>}
    /\ UNCHANGED <<now, lastId, events, rows, blackList, presence, prompts>>

\* An administrator or a leader of e ticks a user off; the unique index
\* refuses a second row.
ConfirmPresence(actor, e, u) ==
    /\ actor \in Admins \/ <<e, actor>> \in leaders
    /\ <<e, u>> \notin presence
    /\ presence' = presence \cup {<<e, u>>}
    /\ UNCHANGED <<now, lastId, events, rows, blackList, leaders, prompts>>

\* /ban; no waiting list is prompted for the seats it frees.
Ban(u) ==
    /\ Admins # {}
    /\ u \notin blackList
    /\ blackList' = blackList \cup {u}
    /\ rows' = Without(rows, {u})
    /\ UNCHANGED <<now, lastId, events, presence, leaders, prompts>>

\* /remove_from_black_list, its button, and the ageing of clear_black_list.
Unban(u) ==
    /\ blackList' = blackList \ {u}
    /\ UNCHANGED <<now, lastId, events, rows, presence, leaders, prompts>>

-----------------------------------------------------------------------------
(* delete_event *)

\* Who holds a booked seat, and who was ticked off.
Holders(e) == {u \in Users : HasSeat(rows, u, e)}
Present(e) == {u \in Users : <<e, u>> \in presence}

\* Faulty variant: nobody checks that presence was taken at all.
AllAbsent(e) ==
    IF AutoBlacklist THEN (Holders(e) \ Present(e)) \ Admins ELSE {}

\* blacklist_absent_participants: holders of a booked seat who were not
\* ticked off, provided somebody was.
NoShows(e) ==
    IF AutoBlacklist /\ Holders(e) \cap Present(e) # {}
    THEN (Holders(e) \ Present(e)) \ Admins
    ELSE {}

\* Faulty variant: the waiting list of the event is left behind.
RowsAfterPurgeBooked(e, rs) == {r \in rs : r.event # e \/ r.waiting}

RowsAfterPurge(e, rs) == {r \in rs : r.event # e}

\* The row of e and what hangs on it, after the bans left the rows rs.
Purge(e, rs) ==
    /\ rows' = RowsAfterPurge(e, rs)
    /\ events' = [x \in Live \ {e} |-> events[x]]
    /\ presence' = {p \in presence : p[1] # e}
    /\ leaders' = {p \in leaders : p[1] # e}
    /\ prompts' = prompts \ {e}

\* By /delete_event, or by clear_old_events once the event is over.
Deletable(e) == e \in Live /\ (Admins # {} \/ events[e].ts < now)

DeleteEvent(e) ==
    /\ Deletable(e)
    /\ NoShows(e) \cap blackList = {}
    /\ blackList' = blackList \cup NoShows(e)
    /\ Purge(e, Without(rows, NoShows(e)))
    /\ UNCHANGED <<now, lastId>>

\* ban_user fails on a user who is banned already: the no-shows before that
\* one stay banned and the event stays.
DeleteEventFails(e) ==
    /\ Deletable(e)
    /\ NoShows(e) \cap blackList # {}
    /\ \E banned \in SUBSET (NoShows(e) \ blackList) :
        /\ blackList' = blackList \cup banned
        /\ rows' = Without(rows, banned)
    /\ UNCHANGED <<now, lastId, events, presence, leaders, prompts>>

\* /delete_link never bans.
DeleteLink(e) ==
    /\ Admins # {}
    /\ e \in Live
    /\ Purge(e, rows)
    /\ UNCHANGED <<now, lastId, blackList>>

-----------------------------------------------------------------------------
(* The mailer drops a prompt with nobody left to tell; the clock moves on. *)

MailerDone(e) ==
    /\ e \in prompts
    /\ prompts' = prompts \ {e}
    /\ UNCHANGED <<now, lastId, events, rows, blackList, presence, leaders>>

Tick ==
    /\ now < LastTs
    /\ now' = now + 1
    /\ UNCHANGED <<lastId, events, rows, blackList, presence, leaders, prompts>>

Next ==
    \/ CreateEvent
    \/ Tick
    \/ \E e \in Live :
        \/ EditEvent(e) \/ SetEventLimits(e) \/ ChangeEventState(e)
        \/ DeleteEvent(e) \/ DeleteEventFails(e) \/ DeleteLink(e)
        \/ MailerDone(e)
    \/ \E u \in Users : Ban(u) \/ Unban(u)
    \/ \E u \in Users, e \in Live :
        \/ \E k \in Kinds, wait \in BOOLEAN : SignUp(u, e, k, wait)
        \/ \E k \in Kinds : Cancel(u, e, k)
        \/ DeleteReservation(u, e)
    \/ \E u \in Users, e \in 1..lastId :
        \/ SetGroupLeader(e, u)
        \/ \E actor \in Users : ConfirmPresence(actor, e, u)

Spec == Init /\ [][Next]_vars

-----------------------------------------------------------------------------
(* Properties *)

\* Reservations never outlive their event: delete_event clears them and
\* sign_up needs the event.
RowsOfLiveEvents == \A r \in rows : r.event \in Live

\* With cancel_future_reservations_on_ban a banned user holds nothing, at any
\* event and on any waiting list, whichever of the four paths banned him.
BannedHoldNothing == CancelOnBan => \A r \in rows : r.user \notin blackList

\* A banned user never gains a seat, be it a new one or a promoted one, for
\* as long as the ban lasts.
BannedGainNothing ==
    [][\A u \in blackList, e \in EventIds, k \in Kinds :
        BookedBy(rows', u, e, k) \subseteq BookedBy(rows, u, e, k)]_vars

\* A user who comes to hold more seats of a kind, waiting ones included, is
\* within the limit per user at that moment.
HoldingsWithinLimit ==
    [][\A u \in Users, e \in EventIds, k \in Kinds :
        Cardinality(Held(rows', u, e, k)) > Cardinality(Held(rows, u, e, k))
        => Cardinality(Held(rows', u, e, k)) <= events'[e].perUser[k]]_vars

\* Nobody but an administrator gains a row at, or is promoted into, an event
\* that is closed or has started.
NoSeatWhenStopped ==
    [][\A u \in Users \ Admins, e \in EventIds :
        (\E k \in Kinds : ~(Held(rows', u, e, k) \subseteq Held(rows, u, e, k)))
        => events[e].open /\ now <= events[e].ts]_vars

\* A seat beyond the capacity is only ever given to somebody who was on the
\* waiting list, never to a newcomer.
NoNewcomerBeyondCapacity ==
    [][\A e \in EventIds, k \in Kinds :
        \A r \in Booked(rows', e, k) \ rows :
            \/ Cardinality(Booked(rows', e, k)) <= events'[e].max[k]
            \/ [r EXCEPT !.waiting = TRUE] \in rows]_vars

\* Two events that start at the same time and hold rows of one user.
Clash(evs, rs, u, e, f) ==
    /\ e # f
    /\ e \in DOMAIN evs /\ f \in DOMAIN evs /\ evs[e].ts = evs[f].ts
    /\ \E r, s \in rs : r.user = u /\ s.user = u /\ r.event = e /\ s.event = f

\* Only an edit of a start time makes a user's events clash.
ClashOnlyByEdit ==
    [][\A u \in Users, e, f \in EventIds :
        Clash(events', rows', u, e, f) =>
            \/ Clash(events, rows, u, e, f)
            \/ events'[e].ts # events[e].ts
            \/ events'[f].ts # events[f].ts]_vars

\* Deleting an event bans no administrator, nobody who was ticked off, nobody
\* who merely waited, and nobody at all when no presence was taken.
OnlyNoShowsBanned ==
    [][\A e \in Live \ DOMAIN events' : \A u \in blackList' \ blackList :
        /\ u \notin Admins
        /\ \E k \in Kinds : BookedBy(rows, u, e, k) # {}
        /\ <<e, u>> \notin presence
        /\ \E k \in Kinds : \E r \in Booked(rows, e, k) :
              <<e, r.user>> \in presence]_vars

\* Whoever gives back the last seat within too_late_to_cancel_hours of the
\* start is banned with the same press, and is not let off by a place on the
\* waiting list.  Once the event has started the unsigned difference wraps,
\* and nobody is banned.
LateCancelBansUntilStart ==
    [][\A u \in Users, e \in Live, k \in Kinds :
        /\ Cancel(u, e, k)
        /\ HasSeat(rows, u, e) /\ ~HasSeat(rows', u, e)
        /\ now <= events[e].ts /\ events[e].ts < now + TooLate
        => u \in blackList']_vars

-----------------------------------------------------------------------------
(* What the documentation says, and the code does not keep.                *)

\* "max_adults: the most places that can be booked; beyond it people go to
\* the waiting list": a seat is given only while there is one.
CapacityRespected ==
    [][\A e \in Live, k \in Kinds :
        Cardinality(Booked(rows', e, k)) > Cardinality(Booked(rows, e, k))
        => Cardinality(Booked(rows', e, k)) <= events'[e].max[k]]_vars
=============================================================================
