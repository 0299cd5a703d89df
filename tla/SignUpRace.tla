----------------------------- MODULE SignUpRace -----------------------------
(***************************************************************************)
(* Sign-ups to one event that run at the same time, split into their SQL   *)
(* statements.  A free event is booked by button callbacks, a paid one by  *)
(* pre-checkout queries; both run sign_up, which reads the event with its  *)
(* counters in one SELECT and writes its row in a later statement.  A      *)
(* pre-checkout takes a connection and then sign_up_mutex.  A callback     *)
(* would take the mutex if its data began with "sign_up ", but the data of *)
(* every button is JSON, so it only takes a connection.  The dispatcher    *)
(* runs the callbacks of one chat one after the other.                     *)
(*                                                                         *)
(* Limits and prices do not change meanwhile, the event is open, and no    *)
(* other event starts at the same time: Booking models those.              *)
(***************************************************************************)
EXTENDS Integers, FiniteSets

CONSTANTS
    Requests,     \* sign-ups that reach the bot, each once
    Users,
    UserOf,       \* who sends a request
    SeatsOf,      \* for how many seats
    Waits,        \* the requests for the waiting list
    Paid,         \* a paid event
    Capacity,     \* max_adults
    PerUser,      \* max_adults_per_reservation
    PoolSize,     \* connections in the pool
    CancelOnBan,  \* Config::cancel_future_reservations_on_ban
    Nobody        \* not a request and not a user

ASSUME RequestsAssumption ==
    /\ IsFiniteSet(Requests)
    /\ UserOf \in [Requests -> Users] /\ SeatsOf \in [Requests -> Nat \ {0}]
    /\ Waits \subseteq Requests
    /\ Nobody \notin Requests /\ Nobody \notin Users
ASSUME NumbersAssumption ==
    /\ Capacity \in Nat /\ PerUser \in Nat /\ PoolSize \in Nat \ {0}
    /\ Paid \in BOOLEAN /\ CancelOnBan \in BOOLEAN
\* An invoice never asks for the waiting list; a button asks for one seat.
ASSUME KindsAssumption ==
    IF Paid THEN Waits = {} ELSE \A r \in Requests : SeatsOf[r] = 1

VARIABLES
    pc,         \* where each request is
    snap,       \* the counters each request has read
    mutex,      \* owner of sign_up_mutex
    booked,     \* rows with waiting_list = 0, by the request they come from
    waiting,    \* rows with waiting_list = 1
    blackList,  \* users in black_list
    banning     \* the user whose /ban has inserted but not yet deleted

vars == <<pc, snap, mutex, booked, waiting, blackList, banning>>

\* The single seats of the requests B, and how many they are.
SeatsIn(B) == UNION {{r} \X (1..SeatsOf[r]) : r \in B}
SeatCount(B) == Cardinality(SeatsIn(B))

S == INSTANCE Seats WITH Bookings <- Requests, taken <- booked,
                         Fits <- LAMBDA B : SeatCount(B) <= Capacity

Of(B, u) == {r \in B : UserOf[r] = u}

Places == {"new", "lock", "read", "check", "write", "answer", "done", "dropped"}
Ended == {"done", "dropped"}
Running(r) == pc[r] \notin Ended \cup {"new"}

\* my_reservation and my_waiting, for the kind of seat that is asked for.
Counters == [mine : Nat, waits : Nat]

TypeOK ==
    /\ pc \in [Requests -> Places]
    /\ snap \in [Requests -> Counters]
    /\ mutex \in Requests \cup {Nobody}
    /\ booked \subseteq Requests
    /\ waiting \subseteq Waits \ booked
    /\ blackList \subseteq Users
    /\ banning \in Users \cup {Nobody}

Init ==
    /\ pc = [r \in Requests |-> "new"]
    /\ snap = [r \in Requests |-> [mine |-> 0, waits |-> 0]]
    /\ mutex = Nobody
    /\ booked = {}
    /\ waiting = {}
    /\ blackList = {}
    /\ banning = Nobody

Goto(r, place) == pc' = [pc EXCEPT ![r] = place]

-----------------------------------------------------------------------------
(* The endpoints *)

Connected == {r \in Requests : Running(r)}

\* Faulty variant: every update is spawned on its own.
AtOnce(r) == TRUE

\* Updates of one chat wait for each other; pre-checkouts belong to no chat.
Dispatched(r) == Paid \/ \A q \in Requests : UserOf[q] = UserOf[r] => ~Running(q)

Connect(r) ==
    /\ pc[r] = "new"
    /\ Dispatched(r)
    /\ Cardinality(Connected) < PoolSize
    /\ Goto(r, IF Paid THEN "lock" ELSE "read")
    /\ UNCHANGED <<snap, mutex, booked, waiting, blackList, banning>>

\* pool.get() times out: the endpoint returns without doing anything.
GiveUp(r) ==
    /\ pc[r] = "new"
    /\ Dispatched(r)
    /\ Cardinality(Connected) = PoolSize
    /\ Goto(r, "dropped")
    /\ UNCHANGED <<snap, mutex, booked, waiting, blackList, banning>>

\* Faulty variant: the mutex is only tried, and its guard is not looked at.
TryLock(r) ==
    /\ pc[r] = "lock"
    /\ mutex' = IF mutex = Nobody THEN r ELSE mutex
    /\ Goto(r, "read")
    /\ UNCHANGED <<snap, booked, waiting, blackList, banning>>

Lock(r) ==
    /\ pc[r] = "lock"
    /\ mutex = Nobody
    /\ mutex' = r
    /\ Goto(r, "read")
    /\ UNCHANGED <<snap, booked, waiting, blackList, banning>>

\* Faulty variant: a guard that outlives the endpoint.
OwnerKept(r) == mutex

\* Who owns the mutex once request r has returned.
OwnerAfter(r) == IF mutex = r THEN Nobody ELSE mutex

\* The answer is sent with the connection and the lock still held; both are
\* dropped when the endpoint returns, whether sending worked or not.
Answer(r) ==
    /\ pc[r] = "answer"
    /\ mutex' = OwnerAfter(r)
    /\ Goto(r, "done")
    /\ UNCHANGED <<snap, booked, waiting, blackList, banning>>

-----------------------------------------------------------------------------
(* sign_up *)

Seen(r) == [mine |-> SeatCount(Of(booked, UserOf[r])),
            waits |-> SeatCount(Of(waiting, UserOf[r]))]

\* The seat check, on the counters just read.
Room(r) == (r \in Waits /\ ~Paid) \/ SeatsOf[r] <= Capacity - SeatCount(booked)

Read(r) ==
    /\ pc[r] = "read"
    /\ snap' = [snap EXCEPT ![r] = Seen(r)]
    /\ Goto(r, IF ~Room(r) THEN "answer" ELSE IF Paid THEN "write" ELSE "check")
    /\ UNCHANGED <<mutex, booked, waiting, blackList, banning>>

\* Only a free event looks at the black list.
Check(r) ==
    /\ pc[r] = "check"
    /\ Goto(r, IF UserOf[r] \in blackList THEN "answer" ELSE "write")
    /\ UNCHANGED <<snap, mutex, booked, waiting, blackList, banning>>

OverLimit(r) == snap[r].mine + snap[r].waits + SeatsOf[r] > PerUser
OverBooked(r) == snap[r].mine + SeatsOf[r] > PerUser

Insert(r) ==
    /\ ~OverLimit(r)
    /\ IF r \in Waits
       THEN waiting' = waiting \cup {r} /\ UNCHANGED booked
       ELSE booked' = booked \cup {r} /\ UNCHANGED waiting

\* Faulty variant: a booked row is added, and the waiting one stays.
CopyFromWaitingList(r) ==
    /\ OverLimit(r) /\ ~OverBooked(r)
    /\ UNCHANGED waiting
    /\ \/ Of(waiting, UserOf[r]) = {} /\ UNCHANGED booked
       \/ \E q \in Of(waiting, UserOf[r]) : booked' = booked \cup {q}

\* move_from_waiting_list finds its row when it runs, perhaps none.
MoveFromWaitingList(r) ==
    /\ OverLimit(r) /\ ~OverBooked(r)
    /\ \/ /\ Of(waiting, UserOf[r]) = {}
          /\ UNCHANGED <<booked, waiting>>
       \/ \E q \in Of(waiting, UserOf[r]) :
            /\ waiting' = waiting \ {q}
            /\ booked' = booked \cup {q}

\* Beyond the limit nothing is written, and the result is still Ok.
Nothing(r) == OverBooked(r) /\ UNCHANGED <<booked, waiting>>

Write(r) ==
    /\ pc[r] = "write"
    /\ Insert(r) \/ MoveFromWaitingList(r) \/ Nothing(r)
    /\ Goto(r, "answer")
    /\ UNCHANGED <<snap, mutex, blackList, banning>>

\* SQLITE_BUSY: set_current_event inside the SELECT, or the write, fails.
Busy(r) ==
    /\ pc[r] \in {"read", "write"}
    /\ Goto(r, "answer")
    /\ UNCHANGED <<snap, mutex, booked, waiting, blackList, banning>>

-----------------------------------------------------------------------------
(* Other handlers *)

\* The row of r goes: its user cancels, or its payment never came.
Drop(r) ==
    /\ r \in waiting \/ (r \in booked /\ Of(waiting, UserOf[r]) = {})
    /\ IF Paid THEN pc[r] = "done" ELSE Dispatched(r)
    /\ booked' = booked \ {r}
    /\ waiting' = waiting \ {r}
    /\ UNCHANGED <<pc, snap, mutex, blackList, banning>>

\* ban_user in two statements.
BanInsert(u) ==
    /\ banning = Nobody
    /\ u \notin blackList
    /\ blackList' = blackList \cup {u}
    /\ banning' = IF CancelOnBan THEN u ELSE Nobody
    /\ UNCHANGED <<pc, snap, mutex, booked, waiting>>

BanDelete ==
    /\ banning # Nobody
    /\ booked' = booked \ Of(booked, banning)
    /\ waiting' = waiting \ Of(waiting, banning)
    /\ banning' = Nobody
    /\ UNCHANGED <<pc, snap, mutex, blackList>>

Step(r) == \/ Connect(r) \/ GiveUp(r) \/ Lock(r) \/ Answer(r)
           \/ Read(r) \/ Check(r) \/ Write(r) \/ Busy(r)

Next == \/ \E r \in Requests : Step(r) \/ Drop(r)
        \/ \E u \in Users : BanInsert(u)
        \/ BanDelete

Spec == Init /\ [][Next]_vars

\* Tasks are scheduled and every call to Telegram returns.
FairSpec == Spec /\ \A r \in Requests : WF_vars(Step(r))

-----------------------------------------------------------------------------
(* Properties *)

\* The sale of paid tickets is atomic: sign_up_mutex makes the SELECT of
\* sign_up and its INSERT one step, so that seats are only taken when there.
Sale == S!Spec

\* The limit per user holds over booked and waiting seats, although it is
\* checked on counters read earlier: for a paid event by sign_up_mutex, for a
\* free one because a chat is served one update at a time.
UserLimitHeld == \A u \in Users : SeatCount(Of(booked \cup waiting, u)) <= PerUser

\* "cancel all user reservations when banned" is kept but for one seat: a sign-up
\* that has looked at the black list before the ban writes its row after it, and
\* no second one can, because a chat is served one update at a time.
OneSeatEscapesBan ==
    ~Paid /\ CancelOnBan =>
        \A u \in blackList : banning # u =>
            \A q, r \in Of(booked \cup waiting, u) : q = r

\* Every request ends, though pre_checkout_handler waits for sign_up_mutex
\* with a connection in its hands.
EveryRequestEnds == \A r \in Requests : <>(pc[r] \in Ended)

\* README: beyond max_adults people are put on the waiting list.  Two
\* callbacks of different chats both read the counters before either writes.
CapacityHeld == S!NeverOverbooked
=============================================================================
