------------------------------ MODULE EventApi ------------------------------
(***************************************************************************)
(* How events are described: the HTTP API, the JSON an administrator       *)
(* enters in the chat and /set_event_limits, all of which write the table  *)
(* events and the reminders in messages.  An update of the API reads the   *)
(* event in one blocking task and writes every column in another; and      *)
(* mutate_event is several statements on a connection of its own, so that  *)
(* requests overlap between any two of them.                               *)
(*                                                                         *)
(* name stands for the three columns an event is looked up by (name, link  *)
(* and start), and there is one kind of seat.  A request is used once.     *)
(***************************************************************************)
EXTENDS Integers, FiniteSets

CONSTANTS
    Requests,   \* HTTP requests and JSON messages that write an event
    Drafts,     \* complete descriptions that are entered
    Patches,    \* partial ones: some columns of a description
    MaxEvents,  \* bound: events ever created
    MaxFaults   \* bound: statements that fail and crashes

Columns == {"name", "max", "per", "price"}

ASSUME DraftsAssumption ==
    /\ \A d \in Drafts : d \in [name : {d.name}, max : Nat, per : Nat, price : Nat]
    /\ \A p \in Patches : /\ DOMAIN p \subseteq Columns
                          /\ \A c \in DOMAIN p \ {"name"} : p[c] \in Nat
ASSUME BoundsAssumption ==
    MaxEvents \in Nat /\ MaxFaults \in Nat /\ IsFiniteSet(Requests)

VARIABLES
    events,     \* rows of events by id
    lastId,     \* AUTOINCREMENT counter of events
    reminders,  \* messages of type Reminder: who queued it, event, name in it
    requests,   \* what each request has read and where it stands
    faults,     \* failed statements and crashes so far
    steady,     \* history: events every write of which queues a reminder
    alone       \* history: requests no other has overlapped

vars == <<events, lastId, reminders, requests, faults, steady, alone>>

Names == {d.name : d \in Drafts} \cup {p["name"] : p \in {q \in Patches : "name" \in DOMAIN q}}
EventRow == [name : Names, max : Nat, per : Nat, price : Nat]
Nothing == <<>>
Live == DOMAIN events

\* "read": to write row to event id; "looking" up the id of a new event;
\* "written": to delete reminders; "cleared": to queue one.
Stages == {"new", "read", "looking", "written", "cleared", "done"}
Request == [stage : Stages, id : Nat, row : EventRow \cup {Nothing},
            patch : Drafts \cup Patches \cup {Nothing}, http : BOOLEAN]

TypeOK ==
    /\ lastId \in 0..MaxEvents
    /\ Live \subseteq 1..lastId
    /\ events \in [Live -> EventRow]
    /\ requests \in [Requests -> Request]
    /\ \A r \in Requests :
        /\ requests[r].stage \notin {"new", "done"} =>
              requests[r].row \in EventRow /\ requests[r].id \in 1..lastId
        /\ requests[r].stage = "cleared" =>
              requests[r].row.price # 0 \/ requests[r].row.max # 0
    /\ \A m \in reminders : m.by \in Requests /\ m.event \in 1..lastId
    /\ faults \in 0..MaxFaults
    /\ steady \subseteq 1..lastId
    /\ alone \subseteq Requests

New == [stage |-> "new", id |-> 0, row |-> Nothing, patch |-> Nothing, http |-> FALSE]

Init ==
    /\ events = [e \in {} |-> {}]
    /\ lastId = 0
    /\ reminders = {}
    /\ requests = [r \in Requests |-> New]
    /\ faults = 0
    /\ steady = {}
    /\ alone = {}

-----------------------------------------------------------------------------
(* Checks of what is entered *)

\* RawEvent::validation and OptionalRawEvent::validation
Valid(row) ==
    /\ row.max = 0 => row.price = 0
    /\ row.per <= row.max

\* add_event looks at the price only.
ValidInChat(row) == row.max = 0 => row.price = 0

\* Faulty variant: an event is never an announcement.
NeverAnnouncement(row) == FALSE

\* Event::get_type: a price makes an event a paid one, and places a free one; an
\* announcement has neither, and nobody is reminded of it.
Announcement(row) == row.price = 0 /\ row.max = 0

Busy(r) == requests[r].stage \notin {"new", "done"}

\* History: r starts, and is alone as long as no other request is under way.
Begin(r) ==
    alone' = IF \E s \in Requests : Busy(s)
             THEN {s \in alone : ~Busy(s)}
             ELSE alone \cup {r}

Goto(r, stage) == requests' = [requests EXCEPT ![r].stage = stage]

-----------------------------------------------------------------------------
(* Creating an event *)

\* create_event or add_event, up to the INSERT.
Create(r) ==
    /\ requests[r].stage = "new" /\ lastId < MaxEvents
    /\ lastId' = lastId + 1
    /\ \E row \in Drafts, http \in BOOLEAN :
        /\ IF http THEN Valid(row) ELSE ValidInChat(row)
        /\ events' = [e \in Live \cup {lastId'} |-> IF e = lastId' THEN row ELSE events[e]]
        /\ requests' = [requests EXCEPT ![r] =
              [stage |-> "looking", id |-> lastId', http |-> http, patch |-> Nothing, row |-> row]]
        /\ steady' = IF Announcement(row) THEN steady ELSE steady \cup {lastId'}
    /\ Begin(r)
    /\ UNCHANGED <<reminders, faults>>

\* The events called like the one that was created, in order of their ids.
Namesakes(r) == {e \in Live : events[e].name = requests[r].row.name}

\* The SELECT finds the oldest.
Found(r) == CHOOSE e \in Namesakes(r) : \A f \in Namesakes(r) : e <= f

\* SELECT id ... WHERE name, link, ts; the reminder goes to what it finds, and
\* an event that was deleted or renamed by then gets none.
LookUp(r) ==
    /\ requests[r].stage = "looking"
    /\ LET row == requests[r].row
           id == IF Namesakes(r) = {} THEN 0 ELSE Found(r)
       IN  /\ requests' = [requests EXCEPT
                  ![r].id = IF id = 0 THEN @ ELSE id,
                  ![r].stage = IF id = 0 \/ Announcement(row) THEN "done" ELSE "cleared"]
           /\ steady' = IF id = requests[r].id THEN steady ELSE steady \ {requests[r].id}
    /\ UNCHANGED <<events, lastId, reminders, faults, alone>>

-----------------------------------------------------------------------------
(* Changing an event *)

Column(c, patch, row) == IF c \in DOMAIN patch THEN patch[c] ELSE row[c]

\* The getters of OptionalRawEvent: what was entered, or else what there is.
Entered(patch, row) ==
    [name |-> Column("name", patch, row), max |-> Column("max", patch, row),
     per |-> Column("per", patch, row), price |-> Column("price", patch, row)]

\* update_event: select_event, then the columns not entered are filled in.  The
\* request of an event that does not exist panics.
Read(r, e) ==
    /\ requests[r].stage = "new"
    /\ e \in Live
    /\ \E patch \in Patches :
        LET entered == Entered(patch, events[e])
        IN  /\ Valid(entered)
            /\ requests' = [requests EXCEPT ![r] =
                  [stage |-> "read", id |-> e, http |-> TRUE, patch |-> patch,
                   row |-> [entered EXCEPT !.price = events[e].price]]]
    /\ Begin(r)
    /\ UNCHANGED <<events, lastId, reminders, faults, steady>>

\* The JSON of add_event with an id; nothing is read.
Enter(r, e) ==
    /\ requests[r].stage = "new"
    /\ e \in 1..lastId
    /\ \E row \in Drafts :
        /\ ValidInChat(row)
        /\ requests' = [requests EXCEPT ![r] =
              [stage |-> "read", id |-> e, http |-> FALSE, patch |-> row, row |-> row]]
    /\ Begin(r)
    /\ UNCHANGED <<events, lastId, reminders, faults, steady>>

\* Faulty variant: only the columns that were entered are written.
EnteredColumns(r) ==
    [Entered(requests[r].patch, events[requests[r].id])
        EXCEPT !.price = events[requests[r].id].price]

\* The UPDATE of mutate_event: every column but price, currency and state.
Written(r) == [requests[r].row EXCEPT !.price = events[requests[r].id].price]

\* It changes no row if the event is gone.
Write(r) ==
    /\ requests[r].stage = "read"
    /\ LET e == requests[r].id
       IN  /\ events' = IF e \in Live THEN [events EXCEPT ![e] = Written(r)] ELSE events
           /\ steady' = IF Announcement(requests[r].row) THEN steady \ {e} ELSE steady
    /\ Goto(r, "written")
    /\ UNCHANGED <<lastId, reminders, faults, alone>>

\* Faulty variant: only a reminder of the same text is replaced.
ClearedByName(r) ==
    {m \in reminders : m.event # requests[r].id \/ m.name # requests[r].row.name}

\* delete_enqueued_messages
Cleared(r) == {m \in reminders : m.event # requests[r].id}

Clear(r) ==
    /\ requests[r].stage = "written"
    /\ reminders' = Cleared(r)
    /\ Goto(r, IF Announcement(requests[r].row) THEN "done" ELSE "cleared")
    /\ UNCHANGED <<events, lastId, faults, steady, alone>>

\* Faulty variant: a reminder whose text is queued already is not queued again.
QueuedOnce(r) ==
    IF \E m \in reminders : m.name = requests[r].row.name THEN reminders
    ELSE reminders \cup {[by |-> r, event |-> requests[r].id, name |-> requests[r].row.name]}

\* enqueue_message
Queued(r) ==
    reminders \cup {[by |-> r, event |-> requests[r].id, name |-> requests[r].row.name]}

Enqueue(r) ==
    /\ requests[r].stage = "cleared"
    /\ reminders' = Queued(r)
    /\ Goto(r, "done")
    /\ UNCHANGED <<events, lastId, faults, steady, alone>>

\* A statement fails or the bot stops: nothing is taken back.
Fail(r) ==
    /\ Busy(r) /\ faults < MaxFaults
    /\ faults' = faults + 1
    /\ Goto(r, "done")
    /\ steady' = steady \ {requests[r].id}
    /\ UNCHANGED <<events, lastId, reminders, alone>>

-----------------------------------------------------------------------------
(* Other commands *)

\* /set_event_limits looks at no other column and queues no reminder.
SetEventLimits(e, max) ==
    /\ events' = [events EXCEPT ![e].max = max]
    /\ UNCHANGED <<lastId, reminders, requests, faults, steady, alone>>

\* delete_event, with its messages
DeleteEvent(e) ==
    /\ events' = [f \in Live \ {e} |-> events[f]]
    /\ reminders' = {m \in reminders : m.event # e}
    /\ UNCHANGED <<lastId, requests, faults, steady, alone>>

Next ==
    \/ \E r \in Requests :
        \/ Create(r) \/ LookUp(r)
        \/ \E e \in 1..lastId : Read(r, e) \/ Enter(r, e)
        \/ Write(r) \/ Clear(r) \/ Enqueue(r) \/ Fail(r)
    \/ \E e \in Live :
        \/ DeleteEvent(e)
        \/ \E d \in Drafts : SetEventLimits(e, d.max)

Spec == Init /\ [][Next]_vars

-----------------------------------------------------------------------------
(* Properties *)

\* What a request of the API writes has been checked as a whole: no overlap of
\* two edits, each of one column, lets a user book more than there is.
LimitsFit ==
    [][\A r \in Requests :
        Write(r) /\ requests[r].http /\ requests[r].id \in Live
        => events'[requests[r].id].per <= events'[requests[r].id].max]_vars

\* An event that is no announcement from the first has a reminder once nobody edits it,
\* however edits overlapped, unless a request failed half-way or it was created
\* beside an older event of the same name.
Reminded ==
    \A e \in steady \cap Live :
        (\A r \in Requests : Busy(r) => requests[r].id # e)
        => \E m \in reminders : m.event = e

\* An edit that no other overlaps leaves exactly one reminder of its event, and it
\* names the event as it is called now.
EditReplacesReminder ==
    [][\A r \in alone :
        /\ Enqueue(r) /\ requests[r].patch # Nothing /\ requests[r].id \in Live
        => \E m \in reminders' :
              /\ {n \in reminders' : n.event = requests[r].id} = {m}
              /\ m.name = events[requests[r].id].name]_vars
=============================================================================
