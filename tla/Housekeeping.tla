---------------------------- MODULE Housekeeping ----------------------------
(***************************************************************************)
(* A round of perform_bulk_tasks over free events: the mail, the deletion  *)
(* of old events one by one with the bans of those who stayed away, the    *)
(* ageing of the black list and the expiry of unpaid reservations.  Every  *)
(* SQL statement is a step; any of them may fail and the bot may stop      *)
(* before any of them.                                                     *)
(*                                                                         *)
(* clear_old_events keeps its SELECT open while it deletes, and a reader   *)
(* keeps other connections from committing: nobody else writes during the  *)
(* loop.  A round takes seconds and a unit of time is a day, so times are  *)
(* ages.  All events exist from the start; Booking creates and edits them. *)
(***************************************************************************)
EXTENDS Integers, FiniteSets

CONSTANTS
    Users,          \* ids of Telegram users, which are numbers
    Admins,         \* Config::admins
    Events,         \* ids of events
    AutoBlacklist,  \* Config::automatic_blacklisting
    BanDays,        \* Config::delete_from_black_list_after_days
    MaxOdd          \* bound: crashes, failed statements, bans from elsewhere

ASSUME HousekeepingAssumption ==
    /\ Users \subseteq Nat /\ Events \subseteq Nat
    /\ IsFiniteSet(Users) /\ IsFiniteSet(Events)
    /\ Admins \subseteq Users
    /\ AutoBlacklist \in BOOLEAN
    /\ BanDays \in Nat /\ MaxOdd \in Nat

VARIABLES
    cancels,   \* Config::cancel_future_reservations_on_ban, either way
    stage,     \* of each event: "ahead", "old" (to be dropped) or "gone"
    rows,      \* booked seats: <<event, user>>
    presence,  \* rows of presence of events that are not gone
    bans,      \* black_list: days since the ban of each user, or Free
    unpaid,    \* a reservation that waits for its payment: "none", "fresh", "due"
    pc,        \* the next statement of the task
    todo,      \* events the loop is not through with
    absent,    \* those of the first of them it has not banned yet
    odd,       \* crashes, failed statements and bans from elsewhere so far
    failed,    \* some statement has failed
    unnamed    \* history: the name of the event at hand could not be read

tables == <<stage, rows, presence, bans, unpaid>>
vars == <<cancels, tables, pc, todo, absent, odd, failed, unnamed>>

Free == -1
Places == {"sleep", "next", "ban", "cancel", "rows", "event", "age", "expire", "ended"}

TypeOK ==
    /\ cancels \in BOOLEAN
    /\ stage \in [Events -> {"ahead", "old", "gone"}]
    /\ rows \subseteq Events \X Users
    /\ presence \subseteq {e \in Events : stage[e] # "gone"} \X Users
    /\ bans \in [Users -> Free..(BanDays + 1)]
    /\ unpaid \in {"none", "fresh", "due"}
    /\ pc \in Places
    /\ todo \subseteq {e \in Events : stage[e] = "old"}
    /\ absent \subseteq Users \ Admins
    /\ pc \in {"ban", "cancel", "rows", "event"} => todo # {}
    /\ pc = "cancel" => absent # {}
    /\ odd \in 0..MaxOdd /\ failed \in BOOLEAN /\ unnamed \in BOOLEAN

Init ==
    /\ cancels \in BOOLEAN
    /\ stage = [e \in Events |-> "ahead"]
    /\ rows = {}
    /\ presence = {}
    /\ bans = [u \in Users |-> Free]
    /\ unpaid = "none"
    /\ pc = "sleep"
    /\ todo = {}
    /\ absent = {}
    /\ odd = 0
    /\ failed = FALSE
    /\ unnamed = FALSE

Holders(e) == {u \in Users : <<e, u>> \in rows}
Banned(u) == bans[u] # Free

\* Both loops go through their rows in ascending order of the id.
First(S) == CHOOSE x \in S : \A y \in S : x <= y

\* blacklist_absent_participants: nobody, unless some holder was ticked off.
NoShows(e) ==
    IF AutoBlacklist /\ \E u \in Holders(e) : <<e, u>> \in presence
    THEN {u \in Holders(e) : <<e, u>> \notin presence} \ Admins
    ELSE {}

-----------------------------------------------------------------------------
(* Everybody else *)

\* Outside the loop; see the head of the module.
Unlocked == pc \notin {"next", "ban", "cancel", "rows", "event"}
Idle == UNCHANGED <<cancels, pc, todo, absent, odd, failed, unnamed>>

\* sign_up, at an event that is not over.
SignUp(u, e) ==
    /\ Unlocked /\ Idle
    /\ stage[e] = "ahead" /\ ~Banned(u)
    /\ rows' = rows \cup {<<e, u>>}
    /\ UNCHANGED <<stage, presence, bans, unpaid>>

\* The Cancel button of an old message works as long as the event exists.
Cancel(u, e) ==
    /\ Unlocked /\ Idle
    /\ stage[e] # "gone"
    /\ rows' = rows \ {<<e, u>>}
    /\ UNCHANGED <<stage, presence, bans, unpaid>>

ConfirmPresence(u, e) ==
    /\ Unlocked /\ Idle
    /\ stage[e] # "gone"
    /\ presence' = presence \cup {<<e, u>>}
    /\ UNCHANGED <<stage, rows, bans, unpaid>>

\* /ban, a late cancellation or /delete_event put the user on the list.
BanElsewhere(u) ==
    /\ Unlocked /\ ~Banned(u)
    /\ odd < MaxOdd /\ odd' = odd + 1
    /\ bans' = [bans EXCEPT ![u] = 0]
    /\ rows' = IF cancels THEN {r \in rows : r[2] # u} ELSE rows
    /\ UNCHANGED <<cancels, stage, presence, unpaid, pc, todo, absent, failed, unnamed>>

\* /remove_from_black_list
Unban(u) ==
    /\ Unlocked /\ Idle
    /\ bans' = [bans EXCEPT ![u] = Free]
    /\ UNCHANGED <<stage, rows, presence, unpaid>>

\* The pre-checkout of somebody who will not pay.
Reserve ==
    /\ Unlocked /\ Idle
    /\ unpaid = "none"
    /\ unpaid' = "fresh"
    /\ UNCHANGED <<stage, rows, presence, bans>>

\* A day goes by, between two rounds; some events are over for long enough.
Day ==
    /\ pc \in {"sleep", "ended"} /\ Idle
    /\ bans' = [u \in Users |-> IF bans[u] \in 0..BanDays THEN bans[u] + 1 ELSE bans[u]]
    /\ unpaid' = IF unpaid = "fresh" THEN "due" ELSE unpaid
    /\ \E over \in SUBSET {e \in Events : stage[e] = "ahead"} :
        stage' = [e \in Events |-> IF e \in over THEN "old" ELSE stage[e]]
    /\ UNCHANGED <<rows, presence>>

-----------------------------------------------------------------------------
(* The round *)

Works == UNCHANGED <<odd, failed>>
Fails == odd < MaxOdd /\ odd' = odd + 1 /\ failed' = TRUE

\* Faulty variant: an error is passed on, and the round is over.
GiveUpRound == pc' = "sleep" /\ todo' = {} /\ absent' = {}

\* Faulty variant: the error is logged, and the event deleted all the same.
DeleteAnyway == pc' = "rows" /\ absent' = {} /\ UNCHANGED todo

\* `?' leaves clear_old_events; the round logs it and goes on.
Abort == pc' = "age" /\ todo' = {} /\ absent' = {}

\* Faulty variant: the event is deleted before its reservations.
EventFirst(p) ==
    CASE p = "ban" -> "event" [] p = "event" -> "rows" [] p = "rows" -> "next"

\* The order of the statements of delete_event.
Following(p) ==
    CASE p = "ban" -> "rows" [] p = "rows" -> "event" [] p = "event" -> "next"

Proceed(p) ==
    /\ pc' = Following(p)
    /\ todo' = IF Following(p) = "next" THEN todo \ {First(todo)} ELSE todo

\* A message cannot be sent, or the query of the outbox fails: the task returns.
MailFails ==
    /\ pc = "sleep"
    /\ pc' = "ended"
    /\ UNCHANGED <<cancels, tables, todo, absent, odd, failed, unnamed>>

\* SELECT id FROM events WHERE ts < ...; a scan of the table, in order of id.
\* Without a connection from the pool neither events nor bans are looked at.
Wake ==
    /\ pc = "sleep"
    /\ \/ /\ Works
          /\ pc' = "next"
          /\ todo' = {e \in Events : stage[e] = "old"}
       \/ /\ Fails
          /\ pc' = "expire"
          /\ UNCHANGED todo
    /\ UNCHANGED <<cancels, tables, absent, unnamed>>

\* The list is not empty, with administrators in it, and somebody was ticked off.
NameAsked(e) ==
    AutoBlacklist /\ \E u, v \in Holders(e) : <<e, u>> \in presence /\ <<e, v>> \notin presence

\* get_event, the list of those who stayed away, and the name of the event for the
\* black list: without the name nobody is banned, and the deletion goes on.
NextEvent ==
    /\ pc = "next"
    /\ \/ /\ todo = {} /\ Works
          /\ pc' = "age"
          /\ UNCHANGED <<todo, absent, unnamed>>
       \/ /\ todo # {} /\ Works
          /\ absent' = NoShows(First(todo))
          /\ pc' = "ban" /\ unnamed' = FALSE
          /\ UNCHANGED todo
       \/ /\ todo # {} /\ NameAsked(First(todo)) /\ Fails
          /\ absent' = {}
          /\ pc' = "ban" /\ unnamed' = TRUE
          /\ UNCHANGED todo
       \/ todo # {} /\ Fails /\ Abort /\ UNCHANGED unnamed
    /\ UNCHANGED <<cancels, tables>>

\* The INSERT of ban_user, which a ban that is there already refuses.
BanNext ==
    /\ pc = "ban"
    /\ UNCHANGED <<cancels, stage, rows, presence, unpaid, unnamed>>
    /\ \/ /\ absent = {} /\ Works
          /\ Proceed("ban")
          /\ UNCHANGED <<bans, absent>>
       \/ /\ absent # {} /\ ~Banned(First(absent)) /\ Works
          /\ bans' = [bans EXCEPT ![First(absent)] = 0]
          /\ pc' = IF cancels THEN "cancel" ELSE "ban"
          /\ absent' = IF cancels THEN absent ELSE absent \ {First(absent)}
          /\ UNCHANGED todo
       \/ /\ absent # {}
          /\ IF Banned(First(absent)) THEN Works ELSE Fails
          /\ Abort
          /\ UNCHANGED bans

\* The DELETE of ban_user, whose failure is only logged.
CancelRows ==
    /\ pc = "cancel"
    /\ \/ Works /\ rows' = {r \in rows : r[2] # First(absent)}
       \/ Fails /\ UNCHANGED rows
    /\ pc' = "ban"
    /\ absent' = absent \ {First(absent)}
    /\ UNCHANGED <<cancels, stage, presence, bans, unpaid, todo, unnamed>>

\* The DELETEs of delete_event: a failure is only logged.  Those of presence
\* and of the other tables follow that of the event and are never missed, for
\* ids are not used again.
DeleteReservations ==
    /\ pc = "rows"
    /\ \/ Works /\ rows' = {r \in rows : r[1] # First(todo)}
       \/ Fails /\ UNCHANGED rows
    /\ Proceed("rows")
    /\ UNCHANGED <<cancels, stage, presence, bans, unpaid, absent, unnamed>>

\* Faulty variant: presence is not deleted.
PresenceKept(e) == presence

PresenceAfter(e) == {p \in presence : p[1] # e}

DeleteRow ==
    /\ pc = "event"
    /\ \/ /\ Works
          /\ stage' = [stage EXCEPT ![First(todo)] = "gone"]
          /\ presence' = PresenceAfter(First(todo))
       \/ Fails /\ UNCHANGED <<stage, presence>>
    /\ Proceed("event")
    /\ UNCHANGED <<cancels, rows, bans, unpaid, absent, unnamed>>

\* Faulty variant: a ban is kept for good.
NeverOver(u) == FALSE

Over(u) == bans[u] > BanDays

\* clear_black_list
AgeBlackList ==
    /\ pc = "age"
    /\ \/ Works /\ bans' = [u \in Users |-> IF Over(u) THEN Free ELSE bans[u]]
       \/ Fails /\ UNCHANGED bans
    /\ pc' = "expire"
    /\ UNCHANGED <<cancels, stage, rows, presence, unpaid, todo, absent, unnamed>>

\* clear_failed_payments
Expire ==
    /\ pc = "expire"
    /\ \/ Works /\ unpaid' = IF unpaid = "due" THEN "none" ELSE unpaid
       \/ Fails /\ UNCHANGED unpaid
    /\ pc' = "sleep"
    /\ UNCHANGED <<cancels, stage, rows, presence, bans, todo, absent, unnamed>>

\* The bot stops anywhere and starts again, or is started again because the
\* task has ended.
Restart ==
    /\ IF pc = "ended" THEN UNCHANGED odd ELSE odd < MaxOdd /\ odd' = odd + 1
    /\ pc' = "sleep" /\ todo' = {} /\ absent' = {}
    /\ UNCHANGED <<cancels, tables, failed, unnamed>>

TaskStep ==
    Wake \/ NextEvent \/ BanNext \/ CancelRows \/ DeleteReservations
    \/ DeleteRow \/ AgeBlackList \/ Expire

Next ==
    \/ \E u \in Users, e \in Events :
        SignUp(u, e) \/ Cancel(u, e) \/ ConfirmPresence(u, e)
    \/ \E u \in Users : BanElsewhere(u) \/ Unban(u)
    \/ Reserve \/ Day
    \/ MailFails \/ TaskStep \/ Restart

Spec == Init /\ [][Next]_vars

\* The task goes on for as long as it has not returned, and time passes: a day
\* can only go by between two rounds here, hence the strong fairness.
FairSpec == Spec /\ WF_vars(TaskStep) /\ SF_vars(Day)

-----------------------------------------------------------------------------
(* Properties *)

\* However often the bot stops, in the middle of a deletion too, no reservation
\* is left without its event, where no administrator would find it: only a
\* failed statement can leave one.
NoOrphanByCrash == ~failed => \A r \in rows : stage[r[1]] # "gone"

\* The reservations of an old event go only when everybody who is to be punished
\* for staying away has been, whatever interrupted earlier rounds and whichever
\* statement failed: but for one, that which reads the name of the event.
AbsentBannedFirst ==
    [][DeleteReservations => unnamed \/ \A u \in NoShows(First(todo)) : Banned(u)]_vars

\* Every old event is dropped in the end, unless the task has returned: one that
\* cannot be, for a no-show of it is banned already, keeps itself and those
\* after it only until that ban is over.
OldEventsGo ==
    \A e \in Events : stage[e] = "old" ~> stage[e] = "gone" \/ pc = "ended"

\* Such an event holds up neither the end of bans nor that of reservations
\* nobody has paid for.
RoundGoesOn ==
    /\ unpaid = "due" ~> unpaid = "none" \/ pc = "ended"
    /\ \A u \in Users : bans[u] > BanDays ~> bans[u] <= BanDays \/ pc = "ended"
=============================================================================
