------------------------- MODULE HousekeepingProofs -------------------------
(***************************************************************************)
(* What holds of the rounds of perform_bulk_tasks for any users, events    *)
(* and configuration, and however often the bot stops or a statement fails.*)
(***************************************************************************)
EXTENDS Housekeeping, WellFoundedInduction, TLAPS

\* Ids are numbers, so that a loop over some of them has a first.
LEMMA FirstIn ==
    ASSUME NEW S \in SUBSET Nat, S # {}
    PROVE  First(S) \in S
<1>1. PICK x \in S : \A y \in S : ~ (<<y, x>> \in OpToRel(<, Nat))
  BY WFMin, NatLessThanWellFounded
<1>2. ASSUME NEW y \in S PROVE x <= y
  <2>1. y < x => <<y, x>> \in OpToRel(<, Nat)
    BY DEF OpToRel
  <2>2. ~(y < x)
    BY <1>1, <2>1, Zenon
  <2>3. x \in Nat /\ y \in Nat
    OBVIOUS
  <2> QED BY <2>2, <2>3
<1> QED BY <1>2 DEF First

\* The first event of the loop, and the first no-show of it.
LEMMA Firsts ==
    ASSUME TypeOK
    PROVE  /\ todo # {} => First(todo) \in todo /\ First(todo) \in Events
           /\ absent # {} => First(absent) \in absent /\ First(absent) \in Users
BY FirstIn, HousekeepingAssumption DEF TypeOK

-----------------------------------------------------------------------------
(* Types *)

\* The Boolean variables.
LEMMA Flags ==
    ASSUME TypeOK, [Next]_vars
    PROVE  cancels' \in BOOLEAN /\ failed' \in BOOLEAN /\ unnamed' \in BOOLEAN
<1> USE DEF TypeOK, Works, Fails, Idle
<1>1. ASSUME NEW u \in Users, NEW e \in Events,
             SignUp(u, e) \/ Cancel(u, e) \/ ConfirmPresence(u, e)
      PROVE  cancels' \in BOOLEAN /\ failed' \in BOOLEAN /\ unnamed' \in BOOLEAN
  BY <1>1 DEF SignUp, Cancel, ConfirmPresence
<1>2. ASSUME NEW u \in Users, BanElsewhere(u) \/ Unban(u)
      PROVE  cancels' \in BOOLEAN /\ failed' \in BOOLEAN /\ unnamed' \in BOOLEAN
  BY <1>2 DEF BanElsewhere, Unban
<1>3. Reserve \/ Day \/ MailFails \/ Restart \/ UNCHANGED vars
      => cancels' \in BOOLEAN /\ failed' \in BOOLEAN /\ unnamed' \in BOOLEAN
  BY DEF Reserve, Day, MailFails, Restart, vars
<1>4. TaskStep => cancels' = cancels /\ (Works \/ Fails) /\ unnamed' \in {unnamed, TRUE, FALSE}
  BY DEF TaskStep, Wake, NextEvent, BanNext, CancelRows, DeleteReservations,
         DeleteRow, AgeBlackList, Expire
<1>5. TaskStep => cancels' \in BOOLEAN /\ failed' \in BOOLEAN /\ unnamed' \in BOOLEAN
  BY <1>4
<1> QED BY <1>1, <1>2, <1>3, <1>5 DEF Next

\* Every variable keeps its type; the loop only deals with events that are over
\* and not gone, and nobody is ticked off at an event that is gone.
THEOREM HousekeepingTypeCorrect == Spec => []TypeOK
<1> USE HousekeepingAssumption DEF TypeOK, Free, Places
<1>1. Init => TypeOK
  <2>1. Init => failed \in BOOLEAN /\ unnamed \in BOOLEAN
    BY DEF Init
  <2> QED BY <2>1 DEF Init
<1>2. TypeOK /\ [Next]_vars => TypeOK'
  <2> SUFFICES ASSUME TypeOK, [Next]_vars PROVE TypeOK'
    OBVIOUS
  <2>0. cancels' \in BOOLEAN /\ failed' \in BOOLEAN /\ unnamed' \in BOOLEAN
    BY Flags
  <2> USE DEF tables, Works, Fails, Abort, Proceed, Following, Idle
  <2>1. ASSUME NEW u \in Users, NEW e \in Events, SignUp(u, e) PROVE TypeOK'
    BY <2>0, <2>1 DEF SignUp
  <2>2. ASSUME NEW u \in Users, NEW e \in Events, Cancel(u, e) PROVE TypeOK'
    BY <2>0, <2>2 DEF Cancel
  <2>3. ASSUME NEW u \in Users, NEW e \in Events, ConfirmPresence(u, e) PROVE TypeOK'
    BY <2>0, <2>3 DEF ConfirmPresence
  <2>4. ASSUME NEW u \in Users, BanElsewhere(u) PROVE TypeOK'
    BY <2>0, <2>4 DEF BanElsewhere
  <2>5. ASSUME NEW u \in Users, Unban(u) PROVE TypeOK'
    BY <2>0, <2>5 DEF Unban
  <2>6. CASE Reserve
    BY <2>0, <2>6 DEF Reserve
  <2>7. CASE Day
    <3>1. bans' \in [Users -> Free..(BanDays + 1)]
      BY <2>0, <2>7 DEF Day
    <3>2. unpaid' \in {"none", "fresh", "due"}
      BY <2>0, <2>7 DEF Day
    <3>3. stage' \in [Events -> {"ahead", "old", "gone"}]
      BY <2>0, <2>7 DEF Day
    <3>4. \A e \in Events : stage[e] \in {"old", "gone"} => stage'[e] = stage[e]
      BY <2>0, <2>7 DEF Day
    <3>5. \A e \in Events : stage[e] # "gone" => stage'[e] # "gone"
      BY <2>0, <2>7 DEF Day
    <3> QED BY <2>0, <2>7, <3>1, <3>2, <3>3, <3>4, <3>5 DEF Day
  <2>8. CASE MailFails
    BY <2>0, <2>8 DEF MailFails
  <2>9. CASE Wake
    <3>1. todo' \subseteq {e \in Events : stage'[e] = "old"}
      BY <2>9 DEF Wake
    <3>2. odd' \in 0..MaxOdd
      BY <2>9 DEF Wake
    <3>3. pc' \in {"next", "expire"} /\ UNCHANGED <<stage, rows, presence, bans, unpaid, absent>>
      BY <2>9 DEF Wake
    <3> HIDE DEF Works, Fails
    <3> QED BY <2>0, <3>1, <3>2, <3>3
  <2>10. CASE NextEvent
    <3>1. todo # {} => NoShows(First(todo)) \subseteq Users \ Admins
      BY DEF NoShows, Holders
    <3>2. UNCHANGED <<stage, rows, presence, bans, unpaid>> /\ odd' \in 0..MaxOdd
      BY <2>10 DEF NextEvent
    <3>3. /\ todo' \subseteq todo /\ absent' \subseteq Users \ Admins
          /\ pc' \in {"age", "ban"}
          /\ pc' = "ban" => todo' # {}
      BY <2>10, <3>1 DEF NextEvent
    <3> QED BY <2>0, <3>2, <3>3
  <2>11. CASE BanNext
    <3>1. UNCHANGED <<stage, rows, presence, unpaid>> /\ odd' \in 0..MaxOdd
      BY <2>11 DEF BanNext
    <3>2. bans' \in [Users -> Free..(BanDays + 1)]
      BY <2>11, Firsts DEF BanNext
    <3>3. /\ todo' \subseteq todo /\ absent' \subseteq absent
          /\ pc' \in {"rows", "cancel", "ban", "age"}
          /\ pc' # "age" => todo' = todo
          /\ pc' = "cancel" => absent' # {}
      BY <2>11 DEF BanNext
    <3>4. todo # {}
      BY <2>11 DEF BanNext
    <3> QED BY <2>0, <3>1, <3>2, <3>3, <3>4
  <2>12. CASE CancelRows
    <3>1. rows' \subseteq rows /\ odd' \in 0..MaxOdd
      BY <2>12 DEF CancelRows
    <3>2. absent' \subseteq absent /\ pc' = "ban" /\ todo' = todo /\ todo # {}
      BY <2>12 DEF CancelRows
    <3>3. UNCHANGED <<stage, presence, bans, unpaid>>
      BY <2>12 DEF CancelRows
    <3> QED BY <2>0, <3>1, <3>2, <3>3
  <2>13. CASE DeleteReservations
    BY <2>0, <2>13 DEF DeleteReservations
  <2>14. CASE DeleteRow
    <3>1. First(todo) \in todo /\ First(todo) \in Events
      BY <2>0, <2>14, Firsts DEF DeleteRow
    <3>2. todo' = todo \ {First(todo)} /\ pc' = "next"
      BY <2>0, <2>14 DEF DeleteRow
    <3>3. CASE UNCHANGED <<stage, presence>>
      BY <2>0, <2>14, <3>2, <3>3 DEF DeleteRow
    <3>4. CASE /\ stage' = [stage EXCEPT ![First(todo)] = "gone"]
               /\ presence' = {p \in presence : p[1] # First(todo)}
               /\ Works
      BY <2>0, <2>14, <3>1, <3>2, <3>4 DEF DeleteRow
    <3> QED BY <2>0, <2>14, <3>3, <3>4 DEF DeleteRow, PresenceAfter
  <2>15. CASE AgeBlackList
    BY <2>0, <2>15 DEF AgeBlackList
  <2>16. CASE Expire
    BY <2>0, <2>16 DEF Expire
  <2>17. CASE Restart
    BY <2>0, <2>17 DEF Restart
  <2>18. CASE UNCHANGED vars
    BY <2>0, <2>18 DEF vars
  <2> QED BY <2>1, <2>2, <2>3, <2>4, <2>5, <2>6, <2>7, <2>8, <2>9, <2>10, <2>11,
             <2>12, <2>13, <2>14, <2>15, <2>16, <2>17, <2>18 DEF Next, TaskStep
<1> QED BY <1>1, <1>2, PTL DEF Spec

-----------------------------------------------------------------------------
(* Crashes in the middle of a deletion *)

\* The reservations of an event are gone before its row is deleted.
RowsGoFirst ==
    ~failed => /\ \A r \in rows : stage[r[1]] # "gone"
               /\ pc = "event" => \A r \in rows : r[1] # First(todo)

\* A step that leaves the task, the events and the failures alone and books at
\* most at an event that is not gone.
LEMMA OthersKeepRows ==
    ASSUME RowsGoFirst, UNCHANGED <<pc, todo, failed>>,
           \A e \in Events : stage'[e] = "gone" => stage[e] = "gone",
           TypeOK,
           \A r \in rows' \ rows : pc # "event" /\ stage'[r[1]] # "gone"
    PROVE  RowsGoFirst'
<1> SUFFICES ASSUME ~failed, NEW r \in rows'
             PROVE  stage'[r[1]] # "gone" /\ (pc = "event" => r[1] # First(todo))
  BY DEF RowsGoFirst
<1>1. CASE r \in rows
  <2>1. r[1] \in Events
    BY <1>1 DEF TypeOK
  <2> QED BY <1>1, <2>1 DEF RowsGoFirst
<1>2. CASE r \notin rows
  BY <1>2
<1> QED BY <1>1, <1>2

\* Only a failed statement leaves a reservation without its event: a stop of
\* the bot between any two statements does not.
THEOREM CrashLeavesNoOrphan == Spec => []NoOrphanByCrash
<1>1. Init => RowsGoFirst
  BY DEF Init, RowsGoFirst
<1>2. TypeOK /\ RowsGoFirst /\ [Next]_vars => RowsGoFirst'
  <2> SUFFICES ASSUME TypeOK, RowsGoFirst, [Next]_vars PROVE RowsGoFirst'
    OBVIOUS
  <2> USE DEF tables, Works, Fails, Abort, Proceed, Following
  <2>1. ASSUME NEW u \in Users, NEW e \in Events,
               SignUp(u, e) \/ Cancel(u, e) \/ ConfirmPresence(u, e)
        PROVE  RowsGoFirst'
    <3>1. UNCHANGED <<pc, todo, failed, stage>>
      BY <2>1 DEF SignUp, Cancel, ConfirmPresence, Idle
    <3>2. \A r \in rows' \ rows : pc # "event" /\ stage[r[1]] # "gone"
      BY <2>1 DEF SignUp, Cancel, ConfirmPresence, Unlocked
    <3> QED BY <3>1, <3>2, OthersKeepRows
  <2>2. ASSUME NEW u \in Users, BanElsewhere(u) \/ Unban(u) PROVE RowsGoFirst'
    <3>1. UNCHANGED <<pc, todo, failed, stage>> /\ rows' \subseteq rows
      BY <2>2 DEF BanElsewhere, Unban, Idle
    <3> QED BY <3>1, OthersKeepRows
  <2>3. CASE Reserve \/ Day
    <3>1. UNCHANGED <<pc, todo, failed, rows>>
      BY <2>3 DEF Reserve, Day, Idle
    <3>2. \A e \in Events : stage'[e] = "gone" => stage[e] = "gone"
      BY <2>3 DEF Reserve, Day, TypeOK
    <3> QED BY <3>1, <3>2, OthersKeepRows
  <2>4. ASSUME pc' # "event", UNCHANGED stage, rows' \subseteq rows, ~failed' => ~failed
        PROVE  RowsGoFirst'
    BY <2>4 DEF RowsGoFirst
  <2>5. CASE MailFails \/ Restart \/ Wake \/ NextEvent \/ AgeBlackList \/ Expire
    BY <2>5, <2>4 DEF MailFails, Restart, Wake, NextEvent, AgeBlackList, Expire, TypeOK
  <2>6. CASE BanNext
    BY <2>6, <2>4 DEF BanNext, TypeOK
  <2>7. CASE CancelRows
    BY <2>7, <2>4 DEF CancelRows, TypeOK
  <2>8. CASE DeleteReservations
    <3> SUFFICES ASSUME ~failed', NEW r \in rows'
                 PROVE  stage'[r[1]] # "gone" /\ r[1] # First(todo)'
      BY DEF RowsGoFirst
    <3>1. rows' = {x \in rows : x[1] # First(todo)} /\ UNCHANGED <<stage, todo>> /\ ~failed
      BY <2>8 DEF DeleteReservations
    <3>2. First(todo)' = First(todo)
      BY <3>1
    <3> QED BY <3>1, <3>2 DEF RowsGoFirst
  <2>9. CASE DeleteRow
    <3> SUFFICES ASSUME ~failed', NEW r \in rows' PROVE stage'[r[1]] # "gone" /\ pc' # "event"
      BY DEF RowsGoFirst
    <3>1. ~failed /\ r \in rows /\ pc = "event" /\ pc' # "event"
      BY <2>9 DEF DeleteRow
    <3>2. r[1] # First(todo) /\ stage[r[1]] # "gone" /\ r[1] \in Events
      BY <3>1 DEF RowsGoFirst, TypeOK
    <3> QED BY <2>9, <3>1, <3>2 DEF DeleteRow, TypeOK
  <2>10. CASE UNCHANGED vars
    BY <2>10 DEF vars, RowsGoFirst
  <2> QED BY <2>1, <2>2, <2>3, <2>5, <2>6, <2>7, <2>8, <2>9, <2>10 DEF Next, TaskStep
<1>3. RowsGoFirst => NoOrphanByCrash
  BY DEF RowsGoFirst, NoOrphanByCrash
<1> QED BY <1>1, <1>2, <1>3, HousekeepingTypeCorrect, PTL DEF Spec

-----------------------------------------------------------------------------
(* Bans before the deletion *)

\* While the loop bans, each no-show of its event is banned or yet to come, and
\* after it all of them are; but for an event whose name could not be read.
BannedSoFar ==
    /\ pc \in {"ban", "cancel"} /\ ~unnamed =>
          \A u \in NoShows(First(todo)) : u \in absent \/ Banned(u)
    /\ pc = "cancel" => Banned(First(absent))
    /\ pc = "rows" /\ ~unnamed => \A u \in NoShows(First(todo)) : Banned(u)

\* The reservations of an old event are deleted only when all who stayed away
\* are banned, whatever interrupted this or an earlier round and whichever statement
\* failed, that which reads the name of the event excepted.
THEOREM BansComeFirst == Spec => AbsentBannedFirst
<1>1. Init => BannedSoFar
  BY DEF Init, BannedSoFar
<1>2. TypeOK /\ BannedSoFar /\ [Next]_vars => BannedSoFar'
  <2> SUFFICES ASSUME TypeOK, BannedSoFar, [Next]_vars PROVE BannedSoFar'
    OBVIOUS
  <2> USE DEF tables, Works, Fails, Abort, Proceed, Following
  <2>1. ASSUME pc' \notin {"ban", "cancel", "rows"} PROVE BannedSoFar'
    BY <2>1 DEF BannedSoFar
  <2>2. ASSUME NEW u \in Users, NEW e \in Events,
               SignUp(u, e) \/ Cancel(u, e) \/ ConfirmPresence(u, e)
        PROVE  BannedSoFar'
    BY <2>2, <2>1 DEF SignUp, Cancel, ConfirmPresence, Unlocked, Idle
  <2>3. ASSUME NEW u \in Users, BanElsewhere(u) \/ Unban(u) PROVE BannedSoFar'
    BY <2>3, <2>1 DEF BanElsewhere, Unban, Unlocked, Idle
  <2>4. CASE Reserve \/ Day \/ MailFails \/ Wake \/ DeleteReservations \/ DeleteRow
             \/ AgeBlackList \/ Expire \/ Restart
    <3>1. pc' \notin {"ban", "cancel", "rows"}
      BY <2>4 DEF Reserve, Day, Unlocked, Idle, MailFails, Wake, DeleteReservations,
                  DeleteRow, AgeBlackList, Expire, Restart
    <3> QED BY <3>1, <2>1
  <2>5. CASE NextEvent
    <3>1. CASE pc' = "ban"
      <4>1. /\ unnamed' \/ absent' = NoShows(First(todo))
            /\ UNCHANGED <<todo, rows, presence>>
        BY <2>5, <3>1 DEF NextEvent
      <4>2. NoShows(First(todo))' = NoShows(First(todo))
        BY <4>1 DEF NoShows, Holders
      <4> QED BY <3>1, <4>1, <4>2 DEF BannedSoFar
    <3> QED BY <2>5, <2>1, <3>1 DEF NextEvent
  <2>6. CASE BanNext
    <3>1. UNCHANGED <<rows, presence, unnamed>>
      BY <2>6 DEF BanNext
    <3>2. NoShows(First(todo))' = NoShows(First(todo)') /\ \A e : NoShows(e)' = NoShows(e)
      BY <3>1 DEF NoShows, Holders
    <3>3. CASE absent = {} /\ pc' = "rows" /\ UNCHANGED <<bans, todo>>
      BY <2>6, <3>2, <3>3 DEF BanNext, BannedSoFar, Banned
    <3>4. CASE /\ absent # {} /\ UNCHANGED todo
               /\ bans' = [bans EXCEPT ![First(absent)] = 0]
               /\ \/ pc' = "cancel" /\ absent' = absent
                  \/ pc' = "ban" /\ absent' = absent \ {First(absent)}
      <4>1. First(absent) \in Users
        BY <3>4, Firsts
      <4>2. \A u \in Users : Banned(u) \/ u = First(absent) => Banned(u)'
        BY <3>4, <4>1 DEF TypeOK, Banned, Free
      <4>3. NoShows(First(todo)) \subseteq Users
        BY DEF NoShows, Holders
      <4>4. ~unnamed => \A u \in NoShows(First(todo)) : u \in absent \/ Banned(u)
        BY <2>6 DEF BanNext, BannedSoFar
      <4>5. NoShows(First(todo))' = NoShows(First(todo))
        BY <3>1, <3>4 DEF NoShows, Holders
      <4>6. ~unnamed => \A u \in NoShows(First(todo))' : u \in absent' \/ Banned(u)'
        BY <3>4, <4>2, <4>3, <4>4, <4>5
      <4>7. pc' = "cancel" => Banned(First(absent))'
        <5>1. pc' = "cancel" => First(absent)' = First(absent)
          BY <3>4
        <5>2. pc' = "cancel" => bans'[First(absent)'] # Free
          BY <4>1, <4>2, <5>1 DEF Banned
        <5> QED BY <5>2 DEF Banned
      <4> QED BY <3>1, <3>4, <4>6, <4>7 DEF BannedSoFar
    <3>5. CASE pc' = "age"
      BY <3>5, <2>1
    <3> QED BY <2>6, <3>3, <3>4, <3>5 DEF BanNext
  <2>7. CASE CancelRows
    <3>1. /\ rows' \subseteq rows /\ UNCHANGED <<presence, bans, todo, unnamed>>
          /\ pc' = "ban" /\ absent' = absent \ {First(absent)}
      BY <2>7 DEF CancelRows
    <3>2. NoShows(First(todo))' \subseteq NoShows(First(todo))
      BY <3>1 DEF NoShows, Holders
    <3>3. /\ Banned(First(absent))
          /\ ~unnamed => \A u \in NoShows(First(todo)) : u \in absent \/ Banned(u)
      BY <2>7 DEF CancelRows, BannedSoFar
    <3>4. \A u : Banned(u)' = Banned(u)
      BY <3>1 DEF Banned
    <3>5. ~unnamed => \A u \in NoShows(First(todo))' : u \in absent' \/ Banned(u)'
      BY <3>1, <3>2, <3>3, <3>4
    <3> QED BY <3>1, <3>5 DEF BannedSoFar
  <2>8. CASE UNCHANGED vars
    BY <2>8 DEF vars, BannedSoFar, NoShows, Holders, Banned
  <2> QED BY <2>2, <2>3, <2>4, <2>5, <2>6, <2>7, <2>8 DEF Next, TaskStep
<1>3. BannedSoFar =>
        [DeleteReservations => unnamed \/ \A u \in NoShows(First(todo)) : Banned(u)]_vars
  BY DEF DeleteReservations, BannedSoFar
<1> QED BY <1>1, <1>2, <1>3, HousekeepingTypeCorrect, PTL DEF Spec, AbsentBannedFirst

-----------------------------------------------------------------------------
(* What a round achieves *)

Loop == {"next", "ban", "cancel", "rows", "event"}

\* While no statement has failed, the loop still has all old events before it.
AllToDo == ~failed /\ pc \in Loop => \A e \in Events : stage[e] = "old" => e \in todo

\* Whoever is still to be banned stayed away from the event at hand.
StillAbsent == pc \in {"ban", "cancel"} => absent \subseteq NoShows(First(todo))

\* The loop neither begins nor goes on.
Outside == pc' \notin Loop /\ pc' \in {pc, "sleep", "ended"}

\* Nothing that others do touches an event at hand.
LEMMA OthersOutsideLoop ==
    ASSUME [Next]_vars, ~TaskStep
    PROVE  Outside \/ UNCHANGED vars
<1> USE DEF Outside, Loop, Idle, Unlocked
<1>1. ASSUME NEW u \in Users, NEW e \in Events,
             SignUp(u, e) \/ Cancel(u, e) \/ ConfirmPresence(u, e)
      PROVE  Outside
  BY <1>1 DEF SignUp, Cancel, ConfirmPresence
<1>2. ASSUME NEW u \in Users, BanElsewhere(u) \/ Unban(u) PROVE Outside
  BY <1>2 DEF BanElsewhere, Unban
<1>3. Reserve \/ Day \/ MailFails \/ Restart => Outside
  BY DEF Reserve, Day, MailFails, Restart
<1> QED BY <1>1, <1>2, <1>3 DEF Next

\* The list of the events to delete is complete, and the list of those to ban
\* stays right while the bans, with their cancellations, go on.
LEMMA RoundInvariant == Spec => [](AllToDo /\ StillAbsent)
<1>1. Init => AllToDo /\ StillAbsent
  BY DEF Init, AllToDo, StillAbsent, Loop
<1>2. TypeOK /\ AllToDo /\ StillAbsent /\ [Next]_vars => AllToDo' /\ StillAbsent'
  <2> SUFFICES ASSUME TypeOK, AllToDo, StillAbsent, [Next]_vars
               PROVE  AllToDo' /\ StillAbsent'
    OBVIOUS
  <2> USE DEF tables, Works, Fails, Abort, Proceed, Following
  <2>1. CASE ~TaskStep
    <3>1. CASE pc' \notin Loop
      BY <3>1 DEF AllToDo, StillAbsent, Loop
    <3>2. CASE UNCHANGED vars
      BY <3>2 DEF AllToDo, StillAbsent, vars, NoShows, Holders
    <3> QED BY <2>1, <3>1, <3>2, OthersOutsideLoop DEF Outside
  <2>2. ASSUME pc' \notin {"ban", "cancel"} PROVE StillAbsent'
    BY <2>2 DEF StillAbsent
  <2>3. ASSUME pc \in Loop, UNCHANGED <<stage, todo>>, failed' = FALSE => failed = FALSE
        PROVE  AllToDo'
    BY <2>3 DEF AllToDo, TypeOK
  <2>4. CASE Wake
    BY <2>2, <2>4 DEF Wake, AllToDo, Loop
  <2>5. CASE NextEvent
    <3>1. CASE pc' = "ban"
      <4>1. /\ absent' \subseteq NoShows(First(todo)) /\ pc = "next"
            /\ UNCHANGED <<stage, todo, rows, presence>> /\ (failed' = FALSE => failed = FALSE)
        BY <2>5, <3>1 DEF NextEvent, TypeOK
      <4>2. NoShows(First(todo))' = NoShows(First(todo))
        BY <4>1 DEF NoShows, Holders
      <4> QED BY <2>3, <4>1, <4>2 DEF StillAbsent, Loop
    <3>2. CASE pc' = "age"
      BY <2>2, <3>2 DEF AllToDo, Loop
    <3> QED BY <2>5, <3>1, <3>2 DEF NextEvent
  <2>6. CASE BanNext
    <3>1. pc = "ban" /\ UNCHANGED <<stage, rows, presence>>
      BY <2>6 DEF BanNext
    <3>2. CASE pc' = "age"
      BY <2>2, <3>2 DEF AllToDo, Loop
    <3>3. CASE absent' \subseteq absent /\ UNCHANGED <<todo, failed>>
      <4>1. NoShows(First(todo))' = NoShows(First(todo))
        BY <3>1, <3>3 DEF NoShows, Holders
      <4> QED BY <2>3, <3>1, <3>3, <4>1 DEF StillAbsent, Loop
    <3> QED BY <2>6, <3>2, <3>3 DEF BanNext
  <2>7. CASE CancelRows
    <3>1. /\ pc = "cancel" /\ pc' = "ban" /\ UNCHANGED <<stage, todo, presence>>
          /\ absent' = absent \ {First(absent)}
          /\ failed' = FALSE => failed = FALSE
          /\ rows' = rows \/ rows' = {r \in rows : r[2] # First(absent)}
      BY <2>7 DEF CancelRows, TypeOK
    <3>2. absent \subseteq NoShows(First(todo)) /\ First(absent) \in absent
      BY <3>1, Firsts DEF StillAbsent, TypeOK
    <3> DEFINE e == First(todo)
               v == First(absent)
    <3>3. PICK w \in Users : <<e, w>> \in rows /\ <<e, w>> \in presence /\ AutoBlacklist
      BY <3>2 DEF NoShows, Holders
    <3>4. <<e, v>> \notin presence
      BY <3>2 DEF NoShows
    <3>5. w # v
      BY <3>3, <3>4
    <3>6. <<e, w>> \in rows'
      BY <3>1, <3>3, <3>5
    <3>7. ASSUME NEW u \in absent' PROVE u \in NoShows(e)'
      <4>1. u \in NoShows(e) /\ u # v
        BY <3>1, <3>2
      <4>2. u \in Users /\ u \notin Admins /\ <<e, u>> \in rows /\ <<e, u>> \notin presence
        BY <4>1 DEF NoShows, Holders
      <4>3. <<e, u>> \in rows'
        BY <3>1, <4>1, <4>2
      <4>4. e' = e
        BY <3>1
      <4> HIDE DEF e, v
      <4> QED BY <3>1, <3>3, <3>6, <4>2, <4>3, <4>4 DEF NoShows, Holders
    <3> QED BY <2>3, <3>1, <3>7 DEF StillAbsent, Loop
  <2>8. CASE DeleteReservations
    BY <2>2, <2>3, <2>8 DEF DeleteReservations, Loop, TypeOK
  <2>9. CASE DeleteRow
    <3>1. StillAbsent'
      BY <2>2, <2>9 DEF DeleteRow
    <3>2. ASSUME ~failed', NEW x \in Events, stage'[x] = "old" PROVE x \in todo'
      <4>1. ~failed /\ pc = "event" /\ todo' = todo \ {First(todo)}
            /\ stage' = [stage EXCEPT ![First(todo)] = "gone"]
        BY <2>9, <3>2 DEF DeleteRow
      <4>2. x # First(todo) /\ stage[x] = "old"
        BY <3>2, <4>1 DEF TypeOK
      <4> QED BY <4>1, <4>2 DEF AllToDo, Loop
    <3> QED BY <3>1, <3>2 DEF AllToDo
  <2>10. CASE AgeBlackList \/ Expire
    BY <2>2, <2>10 DEF AgeBlackList, Expire, AllToDo, Loop
  <2> QED BY <2>1, <2>4, <2>5, <2>6, <2>7, <2>8, <2>9, <2>10 DEF TaskStep
<1> QED BY <1>1, <1>2, HousekeepingTypeCorrect, PTL DEF Spec

\* When the loop is over, either no old event is left, or it has stopped at one
\* of whose no-shows a ban is there already.
LoopLeaves ==
    [][pc' = "age" /\ pc \in Loop /\ ~failed' =>
        \/ \A e \in Events : stage'[e] # "old"
        \/ \E u \in NoShows(First(todo)) : Banned(u)]_vars

\* clear_old_events drops every old event in one round: while no statement fails,
\* nothing but a no-show who is banned already can keep one.  This is what
\* OldEventsGo rests on, with the end of that ban.
THEOREM RoundDropsAll == Spec => LoopLeaves
<1>1. TypeOK /\ AllToDo /\ StillAbsent /\ [Next]_vars =>
        [pc' = "age" /\ pc \in Loop /\ ~failed' =>
          \/ \A e \in Events : stage'[e] # "old"
          \/ \E u \in NoShows(First(todo)) : Banned(u)]_vars
  <2> SUFFICES ASSUME TypeOK, AllToDo, StillAbsent, [Next]_vars,
                      pc \in Loop, pc' = "age", ~failed'
               PROVE  \/ \A e \in Events : stage'[e] # "old"
                      \/ \E u \in NoShows(First(todo)) : Banned(u)
    OBVIOUS
  <2> USE DEF tables, Works, Fails, Abort, Proceed, Following
  <2>1. CASE NextEvent
    BY <2>1 DEF NextEvent, AllToDo
  <2>2. CASE BanNext
    <3>1. pc = "ban" /\ absent # {}
      BY <2>2 DEF BanNext
    <3>2. Banned(First(absent)) \/ Fails
      BY <2>2 DEF BanNext
    <3>3. Banned(First(absent))
      BY <3>2
    <3>4. First(absent) \in NoShows(First(todo))
      BY <3>1, Firsts DEF StillAbsent
    <3> QED BY <3>3, <3>4
  <2>3. TaskStep
    BY OthersOutsideLoop DEF Outside, Loop, vars
  <2> QED BY <2>1, <2>2, <2>3
          DEF TaskStep, Wake, CancelRows, DeleteReservations, DeleteRow, AgeBlackList, Expire, Loop
<1> QED BY <1>1, HousekeepingTypeCorrect, RoundInvariant, PTL DEF Spec, LoopLeaves

\* A ban that the task inserts is of somebody who holds a seat of the event at
\* hand and was not ticked off, while somebody else was.
OnlyNoShows ==
    [][\A u \in Users : BanNext /\ ~Banned(u) /\ Banned(u)' => u \in NoShows(First(todo))]_vars

\* blacklist_absent_participants punishes nobody else, though its list is made
\* before the first ban, and each ban cancels reservations on the way.
THEOREM NobodyElseBanned == Spec => OnlyNoShows
<1>1. TypeOK /\ StillAbsent =>
        [\A u \in Users : BanNext /\ ~Banned(u) /\ Banned(u)' => u \in NoShows(First(todo))]_vars
  <2> SUFFICES ASSUME TypeOK, StillAbsent, NEW u \in Users, BanNext, ~Banned(u), Banned(u)'
               PROVE  u \in NoShows(First(todo))
    OBVIOUS
  <2>1. bans'[u] # bans[u]
    BY DEF Banned
  <2>2. absent # {} /\ bans' = [bans EXCEPT ![First(absent)] = 0] /\ pc = "ban"
    BY <2>1 DEF BanNext
  <2>3. u = First(absent)
    BY <2>1, <2>2 DEF TypeOK
  <2> QED BY <2>2, <2>3, Firsts DEF StillAbsent
<1> QED BY <1>1, HousekeepingTypeCorrect, RoundInvariant, PTL DEF Spec, OnlyNoShows
=============================================================================
