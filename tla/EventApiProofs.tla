--------------------------- MODULE EventApiProofs ---------------------------
(***************************************************************************)
(* What holds of overlapping descriptions of events, for any requests,     *)
(* descriptions and numbers of events and failures.                        *)
(***************************************************************************)
EXTENDS EventApi, WellFoundedInduction, TLAPS

-----------------------------------------------------------------------------
(* Types *)

\* A description that was entered is a row.
LEMMA DraftsAreRows == ASSUME NEW d \in Drafts PROVE d \in EventRow
<1>1. d.name \in Names
  BY DEF Names
<1> QED BY <1>1, DraftsAssumption DEF EventRow

\* Filling in the columns that were not entered gives a row.
LEMMA EnteredIsRow ==
    ASSUME NEW patch \in Patches, NEW row \in EventRow
    PROVE  Entered(patch, row) \in EventRow
<1>1. Column("name", patch, row) \in Names
  BY DEF Column, Names, EventRow
<1>2. \A c \in {"max", "per", "price"} : c \in DOMAIN patch => patch[c] \in Nat
  BY DraftsAssumption
<1>3. /\ Column("max", patch, row) \in Nat
      /\ Column("per", patch, row) \in Nat
      /\ Column("price", patch, row) \in Nat
  BY <1>2 DEF Column, EventRow
<1> QED BY <1>1, <1>3 DEF Entered, EventRow

\* The oldest of the namesakes is one of them: ids are numbers.
LEMMA FoundIn ==
    ASSUME TypeOK, NEW r \in Requests, Namesakes(r) # {}
    PROVE  Found(r) \in Namesakes(r)
<1>1. Namesakes(r) \subseteq Nat
  BY BoundsAssumption DEF TypeOK, Namesakes, Live
<1>2. PICK x \in Namesakes(r) : \A y \in Namesakes(r) : ~ (<<y, x>> \in OpToRel(<, Nat))
  BY <1>1, WFMin, NatLessThanWellFounded
<1>3. ASSUME NEW y \in Namesakes(r) PROVE x <= y
  <2>1. x \in Nat /\ y \in Nat
    BY <1>1
  <2>2. y < x => <<y, x>> \in OpToRel(<, Nat)
    BY <2>1 DEF OpToRel
  <2>3. ~(y < x)
    BY <1>2, <2>2, Zenon
  <2> QED BY <2>1, <2>3
<1> QED BY <1>3 DEF Found

\* Every variable keeps its type; a request that is about to queue a reminder
\* is not for an announcement.
THEOREM ApiTypeCorrect == Spec => []TypeOK
<1> USE BoundsAssumption DEF TypeOK, Live, Stages
<1>1. Init => TypeOK
  BY DEF Init, New, Request
<1>2. TypeOK /\ [Next]_vars => TypeOK'
  <2> SUFFICES ASSUME TypeOK, [Next]_vars PROVE TypeOK'
    OBVIOUS
  <2> USE DEF Goto
  <2>1. ASSUME NEW r \in Requests, Create(r) PROVE TypeOK'
    <3>1. PICK row \in Drafts, http \in BOOLEAN :
            /\ events' = [e \in Live \cup {lastId'} |-> IF e = lastId' THEN row ELSE events[e]]
            /\ requests' = [requests EXCEPT ![r] =
                  [stage |-> "looking", id |-> lastId', http |-> http, patch |-> Nothing, row |-> row]]
            /\ steady' = IF Announcement(row) THEN steady ELSE steady \cup {lastId'}
      BY <2>1 DEF Create
    <3>2. lastId' = lastId + 1 /\ lastId < MaxEvents /\ UNCHANGED <<reminders, faults>>
      BY <2>1 DEF Create
    <3>3. row \in EventRow
      BY DraftsAreRows
    <3>4. DOMAIN events' \subseteq 1..lastId' /\ events' \in [DOMAIN events' -> EventRow]
      BY <3>1, <3>2, <3>3
    <3>5. requests' \in [Requests -> Request]
      BY <3>1, <3>2, <3>3 DEF Request
    <3>6. requests'[r].stage = "looking" /\ requests'[r].row \in EventRow
          /\ requests'[r].id \in 1..lastId'
      BY <3>1, <3>2, <3>3
    <3>7. \A q \in Requests \ {r} : requests'[q] = requests[q]
      BY <3>1
    <3>8. steady' \subseteq 1..lastId' /\ alone' \subseteq Requests
      BY <2>1, <3>1, <3>2 DEF Create, Begin
    <3> QED BY <3>2, <3>4, <3>5, <3>6, <3>7, <3>8
  <2>2. ASSUME NEW r \in Requests, LookUp(r) PROVE TypeOK'
    <3> DEFINE id == IF Namesakes(r) = {} THEN 0 ELSE Found(r)
    <3>1. requests' = [requests EXCEPT
                  ![r].id = IF id = 0 THEN @ ELSE id,
                  ![r].stage = IF id = 0 \/ Announcement(requests[r].row) THEN "done" ELSE "cleared"]
      BY <2>2 DEF LookUp
    <3>2. id = 0 \/ id \in 1..lastId
      BY FoundIn DEF Namesakes
    <3> DEFINE i == IF id = 0 THEN requests[r].id ELSE id
               stage == IF id = 0 \/ Announcement(requests[r].row) THEN "done" ELSE "cleared"
               rec == [requests[r] EXCEPT !.id = i, !.stage = stage]
    <3>6. requests[r] \in Request /\ i \in Nat /\ stage \in Stages
      BY <3>2 DEF Request
    <3>7. rec \in Request
      BY <3>6 DEF Request
    <3>8. requests' = [requests EXCEPT ![r] = rec]
      BY <3>1
    <3> HIDE DEF rec
    <3>3. requests' \in [Requests -> Request] /\ \A q \in Requests \ {r} : requests'[q] = requests[q]
      BY <3>7, <3>8
    <3>4. /\ requests'[r].stage \in {"done", "cleared"} /\ requests'[r].row = requests[r].row
          /\ requests[r].row \in EventRow /\ requests[r].id \in 1..lastId
          /\ requests'[r].id \in 1..lastId
          /\ requests'[r].stage = "cleared" =>
                requests[r].row.price # 0 \/ requests[r].row.max # 0
      BY <2>2, <3>1, <3>2 DEF LookUp, Request, Announcement
    <3>5. UNCHANGED <<events, lastId, reminders, faults, alone>> /\ steady' \subseteq steady
      BY <2>2 DEF LookUp
    <3> QED BY <3>3, <3>4, <3>5
  <2>3. ASSUME NEW r \in Requests, NEW e \in 1..lastId, Read(r, e) PROVE TypeOK'
    <3>1. PICK patch \in Patches :
            requests' = [requests EXCEPT ![r] =
                  [stage |-> "read", id |-> e, http |-> TRUE, patch |-> patch,
                   row |-> [Entered(patch, events[e]) EXCEPT !.price = events[e].price]]]
      BY <2>3 DEF Read
    <3>2. events[e] \in EventRow
      BY <2>3 DEF Read
    <3>3. [Entered(patch, events[e]) EXCEPT !.price = events[e].price] \in EventRow
      BY <3>2, EnteredIsRow DEF EventRow
    <3>4. requests' \in [Requests -> Request] /\ \A q \in Requests \ {r} : requests'[q] = requests[q]
      BY <3>1, <3>3 DEF Request
    <3>5. requests'[r].stage = "read" /\ requests'[r].id = e /\ requests'[r].row \in EventRow
      BY <3>1, <3>3
    <3>6. UNCHANGED <<events, lastId, reminders, faults, steady>> /\ alone' \subseteq Requests
      BY <2>3 DEF Read, Begin
    <3> QED BY <3>4, <3>5, <3>6
  <2>4. ASSUME NEW r \in Requests, NEW e \in 1..lastId, Enter(r, e) PROVE TypeOK'
    <3>1. PICK row \in Drafts :
            requests' = [requests EXCEPT ![r] =
              [stage |-> "read", id |-> e, http |-> FALSE, patch |-> row, row |-> row]]
      BY <2>4 DEF Enter
    <3>2. row \in EventRow
      BY DraftsAreRows
    <3>3. requests' \in [Requests -> Request] /\ \A q \in Requests \ {r} : requests'[q] = requests[q]
      BY <3>1, <3>2 DEF Request
    <3>4. requests'[r].stage = "read" /\ requests'[r].id = e /\ requests'[r].row \in EventRow
      BY <3>1, <3>2
    <3>5. UNCHANGED <<events, lastId, reminders, faults, steady>> /\ alone' \subseteq Requests
      BY <2>4 DEF Enter, Begin
    <3> QED BY <3>3, <3>4, <3>5
  <2>5. ASSUME NEW r \in Requests, NEW stage \in Stages, Goto(r, stage)
        PROVE  /\ requests' \in [Requests -> Request]
               /\ \A q \in Requests \ {r} : requests'[q] = requests[q]
               /\ requests'[r].stage = stage /\ requests'[r].row = requests[r].row
               /\ requests'[r].id = requests[r].id
    BY <2>5 DEF Request
  <2> HIDE DEF Goto
  <2>6. ASSUME NEW r \in Requests, Write(r) PROVE TypeOK'
    <3>1. requests[r].row \in EventRow /\ requests[r].id \in 1..lastId
      BY <2>6 DEF Write
    <3>2. requests[r].id \in Live => Written(r) \in EventRow
      BY <3>1 DEF Written, EventRow
    <3>3. DOMAIN events' = Live /\ events' \in [Live -> EventRow]
      BY <2>6, <3>2 DEF Write
    <3>4. UNCHANGED <<lastId, reminders, faults, alone>> /\ steady' \subseteq steady
          /\ Goto(r, "written")
      BY <2>6 DEF Write
    <3> QED BY <2>5, <3>1, <3>3, <3>4
  <2>7. ASSUME NEW r \in Requests, Clear(r) PROVE TypeOK'
    <3>1. requests[r].row \in EventRow /\ requests[r].id \in 1..lastId
      BY <2>7 DEF Clear
    <3>2. Goto(r, IF Announcement(requests[r].row) THEN "done" ELSE "cleared")
          /\ reminders' \subseteq reminders
          /\ UNCHANGED <<events, lastId, faults, steady, alone>>
      BY <2>7 DEF Clear, Cleared
    <3> QED BY <2>5, <3>1, <3>2 DEF Announcement
  <2>8. ASSUME NEW r \in Requests, Enqueue(r) PROVE TypeOK'
    <3>1. requests[r].row \in EventRow /\ requests[r].id \in 1..lastId
      BY <2>8 DEF Enqueue
    <3>2. Goto(r, "done") /\ UNCHANGED <<events, lastId, faults, steady, alone>>
          /\ \A m \in reminders' : m.by \in Requests /\ m.event \in 1..lastId
      BY <2>8, <3>1 DEF Enqueue, Queued
    <3> QED BY <2>5, <3>1, <3>2
  <2>9. ASSUME NEW r \in Requests, Fail(r) PROVE TypeOK'
    <3>1. Goto(r, "done") /\ UNCHANGED <<events, lastId, reminders, alone>>
          /\ steady' \subseteq steady /\ faults' \in 0..MaxFaults
      BY <2>9 DEF Fail
    <3> QED BY <2>5, <3>1
  <2>10. ASSUME NEW e \in Live, DeleteEvent(e) PROVE TypeOK'
    BY <2>10 DEF DeleteEvent
  <2>11. ASSUME NEW e \in Live, NEW d \in Drafts, SetEventLimits(e, d.max) PROVE TypeOK'
    <3>1. d.max \in Nat
      BY DraftsAssumption
    <3>2. events' \in [Live -> EventRow] /\ DOMAIN events' = Live
      BY <2>11, <3>1 DEF SetEventLimits, EventRow
    <3> QED BY <2>11, <3>2 DEF SetEventLimits
  <2>12. CASE UNCHANGED vars
    BY <2>12 DEF vars
  <2> QED BY <2>1, <2>2, <2>3, <2>4, <2>6, <2>7, <2>8, <2>9, <2>10, <2>11, <2>12 DEF Next
<1> QED BY <1>1, <1>2, PTL DEF Spec

\* A request that only moves on keeps what it has read.
LEMMA GotoKeeps ==
    ASSUME TypeOK, NEW r \in Requests, NEW stage, Goto(r, stage)
    PROVE  /\ \A q \in Requests \ {r} : requests'[q] = requests[q]
           /\ requests'[r].stage = stage /\ requests'[r].id = requests[r].id
           /\ requests'[r].row = requests[r].row /\ requests'[r].patch = requests[r].patch
           /\ requests'[r].http = requests[r].http
BY DEF Goto, TypeOK, Request

-----------------------------------------------------------------------------
(* Reminders *)

\* A request is about to queue a reminder of e.
InFlight(e) ==
    \E r \in Requests : requests[r].id = e /\ requests[r].stage \in {"looking", "cleared"}

\* An event has a reminder or will get one, and no request that may yet turn
\* out to want none for it is under way.
Covered ==
    /\ \A e \in steady \cap Live : (\E m \in reminders : m.event = e) \/ InFlight(e)
    /\ \A r \in Requests :
          requests[r].stage \in {"looking", "written"} /\ requests[r].id \in steady
          => ~Announcement(requests[r].row)

\* A step that takes no reminder and no event, and whose request stays about to
\* queue what it was about to.
LEMMA StaysCovered ==
    ASSUME TypeOK, Covered, NEW r \in Requests,
           \A q \in Requests \ {r} : requests'[q] = requests[q],
           steady' \subseteq steady, DOMAIN events' \subseteq Live,
           reminders \subseteq reminders',
           requests[r].stage \in {"looking", "cleared"} /\ requests[r].id \in steady'
              => \/ requests'[r].stage \in {"looking", "cleared"} /\ requests'[r].id = requests[r].id
                 \/ \E m \in reminders' : m.event = requests[r].id,
           requests'[r].stage \in {"looking", "written"} /\ requests'[r].id \in steady'
              => ~Announcement(requests'[r].row)
    PROVE  Covered'
<1>1. ASSUME NEW e \in steady' \cap Live'
      PROVE  (\E m \in reminders' : m.event = e) \/ InFlight(e)'
  <2>1. e \in steady \cap Live
    BY DEF Live
  <2>2. CASE \E m \in reminders : m.event = e
    BY <2>2
  <2>3. CASE InFlight(e)
    <3>1. PICK q \in Requests : requests[q].id = e /\ requests[q].stage \in {"looking", "cleared"}
      BY <2>3 DEF InFlight
    <3>2. CASE q = r
      BY <3>1, <3>2 DEF InFlight
    <3>3. CASE q # r
      BY <3>1, <3>3 DEF InFlight
    <3> QED BY <3>2, <3>3
  <2> QED BY <2>1, <2>2, <2>3 DEF Covered
<1>2. ASSUME NEW q \in Requests, requests'[q].stage \in {"looking", "written"},
             requests'[q].id \in steady'
      PROVE  ~Announcement(requests'[q].row)
  BY <1>2 DEF Covered
<1> QED BY <1>1, <1>2 DEF Covered

\* An event that is no announcement from the first has a reminder whenever no request
\* is busy with it, however requests overlapped, unless one of them failed or
\* the event was taken for an older one of the same name.
THEOREM AlwaysReminded == Spec => []Reminded
<1>1. Init => Covered
  BY DEF Init, Covered, Live, New
<1>2. TypeOK /\ Covered /\ [Next]_vars => Covered'
  <2> SUFFICES ASSUME TypeOK, Covered, [Next]_vars PROVE Covered'
    OBVIOUS
  <2>1. ASSUME NEW r \in Requests, Create(r) PROVE Covered'
    <3>1. PICK row \in Drafts, http \in BOOLEAN :
            /\ events' = [e \in Live \cup {lastId'} |-> IF e = lastId' THEN row ELSE events[e]]
            /\ requests' = [requests EXCEPT ![r] =
                  [stage |-> "looking", id |-> lastId', http |-> http, patch |-> Nothing, row |-> row]]
            /\ steady' = IF Announcement(row) THEN steady ELSE steady \cup {lastId'}
      BY <2>1 DEF Create
    <3>2. lastId' = lastId + 1 /\ lastId \in Nat /\ reminders' = reminders
          /\ requests[r].stage = "new"
      BY <2>1, BoundsAssumption DEF Create, TypeOK
    <3>3. lastId' \notin steady /\ Live' = Live \cup {lastId'}
      BY <3>1, <3>2 DEF TypeOK, Live
    <3>4. \A q \in Requests \ {r} : requests'[q] = requests[q]
      BY <3>1 DEF TypeOK
    <3>5. /\ requests'[r].stage = "looking" /\ requests'[r].id = lastId'
          /\ requests'[r].row = row
      BY <3>1 DEF TypeOK
    <3>6. ASSUME NEW e \in steady' \cap Live'
          PROVE  (\E m \in reminders' : m.event = e) \/ InFlight(e)'
      <4>1. CASE e = lastId'
        BY <3>5, <4>1 DEF InFlight
      <4>2. CASE e # lastId'
        <5>1. e \in steady \cap Live
          BY <3>1, <3>3, <4>2
        <5>2. InFlight(e) => InFlight(e)'
          BY <3>2, <3>4 DEF InFlight
        <5> QED BY <3>2, <5>1, <5>2 DEF Covered
      <4> QED BY <4>1, <4>2
    <3>7. ASSUME NEW q \in Requests, requests'[q].stage \in {"looking", "written"},
                 requests'[q].id \in steady'
          PROVE  ~Announcement(requests'[q].row)
      <4>1. CASE q = r
        BY <3>1, <3>3, <3>5, <3>7, <4>1 DEF Announcement
      <4>2. CASE q # r
        <5>1. requests[q].id \in 1..lastId
          BY <3>4, <3>7, <4>2 DEF TypeOK
        <5>2. requests[q].id \in steady
          BY <3>1, <3>2, <3>4, <3>7, <4>2, <5>1
        <5> QED BY <3>4, <3>7, <4>2, <5>2 DEF Covered
      <4> QED BY <4>1, <4>2
    <3> QED BY <3>6, <3>7 DEF Covered
  <2>2. ASSUME NEW r \in Requests, LookUp(r) PROVE Covered'
    <3> DEFINE id == IF Namesakes(r) = {} THEN 0 ELSE Found(r)
               stage == IF id = 0 \/ Announcement(requests[r].row) THEN "done" ELSE "cleared"
    <3>1. /\ requests[r].stage = "looking"
          /\ requests' = [requests EXCEPT ![r].id = IF id = 0 THEN @ ELSE id, ![r].stage = stage]
          /\ steady' = IF id = requests[r].id THEN steady ELSE steady \ {requests[r].id}
          /\ UNCHANGED <<events, reminders>>
      BY <2>2 DEF LookUp
    <3>2. /\ \A q \in Requests \ {r} : requests'[q] = requests[q]
          /\ requests'[r].stage = stage
          /\ id # 0 => requests'[r].id = id
      BY <3>1 DEF TypeOK, Request
    <3>3. requests[r].id # 0
      BY <3>1 DEF TypeOK
    <3>4. ASSUME requests[r].id \in steady'
          PROVE  requests'[r].stage = "cleared" /\ requests'[r].id = requests[r].id
      <4>1. id = requests[r].id /\ requests[r].id \in steady
        BY <3>1, <3>4
      <4>2. ~Announcement(requests[r].row)
        BY <3>1, <4>1 DEF Covered
      <4> QED BY <3>2, <3>3, <4>1, <4>2 DEF Announcement
    <3>5. requests'[r].stage \notin {"looking", "written"} /\ steady' \subseteq steady
      BY <3>1, <3>2
    <3> HIDE DEF id, stage
    <3> QED BY <3>1, <3>2, <3>4, <3>5, StaysCovered DEF Live
  <2>3. ASSUME NEW r \in Requests, NEW e \in 1..lastId, Read(r, e) \/ Enter(r, e)
        PROVE  Covered'
    <3>1. /\ requests[r].stage = "new" /\ UNCHANGED <<events, reminders, steady>>
          /\ requests'[r].stage = "read"
          /\ \A q \in Requests \ {r} : requests'[q] = requests[q]
      BY <2>3 DEF Read, Enter, TypeOK
    <3> QED BY <3>1, StaysCovered DEF Live
  <2>4. ASSUME NEW r \in Requests, Write(r) PROVE Covered'
    <3>1. /\ requests[r].stage = "read" /\ UNCHANGED reminders /\ DOMAIN events' = Live
          /\ Goto(r, "written")
          /\ steady' = IF Announcement(requests[r].row) THEN steady \ {requests[r].id} ELSE steady
      BY <2>4 DEF Write, Live
    <3>2. requests[r].id \in steady' => ~Announcement(requests[r].row)
      BY <3>1 DEF Announcement
    <3>3. steady' \subseteq steady
      BY <3>1
    <3> QED BY <3>1, <3>2, <3>3, GotoKeeps, StaysCovered
  <2>5. ASSUME NEW r \in Requests, Clear(r) PROVE Covered'
    <3> DEFINE stage == IF Announcement(requests[r].row) THEN "done" ELSE "cleared"
    <3>1. /\ requests[r].stage = "written" /\ Goto(r, stage)
          /\ reminders' = {m \in reminders : m.event # requests[r].id}
          /\ UNCHANGED <<events, steady>>
      BY <2>5 DEF Clear, Cleared
    <3>2. /\ \A q \in Requests \ {r} : requests'[q] = requests[q]
          /\ requests'[r].stage = stage /\ requests'[r].id = requests[r].id
      BY <3>1, GotoKeeps
    <3>3. ASSUME NEW e \in steady' \cap Live'
          PROVE  (\E m \in reminders' : m.event = e) \/ InFlight(e)'
      <4>1. CASE e = requests[r].id
        <5>1. ~Announcement(requests[r].row)
          BY <3>1, <4>1 DEF Covered
        <5> QED BY <3>2, <4>1, <5>1 DEF InFlight, Announcement
      <4>2. CASE e # requests[r].id
        <5>1. e \in steady \cap Live
          BY <3>1 DEF Live
        <5>2. InFlight(e) => InFlight(e)'
          BY <3>1, <3>2 DEF InFlight
        <5> QED BY <3>1, <4>2, <5>1, <5>2 DEF Covered
      <4> QED BY <4>1, <4>2
    <3>4. ASSUME NEW q \in Requests, requests'[q].stage \in {"looking", "written"},
                 requests'[q].id \in steady'
          PROVE  ~Announcement(requests'[q].row)
      BY <3>1, <3>2, <3>4 DEF Covered
    <3> QED BY <3>3, <3>4 DEF Covered
  <2>6. ASSUME NEW r \in Requests, Enqueue(r) PROVE Covered'
    <3> DEFINE new == [by |-> r, event |-> requests[r].id, name |-> requests[r].row.name]
    <3>1. /\ requests[r].stage = "cleared" /\ Goto(r, "done") /\ UNCHANGED <<events, steady>>
          /\ reminders' = reminders \cup {new}
      BY <2>6 DEF Enqueue, Queued
    <3>3. new.event = requests[r].id
      OBVIOUS
    <3> HIDE DEF new
    <3>2. reminders \subseteq reminders' /\ \E m \in reminders' : m.event = requests[r].id
      BY <3>1, <3>3
    <3> QED BY <3>1, <3>2, GotoKeeps, StaysCovered DEF Live
  <2>7. ASSUME NEW r \in Requests, Fail(r) PROVE Covered'
    <3>1. Goto(r, "done") /\ UNCHANGED <<events, reminders>> /\ steady' = steady \ {requests[r].id}
      BY <2>7 DEF Fail
    <3> QED BY <3>1, GotoKeeps, StaysCovered DEF Live
  <2>8. ASSUME NEW e \in Live, DeleteEvent(e) PROVE Covered'
    <3>1. /\ Live' = Live \ {e} /\ reminders' = {m \in reminders : m.event # e}
          /\ UNCHANGED <<requests, steady>>
      BY <2>8 DEF DeleteEvent, Live
    <3> QED BY <3>1 DEF Covered, InFlight
  <2>9. ASSUME NEW e \in Live, NEW d \in Drafts, SetEventLimits(e, d.max) PROVE Covered'
    <3>1. Live' = Live /\ UNCHANGED <<reminders, requests, steady>>
      BY <2>9 DEF SetEventLimits, Live
    <3> QED BY <3>1 DEF Covered, InFlight
  <2>10. CASE UNCHANGED vars
    BY <2>10 DEF vars, Covered, InFlight, Live
  <2> QED BY <2>1, <2>2, <2>3, <2>4, <2>5, <2>6, <2>7, <2>8, <2>9, <2>10 DEF Next
<1>3. Covered => Reminded
  BY DEF Covered, Reminded, InFlight, Busy
<1> QED BY <1>1, <1>2, <1>3, ApiTypeCorrect, PTL DEF Spec

-----------------------------------------------------------------------------
(* Rows *)

\* What the API is about to write has been checked.
Checked ==
    \A r \in Requests : requests[r].stage = "read" /\ requests[r].http
                        => requests[r].row.per <= requests[r].row.max

\* A row the API has written lets nobody book more than there is.
THEOREM WrittenLimitsFit == Spec => LimitsFit
<1>1. Init => Checked
  BY DEF Init, Checked, New
<1>2. TypeOK /\ Checked /\ [Next]_vars => Checked'
  <2> SUFFICES ASSUME TypeOK, Checked, [Next]_vars PROVE Checked'
    OBVIOUS
  <2>1. ASSUME NEW r \in Requests, NEW e \in 1..lastId, Read(r, e) PROVE Checked'
    <3>1. PICK patch \in Patches :
            /\ Valid(Entered(patch, events[e]))
            /\ requests' = [requests EXCEPT ![r] =
                  [stage |-> "read", id |-> e, http |-> TRUE, patch |-> patch,
                   row |-> [Entered(patch, events[e]) EXCEPT !.price = events[e].price]]]
      BY <2>1 DEF Read
    <3>2. \A q \in Requests \ {r} : requests'[q] = requests[q]
      BY <3>1 DEF TypeOK
    <3>3. requests'[r].row.per <= requests'[r].row.max
      BY <3>1 DEF Valid, Entered, TypeOK
    <3> QED BY <3>2, <3>3 DEF Checked
  <2>2. ASSUME NEW r \in Requests, \A q \in Requests \ {r} : requests'[q] = requests[q],
               requests'[r].stage # "read" \/ ~requests'[r].http
        PROVE  Checked'
    BY <2>2 DEF Checked
  <2>3. ASSUME NEW r \in Requests, NEW stage \in {"written", "cleared", "done"}, Goto(r, stage)
        PROVE  Checked'
    BY <2>3, <2>2, GotoKeeps
  <2>4. ASSUME NEW r \in Requests, Write(r) \/ Clear(r) \/ Enqueue(r) \/ Fail(r)
        PROVE  Checked'
    BY <2>4, <2>3 DEF Write, Clear, Enqueue, Fail
  <2>5. ASSUME NEW r \in Requests, Create(r) \/ LookUp(r) PROVE Checked'
    <3>1. /\ \A q \in Requests \ {r} : requests'[q] = requests[q]
          /\ requests'[r].stage # "read"
      BY <2>5 DEF Create, LookUp, TypeOK, Request
    <3> QED BY <3>1, <2>2
  <2>6. ASSUME NEW r \in Requests, NEW e \in 1..lastId, Enter(r, e) PROVE Checked'
    <3>1. /\ \A q \in Requests \ {r} : requests'[q] = requests[q]
          /\ ~requests'[r].http
      BY <2>6 DEF Enter, TypeOK
    <3> QED BY <3>1, <2>2
  <2>7. ASSUME UNCHANGED requests PROVE Checked'
    BY <2>7 DEF Checked
  <2> QED BY <2>1, <2>4, <2>5, <2>6, <2>7 DEF Next, DeleteEvent, SetEventLimits, vars
<1>3. TypeOK /\ Checked =>
        [\A r \in Requests :
            Write(r) /\ requests[r].http /\ requests[r].id \in Live
            => events'[requests[r].id].per <= events'[requests[r].id].max]_vars
  <2> SUFFICES ASSUME TypeOK, Checked, NEW r \in Requests, Write(r), requests[r].http,
                      requests[r].id \in Live
               PROVE  events'[requests[r].id].per <= events'[requests[r].id].max
    OBVIOUS
  <2>1. events'[requests[r].id] = Written(r)
    BY DEF Write, TypeOK, Live
  <2>2. requests[r].row \in EventRow /\ requests[r].row.per <= requests[r].row.max
    BY DEF Write, TypeOK, Checked
  <2> QED BY <2>1, <2>2 DEF Written, EventRow
<1> QED BY <1>1, <1>2, <1>3, ApiTypeCorrect, PTL DEF Spec, LimitsFit

-----------------------------------------------------------------------------
(* An edit on its own *)

\* No other request is under way while r, which no other has overlapped, is.
AloneBusy ==
    \A r \in alone : /\ requests[r].stage # "new"
                     /\ Busy(r) => \A s \in Requests : Busy(s) => s = r

\* Only an edit carries what was entered.
CreateHasNoPatch ==
    \A r \in Requests : requests[r].stage = "looking" => requests[r].patch = Nothing

\* What r has done so far: the row is written, the old reminders are gone.
Progress(r) ==
    /\ requests[r].stage \in {"written", "cleared"} /\ requests[r].id \in Live
          => events[requests[r].id].name = requests[r].row.name
    /\ requests[r].stage = "cleared" => \A m \in reminders : m.event # requests[r].id

AloneInv ==
    /\ AloneBusy
    /\ CreateHasNoPatch
    /\ \A r \in alone : requests[r].patch # Nothing => Progress(r)

\* A request starts.
LEMMA BeginAlone ==
    ASSUME TypeOK, AloneInv, NEW r \in Requests, requests[r].stage = "new", Begin(r),
           \A q \in Requests \ {r} : requests'[q] = requests[q],
           requests'[r].stage \in {"looking", "read"},
           requests'[r].stage = "looking" => requests'[r].patch = Nothing
    PROVE  AloneInv'
<1>1. r \notin alone
  BY DEF AloneInv, AloneBusy
<1>2. ASSUME NEW s \in alone', s # r
      PROVE  s \in alone /\ ~Busy(s) /\ requests[s].stage = "done" /\ requests'[s] = requests[s]
  BY <1>2, <1>1 DEF Begin, AloneInv, AloneBusy, Busy, TypeOK
<1>3. r \in alone' => \A s \in Requests : ~Busy(s)
  BY <1>1 DEF Begin
<1>4. AloneBusy'
  <2> SUFFICES ASSUME NEW s \in alone'
               PROVE  /\ requests'[s].stage # "new"
                      /\ Busy(s)' => \A q \in Requests : Busy(q)' => q = s
    BY DEF AloneBusy
  <2>1. CASE s = r
    BY <1>3, <2>1 DEF Busy
  <2>2. CASE s # r
    BY <1>2, <2>2 DEF Busy
  <2> QED BY <2>1, <2>2
<1>5. CreateHasNoPatch'
  BY DEF AloneInv, CreateHasNoPatch
<1>6. ASSUME NEW s \in alone' PROVE Progress(s)'
  BY <1>2 DEF Progress
<1> QED BY <1>4, <1>5, <1>6 DEF AloneInv

\* A request that is under way goes on.
LEMMA GoOnAlone ==
    ASSUME TypeOK, AloneInv, NEW r \in Requests, Busy(r), UNCHANGED alone,
           \A q \in Requests \ {r} : requests'[q] = requests[q],
           requests'[r].stage \notin {"new", "looking"},
           requests'[r].patch = requests[r].patch,
           r \in alone /\ requests[r].patch # Nothing => Progress(r)'
    PROVE  AloneInv'
<1>1. ASSUME NEW s \in alone, s # r
      PROVE  requests[s].stage = "done" /\ requests'[s] = requests[s]
  BY <1>1 DEF AloneInv, AloneBusy, Busy, TypeOK
<1>2. AloneBusy'
  <2> SUFFICES ASSUME NEW s \in alone
               PROVE  /\ requests'[s].stage # "new"
                      /\ Busy(s)' => \A q \in Requests : Busy(q)' => q = s
    BY DEF AloneBusy
  <2>1. CASE s = r
    BY <2>1 DEF AloneInv, AloneBusy, Busy
  <2>2. CASE s # r
    BY <1>1, <2>2 DEF Busy
  <2> QED BY <2>1, <2>2
<1>3. CreateHasNoPatch'
  BY DEF AloneInv, CreateHasNoPatch
<1>4. ASSUME NEW s \in alone, requests'[s].patch # Nothing PROVE Progress(s)'
  <2>1. CASE s = r
    BY <1>4, <2>1
  <2>2. CASE s # r
    BY <1>1, <2>2 DEF Progress
  <2> QED BY <2>1, <2>2
<1> QED BY <1>2, <1>3, <1>4 DEF AloneInv

\* An edit that no other overlaps leaves one reminder of its event and no other,
\* under the name the event has by then, whatever was queued before.
THEOREM LoneEditReplaces == Spec => EditReplacesReminder
<1>1. Init => AloneInv
  BY DEF Init, AloneInv, AloneBusy, CreateHasNoPatch, New
<1>2. TypeOK /\ AloneInv /\ [Next]_vars => AloneInv'
  <2> SUFFICES ASSUME TypeOK, AloneInv, [Next]_vars PROVE AloneInv'
    OBVIOUS
  <2>1. ASSUME NEW r \in Requests, Create(r) PROVE AloneInv'
    BY <2>1, BeginAlone DEF Create, TypeOK
  <2>2. ASSUME NEW r \in Requests, NEW e \in 1..lastId, Read(r, e) \/ Enter(r, e)
        PROVE  AloneInv'
    BY <2>2, BeginAlone DEF Read, Enter, TypeOK
  <2>3. ASSUME NEW r \in Requests, LookUp(r) PROVE AloneInv'
    <3>1. /\ requests[r].stage = "looking" /\ UNCHANGED alone
          /\ \A q \in Requests \ {r} : requests'[q] = requests[q]
          /\ requests'[r].stage \in {"done", "cleared"}
          /\ requests'[r].patch = requests[r].patch
      BY <2>3 DEF LookUp, TypeOK, Request
    <3>2. requests[r].patch = Nothing
      BY <3>1 DEF AloneInv, CreateHasNoPatch
    <3> QED BY <3>1, <3>2, GoOnAlone DEF Busy
  <2>4. ASSUME NEW r \in Requests, Write(r) PROVE AloneInv'
    <3>1. /\ requests[r].stage = "read" /\ Goto(r, "written") /\ UNCHANGED <<reminders, alone>>
          /\ events' = IF requests[r].id \in Live
                       THEN [events EXCEPT ![requests[r].id] = Written(r)] ELSE events
      BY <2>4 DEF Write
    <3>2. requests[r].row \in EventRow
      BY <3>1 DEF TypeOK
    <3>3. requests'[r].id \in Live' => events'[requests'[r].id].name = requests'[r].row.name
      BY <3>1, <3>2, GotoKeeps DEF Written, EventRow, Live
    <3>4. Progress(r)'
      BY <3>1, <3>3, GotoKeeps DEF Progress
    <3> QED BY <3>1, <3>4, GotoKeeps, GoOnAlone DEF Busy
  <2>5. ASSUME NEW r \in Requests, Clear(r) PROVE AloneInv'
    <3> DEFINE stage == IF Announcement(requests[r].row) THEN "done" ELSE "cleared"
    <3>1. /\ requests[r].stage = "written" /\ Goto(r, stage) /\ UNCHANGED <<events, alone>>
          /\ reminders' = {m \in reminders : m.event # requests[r].id}
      BY <2>5 DEF Clear, Cleared
    <3>2. r \in alone /\ requests[r].patch # Nothing => Progress(r)'
      BY <3>1, GotoKeeps DEF Progress, AloneInv, Live
    <3>3. stage \notin {"new", "looking"}
      OBVIOUS
    <3> HIDE DEF stage
    <3> QED BY <3>1, <3>2, <3>3, GotoKeeps, GoOnAlone DEF Busy
  <2>6. ASSUME NEW r \in Requests, Enqueue(r) \/ Fail(r) PROVE AloneInv'
    <3>1. Busy(r) /\ Goto(r, "done") /\ UNCHANGED alone
      BY <2>6 DEF Enqueue, Fail, Busy
    <3>2. Progress(r)'
      BY <3>1, GotoKeeps DEF Progress
    <3> QED BY <3>1, <3>2, GotoKeeps, GoOnAlone
  <2>7. ASSUME UNCHANGED <<requests, alone>>, reminders' \subseteq reminders, Live' \subseteq Live,
               \A e \in Live' : events'[e].name = events[e].name
        PROVE  AloneInv'
    BY <2>7 DEF AloneInv, AloneBusy, CreateHasNoPatch, Progress, Busy
  <2>8. ASSUME NEW e \in Live, DeleteEvent(e) PROVE AloneInv'
    BY <2>8, <2>7 DEF DeleteEvent, Live
  <2>9. ASSUME NEW e \in Live, NEW d \in Drafts, SetEventLimits(e, d.max) PROVE AloneInv'
    <3>1. Live' = Live /\ \A f \in Live : events'[f].name = events[f].name
      BY <2>9 DEF SetEventLimits, Live, TypeOK, EventRow
    <3> QED BY <2>9, <3>1, <2>7 DEF SetEventLimits
  <2>10. CASE UNCHANGED vars
    BY <2>10, <2>7 DEF vars, Live
  <2> QED BY <2>1, <2>2, <2>3, <2>4, <2>5, <2>6, <2>8, <2>9, <2>10 DEF Next
<1>3. TypeOK /\ AloneInv =>
        [\A r \in alone :
            /\ Enqueue(r) /\ requests[r].patch # Nothing /\ requests[r].id \in Live
            => \E m \in reminders' :
                  /\ {n \in reminders' : n.event = requests[r].id} = {m}
                  /\ m.name = events[requests[r].id].name]_vars
  <2> SUFFICES ASSUME TypeOK, AloneInv, NEW r \in alone, Enqueue(r),
                      requests[r].patch # Nothing, requests[r].id \in Live
               PROVE  \E m \in reminders' :
                        /\ {n \in reminders' : n.event = requests[r].id} = {m}
                        /\ m.name = events[requests[r].id].name
    OBVIOUS
  <2> DEFINE new == [by |-> r, event |-> requests[r].id, name |-> requests[r].row.name]
  <2>1. /\ reminders' = reminders \cup {new}
        /\ \A m \in reminders : m.event # requests[r].id
        /\ events[requests[r].id].name = requests[r].row.name
    BY DEF Enqueue, Queued, AloneInv, Progress
  <2>2. new.event = requests[r].id /\ new.name = requests[r].row.name
    OBVIOUS
  <2> HIDE DEF new
  <2>3. {n \in reminders' : n.event = requests[r].id} = {new}
    BY <2>1, <2>2
  <2>4. new \in reminders'
    BY <2>1
  <2> QED BY <2>1, <2>2, <2>3, <2>4
<1> QED BY <1>1, <1>2, <1>3, ApiTypeCorrect, PTL DEF Spec, EditReplacesReminder
=============================================================================
