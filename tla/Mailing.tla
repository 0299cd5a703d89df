------------------------------ MODULE Mailing ------------------------------
(***************************************************************************)
(* Notifications of one event: the tables messages, message_outbox and     *)
(* message_sent, the handlers that fill them and the bulk task that        *)
(* empties them.  The task collects a batch, then sends it message by      *)
(* message and saves a receipt after each, while everything else goes on.  *)
(* A reservation is a user on the list of the booked or of the waiting;    *)
(* the order of rows is the order of their ts.  Mailing hours only delay a *)
(* batch, and a queued message becomes due at any time after it is queued. *)
(***************************************************************************)
EXTENDS Integers, FiniteSets, Sequences

CONSTANTS
    Users,
    Capacity,     \* places of the event
    MaxMessages,  \* bound: messages ever queued
    MaxRows,      \* bound: rows in message_outbox
    MaxFaults,    \* bound: crashes, calls that fail and receipts not saved
    Limit         \* limit_bulk_notifications_per_second

ASSUME NumbersAssumption ==
    /\ IsFiniteSet(Users)
    /\ Capacity \in Nat /\ Limit \in Nat \ {0}
    /\ MaxMessages \in Nat /\ MaxRows \in Nat /\ MaxFaults \in Nat

VARIABLES
    live,      \* the event exists
    rows,      \* reservations in the order of ts: user, waiting_list
    messages,  \* messages of the event: id -> type and list
    lastId,    \* AUTOINCREMENT counter of messages
    outbox,    \* rows of message_outbox in order: message, whether due
    sent,      \* rows of message_sent: <<message, user>>
    batch,     \* what the task has collected and not sent: <<message, user>>
    task,      \* "idle", "sending", "sent" (receipt to be saved) or "ended"
    faults,    \* crashes, failed calls and lost receipts so far
    told,      \* what users have received, kept by Telegram
    slipped    \* what they received without the receipt being saved

tables == <<live, rows, messages, lastId>>
vars == <<tables, outbox, sent, batch, task, faults, told, slipped>>

Kinds == {"direct", "reminder", "prompt"}
Message == [type : Kinds, waiting : BOOLEAN]
Ids == 1..MaxMessages

TypeOK ==
    /\ live \in BOOLEAN
    /\ rows \in Seq([user : Users, waiting : BOOLEAN])
    /\ DOMAIN messages \subseteq 1..lastId
    /\ messages \in [DOMAIN messages -> Message]
    /\ lastId \in 0..MaxMessages
    /\ outbox \in Seq([msg : 1..lastId, due : BOOLEAN])
    /\ sent \subseteq Ids \X Users
    /\ batch \in Seq(Ids \X Users)
    /\ task \in {"idle", "sending", "sent", "ended"}
    /\ task \in {"sending", "sent"} <=> batch # <<>>
    /\ faults \in 0..MaxFaults
    /\ told \subseteq Ids \X Users /\ slipped \subseteq told

Init ==
    /\ live = TRUE
    /\ rows = <<>>
    /\ messages = [m \in {} |-> {}]
    /\ lastId = 0
    /\ outbox = <<>>
    /\ sent = {}
    /\ batch = <<>>
    /\ task = "idle"
    /\ faults = 0
    /\ told = {}
    /\ slipped = {}

-----------------------------------------------------------------------------
(* The queue *)

\* The elements of s at the positions in K, in their order: the rows that a
\* query returns, or that a deletion leaves.
Keep(s, K) ==
    LET kept[i \in 0..Len(s)] ==
            IF i = 0 THEN <<>>
            ELSE IF i \in K THEN Append(kept[i - 1], s[i]) ELSE kept[i - 1]
    IN  kept[Len(s)]

Booked == {i \in DOMAIN rows : ~rows[i].waiting}
\* An unsigned difference: an overbooked event seems to have vacancies.
HaveVacancies == Cardinality(Booked) # Capacity
Holding(u) == \E i \in DOMAIN rows : rows[i].user = u
Queued(m) == \E i \in DOMAIN outbox : outbox[i].msg = m

\* The outbox without the rows of some messages.
OutboxWithout(gone) == Keep(outbox, {i \in DOMAIN outbox : outbox[i].msg \notin gone})

\* An administrator's message is sent at once, the others later.
OutboxRow(m, type) == [msg |-> m, due |-> type = "direct"]

\* enqueue_message, after the messages in gone were deleted.
Enqueue(type, waiting, gone) ==
    /\ lastId < MaxMessages /\ Len(outbox) < MaxRows
    /\ lastId' = lastId + 1
    /\ messages' = [m \in (DOMAIN messages \ gone) \cup {lastId'} |->
                       IF m = lastId' THEN [type |-> type, waiting |-> waiting]
                       ELSE messages[m]]
    /\ outbox' = Append(OutboxWithout(gone), OutboxRow(lastId', type))

Reminders == {m \in DOMAIN messages : messages[m].type = "reminder"}

\* mutate_event replaces the reminder; receipts of the old one stay.
MutateEvent ==
    /\ live
    /\ Enqueue("reminder", FALSE, Reminders)
    /\ UNCHANGED <<live, rows, sent, batch, task, faults, told, slipped>>

\* /send confirmed or /send waiting
SendDirect(waiting) ==
    /\ live
    /\ Enqueue("direct", waiting, {})
    /\ UNCHANGED <<live, rows, sent, batch, task, faults, told, slipped>>

Prompts == {m \in DOMAIN messages : messages[m].type = "prompt"}

\* prompt_waiting_list: one message per event, a row of the outbox each time.
PromptWaitingList ==
    \/ /\ Prompts = {}
       /\ Enqueue("prompt", TRUE, {})
    \/ \E m \in Prompts :
        /\ Len(outbox) < MaxRows
        /\ outbox' = Append(outbox, OutboxRow(m, "prompt"))
        /\ UNCHANGED <<messages, lastId>>

-----------------------------------------------------------------------------
(* Reservations *)

\* A new row; or the waiting one is promoted in its place, which the button of
\* the waiting list does even when the event is full.  One seat for a user.
SignUp(u, waiting) ==
    /\ live
    /\ \/ /\ ~Holding(u)
          /\ waiting \/ Cardinality(Booked) < Capacity
          /\ rows' = Append(rows, [user |-> u, waiting |-> waiting])
       \/ \E i \in DOMAIN rows :
            /\ rows[i].user = u /\ rows[i].waiting
            /\ waiting \/ Cardinality(Booked) < Capacity
            /\ rows' = [rows EXCEPT ![i].waiting = FALSE]
    /\ UNCHANGED <<live, messages, lastId, outbox, sent, batch, task, faults,
                   told, slipped>>

\* The list is prompted when the event was full and is not any more.
GiveUp(u) ==
    /\ live
    /\ \E i \in DOMAIN rows :
        /\ rows[i].user = u
        /\ rows' = Keep(rows, DOMAIN rows \ {i})
        /\ IF ~HaveVacancies /\ HaveVacancies'
           THEN PromptWaitingList
           ELSE UNCHANGED <<messages, lastId, outbox>>
    /\ UNCHANGED <<live, sent, batch, task, faults, told, slipped>>

\* The rows of message_outbox and message_sent stay behind.
DeleteEvent ==
    /\ live
    /\ live' = FALSE
    /\ rows' = <<>>
    /\ messages' = [m \in {} |-> {}]
    /\ UNCHANGED <<lastId, outbox, sent, batch, task, faults, told, slipped>>

\* The send_at of a row of the message comes to be in the past.
Due(m) ==
    /\ \E i \in DOMAIN outbox :
        /\ outbox[i] = [msg |-> m, due |-> FALSE]
        /\ outbox' = [outbox EXCEPT ![i].due = TRUE]
    /\ UNCHANGED <<tables, sent, batch, task, faults, told, slipped>>

-----------------------------------------------------------------------------
(* get_pending_messages *)

\* Faulty variant: the receipts are not looked at.
HoldersOf(m) == Keep(rows, {i \in DOMAIN rows : rows[i].waiting = messages[m].waiting})

\* Reservations on the list of the message whose users have no receipt.
Unreceipted(m) ==
    Keep(rows, {i \in DOMAIN rows : /\ rows[i].waiting = messages[m].waiting
                                    /\ <<m, rows[i].user>> \notin sent})

Candidates(m) ==
    IF messages[m].type = "prompt" /\ ~HaveVacancies THEN <<>> ELSE Unreceipted(m)

\* At most as many as are left of the limit, a prompt to one user only.
Share(m, left) ==
    LET from == Candidates(m)
        most == IF messages[m].type = "prompt" THEN 1 ELSE left
    IN  SubSeq(from, 1, IF Len(from) < most THEN Len(from) ELSE most)

\* Faulty variant: the limit counts for each message alone.
LeftForEach(left, share) == left

Left(left, share) == left - Len(share)

\* Faulty variant: a prompt with nothing to offer ends the whole batch.
TakeOrStop(acc, row) ==
    IF acc.left = 0 \/ ~row.due \/ row.msg \notin DOMAIN messages THEN acc
    ELSE IF messages[row.msg].type = "prompt" /\ ~HaveVacancies
    THEN [acc EXCEPT !.left = 0]
    ELSE LET share == Share(row.msg, acc.left)
             entries == [i \in DOMAIN share |-> <<row.msg, share[i].user>>]
         IN  [left |-> Left(acc.left, share), batch |-> acc.batch \o entries,
              done |-> IF share = <<>> THEN acc.done \cup {row.msg} ELSE acc.done]

\* One row of the outbox, joined with its message; nothing after the limit is
\* reached.  A message without recipients is done.
Take(acc, row) ==
    IF acc.left = 0 \/ ~row.due \/ row.msg \notin DOMAIN messages THEN acc
    ELSE LET share == Share(row.msg, acc.left)
             entries == [i \in DOMAIN share |-> <<row.msg, share[i].user>>]
         IN  [left |-> Left(acc.left, share), batch |-> acc.batch \o entries,
              done |-> IF share = <<>> THEN acc.done \cup {row.msg} ELSE acc.done]

Pending ==
    LET scan[i \in 0..Len(outbox)] ==
            IF i = 0 THEN [left |-> Limit, batch |-> <<>>, done |-> {}]
            ELSE Take(scan[i - 1], outbox[i])
    IN  scan[Len(outbox)]

\* Faulty variant: a message is done as soon as it was taken once.
DoneWhenTaken == Pending.done \cup {Pending.batch[i][1] : i \in DOMAIN Pending.batch}

Done == Pending.done

Collect ==
    /\ task = "idle"
    /\ \E i \in DOMAIN outbox : outbox[i].due /\ outbox[i].msg \in DOMAIN messages
    /\ UNCHANGED <<tables, faults, told, slipped>>
    /\ batch' = Pending.batch
    /\ task' = IF batch' = <<>> THEN "idle" ELSE "sending"
    /\ \E done \in {Done} :
        /\ outbox' = OutboxWithout(done)
        /\ sent' = {s \in sent : s[1] \notin done}

\* A statement fails, with the database locked say, perhaps after some deletes:
\* the task returns.
CollectFails ==
    /\ task = "idle" /\ faults < MaxFaults
    /\ faults' = faults + 1
    /\ \E i \in DOMAIN outbox : outbox[i].due /\ outbox[i].msg \in DOMAIN messages
    /\ task' = "ended"
    /\ \E gone \in SUBSET Done : \E clean \in {gone, {}} :
        /\ outbox' = OutboxWithout(gone)
        /\ sent' = {s \in sent : s[1] \notin clean}
    /\ UNCHANGED <<tables, batch, told, slipped>>

-----------------------------------------------------------------------------
(* perform_bulk_tasks *)

Send ==
    /\ task = "sending"
    /\ told' = told \cup {Head(batch)}
    /\ task' = "sent"
    /\ UNCHANGED <<tables, outbox, sent, batch, faults, slipped>>

\* A send that fails, to a user who has blocked the bot say, ends the task.
SendFails ==
    /\ task = "sending" /\ faults < MaxFaults
    /\ faults' = faults + 1
    /\ task' = "ended"
    /\ batch' = <<>>
    /\ UNCHANGED <<tables, outbox, sent, told, slipped>>

\* Faulty variant: the rest of the batch is forgotten.
AdvanceOnce ==
    /\ batch' = Tail(batch)
    /\ task' = "idle"

Advance ==
    /\ batch' = Tail(batch)
    /\ task' = IF batch' = <<>> THEN "idle" ELSE "sending"

SaveReceipt ==
    /\ task = "sent"
    /\ sent' = sent \cup {Head(batch)}
    /\ Advance
    /\ UNCHANGED <<tables, outbox, faults, told, slipped>>

\* No connection, or the insert fails: the receipt is lost, the loop goes on.
LoseReceipt ==
    /\ task = "sent" /\ faults < MaxFaults
    /\ faults' = faults + 1
    /\ slipped' = slipped \cup {Head(batch)}
    /\ Advance
    /\ UNCHANGED <<tables, outbox, sent, told>>

\* The bot stops at any point and starts again, or is started again because
\* the task has ended.
Restart ==
    /\ IF task = "ended" THEN UNCHANGED faults
       ELSE faults < MaxFaults /\ faults' = faults + 1
    /\ task' = "idle"
    /\ batch' = <<>>
    /\ slipped' = IF task = "sent" THEN slipped \cup {Head(batch)} ELSE slipped
    /\ UNCHANGED <<tables, outbox, sent, told>>

\* A step of the task, other than that it fails to collect.
TaskStep == Collect \/ Send \/ SendFails \/ SaveReceipt \/ LoseReceipt

Next ==
    \/ MutateEvent \/ DeleteEvent
    \/ \E waiting \in BOOLEAN : SendDirect(waiting)
    \/ \E u \in Users, waiting \in BOOLEAN : SignUp(u, waiting)
    \/ \E u \in Users : GiveUp(u)
    \/ \E m \in Ids : Due(m)
    \/ TaskStep \/ CollectFails \/ Restart

Spec == Init /\ [][Next]_vars

\* The reminder's time comes, the mailing hours come round, the task goes on
\* and a call to Telegram returns, perhaps with an error.  MaxFaults says that
\* the database does not refuse receipts for ever; nobody is sure to restart
\* an ended task.
FairSpec ==
    /\ Spec
    /\ WF_vars(\E m \in Reminders : Due(m))
    /\ WF_vars(TaskStep)

-----------------------------------------------------------------------------
(* Properties *)

\* The bulk limit of Telegram is kept: a batch is at most that long, over all
\* messages.
RateLimited == Len(batch) <= Limit

\* A reminder or an administrator's message reaches nobody twice, but for a
\* receipt that was lost: by the task, or by a restart after the send.
NotTwice ==
    [][\A m \in DOMAIN messages, u \in Users :
        /\ Send /\ Head(batch) = <<m, u>> /\ messages[m].type # "prompt"
        /\ <<m, u>> \in told
        => <<m, u>> \in slipped]_vars

\* A message leaves the outbox only when all who are on its list have it, or
\* it is deleted, or it is a prompt and the event is full again.
DoneMeansTold ==
    [][\A m \in DOMAIN messages :
        /\ Queued(m) /\ ~Queued(m)' /\ m \in DOMAIN messages'
        /\ messages[m].type = "prompt" => HaveVacancies
        => \A i \in DOMAIN rows : rows[i].waiting = messages[m].waiting
                                  => <<m, rows[i].user>> \in told]_vars

\* A reminder or an administrator's message leaves the outbox, having reached
\* all who were on its list (DoneMeansTold), however people come and go, unless
\* it is deleted or the task has ended: no prompt or other message starves it.
EveryMessageDone ==
    \A m \in Ids :
        m \in DOMAIN messages /\ messages[m].type # "prompt"
        ~> \/ ~Queued(m) \/ m \notin DOMAIN messages
           \/ task = "ended"

\* "take not more than one at a time": of a prompt, one entry per batch.
OnePromptAtATime ==
    \A i, j \in DOMAIN batch :
        /\ batch[i][1] = batch[j][1] /\ batch[i][1] \in Prompts
        => i = j
=============================================================================
