# A verification development for the event manager bot

The repository is a Telegram bot in Rust (teloxide, tokio, SQLite through rusqlite and an
r2d2 pool, actix-web for a small HTTP API).  Organisers create events; users book places,
wait for places, give them back, pay for tickets; the bot reminds and prompts them, and
punishes those who neither come nor cancel.  This directory holds TLA+ modules translated
from the source, TLC configurations that check them on small instances, and proofs that
TLAPS checks for instances of any size.

Paths are relative to the repository: `src/db.rs` is the file `db.rs` of the crate.
`PROJECT.json` maps every definition to the lines it stands for, every property to the
hazards it is about, and every property of a passing run to a faulty variant of one
definition that breaks it.  Such variants stand in the modules, next to the definition and
marked "Faulty variant"; no specification uses them.

## 1. Inventory

### Booking of free events
*State:* tables `events`, `reservations`, `black_list`, `presence`, `group_leaders`.
*Operations:* sign up and promote (`sign_up`, `move_from_waiting_list`), give back
(`cancel`, `wontgo`, `delete_reservation`), create and edit (`mutate_event`), limits, open
and close, ban and unban, tick off presence, delete (`delete_event`, `delete_link`,
`clear_old_events`).  Called from the buttons (`src/message_handler.rs`), the commands
(`src/admin_message_handler.rs`) and the housekeeping task.
*Hard:* a keyboard stays in the chat for ever, so any button can be pressed in any state;
promotion is a second way to a seat past the checks for an insert; limits and starts are
edited under existing bookings; times and vacancies are unsigned; a deletion bans people
and can fail half-way.
*Correct when:* nobody exceeds the limit per user or the capacity, a ban takes and keeps
everything it should, only no-shows are punished, nothing outlives its event.

### Concurrent handlers
*State:* `sign_up_mutex`, the connection pool, the counters each handler has read.
*Operations:* the endpoints `callback_handler`, `message_handler` and
`pre_checkout_handler` of `src/main.rs`.  The dispatcher queues updates by chat;
pre-checkout queries belong to no chat and run all at once.  Every SQL statement commits
by itself.
*Hard:* `sign_up` reads counters in one statement and writes in a later one; a
pre-checkout waits for the mutex with a connection in its hands; the lock of callbacks is
never taken (`src/main.rs:195` looks for a prefix that no button has).
*Correct when:* a sale is atomic, the limit per user holds, every request ends.

### Paid tickets
*State:* `reservations.state` (pending or paid), invoices and pre-checkout queries at
Telegram.
*Operations:* `prepare_invoice`, `pre_checkout` (books a pending row), `checkout` (finds a
pending row and marks it), `clear_failed_payments` (drops pending rows after five minutes).
*Hard:* Telegram charges at any time after the approval; `checkout` is two statements, and
ids of deleted rows are given again; an invoice can be forwarded and paid by somebody else;
any statement of `checkout` may fail, and nothing is tried again; a payment may be delivered
again after a restart, whether it was stored or not.
*Correct when:* one ticket for a payment at most, a paid ticket stays, nothing is oversold,
a prompt payment gets its ticket.

### Mailing
*State:* `messages`, `message_outbox`, `message_sent`.
*Operations:* `mutate_event` replaces the reminder, `/send` queues a message,
`prompt_waiting_list` queues a prompt, `get_pending_messages` collects a batch within the
bulk limit, `perform_bulk_tasks` sends it and saves a receipt after each message.
*Hard:* everything goes on between collecting and sending; a crash or a failed insert loses
a receipt; a failed send or query ends the task; a prompt is one message with many rows in
the outbox.
*Correct when:* the limit holds, nobody is told twice, everybody is told, the queue drains.

### Housekeeping
*State:* none of its own but the loop it is in.  *Operations:* the rest of
`perform_bulk_tasks`: old events with the bans of those who stayed away, the age of the
black list, expired payments.  *Hard:* a deletion is several statements and the bot may
stop between any two; one failure aborts the loop over events, in every round anew, and
another (of the query for the event's name) lets it go on without the bans; the task ends
for good when a send fails.  *Correct when:* old events, bans that are over and
unpaid seats do go; no deletion loses a ban or leaves a reservation without its event.

### HTTP API
*State:* the event between the two blocking tasks of `update_event`; reminders in
`messages`.  *Operations:* create and update, through the API and as JSON in the chat
(`add_event`), `/set_event_limits`; list and get; `remove_event` answers without removing.
*Hard:* read and write are separate, `mutate_event` is several statements, and requests
overlap between any two; a new event is looked up by name, link and start.  *Correct when:*
what the API stores satisfies the validation, and an event that is no announcement has its
reminder.

### Dialog
*State:* `current_events`, `attachments`; the messages in the chats.  *Operations:*
`show_event` and the other pages, which decide from the counters of `get_event` which
buttons to draw.  *Hard:* the conditions for drawing a button are not those for obeying it.
*Correct when:* a button does what it offers.

### Configuration, rendering, deployment
The configuration is read once.  Rendering has no state.  Deployment is containers and
workflows; the bot is restarted by its container.

### How they interact
Chat updates and API requests run the operations on the tables; the bulk task runs beside
them on its own connections.  Bookings free seats, which queues prompts; prompts bring
users back to the buttons.  Deleting an event bans people, which may delete bookings at
other events.  Payments share `reservations` with everything else, and expiry runs in the
mailing task, so that a blocked bot user stops it.

## 2. Modules and how they correspond to the code

| Module | Models | State | Actions |
|---|---|---|---|
| `Booking` | free events | one variable for each table, `now`, ids, the prompts queued | one for each handler, run to its end |
| `Keyboard` | the buttons under a free event, over `Booking` | that of `Booking` | those of `Booking` |
| `Seats` | what a sale of places promises (abstract) | `taken` | `Take`, `GiveBack` |
| `SignUpRace` | sign-ups to one event, statement by statement | a program counter and the counters read for each request, mutex, rows, black list | `Connect`, `GiveUp`, `Lock`, `Read`, `Check`, `Write`, `Busy`, `Answer`, `Drop`, `BanInsert`, `BanDelete` |
| `Payments` | one paid event, from invoice to expiry | clock, event, rows, invoices, tries to pay, delivery of payments | the handlers; `checkout` in two steps or failing; Telegram's part: `Ask`, `Charge`, `GetUpdates`; `Restart` |
| `Mailing` | notifications of one event | the three tables, reservations in order, the batch in flight | queueing, collecting, sending, receipts, faults |
| `Housekeeping` | a round of the bulk task after its mail, statement by statement | events and their tables, the ages of bans, where the loop is | `Wake`, `NextEvent`, `BanNext`, `CancelRows`, `DeleteReservations`, `DeleteRow`, `AgeBlackList`, `Expire`; everybody else; `Restart` |
| `EventApi` | how events are described, statement by statement | events, reminders, what each request has read | `Create`, `LookUp`, `Read`, `Enter`, `Write`, `Clear`, `Enqueue`, `Fail`; other commands |

`BookingProofs`, `KeyboardProofs`, `SignUpRaceProofs`, `PaymentsProofs`, `MailingProofs`,
`HousekeepingProofs` and `EventApiProofs` hold the theorems.  `MCBooking` (which takes in
`Keyboard`), `MCSignUpRace`, `MCPayments`, `MCMailing`, `MCHousekeeping` and `MCEventApi`
add the constants of the runs.

Choices that hold throughout:

* **A row of `reservations` is one seat of one kind** in `Booking`, `Mailing` and
  `Housekeeping`: a button books one adult or one child.  In `SignUpRace` and `Payments` a
  row has a number of seats; a seat is then a pair of the row and a number, so that sums
  are cardinalities.
* **Buttons are not restricted**: an old keyboard stays in the chat, so `SignUp`, `Cancel`
  and the rest are enabled whenever the handler would do something.  The sign-up of
  `Booking` includes promotion, which the same button causes.  `Keyboard` says which
  buttons a fresh message has, and its properties what a press of these does.
* **Commands need an administrator**: their actions are guarded by `Admins # {}`.
  Creating and editing is also offered by the HTTP API and is not guarded.
* **Unsigned arithmetic** is kept where it shows: `Vacancies`, `HaveVacancies` and
  `TooLateToCancel` of `Booking` are taken modulo `U64`, as in the release build.  The
  counters `Keyboard` draws its buttons from are signed in the code and here.
* **Errors**: a handler that fails before it writes is no step.  One that fails after a
  write is an action of its own (`DeleteEventFails`, `Busy`, `LoseReceipt`,
  `CollectFails`, `SendFails`, `CheckoutFails`, `Fail` of `EventApi`) or a branch of the statement (`Fails`
  of `Housekeeping`).
* **Time** is a clock that ticks where comparisons of times matter (`Booking`,
  `Payments`); in `Mailing` a row becomes due at any moment after it was queued, and
  collecting waits for any time, which covers the mailing hours; in `Housekeeping` a unit is
  a day and times are ages.

Particular to one module:

* `Booking` — `RowIds` only tells equal rows apart; no action depends on which is chosen.
  `prompts` holds the events with a prompt queued; its delivery is in `Mailing`.  `Unban`
  stands for the command, the button and the age limit.
* `SignUpRace` — `Dispatched` is teloxide's queue: requests of one user run one by one if
  they are button presses, at once if they are pre-checkouts.  `GiveUp` is the time-out of
  the pool; `Busy` a statement that SQLite refuses.  Limits and prices stand still.  A
  query for the black list that fails counts as "not banned" in the code; such a failure
  is left out.
* `Payments` — amounts are left out: prices are written when an event is created, and the
  `UPDATE` of an edit has no column for them (`src/db.rs:123`, `Written` of `EventApi`).
  `payment` of a row names the payment that was stored in it.  `payments` is where the
  payment of each try is: at Telegram (`sent`), handed out by the last `getUpdates`
  (`fetched`), or handed out before and forgotten by Telegram (`gone`).  A bot that is
  started again (`Restart`) gets what was `fetched` once more, be it unseen, in hand or
  stored, and never again what is `gone`, so that a payment still waiting in the dispatcher
  is lost.  `CheckoutFails` is a pool without a connection or any statement of `checkout`
  that returns by `?`: the error is logged, the payment forgotten.  `again` is no variable of
  the code: it marks payments that were stored and delivered once more.  A row of 0 seats is
  a child: a direct link shows
  a paid event with the buttons of a free one, and the one for children books a row that
  waits for its payment like any other (`SignUpChild`); `Cancel` gives back one such row or
  one of one adult.  `since` is no variable of the code: it remembers when a query made a
  reservation, for `PromptPaymentServed`.  A pre-checkout that is over the limit per user is
  approved without a row, as in the code.
* `Mailing` — `told` and `slipped` are no variables of the code: what users have received,
  and what of it has no receipt although nobody removed one.  `Keep` is what a query
  returns, or a deletion leaves, of a table: the rows in question, in their order.  `Take`
  is the body of the loop of `get_pending_messages`, `Pending` what it has collected at the
  end of the outbox; both `Keep` and `Pending` are recursive functions over the table.
* `Housekeeping` — `clear_old_events` keeps its `SELECT` open while it deletes, and a
  reader in SQLite's journal mode keeps other connections from committing: `Unlocked` keeps
  the other handlers out of the loop, and only out of it.  `BanNext` is the `INSERT` of
  `ban_user`, which fails for somebody who is banned already; `CancelRows` its `DELETE`.
  A statement that fails stops the loop, with one exception: the query for the event's name
  (`src/db.rs:254`), whose failure is a branch of `NextEvent` that goes on with nobody to
  ban.  `unnamed` is no variable of the code: it remembers that branch.
  `odd` counts crashes, failures and bans from elsewhere, and bounds them.
* `EventApi` — `name` stands for the three columns an event is looked up by.  `Read` takes
  the row and fills in the columns that were not entered, `Write` is the `UPDATE` in the
  other task; JSON in the chat (`Enter`) is complete and read from nothing.  An
  `Announcement` has neither price nor places, for `get_type` looks at prices first: a paid
  event whose places are all taken back is still one that reminds.  `steady` and
  `alone` are no variables of the code: events for which every write is to leave a
  reminder, and requests that no other has overlapped.

How they fit together: `Keyboard` is `Booking` with a view; `SignUpRace` opens the one step
`SignUp` of `Booking` (and the one step `PreCheckout` of `Payments`) into its statements
and implements `Seats`; `Housekeeping` opens `DeleteEvent` and `DeleteEventFails`, as
the loop over old events runs them; `EventApi` opens the creation and the
edit of an event; the prompts and reminders
that `Booking` and `EventApi` queue are what `Mailing` delivers.

## 3. Runs

Passing runs:

| Run | Question | Instance |
|---|---|---|
| `booking_limits` | What can a sign-up give away when limits are cut and raised, what does a ban take, and does a button do what it offers? | two users, one event, two seats of each kind for a user, bans cancel |
| `booking_people` | Who is banned and when, what can the banned still do, who gets a seat at closed events, when do bookings clash? | an administrator and a user, two events with two starts, late cancellations and no-shows punished, bans do not cancel |
| `paid_race` | Is a sale of tickets atomic, and does every request end? | three pre-checkouts, five seats asked for, four there, two by one user, two connections |
| `free_race` | Does the limit per user need the mutex, and how much can slip through a ban? | three requests of one user and one of another, two places, two for a user, bans in two statements |
| `payments` | What does a payment get and keep? | an administrator and a user with a child, two invoices of the user, two tries by either of them, one or two tickets each, limits of one and two, any number of failures and restarts |
| `mailing` | Who is told, how often, and does the queue drain? | two users, one place, two messages, a limit of two, one fault |
| `housekeeping` | Does the round get through, whatever stops it, and what does it leave behind? | two users at two events, one fault or ban from elsewhere, bans cancel or not |
| `event_api` | What do overlapping edits leave in the tables? | three requests, two events, four descriptions and three patches, one failure |

Why the bounds are enough.  Two users compete for one seat; one more request of the same
user collides with the first, and a third tells one seat that escapes a ban from two; two
rows of one user are what promotion and `DELETE ... LIMIT 1` choose from; two events are
what a clash of times, a ban with effects elsewhere, a loop that is held up by its first
event and a name used twice need; two values of a limit are a cut and a raise, and the
limits of the two kinds are cut independently, so that one kind can be overbooked while
the other has room; a payment that was stored, is delivered again and takes a second
reservation needs one user with two tries and two tickets, and the other user of `payments`
(who buys nothing: `Buyers`) pays for somebody else; clocks pass the start, the limit for late cancellation, the expiry
(`Expiry = 1`) and the end of a ban (`BanDays = 0`: a ban is over after a day).  Three
requests are two that overlap and a third that
makes the first of them no longer alone.  In `booking_people` the constraint `OneAside`
keeps the second event small.  `U64 = 16` is far above any sum of seats or times, so that
only real wraps occur.  What would grow for ever is bounded by `MaxEvents`, `MaxMessages`,
`MaxRows`, `LastTs`, `Buyers`, `Parents`; what could happen for ever by `MaxFaults` and `MaxOdd`.

Runs that find a violation; each checks one sentence of the documentation or a comment:

| Run | Property | What the code does |
|---|---|---|
| `capacity` | `CapacityRespected` | A second press of a waiting-list button is over the limit per user only because of the waiting seat; `sign_up` then promotes that seat without looking at the capacity (`src/db.rs:405`). |
| `free_overbooked` | `CapacityHeld` | Callbacks do not take the mutex (`src/main.rs:195`): two users get the last place of a free event. |
| `paid_too_late` | `PaidHasTicket` | A payment that takes longer than five minutes finds no reservation; the money is gone (`src/db.rs:1133`). |
| `prompts` | `OnePromptAtATime` | Two cancellations put a prompt twice into the outbox; one batch prompts the same user twice (`src/db.rs:208`). |

The passing properties are stated up to these: `NoNewcomerBeyondCapacity` says how far
`capacity` can go (only those who waited get in), `PromptPaymentServed` which payments
`paid_too_late` does not touch (those whose `checkout` fails are excepted from both),
`OneTicketPerCharge` which payments may make two tickets (those stored and delivered
again), `AbsentBannedFirst` when no-shows go free (the event's name could not be read),
`OneSeatEscapesBan` how many reservations a ban that runs
between the checks and the insert of `sign_up` can miss, and `LateCancelBansUntilStart`
excepts cancellations after the start, for which the difference of times wraps
(`src/message_handler.rs:780`).

## 4. Fairness

Safety runs assume none.  Three runs check liveness.

* `paid_race`: weak fairness of `Step(r)` for each request.  The runtime polls tasks that
  are ready, the mutex of tokio is handed over in order, and a call to Telegram has a
  time-out.  `EveryRequestEnds` needs no strong fairness for the mutex: its owner has its
  connection already and always comes to release it, and each request takes it once.
* `mailing`: weak fairness of time (the reminder becomes due) and of the task (`TaskStep`:
  it collects, its calls to Telegram return, perhaps with an error, and it comes to the
  receipt).  Users are not assumed to do anything.  `MaxFaults` bounds lost receipts: a
  database that refuses receipts for ever has the first user told for ever.
* `housekeeping`: weak fairness of the task, `WF_vars(TaskStep)`, and strong fairness of
  time, `SF_vars(Day)`.  A day passes whatever the task does; in the model it passes only
  between two rounds, so `Day` is enabled again and again and not for good.  Neither bans
  being lifted nor cancellations are assumed.  `MaxOdd` bounds failures: a statement that
  fails in every round keeps its event for ever.

Nothing says that an ended task is started again, so `EveryMessageDone`, `OldEventsGo` and
`RoundGoesOn` except it: the code has no other way back than a restart of the process.

## 5. Proofs

Each theorem holds for all values of the constants within the named assumptions.

`BookingProofs` (any users, events, offers, clock and configuration):

* `TypeCorrect` — `[]TypeOK`, by one lemma for each group of handlers.
* `NoOrphans`, `BansCancel` — `RowsOfLiveEvents` and `BannedHoldNothing` are inductive
  with `TypeOK`.  The argument: `GainsAreSignUps` shows that a row, or a booked seat, only
  ever comes from a sign-up; `OtherSteps` that every other action takes rows away.  A
  sign-up needs a live event and a user who is not banned; every action that bans or
  deletes removes the rows concerned in the same step.
* `BansHold`, `StoppedMeansStopped`, `LimitsHold`, `NewcomersFit`, `ClashesAreEdits`,
  `DeletionBansNoShows` — the action properties of the two runs.  They use only `TypeOK`
  (and `NoOrphans` for the clash) and the same two lemmas.

`KeyboardProofs`:

* `KeysStayDifferent` — two rows of one event, user and kind never have the same key,
  waiting or not.  `TypeOK` alone allows a promoted row to coincide with a booked one, and
  a seat to vanish: this is the strengthening the counts below rest on.
* `OffersAdmitted`, `OfferedSeatsTaken`, `OfferedPlacesWait`, `OfferedCancelsGiveBack` —
  what the buttons of a fresh message do.  The argument follows `sign_up`: an offered seat
  is within the limit per user for booked seats, so it is inserted or, if only the waiting
  seats are over, promoted; an offered place is within the limit with the waiting seats,
  so nothing is promoted.
* `LateCancelsBan` — starts are below `U64`, so that the difference is exact until the
  start.

`SignUpRaceProofs` (any requests, users, pool, capacity and limit):

* `RaceTypeCorrect`, `OneAtATime` — types; at most one request of a user, and of a paid
  event at most one at all, is between its read and its write.
* `SnapshotsCover` — the counters a request has read stay an upper bound of what its user
  holds until it writes.  This is the strengthening `UserLimitHeld` lacks: the write
  checks the limit on old counters, which is sound because nobody else adds to that
  user's rows meanwhile (`OneAtATime`) and others only take away.
* `LimitPerUser` — `[]UserLimitHeld` from these.
* `PoolAndMutex`, `NoCircleOfWaits`, `OnwardOnly` — why `EveryRequestEnds` holds, as far as
  that can be said without fairness.  The pool never lends more than it has, and the owner
  of the mutex is past the wait for it (`Lent`); so whoever is neither at an end nor able
  to go on waits for one who is able (`NobodyStuck`, for any pool, though a pre-checkout
  waits for the mutex with a connection in its hands).  And every step of a request takes
  it on (`AlwaysOnward`), six times at most.
* `BanKeepsOneSeat` — `OneEscapes`: once the deletion of a ban is through, what a banned
  user holds and what is about to be written for that user is one request at most.  It
  holds when the deletion runs, by `OneAtATime`, and only shrinks afterwards, for `Check`
  lets nobody through any more.
* `SeatsStay`, `PaidSale`, `PaidNeverOverbooked` — for a paid event a request that is
  about to write still finds its seats (`SeatsLeft`), so each of its writes is a `Take` of
  `Seats`, every other step a `GiveBack` or a stutter: `Spec => Sale`.  For a free event
  the same fails, in the run `free_overbooked`.

`PaymentsProofs` (any users, invoices, tries, numbers of tickets and times):

* `PaymentsTypeCorrect` — among the types, that ids are unique, although `NewId` may be the
  id of a deleted row: a finite set of numbers has a largest (`Largest`, by well-founded
  induction on subsets).
* `PaidStay`, `TicketsFit` — from the types.  `TicketsFit` counts seats: a row adds as many
  as it has (`SeatsAdded`), being paid adds none (`SeatsPaid`).
* `TicketsWerePaid` — the invariant is `PaidOnce`: a row only ever holds a payment that is
  settled, that is, its try is through or came again (`Settled`).  So the `UPDATE` of a try
  that did not come again finds no row that holds its payment, and marks one row at most, for
  ids are unique.  Only a restart takes a settled try back to its beginning, and marks it as
  one that came again (`AfterRestartOK`).
* `PromptServed` — the invariant is `Served`.  A reservation of tickets stems from a query
  that was decided (`Made`), so that of the only try for that many tickets is the only one
  of its size (`Single`); it stands for as long as its payment is prompt (`Stands`), and
  therefore is the one that `checkout` finds, and still there, under the same id, at the
  `UPDATE`.  `RowStays` is the heart of it: no step takes such a row but one after which
  the payment is excepted.  What the theorem excepts is a statement of `checkout` that fails
  and a bot that stops with the payment in hand: each does lose a prompt payment.

`MailingProofs` (any users, capacity and bounds, any limit of at least one):

* The lemmas come first.  The library's theorems on induction and recursion take an
  operator as a parameter; `Induction` and `Recursion` say the same of a set of numbers and
  of an array of functions, each proved by well-founded induction.  `KeepPicks` and
  `KeepRows` say what `Keep` returns: the rows in question, all of them, each once and in
  order.  `ScanInduction` is what they give for `Pending`: what holds at the start and is
  kept by `Take` for each row of the outbox holds at the end.
* `MailingInvariant` — `IInv`, kept by each action (one lemma for each).  `TypeOK` and
  `RateLimited` alone are inductive but say nothing of receipts.  `NotTwice` needs that what
  is collected was not received before (`Fresh`), hence that one batch holds nobody twice
  for one message (`DistinctEntries`).  This needs one row of the outbox for each message
  but prompts (`OneRow`), one reservation for each user (`OneSeat`), and a receipt for all
  that was received while the message is queued, unless it was lost or is about to be saved
  (`Receipts`).  `Known` says that a new message has no receipts yet; `HonestReceipts` that
  a receipt is of something received, which `DoneMeansTold` needs.
* `MailingTypeCorrect`, `BatchWithinLimit`, `NobodyTwice`, `DroppedWhenTold` — the safety
  properties of the run `mailing`.
* `OldestFirst` — the progress `EveryMessageDone` rests on.  `FirstServed` is kept by each
  turn of the loop: the batch begins with the first due row that has recipients left; if
  there is none, every message that is due is done.  So the task cannot find a message due
  again and again and do nothing, and no later message is put before an older one.

`HousekeepingProofs` (any finite sets of users and events, any number of faults):

* `HousekeepingTypeCorrect`; `CrashLeavesNoOrphan` — the strengthening `RowsGoFirst` adds
  that before the row of an event is deleted its reservations are gone; it survives a
  crash anywhere because the loop starts every event from the beginning.
* `BansComeFirst` — `BannedSoFar`: while the loop bans, each no-show of its event is banned
  or yet to come.  A ban that cancels future reservations takes rows away and so adds no
  no-show; nobody else writes meanwhile (`Unlocked`).  Where the name could not be read
  (`unnamed`) nothing is claimed, for then reservations do go with nobody banned.
* `RoundDropsAll` — what `OldEventsGo` rests on.  `AllToDo`: as long as no statement has
  failed, the loop still has all old events before it.  So when it is over either no old
  event is left, or it has stopped at one of whose no-shows a ban is there already.
* `NobodyElseBanned` — `StillAbsent`: whoever is on the list of the loop still is a no-show
  of the event at hand, although the list is made before the first ban, and the bans cancel
  reservations on the way: somebody who was ticked off stays a holder.

`EventApiProofs` (any requests, descriptions, patches and numbers of faults):

* `ApiTypeCorrect` — with the types, that no request is about to queue a reminder for an
  announcement.
* `AlwaysReminded` — `Covered`: a steady event has a reminder, or a request is on its way to
  queue one, and no request under way may turn out to want none.  Clearing reminders is
  only a step of a request that will queue its own.
* `WrittenLimitsFit` — `Checked`: what waits to be written has been validated as a whole.
* `LoneEditReplaces` — `AloneInv`: a request that is alone is the only busy one, so that what
  it has written and cleared stays so until it queues: then the set of reminders of the event
  is that one.

Only model-checked: liveness (`EveryRequestEnds`, `EveryMessageDone`, `OldEventsGo`,
`RoundGoesOn`), which is out of the prover's reach.  Of the first three the part that is not
about fairness is proved: `NoCircleOfWaits`, `OldestFirst`, `RoundDropsAll`.  What these do
not say is that a step that can be taken is taken, nor (of a reminder) that lists which
change for ever leave it a turn.  The four violations are found by TLC alone.

## 6. Not modelled, and why

* **A pre-checkout query that is delivered again** after a restart: one that was answered
  makes a second pending row, which nobody pays and which expires.  Such rows arise in
  `Payments` from queries whose answer is refused or never paid.
* **Configuration, rendering, deployment**: values read once, texts, containers.
* **Mailing hours**: `Mailing` lets the task collect at any time and assumes that it does in
  the end.  A window that contains midnight UTC becomes empty when it is reduced to seconds
  of the day (`src/configuration/raw_config.rs:42`), and nothing would be mailed.
* **A bulk limit of zero** drops every due message unsent (`src/db.rs:825`); `Mailing`
  assumes at least one.
* **`/set_limits` and prompts in `Mailing`**: its capacity is fixed; `Booking` has the
  prompt of a raised limit.  Stale keyboards are left out there too: the limit is one seat
  for a user; promotion from the waiting list past the capacity is kept, since
  `have_vacancies` then wraps and takes the overbooked event for one with room.
* **Pages, `current_events`, `attachments`**: `Keyboard` has the buttons of a free event
  only, not those of lists, nor the counters of tickets in the message of a paid event,
  which its own state decides and `PrepareInvoice` checks again.  A note goes to the event its
  user saw last (`src/message_handler.rs:282`), also after it was deleted; nothing else
  reads it.
* **The rest of the HTTP API**: listing reads only, `get_event` is not registered in
  `event_scope`, `remove_event` does nothing.
* **`/delete_event` beside a sign-up**: a row written between `get_event` and the insert of
  `sign_up` for an event deleted meanwhile by another chat (`src/db.rs:419`).  The loop of
  `clear_old_events` cannot cause it, for it keeps others from writing.
* **`cleanup_old_events` off**: `Housekeeping` has it on, as shipped; without it, old events
  only go by a command.
* **Two kinds of seats in `SignUpRace`, `Housekeeping`, `EventApi`**: the two counters are
  checked alike.  Their interaction (promotion of the one when the other is over, a refusal
  of both when one is overbooked) is in `Booking` and `Keyboard`.
* **Donations** store nothing; their pre-checkout is refused when the payer gave no name.
* **The ignored test `test_waiting_list`** (`src/db/tests.rs:110`) expects automatic
  promotion of the waiting list, which the bot replaced by prompts.
* **The unique index meant for `group_leaders`** is on `presence` (`src/db.rs:988`): a user
  can be made leader twice, without effect.

Seen in the code and said by a document otherwise, or by none; a team may want to know:

* A ban may miss the one reservation whose sign-up has passed its checks, although the
  configuration says that it cancels all (`OneSeatEscapesBan` bounds it to one).
* After the start of an event a late cancellation goes unpunished, because an unsigned
  difference wraps; and the answer to `WontGo` announces a ban that is not made
  (`src/message_handler.rs:217`).
* An old event one of whose no-shows is banned already stays, with the events after it,
  until that ban is over: up to 30 days instead of `drop_events_after_hours = 48`.
* A child's place at a paid event, booked for nothing, expires after five minutes, since a
  payment of nothing never comes.
* A payment is not recognised when it comes again: if the bot stops after it was stored and
  before it has asked for further updates, another pending reservation of the same user and
  size becomes a paid one (`src/db.rs:434`).
* A payment during whose `checkout` a statement fails, or for which no connection is found,
  is logged or dropped, and its reservation expires (`src/main.rs:170`).
* When the name of an old event cannot be read, it is deleted and its no-shows go free, with
  a warning in the log only (`src/db.rs:268`).
* Two edits through the API that overlap may undo each other, column by column.  `/help`
  (`src/admin_message_handler.rs:189`) speaks of editing and of prices in one breath, and
  `OptionalRawEvent` takes a price and validates it, but no edit writes it.
* "If both are 0 the event is an announcement", says `README.md` of the places; an event
  with a price is not, even after an edit took all its places, and it gets a reminder
  although nobody can book it (`src/types.rs:42`).
* When one kind of seat is overbooked, sign-ups of the other kind are refused although
  their button offers places (`OfferAdmitted` names the exception); after a cut of the
  limits per user a press for one kind may promote a place of the other
  (`OtherOverLimit`).
* The button for the waiting list is drawn for users to whom it is refused when lists are
  not public.

## 7. What remains

1. `Mailing` with changing limits, and composed with `Booking` for freed seats.
2. `/delete_event` statement by statement beside `SignUpRace` (`src/db.rs:419`).
3. The message of a paid event with its counters of tickets; mailing hours and pages as
   operators against reference definitions over bounded inputs.
