------------------------------ MODULE Payments ------------------------------
(***************************************************************************)
(* One paid event: invoices, pre-checkout queries, successful payments and *)
(* the expiry of reservations nobody paid for.  Telegram charges a payer   *)
(* after the bot approved the pre-checkout, at any later time or never.    *)
(*                                                                         *)
(* pre_checkout is one step: sign_up_mutex makes it one (SignUpRace).      *)
(* checkout is two, a SELECT that finds the pending row and an UPDATE by   *)
(* its id, and the housekeeping task may delete rows in between.  Each of  *)
(* its statements may fail.                                                *)
(* A payment reaches the bot as an update, which Telegram keeps until the  *)
(* bot asks for later ones: a bot that stops before gets it again, through *)
(* with it or not.                                                         *)
(* Prices are written when an event is created, and the UPDATE of an edit  *)
(* leaves them out, so the amounts of invoices match and are left out.     *)
(*                                                                         *)
(* Tickets are for adults, and children go free.  A direct link shows a    *)
(* paid event with the buttons of a free one: the one for children books,  *)
(* the other is refused for its amount, and both kinds can be cancelled.   *)
(***************************************************************************)
EXTENDS Integers, FiniteSets

CONSTANTS
    Users,
    Admins,       \* Config::admins
    Buyers,       \* bound: users who ever ask for an invoice
    Parents,      \* bound: users who ever sign up a child
    Invoices,     \* invoice messages
    Attempts,     \* tries to pay one, each with a pre-checkout query
    SeatNumbers,  \* how many tickets an invoice is for
    Limits,       \* values of max_adults
    PerUser,      \* max_adults_per_reservation
    EventTs,      \* start of the event, in minutes
    Expiry,       \* minutes a reservation may stay unpaid: 5
    LastTs,       \* bound: last clock value
    NoInvoice,    \* not an invoice
    Unpaid        \* payment of a row that nobody has paid for

ASSUME UsersAssumption == Users # {} /\ Admins \cup Buyers \cup Parents \subseteq Users
ASSUME InvoicesAssumption == Unpaid \notin Attempts /\ NoInvoice \notin Invoices
ASSUME NumbersAssumption ==
    /\ SeatNumbers \subseteq Nat \ {0} /\ Limits \subseteq Nat /\ Limits # {}
    /\ PerUser \in Nat /\ EventTs \in Nat /\ Expiry \in Nat /\ LastTs \in Nat

VARIABLES
    now,       \* get_unix_time(), in minutes
    event,     \* the row of events: whether it exists, is open, its limit
    rows,      \* reservations
    invoices,  \* invoices sent: for whom, for how many tickets
    attempts,  \* state of each try to pay
    payments   \* delivery of the payment of each try

vars == <<now, event, rows, invoices, attempts, payments>>

Invoice == [user : Users, seats : SeatNumbers]
Stages == {"idle", "asked", "approved", "refused", "charged", "found", "paid", "lost"}

\* row is what checkout has found.  Two fields are history: since, the time at which
\* the query made a reservation, -1 if it made none, it was taken away or the payment
\* got its answer, and again: the payment was stored and is delivered once more.
Attempt == [stage : Stages, invoice : Invoices \cup {NoInvoice},
            payer : Users, row : Nat, since : Nat \cup {-1}, again : BOOLEAN]

\* seats is 0 in the row of a child; payment names the payment that was stored.
Row == [id : Nat, user : Users, seats : SeatNumbers \cup {0}, ts : Nat,
        payment : Attempts \cup {Unpaid}]

Paid(r) == r.payment # Unpaid

\* An update waits at Telegram, was handed out by the last call of the bot, or was
\* handed out before and is forgotten.
Delivery == {"none", "sent", "fetched", "gone"}

TypeOK ==
    /\ now \in Nat
    /\ event \in [live : BOOLEAN, open : BOOLEAN, max : Limits]
    /\ rows \subseteq Row /\ IsFiniteSet(rows)
    /\ \A r, s \in rows : r.id = s.id => r = s
    /\ DOMAIN invoices \subseteq Invoices
    /\ invoices \in [DOMAIN invoices -> Invoice]
    /\ payments \in [Attempts -> Delivery]
    /\ attempts \in [Attempts -> Attempt]
    /\ \A a \in Attempts :
          attempts[a].stage # "idle" => attempts[a].invoice \in DOMAIN invoices

Init ==
    /\ now = 0
    /\ event \in [live : {TRUE}, open : {TRUE}, max : Limits]
    /\ rows = {}
    /\ invoices = [i \in {} |-> {}]
    /\ attempts = [a \in Attempts |-> [stage |-> "idle", invoice |-> NoInvoice,
                      payer |-> CHOOSE u \in Users : TRUE, row |-> 0, since |-> -1,
                      again |-> FALSE]]
    /\ payments = [a \in Attempts |-> "none"]

-----------------------------------------------------------------------------
(* Queries *)

\* The seats of the rows rs, one by one, and how many.
SeatsIn(rs) == UNION {{r.id} \X (1..r.seats) : r \in rs}
SeatCount(rs) == Cardinality(SeatsIn(rs))
Of(u) == {r \in rows : r.user = u}

InvoiceOf(a) == invoices[attempts[a].invoice]

\* INTEGER PRIMARY KEY without AUTOINCREMENT: one more than the largest id in
\* the table, so that the id of a deleted row is given again.
LastId == CHOOSE n \in {0} \cup {r.id : r \in rows} : \A r \in rows : r.id <= n

\* Faulty variant: the largest id itself.
LargestId == LastId

NewId == LastId + 1

Over == {"refused", "paid", "lost"}

\* The next stage of a try; its history ends with it.
Stage(a, stage) ==
    attempts' = [attempts EXCEPT ![a].stage = stage,
                                 ![a].since = IF stage \in Over THEN -1 ELSE @]

-----------------------------------------------------------------------------
(* Invoices *)

\* The invoice button: only the limit per user is looked at, not the capacity.
PrepareInvoice(i, u, n) ==
    /\ u \in Buyers /\ i \notin DOMAIN invoices
    /\ event.live /\ event.open
    /\ SeatCount(Of(u)) + n <= PerUser
    /\ invoices' = [j \in DOMAIN invoices \cup {i} |->
                       IF j = i THEN [user |-> u, seats |-> n] ELSE invoices[j]]
    /\ UNCHANGED <<now, event, rows, attempts, payments>>

\* A payer fills in the form; an invoice without start_parameter may be
\* forwarded and paid by somebody else.  One payer pays one message once.
Ask(a, i, p) ==
    /\ attempts[a].stage = "idle"
    /\ i \in DOMAIN invoices
    /\ \A b \in Attempts : attempts[b].invoice = i /\ attempts[b].payer = p
                           => attempts[b].stage = "refused"
    /\ attempts' = [attempts EXCEPT ![a].stage = "asked", ![a].invoice = i, ![a].payer = p]
    /\ UNCHANGED <<now, event, rows, invoices, payments>>

-----------------------------------------------------------------------------
(* pre_checkout *)

\* Faulty variant: reservations that are not paid yet hold no seat.
RoomForUnpaid(n) == n <= event.max - SeatCount({r \in rows : Paid(r)})

Room(n) == n <= event.max - SeatCount(rows)

Open(p) == event.live /\ now <= EventTs /\ (event.open \/ p \in Admins)

\* sign_up makes a pending row; beyond the limit per user it makes none, and
\* pre_checkout approves all the same.  The answer may fail to reach Telegram.
Reserve(a) ==
    LET p == attempts[a].payer
        n == InvoiceOf(a).seats
    IN  /\ Open(p) /\ Room(n)
        /\ \/ /\ SeatCount(Of(p)) + n <= PerUser
              /\ rows' = rows \cup {[id |-> NewId, user |-> p, seats |-> n,
                                     ts |-> now, payment |-> Unpaid]}
              /\ \/ Stage(a, "refused")
                 \/ attempts' = [attempts EXCEPT ![a].stage = "approved", ![a].since = now]
           \/ /\ SeatCount(Of(p)) + n > PerUser
              /\ UNCHANGED rows
              /\ \E stage \in {"approved", "refused"} : Stage(a, stage)

PreCheckout(a) ==
    /\ attempts[a].stage = "asked"
    /\ Reserve(a)
    /\ UNCHANGED <<now, event, invoices, payments>>

\* sign_up refuses; or the query found no connection and is never answered.
Refuse(a) ==
    /\ attempts[a].stage = "asked"
    /\ Stage(a, "refused")
    /\ UNCHANGED <<now, event, rows, invoices, payments>>

\* Telegram and the bank: the payment goes through, or does not.
Charge(a) ==
    /\ attempts[a].stage = "approved"
    /\ \/ Stage(a, "charged") /\ payments' = [payments EXCEPT ![a] = "sent"]
       \/ Stage(a, "refused") /\ UNCHANGED payments
    /\ UNCHANGED <<now, event, rows, invoices>>

-----------------------------------------------------------------------------
(* checkout *)

\* Faulty variant: the amounts are not looked at.
PendingOfUser(a) == {r \in rows : r.user = InvoiceOf(a).user /\ ~Paid(r)}

\* The pending rows of the user of the invoice, for as many tickets; that user
\* need not be the payer.
Pending(a) ==
    {r \in rows : /\ r.user = InvoiceOf(a).user /\ r.seats = InvoiceOf(a).seats
                  /\ ~Paid(r)}

\* Messages of one chat are handled one after the other.
StartCheckout(a) ==
    /\ attempts[a].stage = "charged" /\ payments[a] \in {"fetched", "gone"}
    /\ \A b \in Attempts : attempts[b].payer = attempts[a].payer
                           => attempts[b].stage # "found"

CheckoutFind(a) ==
    /\ StartCheckout(a)
    /\ \/ ~event.live /\ Stage(a, "lost")
       \/ event.live /\ Pending(a) = {} /\ Stage(a, "lost")
       \/ /\ event.live
          /\ \E r \in Pending(a) :
                attempts' = [attempts EXCEPT ![a].stage = "found", ![a].row = r.id]
    /\ UNCHANGED <<now, event, rows, invoices, payments>>

\* Faulty variant: UPDATE ... WHERE event = ? AND user = ?.
PaidRows(a) ==
    {IF r.user = InvoiceOf(a).user THEN [r EXCEPT !.payment = a] ELSE r : r \in rows}

\* UPDATE ... WHERE id = ?: the row with the id that was found, if any.
RowsAfterPayment(a) ==
    {IF r.id = attempts[a].row THEN [r EXCEPT !.payment = a] ELSE r : r \in rows}

\* The number of rows that were updated is not looked at.
CheckoutUpdate(a) ==
    /\ attempts[a].stage = "found"
    /\ rows' = RowsAfterPayment(a)
    /\ attempts' = [attempts EXCEPT ![a].stage = "paid", ![a].row = 0,
                                 ![a].since = -1]
    /\ UNCHANGED <<now, event, invoices, payments>>

\* There is no connection, or a statement fails: get_event, what it notes in
\* current_events, the SELECT, or the UPDATE.  Nothing is tried again.
CheckoutFails(a) ==
    /\ StartCheckout(a) \/ attempts[a].stage = "found"
    /\ attempts' = [attempts EXCEPT ![a].stage = "lost", ![a].row = 0]
    /\ UNCHANGED <<now, event, rows, invoices, payments>>

-----------------------------------------------------------------------------
(* Delivery of payments *)

\* The bot asks for updates: Telegram hands out new ones, and forgets what it has
\* handed out before.
GetUpdates ==
    /\ \E a \in Attempts : payments[a] \in {"sent", "fetched"}
    /\ payments' = [a \in Attempts |-> CASE payments[a] = "sent" -> "fetched"
                                         [] payments[a] = "fetched" -> "gone"
                                         [] OTHER -> payments[a]]
    /\ UNCHANGED <<now, event, rows, invoices, attempts>>

\* A try after the bot was started again: a payment that Telegram has not forgotten is
\* delivered again, stored or not; one in hand, or waiting in the dispatcher, is lost
\* if it has.
AfterRestart(a) ==
    [attempts[a] EXCEPT
        !.row = 0,
        !.again = @ \/ (attempts[a].stage = "paid" /\ payments[a] = "fetched"),
        !.stage = IF @ \in {"found", "paid", "lost"} /\ payments[a] = "fetched" THEN "charged"
                  ELSE IF @ = "found" \/ (@ = "charged" /\ payments[a] = "gone") THEN "lost"
                  ELSE @]

Restart ==
    /\ payments' = [a \in Attempts |-> IF payments[a] = "fetched" THEN "sent" ELSE payments[a]]
    /\ attempts' = [a \in Attempts |-> AfterRestart(a)]
    /\ UNCHANGED <<now, event, rows, invoices>>

-----------------------------------------------------------------------------
(* Housekeeping *)

\* Faulty variant: paid rows are not spared.
OverdueRow(r) == r.ts < now - Expiry

\* Faulty variant: an unpaid row is kept one minute less.
OverdueEarly(r) == ~Paid(r) /\ r.ts <= now - Expiry

Overdue(r) == ~Paid(r) /\ r.ts < now - Expiry

\* The housekeeping task, if it still runs, at any time.
ClearFailedPayments ==
    /\ \E r \in rows : Overdue(r)
    /\ rows' = {r \in rows : ~Overdue(r)}
    /\ UNCHANGED <<now, event, invoices, attempts, payments>>

-----------------------------------------------------------------------------
(* Administration and time *)

\* /delete_event, /delete_link, or clear_old_events once it is over.
DeleteEvent ==
    /\ event.live
    /\ Admins # {} \/ EventTs < now
    /\ event' = [event EXCEPT !.live = FALSE]
    /\ rows' = {}
    /\ UNCHANGED <<now, invoices, attempts, payments>>

ChangeEvent ==
    /\ event.live
    /\ Admins # {}
    /\ \/ event' = [event EXCEPT !.open = ~@]
       \/ \E max \in Limits : event' = [event EXCEPT !.max = max]
    /\ UNCHANGED <<now, rows, invoices, attempts, payments>>

\* History: what the queries of u have booked may be gone.
Forget(u) ==
    attempts' = [a \in Attempts |-> IF attempts[a].payer = u
                                    THEN [attempts[a] EXCEPT !.since = -1]
                                    ELSE attempts[a]]

\* The Cancel button: one row for one adult, paid or not, or of a child.
Cancel(u, seats) ==
    /\ \E r \in Of(u) : r.seats = seats /\ rows' = rows \ {r}
    /\ Forget(u)
    /\ UNCHANGED <<now, event, invoices, payments>>

\* The sign-up button for a child: sign_up with the amount 0 makes a row that
\* waits for its payment like any other.  One child for a user.
SignUpChild(u) ==
    /\ u \in Parents
    /\ Open(u) /\ Room(0)
    /\ \A r \in Of(u) : r.seats # 0
    /\ rows' = rows \cup {[id |-> NewId, user |-> u, seats |-> 0, ts |-> now, payment |-> Unpaid]}
    /\ UNCHANGED <<now, event, invoices, attempts, payments>>

\* /delete_reservation, and /ban if it cancels reservations: paid ones too.
TakeAway(u) ==
    /\ Admins # {}
    /\ rows' = {r \in rows : r.user # u}
    /\ Forget(u)
    /\ UNCHANGED <<now, event, invoices, payments>>

Tick ==
    /\ now < LastTs
    /\ now' = now + 1
    /\ UNCHANGED <<event, rows, invoices, attempts, payments>>

Next ==
    \/ \E i \in Invoices, u \in Users, n \in SeatNumbers : PrepareInvoice(i, u, n)
    \/ \E a \in Attempts, i \in Invoices, p \in Users : Ask(a, i, p)
    \/ \E a \in Attempts : PreCheckout(a) \/ Refuse(a) \/ Charge(a)
    \/ \E a \in Attempts : CheckoutFind(a) \/ CheckoutUpdate(a) \/ CheckoutFails(a)
    \/ GetUpdates \/ Restart \/ ClearFailedPayments
    \/ DeleteEvent \/ ChangeEvent \/ Tick
    \/ \E u \in Users : TakeAway(u) \/ Cancel(u, 0) \/ Cancel(u, 1) \/ SignUpChild(u)

Spec == Init /\ [][Next]_vars

-----------------------------------------------------------------------------
(* Properties *)

\* The bot is through with the payment of attempt a.
Processed(a) ==
    attempts[a].stage \in {"charged", "found"} /\ attempts'[a].stage \in {"paid", "lost"}

HasTicket(rs, a) ==
    \E r \in rs : Paid(r) /\ r.user = InvoiceOf(a).user /\ r.seats = InvoiceOf(a).seats

\* Whoever has paid keeps the seat until an administrator takes it, the user
\* cancels a single ticket, or the event is deleted: clear_failed_payments never
\* races with checkout so far that it takes a paid row.
PaidRowsStay ==
    [][\A r \in rows : Paid(r) =>
        \/ \E s \in rows' : s.id = r.id /\ s.user = r.user /\ Paid(s)
        \/ DeleteEvent
        \/ TakeAway(r.user)
        \/ r.seats \in {0, 1} /\ Cancel(r.user, r.seats)]_vars

\* One payment makes two tickets in one case only: checkout had stored it, and the
\* bot stopped before Telegram forgot it, so that it came a second time and was given
\* another reservation of the same size.  checkout does not look for its charge id.
OneTicketPerCharge ==
    \A r, s \in rows :
        Paid(r) /\ r.payment = s.payment => r = s \/ attempts[r.payment].again

\* Tickets are sold within the capacity: unpaid reservations hold their seats.
NeverOversold ==
    [][SeatCount(rows') > SeatCount(rows) => SeatCount(rows') <= event'.max]_vars

\* Somebody whose query made a reservation gets the ticket if the payment
\* arrives while it stands, in the user's own name, and no other try for as
\* many tickets is there to be mistaken for it; unless a statement of checkout fails
\* or the bot is stopped with the payment in hand.
PromptPaymentServed ==
    [][\A a \in Attempts :
        LET u == attempts[a].payer
            sole == \A b \in Attempts \ {a} :
                attempts[b].stage = "idle" \/ InvoiceOf(b).seats # InvoiceOf(a).seats
        IN  /\ Processed(a)
            /\ attempts[a].since >= 0 /\ now <= attempts[a].since + Expiry
            /\ InvoiceOf(a).user = u /\ sole /\ event.live
            => HasTicket(rows', a) \/ CheckoutFails(a) \/ Restart]_vars

\* README: after the payment the user sees the event booked and paid.  A
\* payment that takes longer than the reservation stands finds none, though no
\* statement fails.
PaidHasTicket ==
    [][\A a \in Attempts :
        Processed(a) => HasTicket(rows', a) \/ CheckoutFails(a) \/ Restart]_vars
=============================================================================
