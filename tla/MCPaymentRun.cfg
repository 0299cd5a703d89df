\* Two tries to pay for one or two tickets.
SPECIFICATION Spec
CONSTANTS
    i1 = i1
    i2 = i2
    a1 = a1
    a2 = a2
    admin = admin
    u1 = u1
    Users = {admin, u1}
    Admins = {admin}
    Buyers = {u1}
    Parents = {u1}
    Invoices = {i1, i2}
    Attempts = {a1, a2}
    SeatNumbers = {1, 2}
    Limits = {1, 2}
    PerUser = 2
    EventTs = 1
    Expiry = 1
    LastTs = 2
    NoInvoice = NoInvoice
    Unpaid = Unpaid
SYMMETRY Symmetry
INVARIANTS TypeOK OneTicketPerCharge
PROPERTIES PaidRowsStay NeverOversold PromptPaymentServed
