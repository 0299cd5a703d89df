\* One user pays one invoice, and takes time.
SPECIFICATION Spec
CONSTANTS
    i1 = i1
    a1 = a1
    u1 = u1
    Users = {u1}
    Admins = {}
    Buyers = {u1}
    Parents = {}
    Invoices = {i1}
    Attempts = {a1}
    SeatNumbers = {1}
    Limits = {2}
    PerUser = 2
    EventTs = 3
    Expiry = 1
    LastTs = 3
    NoInvoice = NoInvoice
    Unpaid = Unpaid
PROPERTIES PaidHasTicket
