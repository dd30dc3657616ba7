SPECIFICATION Spec
CONSTANTS
    c1 = c1
    c2 = c2
    Desk = {d1, d2}
    Partner = {p1}
    Clerk = {k1}
    Users = {u1}
    Names = {}
    Codes = {c1}
    FormCodes <- TwiceForms
    TicketIds = {t1}
    MAX_TICKETS = 1
    MAX_CODE_ATTEMPTS = 2
    None = None
INVARIANT RedeemedAtMostOnce
