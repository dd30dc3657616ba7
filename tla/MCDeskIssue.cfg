SPECIFICATION FairSpec
CONSTANTS
    c1 = c1
    c2 = c2
    Desk = {d1}
    Partner = {}
    Clerk = {k1, k2}
    Users = {u1}
    Names = {n1}
    Codes = {c1, c2}
    FormCodes <- ListForms
    TicketIds = {t1, t2}
    MAX_TICKETS = 2
    MAX_CODE_ATTEMPTS = 2
    None = None
INVARIANTS
    TypeOK
    OwnTicketsOnly
    RecordedIsReported
    CodesUnique
    IssuedInFull
PROPERTIES EveryRequestEnds
