SPECIFICATION Spec
CONSTANTS
    c1 = c1
    u1 = u1
    u2 = u2
    s1 = s1
    s2 = s2
    f1 = f1
    Desk = {d1}
    Clerk = {k1}
    Pages = {q1}
    Searches = {}
    Users = {u1, u2}
    Names = {}
    Codes = {c1}
    FormCodes <- OneCode
    TicketIds = {t1}
    MAX_TICKETS = 1
    MAX_CODE_ATTEMPTS = 1
    Sessions = {s1, s2}
    Keys = {f1}
    names <- KeyAndUser
    DisplayNames = {n1}
    Prefixed = {}
    Matching = {}
    LIMIT = 1
    None = None
INVARIANT ActsForItsSession
PROPERTY BarredStaysOut
