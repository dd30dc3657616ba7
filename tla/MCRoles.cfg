SPECIFICATION Spec
CONSTANTS
    c1 = c1
    u1 = u1
    u2 = u2
    s1 = s1
    s2 = s2
    f1 = f1
    Desk = {}
    Clerk = {}
    Pages = {q1, q2}
    Searches = {q1, q2}
    Users = {u1, u2, u3}
    Names = {}
    Codes = {c1}
    FormCodes <- OneCode
    TicketIds = {t1}
    MAX_TICKETS = 1
    MAX_CODE_ATTEMPTS = 1
    Sessions = {s1}
    Keys = {f1}
    names <- KeyOnly
    DisplayNames = {n1, n2, None}
    Prefixed = {n1}
    Matching = {n1, n2}
    LIMIT = 2
    None = None
SYMMETRY RolesSymmetry
PROPERTIES
    OnlyAsAsked
    ListedOnce
