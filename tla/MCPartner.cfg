SPECIFICATION Spec
CONSTANTS
    Edits = {e1, e2}
    Calls = {c1, c2}
    Partners = {p1, p2}
    KeyIds = {k1, k2}
    Materials = {m1}
    Accounts = {u1, u2}
    Externals = {x1}
    TicketIds = {t1}
    None = None
SYMMETRY Symmetry
PROPERTIES
    RevokedStaysRevoked
    KeptIsKept
    AttributedToNamed
