SPECIFICATION Spec
CONSTANTS
    Sends = {s1, s2}
    Visits = {v1, v2}
    Edits = {e1}
    Accounts = {x1, x2}
    Addresses = {a1, a2}
    TTL = 1
    RESEND = 1
    MaxTime = 2
    None = None
SYMMETRY Symmetry
INVARIANTS
    GrantedByMail
    UsedCodesAreGone
PROPERTIES
    ConfirmedAddress
    SpentForever
    FreshErasedOnlyByStale
    ResendDelayed
