SPECIFICATION Spec
CONSTANTS
    Links = {l1}
    Removes = {m1}
    Creates = {c1}
    Registers = {r1, r2}
    Accounts = {x1, x2}
    Keys = {k1, k2}
    Googles = {g1}
    Microsofts = {}
    MaxRestarts = 1
    None = None
SYMMETRY Symmetry
\* The requests are one-shot and the restarts bounded.
CHECK_DEADLOCK FALSE
INVARIANTS
    TypeOK
PROPERTIES
    LinkedToBeginner
    HeldIsKept
    GoneStaysGone
