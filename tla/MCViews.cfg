SPECIFICATION Spec
CONSTANTS
    TicketIds = {t1, t2, t3}
    Issues <- AllIssues
    Redemptions = {x1}
    Rerecorders = {x1}
    None = None
    Accounts = {u1, u2}
    Names = {n1, n2}
SYMMETRY Symmetry
INVARIANTS
    FoundOnce
    LabelIsTheirs
PROPERTIES
    PrintFollowsPage
