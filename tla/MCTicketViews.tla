--------------------------- MODULE MCTicketViews ---------------------------
(* A small instance of TicketViews: a code per ticket, and every owner.    *)
EXTENDS TicketViews, TLC

AllIssues ==
    [code : TicketIds, owner : Accounts \cup {None}, name : Names]

Symmetry ==
    Permutations(TicketIds) \cup Permutations(Accounts)
        \cup Permutations(Names)
=============================================================================
