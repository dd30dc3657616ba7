---------------------------- MODULE MCTicketDesk ----------------------------
(* Small instances of TicketDesk for TLC.                                  *)
EXTENDS TicketDesk, TLC

CONSTANTS c1, c2

TwiceForms == {<<c1, c1>>}
ListForms == {<<>>, <<c1, c2>>, <<c1, c1>>}

(* Requests of a kind, and accounts, are interchangeable; so are primary   *)
(* keys.                                                                   *)
Symmetry ==
    Permutations(Desk) \cup Permutations(Partner) \cup Permutations(Clerk)
        \cup Permutations(Users) \cup Permutations(TicketIds)
=============================================================================
