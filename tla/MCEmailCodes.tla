---------------------------- MODULE MCEmailCodes ----------------------------
(* Small instances of EmailCodes for TLC.                                  *)
EXTENDS EmailCodes, TLC

(* Requests of a kind, accounts and addresses are interchangeable.         *)
Symmetry ==
    Permutations(Sends) \cup Permutations(Visits)
        \cup Permutations(Edits) \cup Permutations(Accounts)
        \cup Permutations(Addresses)
=============================================================================
