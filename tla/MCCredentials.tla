--------------------------- MODULE MCCredentials ---------------------------
(* Small instances of Credentials for TLC.                                 *)
EXTENDS Credentials, TLC

(* Requests of a kind, accounts, and credentials of a kind are             *)
(* interchangeable.                                                        *)
Symmetry ==
    Permutations(Links) \cup Permutations(Removes) \cup Permutations(Creates)
        \cup Permutations(Registers) \cup Permutations(Accounts)
        \cup Permutations(Keys) \cup Permutations(Googles)
=============================================================================
