------------------------------ MODULE MCAccess ------------------------------
(* A small instance of Access for TLC.                                     *)
EXTENDS Access, TLC

CONSTANTS c1, u1, u2, s1, s2, f1

OneCode == {<<c1>>}

(* One session by key, which any account may hold, and one by account.     *)
KeyAndUser == (s1 :> f1) @@ (s2 :> u2)
KeyOnly == s1 :> f1

(* The run "roles": its cookie names the key, so accounts are alike.       *)
RolesSymmetry == Permutations(Pages) \cup Permutations(Users)
=============================================================================
