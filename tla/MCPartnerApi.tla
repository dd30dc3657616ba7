---------------------------- MODULE MCPartnerApi ----------------------------
(* Small instances of PartnerApi for TLC.                                  *)
EXTENDS PartnerApi, TLC

Symmetry ==
    Permutations(Edits) \cup Permutations(Calls) \cup Permutations(Partners)
        \cup Permutations(KeyIds) \cup Permutations(Materials)
        \cup Permutations(Accounts) \cup Permutations(Externals)
=============================================================================
