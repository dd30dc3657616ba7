----------------------------- MODULE MCStartUp -----------------------------
(* A small instance of StartUp for TLC.                                    *)
EXTENDS StartUp
=============================================================================
