------------------------------- MODULE MCCan -------------------------------
(* An instance of Can for TLC: filter identifiers are interchangeable.       *)
EXTENDS Can, TLC

CONSTANTS f1, f2, any, std, ext

FilterSymmetry == Permutations({f1, f2})
=============================================================================
