------------------------------- MODULE MCLin -------------------------------
(***************************************************************************)
(* Values of Lin's constants for TLC.                                      *)
(***************************************************************************)
EXTENDS Lin

CONSTANTS auto, classic, x1, x2
=============================================================================
