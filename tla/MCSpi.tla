------------------------------- MODULE MCSpi -------------------------------
(* An instance of Spi for TLC: two chips on one bus.                         *)
EXTENDS Spi, TLC

CONSTANTS chipA, chipB, slow, fast

Chips == Permutations({chipA, chipB})
=============================================================================
