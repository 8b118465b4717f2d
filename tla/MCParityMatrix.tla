--------------------------- MODULE MCParityMatrix ---------------------------
(* One workflow that is compared as a whole, and HIGHZ with two elements. *)
EXTENDS ParityMatrix

CONSTANT Copper
MCOrder == <<Copper, HighZ>>
MCElements == 1 .. 2
=============================================================================
