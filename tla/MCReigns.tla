------------------------------ MODULE MCReigns ------------------------------
(* An instance of Reigns for TLC.                                          *)
EXTENDS Reigns

CONSTANTS p1
=============================================================================
