--------------------------- MODULE MCReturnQueue ---------------------------
(* Small instances of ReturnQueue for TLC.                                 *)
EXTENDS ReturnQueue

CONSTANTS x1, x2, y1, ux, uy

\* x1, x2 are made by one user, y1 by another.
MCUserOf == [r \in Shots |-> IF r = y1 THEN uy ELSE ux]
=============================================================================
