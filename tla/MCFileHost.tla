------------------------------ MODULE MCFileHost ------------------------------
(* A small instance of FileHost: three calls at a time.                      *)
EXTENDS FileHost, TLC

CONSTANTS p1, p2, p3

Symmetric == Permutations(Callers)
=============================================================================
