--------------------------- MODULE MCLspConnection ---------------------------
(* Small instances of LspConnection for TLC. *)
EXTENDS LspConnection, TLC

CONSTANTS t1, t2

Symmetry == Permutations(Threads)
=============================================================================
