---------------------------- MODULE MCLspLifecycle ----------------------------
(* Small instances of LspLifecycle for TLC. *)
EXTENDS LspLifecycle, TLC

CONSTANTS t1, t2, nobody

Symmetry == Permutations(Threads)
=============================================================================
