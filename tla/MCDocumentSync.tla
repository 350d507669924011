--------------------------- MODULE MCDocumentSync ---------------------------
(* Small instances of DocumentSync for TLC. *)
EXTENDS DocumentSync, TLC

CONSTANTS f1, f2, t1, t2, d1, d2, empty, text

MCInitialDisks == {[f \in Files |-> Empty]}

MCWorkspaceFor == (f1 :> d1) @@ (f2 :> d2)

(* One file with a text, and the same file with the other text together    *)
(* with a second one.                                                       *)
MCFileData == {(f1 :> text), (f1 :> empty) @@ (f2 :> text)}

Symmetry == Permutations(Threads)
=============================================================================
