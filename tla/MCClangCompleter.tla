--------------------------- MODULE MCClangCompleter ---------------------------
(* Small instances of ClangCompleter for TLC. *)
EXTENDS ClangCompleter, TLC

CONSTANTS t1, t2, t3, nobody, none, sentinel
=============================================================================
