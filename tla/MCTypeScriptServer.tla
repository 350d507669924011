-------------------------- MODULE MCTypeScriptServer --------------------------
(* Small instances of TypeScriptServer for TLC. *)
EXTENDS TypeScriptServer, TLC

CONSTANTS t1, t2, nobody
=============================================================================
