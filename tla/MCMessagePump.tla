--------------------------- MODULE MCMessagePump ---------------------------
(* A small instance of MessagePump for TLC.  The editor asks again when it  *)
(* was answered: there is one poll at a time.                               *)
EXTENDS MessagePump

CONSTANT p1

(* Contents with characters of several bytes, at the beginning, in the      *)
(* middle and before the end, and an empty one.                             *)
TextContents ==
  <<<<"byte", "lead", "byte">>, <<>>, <<"lead", "byte">>, <<"byte">>>>
=============================================================================
