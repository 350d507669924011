---------------------------- MODULE LspDocuments ----------------------------
(***************************************************************************)
(* What a language server is promised about text documents, whatever the   *)
(* client does inside: the text document life cycle of the language server *)
(* protocol as ycmd uses it.  A document is opened with version 1 when it  *)
(* is not open, changed (whole text, next version) while it is open, and   *)
(* closed while it is open.  The promise about a document may lapse, and   *)
(* then says nothing of it any more.                                       *)
(***************************************************************************)
EXTENDS Naturals

CONSTANTS Files,       \* the paths of the documents
          Contents     \* the texts a document may have

VARIABLES doc,         \* the server's copy of every document
          unprotected  \* documents about which nothing is promised any more

Document == [open : BOOLEAN, version : Nat, contents : Contents]

(* A closed document: its version and text carry no information. *)
IsClosed(d) == ~ d.open

DidOpen(f) ==
  /\ IsClosed(doc[f])
  /\ \E c \in Contents :
       doc' = [doc EXCEPT ![f] = [open |-> TRUE, version |-> 1,
                                  contents |-> c]]

DidChange(f) ==
  /\ ~ IsClosed(doc[f])
  /\ \E c \in Contents :
       doc' = [doc EXCEPT ![f] = [open |-> TRUE, version |-> @.version + 1,
                                  contents |-> c]]

DidClose(f) ==
  /\ ~ IsClosed(doc[f])
  /\ doc' = [doc EXCEPT ![f].open = FALSE]

(* No other document is affected, whatever is done to this one. *)
Anything(f) ==
  /\ f \in unprotected
  /\ doc' = [doc EXCEPT ![f] = doc'[f]]
  /\ doc'[f] \in Document

Lapse(f) ==
  /\ unprotected' = unprotected \cup {f}
  /\ UNCHANGED doc

Init ==
  /\ doc \in [Files -> Document]
  /\ \A f \in Files : IsClosed(doc[f])
  /\ unprotected = {}

Next ==
  \E f \in Files :
    \/ (DidOpen(f) \/ DidChange(f) \/ DidClose(f) \/ Anything(f))
         /\ UNCHANGED unprotected
    \/ Lapse(f)

Spec == Init /\ [][Next]_<<doc, unprotected>>
=============================================================================
