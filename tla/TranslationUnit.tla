--------------------------- MODULE TranslationUnit ---------------------------
(***************************************************************************)
(* libclang translation units and the mutex of each                        *)
(* (cpp/ycm/ClangCompleter/TranslationUnit.cpp).  A unit is parsed when it *)
(* is made, parsed again by Reparse, and destroyed when a reparse fails:   *)
(* its pointer to libclang is null from then on.  clang_access_mutex_ is   *)
(* held during every call of libclang; it is released between the reparse  *)
(* and the reading of the diagnostics, and between the reparse and the     *)
(* destruction that follows its failure.                                   *)
(*                                                                         *)
(* The sentinel is the unit of the default constructor: its pointer is     *)
(* null for ever, so that all sentinels are one value here.                *)
(***************************************************************************)
EXTENDS Naturals, Sequences

CONSTANTS
  Files,       \* the paths of translation units
  Flags,       \* the compiler flags a request may come with
  Threads,     \* the threads that handle requests
  NoThread,
  Sentinel     \* TranslationUnit()

VARIABLE
  units        \* the units that were parsed, in that order

Units == 1..Len(units)

Unit == [file : Files, flags : Flags,
         clang : BOOLEAN,                  \* clang_translation_unit_ # nullptr
         access : Threads \cup {NoThread}, \* who holds clang_access_mutex_
         parses : Nat,                     \* how often it was parsed again
         diagnostics : Nat]                \* the parse of latest_diagnostics_

NewUnit(f, fl) ==
  [file |-> f, flags |-> fl, clang |-> TRUE, access |-> NoThread,
   parses |-> 0, diagnostics |-> 0]

(* Whether the pointer to libclang is not null. *)
IsValid(u) == u # Sentinel /\ units[u].clang

(* clang_access_mutex_ can be taken.                                       *)
IsFree(u) == units[u].access = NoThread

(* Read without the mutex: nobody waits for a unit that is being parsed.   *)
IsCurrentlyUpdating(u) == IsValid(u) => ~ IsFree(u)

(* Mutant: libclang is called without the mutex. *)
Lock_Shared(t, u) == units' = [units EXCEPT ![u].access = t]

Lock(t, u) ==
  /\ IsFree(u)
  /\ units' = [units EXCEPT ![u].access = t]

Unlock(u) == units' = [units EXCEPT ![u].access = NoThread]

(* The end of a reparse that succeeded. *)
Reparsed(u) ==
  units' = [units EXCEPT ![u].access = NoThread, ![u].parses = @ + 1]

(* It needs the mutex, which the reparse that failed has released.         *)
Destroy(u) ==
  /\ IsFree(u)
  /\ units' = [units EXCEPT ![u].clang = FALSE]

(* libclang reports no diagnostics for a unit that is null.                *)
UpdateLatestDiagnostics(u) ==
  /\ IsFree(u)
  /\ units' = [units EXCEPT ![u].diagnostics =
                              IF IsValid(u) THEN units[u].parses ELSE 0]
=============================================================================
