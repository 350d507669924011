------------------------- MODULE TranslationUnitStore -------------------------
(***************************************************************************)
(* The map from files to translation units and to the hash of the flags    *)
(* they were asked with (cpp/ycm/ClangCompleter/TranslationUnitStore.cpp). *)
(* Each definition below is one critical section of the store's mutex.     *)
(* Flags stand for their hash: two flags are taken to have two hashes.     *)
(***************************************************************************)
EXTENDS TranslationUnit

CONSTANTS NoUnit, NoFlags

VARIABLES
  store,       \* filename_to_translation_unit_
  flagsHash,   \* filename_to_flags_hash_
  disturbed    \* history: the files whose sentinel was removed, or replaced
               \* for other flags, while a thread (one of the "losers" below)
               \* was parsing the unit it stood for

StoreTypeOK ==
  /\ store \in [Files -> Units \cup {Sentinel, NoUnit}]
  /\ flagsHash \in [Files -> Flags \cup {NoFlags}]
  /\ disturbed \subseteq Files

StoreInit ==
  /\ store = [f \in Files |-> NoUnit]
  /\ flagsHash = [f \in Files |-> NoFlags]
  /\ disturbed = {}

(* Mutant: the flags are not compared. *)
IsStored_AnyFlags(f, fl) == store[f] # NoUnit

(* The stored unit may be returned: it is there, with these flags.         *)
IsStored(f, fl) == store[f] # NoUnit /\ flagsHash[f] = fl

(* Mutant: the hash of the flags is stored with the unit. *)
StoreSentinel_NoFlags(f, fl, losers) ==
  /\ store' = [store EXCEPT ![f] = Sentinel]
  /\ disturbed' = IF losers = {} THEN disturbed ELSE disturbed \cup {f}
  /\ UNCHANGED flagsHash

StoreSentinel(f, fl, losers) ==
  /\ store' = [store EXCEPT ![f] = Sentinel]
  /\ flagsHash' = [flagsHash EXCEPT ![f] = fl]
  /\ disturbed' = IF losers = {} THEN disturbed ELSE disturbed \cup {f}

(* The flags are taken to be stored already, with the sentinel. *)
StoreUnit(f, u) ==
  /\ store' = [store EXCEPT ![f] = u]
  /\ UNCHANGED <<flagsHash, disturbed>>

(* Whatever unit is stored for the file is dropped, with its flags.        *)
Remove(f, losers) ==
  /\ store' = [store EXCEPT ![f] = NoUnit]
  /\ flagsHash' = [flagsHash EXCEPT ![f] = NoFlags]
  /\ disturbed' = IF losers = {} THEN disturbed ELSE disturbed \cup {f}
=============================================================================
