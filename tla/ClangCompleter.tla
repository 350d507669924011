---------------------------- MODULE ClangCompleter ----------------------------
(***************************************************************************)
(* Requests for the C-family languages, each in a thread of its own, on    *)
(* the translation units they share: completers/cpp/clang_completer.py and *)
(* cpp/ycm/ClangCompleter/ClangCompleter.cpp, with TranslationUnitStore    *)
(* and TranslationUnit.  The GIL is released in every call of the C++ part *)
(* (cpp/ycm/ycm_core.cpp).  A request finds out whether the file is being  *)
(* parsed, gets or makes its unit, parses it again, reads its diagnostics  *)
(* or looks something up in it: other threads may run between these steps. *)
(***************************************************************************)
EXTENDS TranslationUnitStore, FiniteSets

CONSTANTS
  NoRequest,
  Operations,   \* the requests the editor sends
  MaxRequests   \* bound: requests started in a behaviour

AllOperations == {"update", "complete", "goto", "goto_imprecise", "fixit",
                  "docs", "unload"}

ASSUME ClangCompleterAssumption ==
  /\ NoThread \notin Threads /\ NoFlags \notin Flags
  /\ Sentinel \notin Nat /\ NoUnit \notin Nat /\ Sentinel # NoUnit
  /\ Operations \subseteq AllOperations
  /\ MaxRequests \in Nat

VARIABLES
  filesBeingCompiled, \* _files_being_compiled
  pc,                 \* what each thread does next
  req,                \* the request each thread handles
  unit,               \* the translation unit it works on
  mine,               \* the number of its own reparse of that unit
  requests            \* how many requests were started

storeVars == <<store, flagsHash, disturbed>>
vars == <<units, storeVars, filesBeingCompiled, pc, req, unit, mine,
          requests>>

(* The threads that have stored a sentinel for f and parse its unit.       *)
Creators(f) == {t \in Threads : pc[t] = "create" /\ req[t].file = f}

Goto(t, step) == pc' = [pc EXCEPT ![t] = step]

-----------------------------------------------------------------------------
(* A request begins.                                                       *)

(* What a command does first.  Only OnFileReadyToParse does not care       *)
(* whether the file is being parsed.                                       *)
FirstStep(op) == CASE op = "unload" -> "remove"
                   [] op = "update" -> "enter"
                   [] OTHER         -> "get"

(* Commands that look something up or change code parse the unit before,   *)
(* unless they are the Imprecise kind; the completion does it in libclang. *)
Reparses(op) == op \in {"update", "goto", "fixit", "docs", "header"}

IsExclusive(op) == op \in {"update", "complete"}

Begin(t) ==
  /\ pc[t] = "idle" /\ requests < MaxRequests
  /\ \E op \in Operations, f \in Files, fl \in Flags :
       /\ req' = [req EXCEPT ![t] = [op |-> op, file |-> f, flags |-> fl]]
       /\ Goto(t, FirstStep(op))
  /\ requests' = requests + 1
  /\ UNCHANGED <<units, storeVars, filesBeingCompiled, unit, mine>>

(* The request is done, or has raised an exception. *)
Return(t) ==
  /\ Goto(t, "idle")
  /\ req' = [req EXCEPT ![t] = NoRequest]
  /\ unit' = [unit EXCEPT ![t] = NoUnit]
  /\ mine' = [mine EXCEPT ![t] = 0]

Leave(t) ==
  /\ pc[t] = "leave"
  /\ filesBeingCompiled' = IF IsExclusive(req[t].op)
                           THEN filesBeingCompiled \ {req[t].file}
                           ELSE filesBeingCompiled
  /\ Return(t)
  /\ UNCHANGED <<units, storeVars, requests>>

(* UpdatingTranslationUnit: a file without a unit is not being parsed.     *)
GetUnit(t) ==
  /\ pc[t] = "get"
  /\ unit' = [unit EXCEPT ![t] = store[req[t].file]]
  /\ Goto(t, "check")
  /\ UNCHANGED <<units, storeVars, filesBeingCompiled, req, mine, requests>>

AfterCheck(op) == IF IsExclusive(op) THEN "enter" ELSE "lookup"

CheckUpdating(t) ==
  /\ pc[t] = "check"
  /\ IF unit[t] # NoUnit /\ IsCurrentlyUpdating(unit[t])
     THEN Return(t)            \* "Still parsing file, no completions yet."
     ELSE /\ Goto(t, AfterCheck(req[t].op))
          /\ unit' = [unit EXCEPT ![t] = NoUnit]
          /\ UNCHANGED <<req, mine>>
  /\ UNCHANGED <<units, storeVars, filesBeingCompiled, requests>>

(* GetExclusive: "File already being parsed." if another thread is inside. *)
Enter(t) ==
  /\ pc[t] = "enter"
  /\ IF req[t].file \in filesBeingCompiled
     THEN Return(t) /\ UNCHANGED filesBeingCompiled
     ELSE /\ filesBeingCompiled' = filesBeingCompiled \cup {req[t].file}
          /\ Goto(t, "lookup")
          /\ UNCHANGED <<req, unit, mine>>
  /\ UNCHANGED <<units, storeVars, requests>>

(* OnBufferUnload: DeleteCachesForFile. *)
DeleteCachesForFile(t) ==
  /\ pc[t] = "remove"
  /\ Remove(req[t].file, Creators(req[t].file))
  /\ Goto(t, "leave")
  /\ UNCHANGED <<units, filesBeingCompiled, req, unit, mine, requests>>

-----------------------------------------------------------------------------
(* TranslationUnitStore::GetOrCreate.                                      *)

AfterLookup(op) == IF Reparses(op) THEN "reparse" ELSE "access"

FindUnit(t) ==
  /\ pc[t] = "lookup"
  /\ IsStored(req[t].file, req[t].flags)
  /\ unit' = [unit EXCEPT ![t] = store[req[t].file]]
  /\ Goto(t, AfterLookup(req[t].op))
  /\ UNCHANGED <<units, storeVars, filesBeingCompiled, req, mine, requests>>

BeginCreate(t) ==
  /\ pc[t] = "lookup"
  /\ ~ IsStored(req[t].file, req[t].flags)
  /\ StoreSentinel(req[t].file, req[t].flags,
                   {c \in Creators(req[t].file) : req[c].flags # req[t].flags})
  /\ Goto(t, "create")
  /\ UNCHANGED <<units, filesBeingCompiled, req, unit, mine, requests>>

(* The unit is parsed without any mutex, then stored. *)
Create(t) ==
  /\ pc[t] = "create"
  /\ units' = Append(units, NewUnit(req[t].file, req[t].flags))
  /\ StoreUnit(req[t].file, Len(units'))
  /\ unit' = [unit EXCEPT ![t] = Len(units')]
  /\ Goto(t, AfterLookup(req[t].op))
  /\ UNCHANGED <<filesBeingCompiled, req, mine, requests>>

(* Mutant: the sentinel stays in the store. *)
CreateFails_KeepsSentinel(t) ==
  /\ pc[t] = "create"
  /\ Goto(t, "leave")
  /\ UNCHANGED <<units, storeVars, filesBeingCompiled, req, unit, mine,
                 requests>>

CreateFails(t) ==
  /\ pc[t] = "create"
  /\ Remove(req[t].file, Creators(req[t].file) \ {t})
  /\ Goto(t, "leave")
  /\ UNCHANGED <<units, filesBeingCompiled, req, unit, mine, requests>>

-----------------------------------------------------------------------------
(* TranslationUnit::Reparse.                                               *)

AfterReparse(op) == IF op \in {"update", "fixit"} THEN "report" ELSE "access"

(* Nothing is done for a sentinel, nor for a unit that was destroyed.      *)
SkipReparse(t) ==
  /\ pc[t] = "reparse" /\ ~ IsValid(unit[t])
  /\ unit[t] \in Units => IsFree(unit[t])
  /\ Goto(t, AfterReparse(req[t].op))
  /\ UNCHANGED <<units, storeVars, filesBeingCompiled, req, unit, mine,
                 requests>>

BeginReparse(t) ==
  /\ pc[t] = "reparse" /\ IsValid(unit[t])
  /\ Lock(t, unit[t])
  /\ Goto(t, "reparsing")
  /\ UNCHANGED <<storeVars, filesBeingCompiled, req, unit, mine, requests>>

EndReparse(t) ==
  /\ pc[t] = "reparsing"
  /\ Reparsed(unit[t])
  /\ mine' = [mine EXCEPT ![t] = units[unit[t]].parses + 1]
  /\ Goto(t, "diagnose")
  /\ UNCHANGED <<storeVars, filesBeingCompiled, req, unit, requests>>

(* Mutant: the mutex is still held when the unit is destroyed. *)
ReparseFails_KeepsMutex(t) ==
  /\ pc[t] = "reparsing"
  /\ Goto(t, "destroy")
  /\ UNCHANGED <<units, storeVars, filesBeingCompiled, req, unit, mine,
                 requests>>

ReparseFails(t) ==
  /\ pc[t] = "reparsing"
  /\ Unlock(unit[t])
  /\ Goto(t, "destroy")
  /\ UNCHANGED <<storeVars, filesBeingCompiled, req, unit, mine, requests>>

(* Only UpdateTranslationUnit removes the unit from the store after that.  *)
DestroyUnit(t) ==
  /\ pc[t] = "destroy"
  /\ Destroy(unit[t])
  /\ Goto(t, IF req[t].op = "update" THEN "remove" ELSE "leave")
  /\ UNCHANGED <<storeVars, filesBeingCompiled, req, unit, mine, requests>>

(* Mutant: the diagnostics are read by the next request. *)
Diagnose_Later(t) ==
  /\ pc[t] = "diagnose"
  /\ Goto(t, AfterReparse(req[t].op))
  /\ UNCHANGED <<units, storeVars, filesBeingCompiled, req, unit, mine,
                 requests>>

Diagnose(t) ==
  /\ pc[t] = "diagnose"
  /\ UpdateLatestDiagnostics(unit[t])
  /\ Goto(t, AfterReparse(req[t].op))
  /\ UNCHANGED <<storeVars, filesBeingCompiled, req, unit, mine, requests>>

(* latest_diagnostics_ is copied, or searched for fixits, under its mutex. *)
Report(t) ==
  /\ pc[t] = "report"
  /\ Goto(t, "leave")
  /\ UNCHANGED <<units, storeVars, filesBeingCompiled, req, unit, mine,
                 requests>>

-----------------------------------------------------------------------------
(* Looking something up in the unit.                                       *)

(* A unit that is null gives the default answer.                           *)
SkipAccess(t) ==
  /\ pc[t] = "access" /\ ~ IsValid(unit[t])
  /\ unit[t] \in Units => IsFree(unit[t])
  /\ Goto(t, "leave")
  /\ UNCHANGED <<units, storeVars, filesBeingCompiled, req, unit, mine,
                 requests>>

BeginAccess(t) ==
  /\ pc[t] = "access" /\ IsValid(unit[t])
  /\ Lock(t, unit[t])
  /\ Goto(t, "accessing")
  /\ UNCHANGED <<storeVars, filesBeingCompiled, req, unit, mine, requests>>

EndAccess(t) ==
  /\ pc[t] = "accessing" /\ req[t].op # "docs"
  /\ Unlock(unit[t])
  /\ Goto(t, "leave")
  /\ UNCHANGED <<storeVars, filesBeingCompiled, req, unit, mine, requests>>

(* GetDocsForLocationInFile looks the declaration up first, and finds out  *)
(* whether it is in a system header (two accesses, of which nothing is     *)
(* kept but the place of the declaration, are one here).  It is not: the   *)
(* comment comes from the same unit, which is not parsed again.            *)
EndAccessInMainFile(t) ==
  /\ pc[t] = "accessing" /\ req[t].op = "docs"
  /\ Unlock(unit[t])
  /\ req' = [req EXCEPT ![t].op = "comment"]
  /\ Goto(t, "access")
  /\ UNCHANGED <<storeVars, filesBeingCompiled, unit, mine, requests>>

(* It is: the translation unit of the header itself is got or made.        *)
EndAccessInSystemHeader(t) ==
  /\ pc[t] = "accessing" /\ req[t].op = "docs"
  /\ Unlock(unit[t])
  /\ \E header \in Files \ {req[t].file} :
       req' = [req EXCEPT ![t].op = "header", ![t].file = header]
  /\ unit' = [unit EXCEPT ![t] = NoUnit]
  /\ mine' = [mine EXCEPT ![t] = 0]
  /\ Goto(t, "lookup")
  /\ UNCHANGED <<storeVars, filesBeingCompiled, requests>>

-----------------------------------------------------------------------------
Work(t) ==
  \/ Leave(t) \/ GetUnit(t) \/ CheckUpdating(t) \/ Enter(t)
  \/ DeleteCachesForFile(t)
  \/ FindUnit(t) \/ BeginCreate(t) \/ Create(t) \/ CreateFails(t)
  \/ SkipReparse(t) \/ BeginReparse(t) \/ EndReparse(t) \/ ReparseFails(t)
  \/ DestroyUnit(t) \/ Diagnose(t) \/ Report(t)
  \/ SkipAccess(t) \/ BeginAccess(t) \/ EndAccess(t)
  \/ EndAccessInMainFile(t) \/ EndAccessInSystemHeader(t)

Init ==
  /\ units = <<>> /\ StoreInit
  /\ filesBeingCompiled = {}
  /\ pc = [t \in Threads |-> "idle"]
  /\ req = [t \in Threads |-> NoRequest]
  /\ unit = [t \in Threads |-> NoUnit]
  /\ mine = [t \in Threads |-> 0]
  /\ requests = 0

Next == \E t \in Threads : Begin(t) \/ Work(t)

Spec == Init /\ [][Next]_vars

(* Requests go on: libclang returns, and no thread is starved. *)
FairSpec == Spec /\ \A t \in Threads : WF_vars(Work(t))

-----------------------------------------------------------------------------
Request == [op : AllOperations \cup {"comment", "header"}, file : Files,
            flags : Flags]

(* A thread that holds a unit's clang_access_mutex_ is inside libclang.    *)
MutexOwners ==
  \A u \in Units, t \in Threads :
    units[u].access = t <=> pc[t] \in {"reparsing", "accessing"} /\ unit[t] = u

(* Every variable has its type, and a unit's mutex is held by the thread   *)
(* that makes libclang work on it, and by no other.                        *)
TypeOK ==
  /\ units \in Seq(Unit)
  /\ StoreTypeOK
  /\ filesBeingCompiled \subseteq Files
  /\ pc \in [Threads -> {"idle", "get", "check", "enter", "lookup", "create",
                          "reparse", "reparsing", "destroy", "diagnose",
                          "report", "access", "accessing", "remove", "leave"}]
  /\ req \in [Threads -> Request \cup {NoRequest}]
  /\ unit \in [Threads -> Units \cup {Sentinel, NoUnit}]
  /\ mine \in [Threads -> Nat]
  /\ requests \in 0..MaxRequests
  /\ MutexOwners

(* "The TU store will ensure only one TU is created" (                     *)
(* TranslationUnitStore.h:41) when several threads ask for the same file:  *)
(* two threads parse it at once only after a request with other flags, or  *)
(* the unload of the buffer, has taken the sentinel away meanwhile.        *)
OneCreator ==
  \A f \in Files \ disturbed : Cardinality(Creators(f)) <= 1

(* GetOrCreate "makes sure to take into account the flags for the file     *)
(* before returning a stored TU" (TranslationUnitStore.h:54): a request    *)
(* works on a unit that was parsed with the flags it came with, and it is  *)
(* stored under their hash, unless a creation was disturbed in that way.   *)
FlagsRespected ==
  /\ \A f \in Files \ disturbed :
       store[f] \in Units => units[store[f]].flags = flagsHash[f]
  /\ \A t \in Threads :
       pc[t] \in {"reparse", "access"} /\ unit[t] \in Units =>
         \/ units[unit[t]].flags = req[t].flags
         \/ req[t].file \in disturbed

(* The diagnostics an update answers with are those of its own parse or of *)
(* a later one, although they are read after the mutex was released: only  *)
(* a unit that another request has destroyed meanwhile has none.           *)
DiagnosticsAreCurrent ==
  \A t \in Threads :
    pc[t] = "report" /\ mine[t] > 0 =>
      \/ units[unit[t]].diagnostics >= mine[t]
      \/ ~ IsValid(unit[t])

(* When no request runs, nothing is left behind that makes later requests  *)
(* for a file fail: no sentinel whose unit nobody parses, no file that is  *)
(* marked as being compiled, no mutex that is held.                        *)
NothingLeftBehind ==
  (\A t \in Threads : pc[t] = "idle") =>
    /\ filesBeingCompiled = {}
    /\ \A f \in Files : store[f] # Sentinel
    /\ \A u \in Units : IsFree(u)

(* What the code says: a unit whose reparse failed "needs to be destroyed  *)
(* and removed from the filename -> TU map" (ClangCompleter.cpp:85).  If   *)
(* it is not removed, IsCurrentlyUpdating is true of the file for ever.    *)
BrokenUnitsRemoved ==
  (\A t \in Threads : pc[t] = "idle") =>
    \A f \in Files : store[f] \in Units => IsValid(store[f])

(* Every request comes to an end: no thread waits for ever for a unit's    *)
(* mutex, which is not recursive and is taken several times by a request.  *)
RequestsEnd == \A t \in Threads : pc[t] # "idle" ~> pc[t] = "idle"
-----------------------------------------------------------------------------
(* The parts of an inductive invariant.                                     *)

(* Where a thread is, what it handles, and the unit and parse it refers to. *)
ControlInv ==
  \A t \in Threads :
    /\ pc[t] # "idle" => req[t] \in Request
    /\ pc[t] = "enter" => IsExclusive(req[t].op)
    /\ pc[t] \in {"reparse", "report", "access"} =>
         unit[t] \in Units \cup {Sentinel}
    /\ pc[t] \in {"reparsing", "destroy", "diagnose", "accessing"} =>
         unit[t] \in Units
    /\ mine[t] > 0 =>
         /\ pc[t] \in {"diagnose", "report", "access", "accessing", "leave"}
         /\ unit[t] \in Units /\ mine[t] <= units[unit[t]].parses

(* A creation nobody has disturbed is the only one of its file, and has its *)
(* sentinel and its flags in the store.                                     *)
CreatorInv ==
  \A t \in Threads :
    pc[t] = "create" /\ req[t].file \notin disturbed =>
      /\ store[req[t].file] = Sentinel
      /\ flagsHash[req[t].file] = req[t].flags
      /\ Creators(req[t].file) = {t}

(* Every sentinel in the store stands for a unit that somebody parses.      *)
SentinelInv == \A f \in Files : store[f] = Sentinel => Creators(f) # {}

(* Where a thread works on a unit that has not been destroyed by itself.    *)
Working ==
  {"reparse", "reparsing", "diagnose", "report", "access", "accessing"}

(* The unit stored for a file was parsed with the flags whose hash is       *)
(* stored, and the unit a thread works on with those of its request.        *)
FlagsInv ==
  /\ \A f \in Files \ disturbed :
       store[f] \in Units => units[store[f]].flags = flagsHash[f]
  /\ \A t \in Threads :
       pc[t] \in Working /\ unit[t] \in Units
       => \/ units[unit[t]].flags = req[t].flags
          \/ req[t].file \in disturbed

(* t is inside the exclusive hold of the file of its request.               *)
IsCompiling(t) ==
  pc[t] \notin {"idle", "get", "check", "enter"} /\ IsExclusive(req[t].op)

ExclusiveInv ==
  \A f \in filesBeingCompiled :
    \E t \in Threads : IsCompiling(t) /\ req[t].file = f

IInv ==
  /\ TypeOK /\ ControlInv /\ CreatorInv /\ SentinelInv
  /\ FlagsInv /\ ExclusiveInv /\ DiagnosticsAreCurrent
=============================================================================
