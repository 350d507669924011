------------------------ MODULE ClangCompleter_proofs ------------------------
(***************************************************************************)
(* Proofs about ClangCompleter, for any set of threads, files and flags and*)
(* any number of requests, and whatever parse fails.                       *)
(*                                                                         *)
(* The argument: a unit's mutex is held by exactly the thread that makes   *)
(* libclang work on it (MutexOwners, in TypeOK), and what a thread refers to*)
(* is what its place in the code says (ControlInv).  A creation nobody has *)
(* disturbed is kept alone by its sentinel and the flags that are stored   *)
(* with it (CreatorInv), and each sentinel has its creator (SentinelInv):  *)
(* when all threads are idle there is none.  The flags of a unit never     *)
(* change, and a unit is found under the hash of its flags (FlagsInv).  The*)
(* parses of a unit are counted, so diagnostics that are read after the    *)
(* mutex was released can only be newer (DiagnosticsAreCurrent).           *)
(*                                                                         *)
(* First come lemmas about the units, each about one kind of change of one *)
(* of them; then one lemma for every action, with one step for every part  *)
(* of IInv.                                                                *)
(***************************************************************************)
EXTENDS ClangCompleter, FiniteSetTheorems, SequenceTheorems, TLAPS

USE ClangCompleterAssumption

(* What a change of one unit leaves alone. *)
LEMMA UnitChanged ==
  ASSUME units \in Seq(Unit), NEW u \in Units, NEW v \in Unit,
         units' = [units EXCEPT ![u] = v]
  PROVE  /\ units' \in Seq(Unit)
         /\ Units' = Units
         /\ \A w \in Units : units'[w] = IF w = u THEN v ELSE units[w]
<1>1. units \in [1..Len(units) -> Unit] /\ Len(units) \in Nat
  OBVIOUS
<1>2. units' \in [1..Len(units) -> Unit]
  BY <1>1 DEF Units
<1>3. units' \in Seq(Unit) /\ Len(units') = Len(units)
  BY <1>1, <1>2
<1> QED BY <1>1, <1>2, <1>3 DEF Units

(* Taking and releasing a unit's mutex. *)
LEMMA AccessChanged ==
  ASSUME units \in Seq(Unit), NEW u \in Units,
         NEW holder \in Threads \cup {NoThread},
         units' = [units EXCEPT ![u].access = holder]
  PROVE  /\ units' \in Seq(Unit)
         /\ Units' = Units
         /\ \A w \in Units :
              /\ units'[w].flags = units[w].flags
              /\ units'[w].clang = units[w].clang
              /\ units'[w].parses = units[w].parses
              /\ units'[w].diagnostics = units[w].diagnostics
              /\ w # u => units'[w].access = units[w].access
         /\ units'[u].access = holder
<1> DEFINE v == [units[u] EXCEPT !.access = holder]
<1>1. units[u] \in Unit
  BY DEF Units
<1>2. v \in Unit
  BY <1>1 DEF Unit
<1>3. units' = [units EXCEPT ![u] = v]
  OBVIOUS
<1>4. \A w \in Units : units'[w] = IF w = u THEN v ELSE units[w]
  BY <1>2, <1>3, UnitChanged
<1>5. /\ v.flags = units[u].flags /\ v.clang = units[u].clang
      /\ v.parses = units[u].parses /\ v.diagnostics = units[u].diagnostics
      /\ v.access = holder
  BY <1>1 DEF Unit
<1> HIDE DEF v
<1> QED BY <1>2, <1>3, <1>4, <1>5, UnitChanged

(* The end of a reparse that succeeded counts one more parse. *)
LEMMA UnitReparsed ==
  ASSUME units \in Seq(Unit), NEW u \in Units, Reparsed(u)
  PROVE  /\ units' \in Seq(Unit)
         /\ Units' = Units
         /\ \A w \in Units :
              /\ units'[w].flags = units[w].flags
              /\ units'[w].clang = units[w].clang
              /\ units'[w].diagnostics = units[w].diagnostics
              /\ w # u => /\ units'[w].parses = units[w].parses
                          /\ units'[w].access = units[w].access
         /\ units'[u].parses = units[u].parses + 1
         /\ units'[u].access = NoThread
<1> DEFINE n == units[u].parses + 1
           v == [units[u] EXCEPT !.access = NoThread, !.parses = n]
<1>1. units[u] \in Unit
  BY DEF Units
<1>2. v \in Unit
  <2>1. n \in Nat
    BY <1>1 DEF Unit
  <2> HIDE DEF n
  <2> QED BY <1>1, <2>1 DEF Unit
<1>3. units' = [units EXCEPT ![u] = v]
  BY DEF Reparsed
<1>4. \A w \in Units : units'[w] = IF w = u THEN v ELSE units[w]
  BY <1>2, <1>3, UnitChanged
<1>5. /\ v.flags = units[u].flags /\ v.clang = units[u].clang
      /\ v.parses = units[u].parses + 1
      /\ v.diagnostics = units[u].diagnostics
      /\ v.access = NoThread
  BY <1>1 DEF Unit
<1> HIDE DEF v
<1> QED BY <1>2, <1>3, <1>4, <1>5, UnitChanged

(* A unit that is destroyed loses its pointer to libclang. *)
LEMMA UnitDestroyed ==
  ASSUME units \in Seq(Unit), NEW u \in Units, Destroy(u)
  PROVE  /\ units' \in Seq(Unit)
         /\ Units' = Units
         /\ \A w \in Units :
              /\ units'[w].flags = units[w].flags
              /\ units'[w].parses = units[w].parses
              /\ units'[w].diagnostics = units[w].diagnostics
              /\ units'[w].access = units[w].access
              /\ w # u => units'[w].clang = units[w].clang
         /\ ~ units'[u].clang
<1> DEFINE v == [units[u] EXCEPT !.clang = FALSE]
<1>1. units[u] \in Unit
  BY DEF Units
<1>2. v \in Unit
  BY <1>1 DEF Unit
<1>3. units' = [units EXCEPT ![u] = v]
  BY DEF Destroy
<1>4. \A w \in Units : units'[w] = IF w = u THEN v ELSE units[w]
  BY <1>2, <1>3, UnitChanged
<1>5. /\ v.flags = units[u].flags /\ v.clang = FALSE
      /\ v.parses = units[u].parses
      /\ v.diagnostics = units[u].diagnostics
      /\ v.access = units[u].access
  BY <1>1 DEF Unit
<1> HIDE DEF v
<1> QED BY <1>2, <1>3, <1>4, <1>5, UnitChanged

(* The diagnostics are those of the last parse, unless the unit is null. *)
LEMMA UnitDiagnosed ==
  ASSUME units \in Seq(Unit), NEW u \in Units, UpdateLatestDiagnostics(u)
  PROVE  /\ units' \in Seq(Unit)
         /\ Units' = Units
         /\ \A w \in Units :
              /\ units'[w].flags = units[w].flags
              /\ units'[w].clang = units[w].clang
              /\ units'[w].parses = units[w].parses
              /\ units'[w].access = units[w].access
              /\ w # u => units'[w].diagnostics = units[w].diagnostics
         /\ IsValid(u) => units'[u].diagnostics = units[u].parses
<1> DEFINE d == IF IsValid(u) THEN units[u].parses ELSE 0
           v == [units[u] EXCEPT !.diagnostics = d]
<1>1. units[u] \in Unit
  BY DEF Units
<1>2. v \in Unit
  BY <1>1 DEF Unit
<1>3. units' = [units EXCEPT ![u] = v]
  BY DEF UpdateLatestDiagnostics
<1>4. \A w \in Units : units'[w] = IF w = u THEN v ELSE units[w]
  BY <1>2, <1>3, UnitChanged
<1>5. /\ v.flags = units[u].flags /\ v.clang = units[u].clang
      /\ v.parses = units[u].parses /\ v.diagnostics = d
      /\ v.access = units[u].access
  BY <1>1 DEF Unit
<1> HIDE DEF v
<1> QED BY <1>2, <1>3, <1>4, <1>5, UnitChanged

(* A new unit comes after the others, which it leaves alone. *)
LEMMA UnitAppended ==
  ASSUME units \in Seq(Unit), NEW f \in Files, NEW fl \in Flags,
         units' = Append(units, NewUnit(f, fl))
  PROVE  /\ units' \in Seq(Unit)
         /\ Units' = Units \cup {Len(units')}
         /\ Len(units') \in Nat \ Units
         /\ \A w \in Units : units'[w] = units[w]
         /\ units'[Len(units')] = NewUnit(f, fl)
<1>1. NewUnit(f, fl) \in Unit
  BY DEF NewUnit, Unit
<1> HIDE DEF NewUnit
<1> QED BY <1>1 DEF Units

(* What stands for no unit, or for one that is being parsed, is none. *)
LEMMA NotUnits ==
  ASSUME units \in Seq(Unit)
  PROVE  NoUnit \notin Units /\ Sentinel \notin Units
BY DEF Units

(* FlagsInv outlives every step that changes no flags and sets no thread to *)
(* work on another unit.                                                    *)
LEMMA FlagsKept ==
  ASSUME IInv, Units' = Units, UNCHANGED <<store, flagsHash, disturbed>>,
         \A w \in Units : units'[w].flags = units[w].flags,
         \A s \in Threads :
           pc'[s] \in Working => /\ pc[s] \in Working
                                /\ unit'[s] = unit[s]
                                /\ req'[s].flags = req[s].flags
                                /\ req'[s].file = req[s].file
  PROVE  FlagsInv'
<1>1. ASSUME NEW f \in Files \ disturbed, store[f] \in Units
      PROVE  units'[store[f]].flags = flagsHash[f]
  BY <1>1 DEF IInv, FlagsInv
<1>2. ASSUME NEW s \in Threads, pc'[s] \in Working, unit'[s] \in Units
      PROVE  \/ units'[unit'[s]].flags = req'[s].flags
             \/ req'[s].file \in disturbed
  BY <1>2 DEF IInv, FlagsInv
<1> QED BY <1>1, <1>2 DEF FlagsInv

(* MutexOwners outlives every step that changes no other thread's hold.     *)
LEMMA OwnersKept ==
  ASSUME IInv, NEW t \in Threads, Units' = Units,
         \A s \in Threads \ {t} : pc'[s] = pc[s] /\ unit'[s] = unit[s],
         \A w \in Units, s \in Threads \ {t} :
           units'[w].access = s <=> units[w].access = s,
         \A w \in Units :
           units'[w].access = t <=>
             pc'[t] \in {"reparsing", "accessing"} /\ unit'[t] = w
  PROVE  MutexOwners'
<1> SUFFICES ASSUME NEW w \in Units, NEW s \in Threads
             PROVE  units'[w].access = s <=>
                      pc'[s] \in {"reparsing", "accessing"} /\ unit'[s] = w
  BY DEF MutexOwners
<1>1. CASE s = t
  BY <1>1
<1>2. CASE s # t
  BY <1>2 DEF IInv, TypeOK, MutexOwners
<1> QED BY <1>1, <1>2

(* A request ends, or is turned away: it leaves nothing behind. *)
LEMMA ReturnStep ==
  ASSUME IInv, NEW t \in Threads, Return(t),
         pc[t] \notin {"create", "reparsing", "accessing"},
         UNCHANGED <<units, storeVars, requests>>,
         filesBeingCompiled' \subseteq filesBeingCompiled,
         IsCompiling(t) => req[t].file \notin filesBeingCompiled'
  PROVE  IInv'
<1>0. units' = units /\ Units' = Units
  BY DEF Units
<1>1. TypeOK'
  <2>1. MutexOwners'
    BY <1>0 DEF Return, Goto, IInv, TypeOK, MutexOwners
  <2>2. StoreTypeOK'
    BY <1>0 DEF IInv, TypeOK, StoreTypeOK, storeVars
  <2> QED
    BY <1>0, <2>1, <2>2 DEF Return, Goto, IInv, TypeOK
<1>2. ControlInv'
  BY <1>0 DEF Return, Goto, IInv, TypeOK, ControlInv
<1>3. CreatorInv'
  BY DEF Return, Goto, IInv, CreatorInv, Creators, storeVars
<1>4. SentinelInv'
  BY DEF Return, Goto, IInv, SentinelInv, Creators, storeVars
<1>5. FlagsInv'
  BY <1>0 DEF Return, Goto, IInv, TypeOK, FlagsInv, storeVars, Working
<1>6. ExclusiveInv'
  BY DEF Return, Goto, IInv, ExclusiveInv, IsCompiling
<1>7. DiagnosticsAreCurrent'
  BY DEF Return, Goto, IInv, TypeOK, DiagnosticsAreCurrent, IsValid
<1> QED BY <1>1, <1>2, <1>3, <1>4, <1>5, <1>6, <1>7 DEF IInv

(* The editor sends a request. *)
LEMMA BeginStep ==
  ASSUME IInv, NEW t \in Threads, Begin(t)
  PROVE  IInv'
<1>0. units' = units /\ Units' = Units /\ units \in Seq(Unit)
  BY DEF IInv, TypeOK, Begin, Units
<1>1. TypeOK'
  <2>1. MutexOwners'
    BY <1>0 DEF Begin, Goto, FirstStep, IInv, TypeOK, MutexOwners
  <2>2. StoreTypeOK'
    BY <1>0 DEF Begin, IInv, TypeOK, StoreTypeOK, storeVars
  <2> QED
    BY <1>0, <2>1, <2>2 DEF Begin, Goto, FirstStep, IInv, TypeOK, Request
<1>2. ControlInv'
  BY <1>0 DEF Begin, Goto, FirstStep, IInv, TypeOK, ControlInv, Request,
     IsExclusive
<1>3. CreatorInv'
  BY DEF Begin, Goto, FirstStep, IInv, CreatorInv, Creators, storeVars
<1>4. SentinelInv'
  BY DEF Begin, Goto, IInv, SentinelInv, Creators, storeVars
<1>5. FlagsInv'
  BY <1>0 DEF Begin, Goto, FirstStep, IInv, FlagsInv, storeVars, Working
<1>6. ExclusiveInv'
  BY DEF Begin, Goto, IInv, ExclusiveInv, IsCompiling
<1>7. DiagnosticsAreCurrent'
  BY DEF Begin, Goto, IInv, ControlInv, DiagnosticsAreCurrent, IsValid
<1> QED BY <1>1, <1>2, <1>3, <1>4, <1>5, <1>6, <1>7 DEF IInv

(* The request is done. *)
LEMMA LeaveStep ==
  ASSUME IInv, NEW t \in Threads, Leave(t)
  PROVE  IInv'
<1>1. IsCompiling(t) => req[t].file \notin filesBeingCompiled'
  BY DEF Leave, IsCompiling
<1> QED
  BY <1>1, ReturnStep DEF Leave

(* UpdatingTranslationUnit looks the unit up. *)
LEMMA GetUnitStep ==
  ASSUME IInv, NEW t \in Threads, GetUnit(t)
  PROVE  IInv'
<1>0. units' = units /\ Units' = Units /\ units \in Seq(Unit)
  BY DEF IInv, TypeOK, GetUnit, Units
<1>1. TypeOK'
  <2>1. MutexOwners'
    BY <1>0 DEF GetUnit, Goto, IInv, TypeOK, MutexOwners
  <2>2. StoreTypeOK'
    BY <1>0 DEF GetUnit, IInv, TypeOK, StoreTypeOK, storeVars
  <2> QED
    BY <1>0, <2>1, <2>2 DEF GetUnit, Goto, IInv, TypeOK, ControlInv, Request,
       StoreTypeOK
<1>2. ControlInv'
  BY <1>0 DEF GetUnit, Goto, IInv, ControlInv
<1>3. CreatorInv'
  BY DEF GetUnit, Goto, IInv, CreatorInv, Creators, storeVars
<1>4. SentinelInv'
  BY DEF GetUnit, Goto, IInv, SentinelInv, Creators, storeVars
<1>5. FlagsInv'
  BY <1>0 DEF GetUnit, Goto, IInv, FlagsInv, storeVars, Working
<1>6. ExclusiveInv'
  BY DEF GetUnit, Goto, IInv, ExclusiveInv, IsCompiling
<1>7. DiagnosticsAreCurrent'
  BY DEF GetUnit, Goto, IInv, DiagnosticsAreCurrent, IsValid
<1> QED BY <1>1, <1>2, <1>3, <1>4, <1>5, <1>6, <1>7 DEF IInv

(* Diagnostics or fixits are copied. *)
LEMMA ReportStep ==
  ASSUME IInv, NEW t \in Threads, Report(t)
  PROVE  IInv'
<1>0. units' = units /\ Units' = Units /\ units \in Seq(Unit)
  BY DEF IInv, TypeOK, Report, Units
<1>1. TypeOK'
  <2>1. MutexOwners'
    BY <1>0 DEF Report, Goto, IInv, TypeOK, MutexOwners
  <2>2. StoreTypeOK'
    BY <1>0 DEF Report, IInv, TypeOK, StoreTypeOK, storeVars
  <2> QED
    BY <1>0, <2>1, <2>2 DEF Report, Goto, IInv, TypeOK
<1>2. ControlInv'
  BY <1>0 DEF Report, Goto, IInv, ControlInv
<1>3. CreatorInv'
  BY DEF Report, Goto, IInv, CreatorInv, Creators, storeVars
<1>4. SentinelInv'
  BY DEF Report, Goto, IInv, SentinelInv, Creators, storeVars
<1>5. FlagsInv'
  BY <1>0 DEF Report, Goto, IInv, FlagsInv, storeVars, Working
<1>6. ExclusiveInv'
  BY DEF Report, Goto, IInv, ExclusiveInv, IsCompiling
<1>7. DiagnosticsAreCurrent'
  BY DEF Report, Goto, IInv, DiagnosticsAreCurrent, IsValid
<1> QED BY <1>1, <1>2, <1>3, <1>4, <1>5, <1>6, <1>7 DEF IInv

(* Nothing is parsed again. *)
LEMMA SkipReparseStep ==
  ASSUME IInv, NEW t \in Threads, SkipReparse(t)
  PROVE  IInv'
<1>0. units' = units /\ Units' = Units /\ units \in Seq(Unit)
  BY DEF IInv, TypeOK, SkipReparse, Units
<1>1. TypeOK'
  <2>1. MutexOwners'
    BY <1>0 DEF SkipReparse, Goto, AfterReparse, IInv, TypeOK, MutexOwners
  <2>2. StoreTypeOK'
    BY <1>0 DEF SkipReparse, IInv, TypeOK, StoreTypeOK, storeVars
  <2> QED
    BY <1>0, <2>1, <2>2 DEF SkipReparse, Goto, AfterReparse, IInv, TypeOK
<1>2. ControlInv'
  BY <1>0 DEF SkipReparse, Goto, AfterReparse, IInv, ControlInv
<1>3. CreatorInv'
  BY DEF SkipReparse, Goto, AfterReparse, IInv, CreatorInv, Creators,
     storeVars
<1>4. SentinelInv'
  BY DEF SkipReparse, Goto, IInv, SentinelInv, Creators, storeVars
<1>5. FlagsInv'
  BY <1>0 DEF SkipReparse, Goto, IInv, FlagsInv, storeVars, Working
<1>6. ExclusiveInv'
  BY DEF SkipReparse, Goto, AfterReparse, IInv, ExclusiveInv, IsCompiling
<1>7. DiagnosticsAreCurrent'
  BY DEF SkipReparse, Goto, IInv, DiagnosticsAreCurrent, IsValid
<1> QED BY <1>1, <1>2, <1>3, <1>4, <1>5, <1>6, <1>7 DEF IInv

(* A unit that is null is not asked. *)
LEMMA SkipAccessStep ==
  ASSUME IInv, NEW t \in Threads, SkipAccess(t)
  PROVE  IInv'
<1>0. units' = units /\ Units' = Units /\ units \in Seq(Unit)
  BY DEF IInv, TypeOK, SkipAccess, Units
<1>1. TypeOK'
  <2>1. MutexOwners'
    BY <1>0 DEF SkipAccess, Goto, IInv, TypeOK, MutexOwners
  <2>2. StoreTypeOK'
    BY <1>0 DEF SkipAccess, IInv, TypeOK, StoreTypeOK, storeVars
  <2> QED
    BY <1>0, <2>1, <2>2 DEF SkipAccess, Goto, IInv, TypeOK
<1>2. ControlInv'
  BY <1>0 DEF SkipAccess, Goto, IInv, ControlInv
<1>3. CreatorInv'
  BY DEF SkipAccess, Goto, IInv, CreatorInv, Creators, storeVars
<1>4. SentinelInv'
  BY DEF SkipAccess, Goto, IInv, SentinelInv, Creators, storeVars
<1>5. FlagsInv'
  BY <1>0 DEF SkipAccess, Goto, IInv, FlagsInv, storeVars, Working
<1>6. ExclusiveInv'
  BY DEF SkipAccess, Goto, IInv, ExclusiveInv, IsCompiling
<1>7. DiagnosticsAreCurrent'
  BY DEF SkipAccess, Goto, IInv, DiagnosticsAreCurrent, IsValid
<1> QED BY <1>1, <1>2, <1>3, <1>4, <1>5, <1>6, <1>7 DEF IInv

(* A request that would have to wait for a parse is turned away. *)
LEMMA CheckUpdatingStep ==
  ASSUME IInv, NEW t \in Threads, CheckUpdating(t)
  PROVE  IInv'
<1>a. CASE unit[t] # NoUnit /\ IsCurrentlyUpdating(unit[t])
  BY <1>a, ReturnStep DEF CheckUpdating, IsCompiling
<1> SUFFICES ASSUME ~ (unit[t] # NoUnit /\ IsCurrentlyUpdating(unit[t]))
             PROVE  IInv'
  BY <1>a
<1>0. /\ units' = units /\ Units' = Units
      /\ pc[t] = "check" /\ pc' = [pc EXCEPT ![t] = AfterCheck(req[t].op)]
      /\ unit' = [unit EXCEPT ![t] = NoUnit]
      /\ UNCHANGED <<store, flagsHash, disturbed, filesBeingCompiled, req,
                     mine, requests>>
  BY DEF CheckUpdating, Goto, Units, storeVars
<1>1. TypeOK'
  <2>1. MutexOwners'
    BY <1>0 DEF IInv, TypeOK, MutexOwners, AfterCheck
  <2>2. StoreTypeOK'
    BY <1>0 DEF IInv, TypeOK, StoreTypeOK
  <2> QED
    BY <1>0, <2>1, <2>2 DEF IInv, TypeOK, AfterCheck
<1>2. ControlInv'
  BY <1>0 DEF IInv, ControlInv, AfterCheck
<1>3. CreatorInv'
  BY <1>0 DEF IInv, CreatorInv, Creators, AfterCheck
<1>4. SentinelInv'
  BY <1>0 DEF IInv, SentinelInv, Creators
<1>5. FlagsInv'
  BY <1>0 DEF IInv, FlagsInv, Working, AfterCheck
<1>6. ExclusiveInv'
  BY <1>0 DEF IInv, ExclusiveInv, IsCompiling
<1>7. DiagnosticsAreCurrent'
  BY <1>0 DEF IInv, DiagnosticsAreCurrent, IsValid, AfterCheck
<1> QED BY <1>1, <1>2, <1>3, <1>4, <1>5, <1>6, <1>7 DEF IInv

(* The file is marked as being compiled, unless it is already. *)
LEMMA EnterStep ==
  ASSUME IInv, NEW t \in Threads, Enter(t)
  PROVE  IInv'
<1>a. CASE req[t].file \in filesBeingCompiled
  BY <1>a, ReturnStep DEF Enter, IsCompiling
<1> SUFFICES ASSUME ~ (req[t].file \in filesBeingCompiled)
             PROVE  IInv'
  BY <1>a
<1>0. /\ units' = units /\ Units' = Units
      /\ pc[t] = "enter" /\ pc' = [pc EXCEPT ![t] = "lookup"]
      /\ filesBeingCompiled' = filesBeingCompiled \cup {req[t].file}
      /\ UNCHANGED <<store, flagsHash, disturbed, req, unit, mine, requests>>
  BY DEF Enter, Goto, Units, storeVars
<1>1. TypeOK'
  <2>1. MutexOwners'
    BY <1>0 DEF IInv, TypeOK, MutexOwners
  <2>2. StoreTypeOK'
    BY <1>0 DEF IInv, TypeOK, StoreTypeOK
  <2> QED
    BY <1>0, <2>1, <2>2 DEF IInv, TypeOK, ControlInv, Request
<1>2. ControlInv'
  BY <1>0 DEF IInv, ControlInv
<1>3. CreatorInv'
  BY <1>0 DEF IInv, CreatorInv, Creators
<1>4. SentinelInv'
  BY <1>0 DEF IInv, SentinelInv, Creators
<1>5. FlagsInv'
  BY <1>0 DEF IInv, FlagsInv, Working
<1>6. ExclusiveInv'
  BY <1>0 DEF IInv, TypeOK, ControlInv, ExclusiveInv, IsCompiling
<1>7. DiagnosticsAreCurrent'
  BY <1>0 DEF IInv, DiagnosticsAreCurrent, IsValid
<1> QED BY <1>1, <1>2, <1>3, <1>4, <1>5, <1>6, <1>7 DEF IInv

(* A unit is removed from the store, whoever is parsing it. *)
LEMMA DeleteCachesForFileStep ==
  ASSUME IInv, NEW t \in Threads, DeleteCachesForFile(t)
  PROVE  IInv'
<1>0. /\ units' = units /\ Units' = Units
      /\ NoUnit \notin Units /\ Sentinel \notin Units
  BY NotUnits DEF DeleteCachesForFile, Units
<1>1. TypeOK'
  <2>1. MutexOwners'
    BY <1>0 DEF DeleteCachesForFile, Goto, IInv, TypeOK, MutexOwners
  <2>2. StoreTypeOK'
    BY <1>0 DEF DeleteCachesForFile, Remove, IInv, TypeOK, StoreTypeOK,
       Request, ControlInv
  <2> QED
    BY <1>0, <2>1 DEF DeleteCachesForFile, Goto, Remove, IInv, TypeOK,
       ControlInv, Request, StoreTypeOK
<1>2. ControlInv'
  BY <1>0 DEF DeleteCachesForFile, Goto, IInv, ControlInv
<1>3. CreatorInv'
  BY DEF DeleteCachesForFile, Goto, Remove, IInv, CreatorInv, Creators
<1>4. SentinelInv'
  BY DEF DeleteCachesForFile, Goto, Remove, IInv, SentinelInv, Creators
<1>5. FlagsInv'
  BY <1>0 DEF DeleteCachesForFile, Goto, Remove, IInv, TypeOK, FlagsInv,
     Working, StoreTypeOK
<1>6. ExclusiveInv'
  BY DEF DeleteCachesForFile, Goto, IInv, ExclusiveInv, IsCompiling
<1>7. DiagnosticsAreCurrent'
  BY DEF DeleteCachesForFile, Goto, IInv, DiagnosticsAreCurrent, IsValid
<1> QED BY <1>1, <1>2, <1>3, <1>4, <1>5, <1>6, <1>7 DEF IInv

(* A unit, or a sentinel, that was stored for the same flags. *)
LEMMA FindUnitStep ==
  ASSUME IInv, NEW t \in Threads, FindUnit(t)
  PROVE  IInv'
<1>0. /\ units' = units /\ Units' = Units
      /\ NoUnit \notin Units /\ Sentinel \notin Units
  BY NotUnits DEF FindUnit, Units
<1>1. TypeOK'
  <2>1. MutexOwners'
    BY <1>0 DEF FindUnit, Goto, AfterLookup, IInv, TypeOK, MutexOwners
  <2>2. StoreTypeOK'
    BY <1>0 DEF FindUnit, IInv, TypeOK, StoreTypeOK, storeVars
  <2> QED
    BY <1>0, <2>1, <2>2 DEF FindUnit, Goto, AfterLookup, IInv, TypeOK,
       ControlInv, Request, StoreTypeOK
<1>2. ControlInv'
  BY <1>0 DEF FindUnit, Goto, IsStored, AfterLookup, IInv, TypeOK, ControlInv,
     Request, StoreTypeOK
<1>3. CreatorInv'
  BY DEF FindUnit, Goto, AfterLookup, IInv, CreatorInv, Creators, storeVars
<1>4. SentinelInv'
  BY DEF FindUnit, Goto, IInv, SentinelInv, Creators, storeVars
<1>5. FlagsInv'
  BY <1>0 DEF FindUnit, Goto, IsStored, IInv, TypeOK, ControlInv, FlagsInv,
     storeVars, Request
<1>6. ExclusiveInv'
  BY DEF FindUnit, Goto, AfterLookup, IInv, ExclusiveInv, IsCompiling
<1>7. DiagnosticsAreCurrent'
  BY DEF FindUnit, Goto, IInv, ControlInv, DiagnosticsAreCurrent, IsValid
<1> QED BY <1>1, <1>2, <1>3, <1>4, <1>5, <1>6, <1>7 DEF IInv

(* A sentinel takes the place of what was stored: if somebody is parsing,
   it is for other flags. *)
LEMMA BeginCreateStep ==
  ASSUME IInv, NEW t \in Threads, BeginCreate(t)
  PROVE  IInv'
<1>0. /\ units' = units /\ Units' = Units
      /\ NoUnit \notin Units /\ Sentinel \notin Units
  BY NotUnits DEF BeginCreate, Units
<1>1. TypeOK'
  <2>1. MutexOwners'
    BY <1>0 DEF BeginCreate, Goto, IInv, TypeOK, MutexOwners
  <2>2. StoreTypeOK'
    BY <1>0 DEF BeginCreate, StoreSentinel, IInv, TypeOK, StoreTypeOK,
       Request, ControlInv
  <2> QED
    BY <1>0, <2>1 DEF BeginCreate, Goto, StoreSentinel, IInv, TypeOK,
       ControlInv, Request, StoreTypeOK
<1>2. ControlInv'
  BY <1>0 DEF BeginCreate, Goto, IInv, ControlInv
<1>3. CreatorInv'
  BY DEF BeginCreate, Goto, IsStored, StoreSentinel, IInv, TypeOK, ControlInv,
     CreatorInv, Creators, Request, StoreTypeOK
<1>4. SentinelInv'
  BY DEF BeginCreate, Goto, StoreSentinel, IInv, TypeOK, SentinelInv, Creators
<1>5. FlagsInv'
  BY <1>0 DEF BeginCreate, Goto, StoreSentinel, IInv, TypeOK, FlagsInv,
     Working, StoreTypeOK
<1>6. ExclusiveInv'
  BY DEF BeginCreate, Goto, IInv, ExclusiveInv, IsCompiling
<1>7. DiagnosticsAreCurrent'
  BY DEF BeginCreate, Goto, IInv, DiagnosticsAreCurrent, IsValid
<1> QED BY <1>1, <1>2, <1>3, <1>4, <1>5, <1>6, <1>7 DEF IInv

(* The sentinel is removed again. *)
LEMMA CreateFailsStep ==
  ASSUME IInv, NEW t \in Threads, CreateFails(t)
  PROVE  IInv'
<1>0. /\ units' = units /\ Units' = Units
      /\ NoUnit \notin Units /\ Sentinel \notin Units
  BY NotUnits DEF CreateFails, Units
<1>1. TypeOK'
  <2>1. MutexOwners'
    BY <1>0 DEF CreateFails, Goto, IInv, TypeOK, MutexOwners
  <2>2. StoreTypeOK'
    BY <1>0 DEF CreateFails, Remove, IInv, TypeOK, StoreTypeOK, Request,
       ControlInv
  <2> QED
    BY <1>0, <2>1 DEF CreateFails, Goto, Remove, IInv, TypeOK, ControlInv,
       Request, StoreTypeOK
<1>2. ControlInv'
  BY <1>0 DEF CreateFails, Goto, IInv, ControlInv
<1>3. CreatorInv'
  BY DEF CreateFails, Goto, Remove, IInv, TypeOK, CreatorInv, Creators
<1>4. SentinelInv'
  BY DEF CreateFails, Goto, Remove, IInv, TypeOK, SentinelInv, Creators,
     StoreTypeOK
<1>5. FlagsInv'
  BY <1>0 DEF CreateFails, Goto, Remove, IInv, TypeOK, FlagsInv, Working,
     StoreTypeOK
<1>6. ExclusiveInv'
  BY DEF CreateFails, Goto, IInv, ExclusiveInv, IsCompiling
<1>7. DiagnosticsAreCurrent'
  BY DEF CreateFails, Goto, IInv, DiagnosticsAreCurrent, IsValid
<1> QED BY <1>1, <1>2, <1>3, <1>4, <1>5, <1>6, <1>7 DEF IInv

(* The unit is parsed and stored. *)
LEMMA CreateStep ==
  ASSUME IInv, NEW t \in Threads, Create(t)
  PROVE  IInv'
<1>0. /\ units' \in Seq(Unit) /\ Units' = Units \cup {Len(units')}
      /\ Len(units') \in Nat \ Units
      /\ \A w \in Units : units'[w] = units[w]
      /\ units'[Len(units')] = NewUnit(req[t].file, req[t].flags)
      /\ NoUnit \notin Units' /\ Sentinel \notin Units'
  <2>1. req[t].file \in Files /\ req[t].flags \in Flags
    BY DEF IInv, ControlInv, Create, Request
  <2>2. units' = Append(units, NewUnit(req[t].file, req[t].flags))
    BY DEF Create
  <2> QED BY <2>1, <2>2, UnitAppended DEF IInv, TypeOK, Units
<1>1. TypeOK'
  <2>1. MutexOwners'
    <3> SUFFICES ASSUME NEW w \in Units', NEW s \in Threads
                 PROVE  units'[w].access = s <=>
                          /\ pc'[s] \in {"reparsing", "accessing"}
                          /\ unit'[s] = w
      BY DEF MutexOwners
    <3>1. pc'[t] \notin {"reparsing", "accessing"} /\ pc[t] = "create"
      BY DEF Create, Goto, AfterLookup
    <3>2. s # t => pc'[s] = pc[s] /\ unit'[s] = unit[s]
      BY DEF Create, Goto
    <3>3. CASE w \in Units
      BY <1>0, <3>1, <3>2, <3>3 DEF IInv, TypeOK, MutexOwners
    <3>4. CASE w = Len(units')
      BY <1>0, <3>1, <3>2, <3>4 DEF IInv, ControlInv, NewUnit
    <3> QED BY <1>0, <3>3, <3>4
  <2>2. StoreTypeOK'
    BY <1>0 DEF Create, StoreUnit, IInv, TypeOK, StoreTypeOK
  <2> QED
    BY <1>0, <2>1 DEF Create, Goto, StoreUnit, AfterLookup, IInv, TypeOK,
       StoreTypeOK
<1>2. ControlInv'
  BY <1>0 DEF Create, Goto, StoreUnit, AfterLookup, IInv, TypeOK, ControlInv,
     Request, StoreTypeOK, Reparses
<1>3. CreatorInv'
  BY DEF Create, Goto, StoreUnit, AfterLookup, IInv, TypeOK, CreatorInv,
     Creators
<1>4. SentinelInv'
  BY DEF Create, Goto, StoreUnit, IInv, TypeOK, SentinelInv, Creators,
     StoreTypeOK
<1>5. FlagsInv'
  <2>1. ASSUME NEW f \in Files, f \notin disturbed', store'[f] \in Units'
        PROVE  units'[store'[f]].flags = flagsHash'[f]
    <3>1. CASE f = req[t].file
      BY <2>1, <3>1 DEF Create, StoreUnit, NewUnit, IInv, TypeOK, StoreTypeOK,
         CreatorInv
    <3>2. CASE f # req[t].file
      BY <1>0, <2>1, <3>2 DEF Create, StoreUnit, IInv, TypeOK, StoreTypeOK,
         FlagsInv
    <3> QED BY <3>1, <3>2
  <2>2. ASSUME NEW s \in Threads, unit'[s] \in Units',
               pc'[s] \in Working
        PROVE  \/ units'[unit'[s]].flags = req'[s].flags
               \/ req'[s].file \in disturbed'
    <3>1. CASE s = t
      BY <3>1 DEF Create, NewUnit, IInv, TypeOK
    <3>2. CASE s # t
      <4>1. unit[s] \in Units
        BY <1>0, <2>2, <3>2 DEF Create, IInv, TypeOK
      <4> QED
        BY <1>0, <2>2, <3>2, <4>1 DEF Create, Goto, StoreUnit, IInv, TypeOK,
           FlagsInv
    <3> QED BY <3>1, <3>2
  <2> QED BY <2>1, <2>2 DEF FlagsInv
<1>6. ExclusiveInv'
  BY DEF Create, Goto, AfterLookup, IInv, ExclusiveInv, IsCompiling
<1>7. DiagnosticsAreCurrent'
  BY <1>0 DEF Create, Goto, StoreUnit, AfterLookup, IInv, TypeOK, ControlInv,
     DiagnosticsAreCurrent, IsValid, Request
<1> QED BY <1>1, <1>2, <1>3, <1>4, <1>5, <1>6, <1>7 DEF IInv

(* libclang parses the unit again, under its mutex. *)
LEMMA BeginReparseStep ==
  ASSUME IInv, NEW t \in Threads, BeginReparse(t)
  PROVE  IInv'
<1>0. /\ unit[t] \in Units /\ units' \in Seq(Unit) /\ Units' = Units
      /\ units[unit[t]].access = NoThread
      /\ \A w \in Units :
           /\ units'[w].flags = units[w].flags
           /\ units'[w].clang = units[w].clang
           /\ units'[w].parses = units[w].parses
           /\ units'[w].diagnostics = units[w].diagnostics
           /\ w # unit[t] => units'[w].access = units[w].access
      /\ units'[unit[t]].access = t
  <2>1. unit[t] \in Units /\ units[unit[t]].access = NoThread
    BY DEF IInv, ControlInv, BeginReparse, Lock, IsValid, IsFree
  <2>2. units' = [units EXCEPT ![unit[t]].access = t]
    BY DEF BeginReparse, Lock
  <2>3. t \in Threads \cup {NoThread}
    OBVIOUS
  <2> QED BY <2>1, <2>2, AccessChanged DEF IInv, TypeOK
<1>1. TypeOK'
  <2>1. MutexOwners'
    <3>1. \A s \in Threads \ {t} : pc'[s] = pc[s] /\ unit'[s] = unit[s]
      BY DEF BeginReparse, Goto
    <3>2. \A w \in Units, s \in Threads :
            units[w].access = s
              <=> pc[s] \in {"reparsing", "accessing"} /\ unit[s] = w
      BY DEF IInv, TypeOK, MutexOwners
    <3>3. pc[t] = "reparse" /\ pc'[t] = "reparsing"
      BY DEF IInv, TypeOK, BeginReparse, Goto
    <3>4. \A w \in Units, s \in Threads \ {t} :
            units'[w].access = s <=> units[w].access = s
      BY <1>0
    <3>5. \A w \in Units :
            units'[w].access = t
              <=> pc'[t] \in {"reparsing", "accessing"} /\ unit'[t] = w
      BY <1>0, <3>2, <3>3 DEF BeginReparse
    <3> QED BY <1>0, <3>1, <3>5, OwnersKept
  <2>2. StoreTypeOK'
    BY <1>0 DEF BeginReparse, IInv, TypeOK, StoreTypeOK, storeVars
  <2> QED
    BY <1>0, <2>1, <2>2 DEF BeginReparse, Goto, IInv, TypeOK
<1>2. ControlInv'
  BY <1>0 DEF BeginReparse, Goto, IInv, ControlInv
<1>3. CreatorInv'
  BY DEF BeginReparse, Goto, IInv, CreatorInv, Creators, storeVars
<1>4. SentinelInv'
  BY DEF BeginReparse, Goto, IInv, SentinelInv, Creators, storeVars
<1>5. FlagsInv'
  <2>1. \A s \in Threads :
          pc'[s] \in Working => /\ pc[s] \in Working
                               /\ unit'[s] = unit[s]
                               /\ req'[s].flags = req[s].flags
                               /\ req'[s].file = req[s].file
    BY DEF Working, BeginReparse, Goto
  <2> QED BY <1>0, <2>1, FlagsKept DEF BeginReparse, storeVars
<1>6. ExclusiveInv'
  BY DEF BeginReparse, Goto, IInv, ExclusiveInv, IsCompiling
<1>7. DiagnosticsAreCurrent'
  BY <1>0 DEF BeginReparse, Goto, IInv, ControlInv, DiagnosticsAreCurrent,
     IsValid
<1> QED BY <1>1, <1>2, <1>3, <1>4, <1>5, <1>6, <1>7 DEF IInv

(* The reparse has succeeded. *)
LEMMA EndReparseStep ==
  ASSUME IInv, NEW t \in Threads, EndReparse(t)
  PROVE  IInv'
<1>0. /\ unit[t] \in Units /\ units' \in Seq(Unit) /\ Units' = Units
      /\ units[unit[t]].parses \in Nat
      /\ \A w \in Units :
           /\ units'[w].flags = units[w].flags
           /\ units'[w].clang = units[w].clang
           /\ units'[w].diagnostics = units[w].diagnostics
           /\ w # unit[t] => /\ units'[w].parses = units[w].parses
                             /\ units'[w].access = units[w].access
      /\ units'[unit[t]].parses = units[unit[t]].parses + 1
      /\ units'[unit[t]].access = NoThread
  <2>1. unit[t] \in Units /\ Reparsed(unit[t])
    BY DEF IInv, ControlInv, EndReparse
  <2>2. units[unit[t]] \in Unit
    BY <2>1 DEF IInv, TypeOK, Units
  <2>3. units[unit[t]].parses \in Nat
    BY <2>2 DEF Unit
  <2> QED BY <2>1, <2>3, UnitReparsed DEF IInv, TypeOK
<1>1. TypeOK'
  <2>1. MutexOwners'
    <3>1. \A s \in Threads \ {t} : pc'[s] = pc[s] /\ unit'[s] = unit[s]
      BY DEF EndReparse, Goto
    <3>2. \A w \in Units, s \in Threads :
            units[w].access = s
              <=> pc[s] \in {"reparsing", "accessing"} /\ unit[s] = w
      BY DEF IInv, TypeOK, MutexOwners
    <3>3. pc[t] = "reparsing" /\ pc'[t] = "diagnose"
      BY DEF IInv, TypeOK, EndReparse, Goto
    <3>4. \A w \in Units, s \in Threads \ {t} :
            units'[w].access = s <=> units[w].access = s
      BY <1>0, <3>2, <3>3
    <3>5. \A w \in Units :
            units'[w].access = t
              <=> pc'[t] \in {"reparsing", "accessing"} /\ unit'[t] = w
      BY <1>0, <3>2, <3>3
    <3> QED BY <1>0, <3>1, <3>4, <3>5, OwnersKept
  <2>2. StoreTypeOK'
    BY <1>0 DEF EndReparse, IInv, TypeOK, StoreTypeOK, storeVars
  <2> QED
    BY <1>0, <2>1, <2>2 DEF EndReparse, Goto, IInv, TypeOK
<1>2. ControlInv'
  <2> SUFFICES ASSUME NEW s \in Threads
               PROVE  /\ pc'[s] # "idle" => req'[s] \in Request
                      /\ pc'[s] = "enter" => IsExclusive(req'[s].op)
                      /\ pc'[s] \in {"reparse", "report", "access"} =>
                           unit'[s] \in Units' \cup {Sentinel}
                      /\ pc'[s] \in {"reparsing", "destroy", "diagnose",
                                    "accessing"} => unit'[s] \in Units'
                      /\ mine'[s] > 0 =>
                           /\ pc'[s] \in {"diagnose", "report", "access",
                                         "accessing", "leave"}
                           /\ unit'[s] \in Units'
                           /\ mine'[s] <= units'[unit'[s]].parses
    BY DEF ControlInv
  <2>1. CASE s = t
    BY <1>0, <2>1 DEF IInv, TypeOK, ControlInv, EndReparse, Goto
  <2>2. CASE s # t
    <3>1. /\ pc'[s] = pc[s] /\ req'[s] = req[s] /\ unit'[s] = unit[s]
          /\ mine'[s] = mine[s] /\ mine[s] \in Nat
      BY <2>2 DEF IInv, TypeOK, EndReparse, Goto
    <3>2. mine[s] > 0 => mine[s] <= units'[unit[s]].parses
      BY <1>0, <3>1 DEF IInv, ControlInv
    <3> QED BY <1>0, <3>1, <3>2 DEF IInv, ControlInv
  <2> QED BY <2>1, <2>2
<1>3. CreatorInv'
  BY DEF EndReparse, Goto, IInv, CreatorInv, Creators, storeVars
<1>4. SentinelInv'
  BY DEF EndReparse, Goto, IInv, SentinelInv, Creators, storeVars
<1>5. FlagsInv'
  <2>1. \A s \in Threads :
          pc'[s] \in Working => /\ pc[s] \in Working
                               /\ unit'[s] = unit[s]
                               /\ req'[s].flags = req[s].flags
                               /\ req'[s].file = req[s].file
    BY DEF Working, EndReparse, Goto
  <2> QED BY <1>0, <2>1, FlagsKept DEF EndReparse, storeVars
<1>6. ExclusiveInv'
  BY DEF EndReparse, Goto, IInv, ExclusiveInv, IsCompiling
<1>7. DiagnosticsAreCurrent'
  BY <1>0 DEF EndReparse, Goto, IInv, ControlInv, DiagnosticsAreCurrent,
     IsValid
<1> QED BY <1>1, <1>2, <1>3, <1>4, <1>5, <1>6, <1>7 DEF IInv

(* The reparse has failed, and its mutex is released. *)
LEMMA ReparseFailsStep ==
  ASSUME IInv, NEW t \in Threads, ReparseFails(t)
  PROVE  IInv'
<1>0. /\ unit[t] \in Units /\ units' \in Seq(Unit) /\ Units' = Units
      /\ pc[t] \in {"reparsing", "accessing"}
      /\ \A w \in Units :
           /\ units'[w].flags = units[w].flags
           /\ units'[w].clang = units[w].clang
           /\ units'[w].parses = units[w].parses
           /\ units'[w].diagnostics = units[w].diagnostics
           /\ w # unit[t] => units'[w].access = units[w].access
      /\ units'[unit[t]].access = NoThread
  <2>1. unit[t] \in Units /\ pc[t] \in {"reparsing", "accessing"}
    BY DEF IInv, ControlInv, ReparseFails
  <2>2. units' = [units EXCEPT ![unit[t]].access = NoThread]
    BY DEF ReparseFails, Unlock
  <2>3. NoThread \in Threads \cup {NoThread}
    OBVIOUS
  <2> QED BY <2>1, <2>2, <2>3, AccessChanged DEF IInv, TypeOK
<1>1. TypeOK'
  <2>1. MutexOwners'
    <3>1. \A s \in Threads \ {t} : pc'[s] = pc[s] /\ unit'[s] = unit[s]
      BY DEF ReparseFails, Goto
    <3>2. \A w \in Units, s \in Threads :
            units[w].access = s
              <=> pc[s] \in {"reparsing", "accessing"} /\ unit[s] = w
      BY DEF IInv, TypeOK, MutexOwners
    <3>3. pc[t] = "reparsing" /\ pc'[t] = "destroy"
      BY DEF IInv, TypeOK, ReparseFails, Goto
    <3>4. \A w \in Units, s \in Threads \ {t} :
            units'[w].access = s <=> units[w].access = s
      BY <1>0, <3>2
    <3>5. \A w \in Units :
            units'[w].access = t
              <=> pc'[t] \in {"reparsing", "accessing"} /\ unit'[t] = w
      BY <1>0, <3>2, <3>3
    <3> QED BY <1>0, <3>1, <3>4, <3>5, OwnersKept
  <2>2. StoreTypeOK'
    BY <1>0 DEF ReparseFails, IInv, TypeOK, StoreTypeOK, storeVars
  <2> QED
    BY <1>0, <2>1, <2>2 DEF ReparseFails, Goto, IInv, TypeOK
<1>2. ControlInv'
  BY <1>0 DEF ReparseFails, Goto, IInv, ControlInv
<1>3. CreatorInv'
  BY DEF ReparseFails, Goto, IInv, CreatorInv, Creators, storeVars
<1>4. SentinelInv'
  BY DEF ReparseFails, Goto, IInv, SentinelInv, Creators, storeVars
<1>5. FlagsInv'
  <2>1. \A s \in Threads :
          pc'[s] \in Working => /\ pc[s] \in Working
                               /\ unit'[s] = unit[s]
                               /\ req'[s].flags = req[s].flags
                               /\ req'[s].file = req[s].file
    BY DEF Working, ReparseFails, Goto
  <2> QED BY <1>0, <2>1, FlagsKept DEF ReparseFails, storeVars
<1>6. ExclusiveInv'
  BY DEF ReparseFails, Goto, IInv, ExclusiveInv, IsCompiling
<1>7. DiagnosticsAreCurrent'
  BY <1>0 DEF ReparseFails, Goto, IInv, ControlInv, DiagnosticsAreCurrent,
     IsValid
<1> QED BY <1>1, <1>2, <1>3, <1>4, <1>5, <1>6, <1>7 DEF IInv

(* The unit whose reparse failed is destroyed. *)
LEMMA DestroyUnitStep ==
  ASSUME IInv, NEW t \in Threads, DestroyUnit(t)
  PROVE  IInv'
<1>0. /\ unit[t] \in Units /\ units' \in Seq(Unit) /\ Units' = Units
      /\ \A w \in Units :
           /\ units'[w].flags = units[w].flags
           /\ units'[w].parses = units[w].parses
           /\ units'[w].diagnostics = units[w].diagnostics
           /\ units'[w].access = units[w].access
           /\ w # unit[t] => units'[w].clang = units[w].clang
      /\ ~ units'[unit[t]].clang
  <2>1. unit[t] \in Units /\ Destroy(unit[t])
    BY DEF IInv, ControlInv, DestroyUnit
  <2> QED BY <2>1, UnitDestroyed DEF IInv, TypeOK
<1>1. TypeOK'
  <2>1. MutexOwners'
    <3>1. \A s \in Threads \ {t} : pc'[s] = pc[s] /\ unit'[s] = unit[s]
      BY DEF DestroyUnit, Goto
    <3>2. \A w \in Units, s \in Threads :
            units[w].access = s
              <=> pc[s] \in {"reparsing", "accessing"} /\ unit[s] = w
      BY DEF IInv, TypeOK, MutexOwners
    <3>3. pc[t] = "destroy" /\ pc'[t] \in {"remove", "leave"}
      BY DEF IInv, TypeOK, DestroyUnit, Goto
    <3>4. \A w \in Units, s \in Threads \ {t} :
            units'[w].access = s <=> units[w].access = s
      BY <1>0
    <3>5. \A w \in Units :
            units'[w].access = t
              <=> pc'[t] \in {"reparsing", "accessing"} /\ unit'[t] = w
      BY <1>0, <3>2, <3>3
    <3> QED BY <1>0, <3>1, <3>5, OwnersKept
  <2>2. StoreTypeOK'
    BY <1>0 DEF DestroyUnit, IInv, TypeOK, StoreTypeOK, storeVars
  <2> QED
    BY <1>0, <2>1, <2>2 DEF DestroyUnit, Goto, IInv, TypeOK
<1>2. ControlInv'
  BY <1>0 DEF DestroyUnit, Goto, IInv, ControlInv
<1>3. CreatorInv'
  BY DEF DestroyUnit, Goto, IInv, CreatorInv, Creators, storeVars
<1>4. SentinelInv'
  BY DEF DestroyUnit, Goto, IInv, SentinelInv, Creators, storeVars
<1>5. FlagsInv'
  <2>1. \A s \in Threads :
          pc'[s] \in Working => /\ pc[s] \in Working
                               /\ unit'[s] = unit[s]
                               /\ req'[s].flags = req[s].flags
                               /\ req'[s].file = req[s].file
    BY DEF Working, DestroyUnit, Goto
  <2> QED BY <1>0, <2>1, FlagsKept DEF DestroyUnit, storeVars
<1>6. ExclusiveInv'
  BY DEF DestroyUnit, Goto, IInv, ExclusiveInv, IsCompiling
<1>7. DiagnosticsAreCurrent'
  BY <1>0 DEF DestroyUnit, Goto, IInv, ControlInv, DiagnosticsAreCurrent,
     IsValid
<1> QED BY <1>1, <1>2, <1>3, <1>4, <1>5, <1>6, <1>7 DEF IInv

(* The diagnostics are read, of this parse or a later one. *)
LEMMA DiagnoseStep ==
  ASSUME IInv, NEW t \in Threads, Diagnose(t)
  PROVE  IInv'
<1>0. /\ unit[t] \in Units /\ units' \in Seq(Unit) /\ Units' = Units
      /\ \A w \in Units :
           /\ units'[w].flags = units[w].flags
           /\ units'[w].clang = units[w].clang
           /\ units'[w].parses = units[w].parses
           /\ units'[w].access = units[w].access
           /\ w # unit[t] => units'[w].diagnostics = units[w].diagnostics
      /\ IsValid(unit[t]) =>
           units'[unit[t]].diagnostics = units[unit[t]].parses
  <2>1. unit[t] \in Units /\ UpdateLatestDiagnostics(unit[t])
    BY DEF IInv, ControlInv, Diagnose
  <2> QED BY <2>1, UnitDiagnosed DEF IInv, TypeOK
<1>1. TypeOK'
  <2>1. MutexOwners'
    <3>1. \A s \in Threads \ {t} : pc'[s] = pc[s] /\ unit'[s] = unit[s]
      BY DEF Diagnose, Goto
    <3>2. \A w \in Units, s \in Threads :
            units[w].access = s
              <=> pc[s] \in {"reparsing", "accessing"} /\ unit[s] = w
      BY DEF IInv, TypeOK, MutexOwners
    <3>3. pc[t] = "diagnose" /\ pc'[t] \in {"report", "access"}
      BY DEF IInv, TypeOK, Diagnose, Goto, AfterReparse
    <3>4. \A w \in Units, s \in Threads \ {t} :
            units'[w].access = s <=> units[w].access = s
      BY <1>0
    <3>5. \A w \in Units :
            units'[w].access = t
              <=> pc'[t] \in {"reparsing", "accessing"} /\ unit'[t] = w
      BY <1>0, <3>2, <3>3
    <3> QED BY <1>0, <3>1, <3>5, OwnersKept
  <2>2. StoreTypeOK'
    BY <1>0 DEF Diagnose, IInv, TypeOK, StoreTypeOK, storeVars
  <2> QED
    BY <1>0, <2>1, <2>2 DEF Diagnose, Goto, AfterReparse, IInv, TypeOK
<1>2. ControlInv'
  BY <1>0 DEF Diagnose, Goto, AfterReparse, IInv, ControlInv
<1>3. CreatorInv'
  BY DEF Diagnose, Goto, AfterReparse, IInv, CreatorInv, Creators, storeVars
<1>4. SentinelInv'
  BY DEF Diagnose, Goto, IInv, SentinelInv, Creators, storeVars
<1>5. FlagsInv'
  <2>1. \A s \in Threads :
          pc'[s] \in Working => /\ pc[s] \in Working
                               /\ unit'[s] = unit[s]
                               /\ req'[s].flags = req[s].flags
                               /\ req'[s].file = req[s].file
    BY DEF Working, Diagnose, Goto
  <2> QED BY <1>0, <2>1, FlagsKept DEF Diagnose, storeVars
<1>6. ExclusiveInv'
  BY DEF Diagnose, Goto, AfterReparse, IInv, ExclusiveInv, IsCompiling
<1>7. DiagnosticsAreCurrent'
  <2> SUFFICES ASSUME NEW s \in Threads, pc'[s] = "report", mine'[s] > 0
               PROVE  \/ units'[unit'[s]].diagnostics >= mine'[s]
                      \/ ~ (unit'[s] # Sentinel /\ units'[unit'[s]].clang)
    BY DEF DiagnosticsAreCurrent, IsValid
  <2>1. unit'[s] = unit[s] /\ mine'[s] = mine[s]
    BY DEF Diagnose
  <2>2. unit[s] \in Units /\ mine[s] <= units[unit[s]].parses
    BY <2>1 DEF IInv, ControlInv
  <2>3. CASE unit[s] = unit[t]
    BY <1>0, <2>1, <2>2, <2>3 DEF IsValid
  <2>4. CASE unit[s] # unit[t]
    <3>1. pc[s] = "report"
      BY <2>4 DEF Diagnose, Goto
    <3> QED BY <1>0, <2>1, <2>2, <3>1 DEF IInv, DiagnosticsAreCurrent, IsValid
  <2> QED BY <2>3, <2>4
<1> QED BY <1>1, <1>2, <1>3, <1>4, <1>5, <1>6, <1>7 DEF IInv

(* libclang looks something up, under the unit's mutex. *)
LEMMA BeginAccessStep ==
  ASSUME IInv, NEW t \in Threads, BeginAccess(t)
  PROVE  IInv'
<1>0. /\ unit[t] \in Units /\ units' \in Seq(Unit) /\ Units' = Units
      /\ units[unit[t]].access = NoThread
      /\ \A w \in Units :
           /\ units'[w].flags = units[w].flags
           /\ units'[w].clang = units[w].clang
           /\ units'[w].parses = units[w].parses
           /\ units'[w].diagnostics = units[w].diagnostics
           /\ w # unit[t] => units'[w].access = units[w].access
      /\ units'[unit[t]].access = t
  <2>1. unit[t] \in Units /\ units[unit[t]].access = NoThread
    BY DEF IInv, ControlInv, BeginAccess, Lock, IsValid, IsFree
  <2>2. units' = [units EXCEPT ![unit[t]].access = t]
    BY DEF BeginAccess, Lock
  <2>3. t \in Threads \cup {NoThread}
    OBVIOUS
  <2> QED BY <2>1, <2>2, AccessChanged DEF IInv, TypeOK
<1>1. TypeOK'
  <2>1. MutexOwners'
    <3>1. \A s \in Threads \ {t} : pc'[s] = pc[s] /\ unit'[s] = unit[s]
      BY DEF BeginAccess, Goto
    <3>2. \A w \in Units, s \in Threads :
            units[w].access = s
              <=> pc[s] \in {"reparsing", "accessing"} /\ unit[s] = w
      BY DEF IInv, TypeOK, MutexOwners
    <3>3. pc[t] = "access" /\ pc'[t] = "accessing"
      BY DEF IInv, TypeOK, BeginAccess, Goto
    <3>4. \A w \in Units, s \in Threads \ {t} :
            units'[w].access = s <=> units[w].access = s
      BY <1>0
    <3>5. \A w \in Units :
            units'[w].access = t
              <=> pc'[t] \in {"reparsing", "accessing"} /\ unit'[t] = w
      BY <1>0, <3>2, <3>3 DEF BeginAccess
    <3> QED BY <1>0, <3>1, <3>5, OwnersKept
  <2>2. StoreTypeOK'
    BY <1>0 DEF BeginAccess, IInv, TypeOK, StoreTypeOK, storeVars
  <2> QED
    BY <1>0, <2>1, <2>2 DEF BeginAccess, Goto, IInv, TypeOK
<1>2. ControlInv'
  BY <1>0 DEF BeginAccess, Goto, IInv, ControlInv
<1>3. CreatorInv'
  BY DEF BeginAccess, Goto, IInv, CreatorInv, Creators, storeVars
<1>4. SentinelInv'
  BY DEF BeginAccess, Goto, IInv, SentinelInv, Creators, storeVars
<1>5. FlagsInv'
  <2>1. \A s \in Threads :
          pc'[s] \in Working => /\ pc[s] \in Working
                               /\ unit'[s] = unit[s]
                               /\ req'[s].flags = req[s].flags
                               /\ req'[s].file = req[s].file
    BY DEF Working, BeginAccess, Goto
  <2> QED BY <1>0, <2>1, FlagsKept DEF BeginAccess, storeVars
<1>6. ExclusiveInv'
  BY DEF BeginAccess, Goto, IInv, ExclusiveInv, IsCompiling
<1>7. DiagnosticsAreCurrent'
  BY <1>0 DEF BeginAccess, Goto, IInv, ControlInv, DiagnosticsAreCurrent,
     IsValid
<1> QED BY <1>1, <1>2, <1>3, <1>4, <1>5, <1>6, <1>7 DEF IInv

(* The lookup is done. *)
LEMMA EndAccessStep ==
  ASSUME IInv, NEW t \in Threads, EndAccess(t)
  PROVE  IInv'
<1>0. /\ unit[t] \in Units /\ units' \in Seq(Unit) /\ Units' = Units
      /\ pc[t] \in {"reparsing", "accessing"}
      /\ \A w \in Units :
           /\ units'[w].flags = units[w].flags
           /\ units'[w].clang = units[w].clang
           /\ units'[w].parses = units[w].parses
           /\ units'[w].diagnostics = units[w].diagnostics
           /\ w # unit[t] => units'[w].access = units[w].access
      /\ units'[unit[t]].access = NoThread
  <2>1. unit[t] \in Units /\ pc[t] \in {"reparsing", "accessing"}
    BY DEF IInv, ControlInv, EndAccess
  <2>2. units' = [units EXCEPT ![unit[t]].access = NoThread]
    BY DEF EndAccess, Unlock
  <2>3. NoThread \in Threads \cup {NoThread}
    OBVIOUS
  <2> QED BY <2>1, <2>2, <2>3, AccessChanged DEF IInv, TypeOK
<1>1. TypeOK'
  <2>1. MutexOwners'
    <3>1. \A s \in Threads \ {t} : pc'[s] = pc[s] /\ unit'[s] = unit[s]
      BY DEF EndAccess, Goto
    <3>2. \A w \in Units, s \in Threads :
            units[w].access = s
              <=> pc[s] \in {"reparsing", "accessing"} /\ unit[s] = w
      BY DEF IInv, TypeOK, MutexOwners
    <3>3. pc[t] = "accessing" /\ pc'[t] = "leave"
      BY DEF IInv, TypeOK, EndAccess, Goto
    <3>4. \A w \in Units, s \in Threads \ {t} :
            units'[w].access = s <=> units[w].access = s
      BY <1>0, <3>2
    <3>5. \A w \in Units :
            units'[w].access = t
              <=> pc'[t] \in {"reparsing", "accessing"} /\ unit'[t] = w
      BY <1>0, <3>2, <3>3
    <3> QED BY <1>0, <3>1, <3>4, <3>5, OwnersKept
  <2>2. StoreTypeOK'
    BY <1>0 DEF EndAccess, IInv, TypeOK, StoreTypeOK, storeVars
  <2> QED
    BY <1>0, <2>1, <2>2 DEF EndAccess, Goto, IInv, TypeOK
<1>2. ControlInv'
  BY <1>0 DEF EndAccess, Goto, IInv, ControlInv
<1>3. CreatorInv'
  BY DEF EndAccess, Goto, IInv, CreatorInv, Creators, storeVars
<1>4. SentinelInv'
  BY DEF EndAccess, Goto, IInv, SentinelInv, Creators, storeVars
<1>5. FlagsInv'
  <2>1. \A s \in Threads :
          pc'[s] \in Working => /\ pc[s] \in Working
                               /\ unit'[s] = unit[s]
                               /\ req'[s].flags = req[s].flags
                               /\ req'[s].file = req[s].file
    BY DEF Working, EndAccess, Goto
  <2> QED BY <1>0, <2>1, FlagsKept DEF EndAccess, storeVars
<1>6. ExclusiveInv'
  BY DEF EndAccess, Goto, IInv, ExclusiveInv, IsCompiling
<1>7. DiagnosticsAreCurrent'
  BY <1>0 DEF EndAccess, Goto, IInv, ControlInv, DiagnosticsAreCurrent,
     IsValid
<1> QED BY <1>1, <1>2, <1>3, <1>4, <1>5, <1>6, <1>7 DEF IInv

(* The comment comes from the same unit. *)
LEMMA EndAccessInMainFileStep ==
  ASSUME IInv, NEW t \in Threads, EndAccessInMainFile(t)
  PROVE  IInv'
<1>0. /\ unit[t] \in Units /\ units' \in Seq(Unit) /\ Units' = Units
      /\ pc[t] \in {"reparsing", "accessing"}
      /\ \A w \in Units :
           /\ units'[w].flags = units[w].flags
           /\ units'[w].clang = units[w].clang
           /\ units'[w].parses = units[w].parses
           /\ units'[w].diagnostics = units[w].diagnostics
           /\ w # unit[t] => units'[w].access = units[w].access
      /\ units'[unit[t]].access = NoThread
  <2>1. unit[t] \in Units /\ pc[t] \in {"reparsing", "accessing"}
    BY DEF IInv, ControlInv, EndAccessInMainFile
  <2>2. units' = [units EXCEPT ![unit[t]].access = NoThread]
    BY DEF EndAccessInMainFile, Unlock
  <2>3. NoThread \in Threads \cup {NoThread}
    OBVIOUS
  <2> QED BY <2>1, <2>2, <2>3, AccessChanged DEF IInv, TypeOK
<1>r. /\ req' \in [Threads -> Request \cup {NoRequest}]
      /\ req'[t] \in Request /\ req[t] \in Request
      /\ \A s \in Threads : s # t => req'[s] = req[s]
      /\ ~ IsExclusive(req[t].op) /\ req'[t].flags = req[t].flags
      /\ req'[t].file = req[t].file
  <2>1. req[t] \in Request /\ req[t].op = "docs"
    BY DEF IInv, ControlInv, EndAccessInMainFile
  <2> DEFINE r == [req[t] EXCEPT !.op = "comment"]
  <2>2. /\ r \in Request /\ r.flags = req[t].flags
        /\ r.file = req[t].file
    BY <2>1 DEF Request
  <2>3. req' = [req EXCEPT ![t] = r]
    BY DEF EndAccessInMainFile
  <2> HIDE DEF r
  <2> QED BY <2>1, <2>2, <2>3 DEF IInv, TypeOK, IsExclusive
<1>1. TypeOK'
  <2>1. MutexOwners'
    <3>1. \A s \in Threads \ {t} : pc'[s] = pc[s] /\ unit'[s] = unit[s]
      BY DEF EndAccessInMainFile, Goto
    <3>2. \A w \in Units, s \in Threads :
            units[w].access = s
              <=> pc[s] \in {"reparsing", "accessing"} /\ unit[s] = w
      BY DEF IInv, TypeOK, MutexOwners
    <3>3. pc[t] = "accessing" /\ pc'[t] = "access"
      BY DEF IInv, TypeOK, EndAccessInMainFile, Goto
    <3>4. \A w \in Units, s \in Threads \ {t} :
            units'[w].access = s <=> units[w].access = s
      BY <1>0, <3>2
    <3>5. \A w \in Units :
            units'[w].access = t
              <=> pc'[t] \in {"reparsing", "accessing"} /\ unit'[t] = w
      BY <1>0, <3>2, <3>3
    <3> QED BY <1>0, <3>1, <3>4, <3>5, OwnersKept
  <2>2. StoreTypeOK'
    BY <1>0 DEF EndAccessInMainFile, IInv, TypeOK, StoreTypeOK, storeVars
  <2> QED
    BY <1>0, <1>r, <2>1, <2>2 DEF EndAccessInMainFile, Goto, IInv, TypeOK
<1>2. ControlInv'
  <2> SUFFICES ASSUME NEW s \in Threads
               PROVE  /\ pc'[s] # "idle" => req'[s] \in Request
                      /\ pc'[s] = "enter" => IsExclusive(req'[s].op)
                      /\ pc'[s] \in {"reparse", "report", "access"} =>
                           unit'[s] \in Units' \cup {Sentinel}
                      /\ pc'[s] \in {"reparsing", "destroy", "diagnose",
                                    "accessing"} => unit'[s] \in Units'
                      /\ mine'[s] > 0 =>
                           /\ pc'[s] \in {"diagnose", "report", "access",
                                         "accessing", "leave"}
                           /\ unit'[s] \in Units'
                           /\ mine'[s] <= units'[unit'[s]].parses
    BY DEF ControlInv
  <2>1. mine' = mine /\ unit' = unit
    BY DEF EndAccessInMainFile
  <2>2. \A w \in Units : units'[w].parses = units[w].parses
    BY <1>0
  <2>3. CASE s = t
    <3>1. pc'[t] = "access" /\ pc[t] = "accessing"
      BY DEF IInv, TypeOK, EndAccessInMainFile, Goto
    <3> QED BY <1>0, <1>r, <2>1, <2>3, <3>1 DEF IInv, ControlInv
  <2>4. CASE s # t
    <3>1. pc'[s] = pc[s] /\ req'[s] = req[s]
      BY <2>4 DEF EndAccessInMainFile, Goto
    <3> QED BY <1>0, <2>1, <3>1 DEF IInv, ControlInv
  <2> QED BY <2>3, <2>4
<1>3. CreatorInv'
  BY DEF EndAccessInMainFile, Goto, IInv, CreatorInv, Creators, storeVars
<1>4. SentinelInv'
  BY DEF EndAccessInMainFile, Goto, IInv, SentinelInv, Creators, storeVars
<1>5. FlagsInv'
  <2>1. \A s \in Threads :
          pc'[s] \in Working => /\ pc[s] \in Working
                               /\ unit'[s] = unit[s]
                               /\ req'[s].flags = req[s].flags
                               /\ req'[s].file = req[s].file
    BY DEF Working, EndAccessInMainFile, Goto
  <2> QED BY <1>0, <2>1, FlagsKept DEF EndAccessInMainFile, storeVars
<1>6. ExclusiveInv'
  BY DEF EndAccessInMainFile, Goto, IInv, ExclusiveInv, IsCompiling,
     IsExclusive
<1>7. DiagnosticsAreCurrent'
  <2>1. \A s \in Threads : pc'[s] = "report" => pc[s] = "report"
    BY DEF EndAccessInMainFile, Goto
  <2>2. mine' = mine /\ unit' = unit
    BY DEF EndAccessInMainFile
  <2> QED BY <1>0, <2>1, <2>2 DEF IInv, ControlInv, DiagnosticsAreCurrent,
             IsValid
<1> QED BY <1>1, <1>2, <1>3, <1>4, <1>5, <1>6, <1>7 DEF IInv

(* The comment comes from the unit of the header. *)
LEMMA EndAccessInSystemHeaderStep ==
  ASSUME IInv, NEW t \in Threads, EndAccessInSystemHeader(t)
  PROVE  IInv'
<1>0. /\ unit[t] \in Units /\ units' \in Seq(Unit) /\ Units' = Units
      /\ pc[t] \in {"reparsing", "accessing"}
      /\ \A w \in Units :
           /\ units'[w].flags = units[w].flags
           /\ units'[w].clang = units[w].clang
           /\ units'[w].parses = units[w].parses
           /\ units'[w].diagnostics = units[w].diagnostics
           /\ w # unit[t] => units'[w].access = units[w].access
      /\ units'[unit[t]].access = NoThread
  <2>1. unit[t] \in Units /\ pc[t] \in {"reparsing", "accessing"}
    BY DEF IInv, ControlInv, EndAccessInSystemHeader
  <2>2. units' = [units EXCEPT ![unit[t]].access = NoThread]
    BY DEF EndAccessInSystemHeader, Unlock
  <2>3. NoThread \in Threads \cup {NoThread}
    OBVIOUS
  <2> QED BY <2>1, <2>2, <2>3, AccessChanged DEF IInv, TypeOK
<1>r. /\ req' \in [Threads -> Request \cup {NoRequest}]
      /\ req'[t] \in Request /\ req[t] \in Request
      /\ \A s \in Threads : s # t => req'[s] = req[s]
      /\ ~ IsExclusive(req[t].op) /\ req'[t].flags = req[t].flags
  <2>1. req[t] \in Request /\ req[t].op = "docs"
    BY DEF IInv, ControlInv, EndAccessInSystemHeader
  <2>2. PICK header \in Files :
          req' = [req EXCEPT ![t].op = "header", ![t].file = header]
    BY DEF EndAccessInSystemHeader
  <2> DEFINE r == [req[t] EXCEPT !.op = "header", !.file = header]
  <2>3. r \in Request /\ r.flags = req[t].flags
    BY <2>1 DEF Request
  <2>4. req' = [req EXCEPT ![t] = r]
    BY <2>2
  <2> HIDE DEF r
  <2> QED BY <2>1, <2>3, <2>4 DEF IInv, TypeOK, IsExclusive
<1>1. TypeOK'
  <2>1. MutexOwners'
    <3>1. \A s \in Threads \ {t} : pc'[s] = pc[s] /\ unit'[s] = unit[s]
      BY DEF EndAccessInSystemHeader, Goto
    <3>2. \A w \in Units, s \in Threads :
            units[w].access = s
              <=> pc[s] \in {"reparsing", "accessing"} /\ unit[s] = w
      BY DEF IInv, TypeOK, MutexOwners
    <3>3. pc[t] = "accessing" /\ pc'[t] = "lookup"
      BY DEF IInv, TypeOK, EndAccessInSystemHeader, Goto
    <3>4. \A w \in Units, s \in Threads \ {t} :
            units'[w].access = s <=> units[w].access = s
      BY <1>0, <3>2
    <3>5. \A w \in Units :
            units'[w].access = t
              <=> pc'[t] \in {"reparsing", "accessing"} /\ unit'[t] = w
      BY <1>0, <3>2, <3>3
    <3> QED BY <1>0, <3>1, <3>4, <3>5, OwnersKept
  <2>2. StoreTypeOK'
    BY <1>0 DEF EndAccessInSystemHeader, IInv, TypeOK, StoreTypeOK, storeVars
  <2> QED
    BY <1>r DEF EndAccessInSystemHeader, Request
<1>2. ControlInv'
  BY DEF EndAccessInSystemHeader, Goto, IInv, TypeOK, ControlInv, Request
<1>3. CreatorInv'
  BY DEF EndAccessInSystemHeader, Goto, IInv, TypeOK, CreatorInv, Creators,
     storeVars
<1>4. SentinelInv'
  BY <1>r DEF EndAccessInSystemHeader, Request
<1>5. FlagsInv'
  <2>1. \A s \in Threads :
          pc'[s] \in Working => /\ pc[s] \in Working
                               /\ unit'[s] = unit[s]
                               /\ req'[s].flags = req[s].flags
                               /\ req'[s].file = req[s].file
    BY DEF IInv, TypeOK, Working, EndAccessInSystemHeader, Goto
  <2> QED BY <1>0, <2>1, FlagsKept DEF EndAccessInSystemHeader, storeVars
<1>6. ExclusiveInv'
  BY <1>r DEF EndAccessInSystemHeader, Request
<1>7. DiagnosticsAreCurrent'
  BY DEF EndAccessInSystemHeader, IInv, TypeOK, ControlInv,
     DiagnosticsAreCurrent, IsValid, Request
<1> QED BY <1>1, <1>2, <1>3, <1>4, <1>5, <1>6, <1>7 DEF IInv

(* The invariant depends on the variables alone. *)
LEMMA StutteringStep ==
  ASSUME IInv, UNCHANGED vars
  PROVE  IInv'
<1>0. /\ units' = units /\ store' = store /\ flagsHash' = flagsHash
      /\ disturbed' = disturbed /\ pc' = pc /\ req' = req /\ unit' = unit
      /\ mine' = mine /\ requests' = requests
      /\ filesBeingCompiled' = filesBeingCompiled
  BY DEF vars, storeVars
<1>1. TypeOK' /\ ControlInv'
  BY <1>0 DEF IInv, TypeOK, StoreTypeOK, MutexOwners, ControlInv, Units,
       IsExclusive
<1>2. CreatorInv' /\ SentinelInv'
  BY <1>0 DEF IInv, CreatorInv, SentinelInv, Creators
<1>3. FlagsInv' /\ ExclusiveInv' /\ DiagnosticsAreCurrent'
  BY <1>0 DEF IInv, FlagsInv, ExclusiveInv, IsCompiling, IsExclusive,
              DiagnosticsAreCurrent, IsValid, Units
<1> QED BY <1>1, <1>2, <1>3 DEF IInv

(* The invariant holds when nothing was parsed yet. *)
LEMMA InitInvariant == Init => IInv
<1> SUFFICES ASSUME Init
             PROVE  IInv
  OBVIOUS
<1>1. units = <<>> /\ units \in Seq(Unit) /\ Units = {}
  BY DEF Init, Units
<1>2. TypeOK /\ ControlInv
  BY <1>1 DEF Init, TypeOK, StoreInit, StoreTypeOK, MutexOwners, ControlInv
<1>3. CreatorInv /\ SentinelInv
  BY DEF Init, StoreInit, CreatorInv, SentinelInv
<1>4. FlagsInv /\ ExclusiveInv /\ DiagnosticsAreCurrent
  BY <1>1
  DEF Init, StoreInit, FlagsInv, Working, ExclusiveInv, DiagnosticsAreCurrent
<1> QED BY <1>2, <1>3, <1>4 DEF IInv

(* Every step of every thread preserves the invariant. *)
LEMMA NextInvariant ==
  ASSUME IInv, [Next]_vars
  PROVE  IInv'
<1>1. CASE UNCHANGED vars
  BY <1>1, StutteringStep
<1>2. ASSUME NEW t \in Threads, Begin(t) \/ Work(t)
      PROVE  IInv'
  BY <1>2, BeginStep, LeaveStep, GetUnitStep, CheckUpdatingStep, EnterStep,
     DeleteCachesForFileStep, FindUnitStep, BeginCreateStep, CreateStep,
     CreateFailsStep, SkipReparseStep, BeginReparseStep, EndReparseStep,
     ReparseFailsStep, DestroyUnitStep, DiagnoseStep, ReportStep,
     SkipAccessStep, BeginAccessStep, EndAccessStep, EndAccessInMainFileStep,
     EndAccessInSystemHeaderStep DEF Work
<1> QED BY <1>1, <1>2 DEF Next

-----------------------------------------------------------------------------

(* The inductive invariant holds for any number of threads, files, flags    *)
(* and requests.                                                            *)
THEOREM Invariant == Spec => []IInv
<1>1. IInv /\ [Next]_vars => IInv'
  BY NextInvariant
<1> QED BY <1>1, InitInvariant, PTL DEF Spec

(* Every variable has its type, and the mutex of a unit is held by exactly  *)
(* the thread that makes libclang work on it: two threads never use one     *)
(* libclang unit at once.                                                   *)
THEOREM TypeCorrect == Spec => []TypeOK
<1>1. IInv => TypeOK
  BY DEF IInv
<1> QED BY <1>1, Invariant, PTL

(* Only one thread makes the unit of a file, unless a request with other    *)
(* flags or an unload has taken its sentinel away ("The TU store will       *)
(* ensure only one TU is created", TranslationUnitStore.h:41).              *)
THEOREM SingleCreation == Spec => []OneCreator
<1>1. IInv => OneCreator
  <2> SUFFICES ASSUME IInv, NEW f \in Files \ disturbed
               PROVE  Cardinality(Creators(f)) <= 1
    BY DEF OneCreator
  <2>1. CASE Creators(f) = {}
    BY <2>1, FS_EmptySet
  <2>2. CASE Creators(f) # {}
    <3>1. PICK t \in Threads : pc[t] = "create" /\ req[t].file = f
      BY <2>2 DEF Creators
    <3>2. Creators(f) = {t}
      BY <3>1 DEF IInv, CreatorInv
    <3> QED BY <3>2, FS_Singleton
  <2> QED BY <2>1, <2>2
<1> QED BY <1>1, Invariant, PTL

(* A request works on a unit that was parsed with its flags, and the hash   *)
(* that is stored is that of the flags the stored unit was parsed with,     *)
(* unless a creation was disturbed in that way.                             *)
THEOREM FlagSafety == Spec => []FlagsRespected
<1>1. IInv => FlagsRespected
  BY DEF IInv, FlagsInv, FlagsRespected, Working
<1> QED BY <1>1, Invariant, PTL

(* An update answers with the diagnostics of its own parse or a later one,  *)
(* although it releases the unit's mutex before it reads them.              *)
THEOREM CurrentDiagnostics == Spec => []DiagnosticsAreCurrent
<1>1. IInv => DiagnosticsAreCurrent
  BY DEF IInv
<1> QED BY <1>1, Invariant, PTL

(* Whatever fails, when no request runs there is no sentinel in the store,  *)
(* no file is marked as being compiled, and every unit's mutex is free.     *)
THEOREM CleanWhenIdle == Spec => []NothingLeftBehind
<1>1. IInv => NothingLeftBehind
  <2> SUFFICES ASSUME IInv, \A t \in Threads : pc[t] = "idle"
               PROVE  /\ filesBeingCompiled = {}
                      /\ \A f \in Files : store[f] # Sentinel
                      /\ \A u \in Units : IsFree(u)
    BY DEF NothingLeftBehind
  <2>1. filesBeingCompiled = {}
    BY DEF IInv, ExclusiveInv, IsCompiling
  <2>2. \A f \in Files : store[f] # Sentinel
    BY DEF IInv, SentinelInv, Creators
  <2>3. ASSUME NEW u \in Units
        PROVE  IsFree(u)
    <3>1. units[u] \in Unit
      BY DEF IInv, TypeOK, Units
    <3>2. units[u].access \in Threads \cup {NoThread}
      BY <3>1 DEF Unit
    <3>3. \A t \in Threads : units[u].access # t
      BY DEF IInv, TypeOK, MutexOwners
    <3> QED BY <3>2, <3>3 DEF IsFree
  <2> QED BY <2>1, <2>2, <2>3
<1> QED BY <1>1, Invariant, PTL
=============================================================================
