------------------------- MODULE DocumentSync_proofs -------------------------
(***************************************************************************)
(* Proofs about DocumentSync, for any set of files, threads and contents,  *)
(* any number of requests and handlers, and any interleaving of them.      *)
(*                                                                         *)
(* The argument: two updates exclude each other by the mutex; an update    *)
(* and an unload of one file do not, and a file at which they meet is in   *)
(* `overlapped' from then on.  So of every other file at most one          *)
(* notification that matters is pending, and the file state is exactly     *)
(* that notification ahead of the server (FileInv).  There is one lemma    *)
(* for every action, and one step in it for every part of IInv.            *)
(***************************************************************************)
EXTENDS DocumentSync, FiniteSetTheorems, TLAPS

USE DocumentSyncAssumption

(* What the buffers and the file of a request may be. *)
LEMMA RequestData ==
  ASSUME NEW r \in Requests
  PROVE  /\ r.op \in {"update", "current"} =>
              /\ DOMAIN r.data \subseteq Files
              /\ \A f \in DOMAIN r.data : r.data[f] \in Contents
         /\ r.op \in {"save", "unload"} => r.file \in Files
<1>1. \A d \in FileData : /\ DOMAIN d \subseteq Files
                          /\ \A f \in DOMAIN d : d[f] \in Contents
  <2> SUFFICES ASSUME NEW d \in FileData
               PROVE  /\ DOMAIN d \subseteq Files
                      /\ \A f \in DOMAIN d : d[f] \in Contents
    OBVIOUS
  <2>1. PICK F \in SUBSET Files : d \in [F -> Contents]
    OBVIOUS
  <2> QED BY <2>1
<1>2. CASE r.op = "update"
  <2>1. r.data \in FileData
    BY <1>2 DEF Requests
  <2> QED BY <1>1, <1>2, <2>1
<1>3. CASE r.op = "current"
  <2>1. r.data \in OneBuffer
    BY <1>3 DEF Requests
  <2>2. PICK d \in FileData : \E f \in DOMAIN d : r.data = [g \in {f} |-> d[f]]
    <3>1. PICK S \in {{[g \in {f} |-> d[f]] : f \in DOMAIN d} : d \in FileData} :
            r.data \in S
      BY <2>1 DEF OneBuffer
    <3>2. PICK d \in FileData : S = {[g \in {f} |-> d[f]] : f \in DOMAIN d}
      BY <3>1
    <3> QED BY <3>1, <3>2
  <2> QED BY <1>1, <1>3, <2>2
<1>4. CASE r.op \in {"save", "unload"}
  BY <1>4 DEF Requests
<1> QED BY <1>2, <1>3, <1>4 DEF Requests

(* Files a request refreshes. *)
LEMMA DirtyFilesType ==
  ASSUME NEW r \in Requests, r.op \in {"update", "current"}
  PROVE  DirtyFiles(r) \subseteq Files /\ DirtyFiles(r) \subseteq DOMAIN r.data
BY RequestData DEF DirtyFiles

(* Only the thread that holds the mutex has news of an open document. *)
LEMMA UpdaterHoldsMutex ==
  ASSUME ControlInv, NEW t \in Workers,
         out[t] # NoMessage, out[t].type \notin {"DidSave", "DidClose"}
  PROVE  mutex = t
BY DEF ControlInv, ThreadInv

(* A file that is about to be closed is being unloaded. *)
LEMMA CloserUnloads ==
  ASSUME ControlInv, NEW t \in Workers, NEW f, Closes(t, f)
  PROVE  BeingUnloaded(f)
BY DEF ControlInv, ThreadInv, Closes, BeingUnloaded

(* What a step must leave alone for a file to stay as it should be. *)
LEMMA FileUntouched ==
  ASSUME NEW f \in Files, FileInv(f),
         doc'[f] = doc[f], connected' => connected,
         fileState'[f].state = "Open" <=> fileState[f].state = "Open",
         fileState[f].state = "Open" => fileState'[f] = fileState[f],
         BeingUnloaded(f)' => BeingUnloaded(f),
         \A t \in Workers :
           /\ Updates(t, f)' => Updates(t, f) /\ out'[t] = out[t]
           /\ Closes(t, f)' => Closes(t, f)
           /\ connected' => /\ Updates(t, f) => Updates(t, f)'
                            /\ Closes(t, f) => Closes(t, f)'
  PROVE  FileInv(f)'
<1>1. connected' /\ (\A t \in Workers : ~ Updates(t, f)' /\ ~ Closes(t, f)') =>
        Matches(f)'
  BY DEF FileInv, Matches
<1>2. ASSUME NEW t \in Workers, Updates(t, f)'
      PROVE  /\ ~ BeingUnloaded(f)'
             /\ fileState'[f].state = "Open"
             /\ out'[t].version = fileState'[f].version
             /\ out'[t].contents = fileState'[f].contents
             /\ connected' =>
                  IF out'[t].type = "DidOpen"
                  THEN ~ doc'[f].open /\ out'[t].version = 1
                  ELSE doc'[f].open /\ out'[t].version = doc'[f].version + 1
  <2>1. Updates(t, f) /\ out'[t] = out[t]
    BY <1>2
  <2> QED BY <2>1 DEF FileInv
<1>3. ASSUME NEW t \in Workers, Closes(t, f)'
      PROVE  /\ connected' => doc'[f].open
             /\ \A u \in Workers : Closes(u, f)' => u = t
  BY <1>3 DEF FileInv
<1>4. BeingUnloaded(f)' => fileState'[f].state # "Open"
  BY DEF FileInv
<1> QED BY <1>1, <1>2, <1>3, <1>4 DEF FileInv

(* Nor does a step that writes and builds nothing change it. *)
LEMMA SyncUntouched ==
  ASSUME SyncInv,
         UNCHANGED <<fileState, doc, out, connected, overlapped>>,
         \A f \in Files : BeingUnloaded(f)' => BeingUnloaded(f)
  PROVE  SyncInv'
<1> SUFFICES ASSUME NEW f \in Files, f \notin overlapped
             PROVE  FileInv(f)'
  BY DEF SyncInv
<1>1. FileInv(f)
  BY DEF SyncInv
<1> QED BY <1>1, FileUntouched DEF Updates, Closes

(* What the threads have gone through, when none of them goes on. *)
LEMMA DeliveryUntouched ==
  ASSUME DeliveryInv,
         UNCHANGED <<fileState, overlapped, unloaded>>,
         \A f \in Files : BeingUnloaded(f)' => BeingUnloaded(f),
         \A t \in Workers : pc'[t] \in {"dirty", "saved"} =>
           /\ pc[t] = pc'[t] /\ req'[t] = req[t] /\ seen'[t] = seen[t]
           /\ out'[t] \in {out[t], NoMessage}
  PROVE  DeliveryInv'
<1>1. ASSUME NEW t \in Workers, pc'[t] \in {"dirty", "saved"}
      PROVE  DirtyFiles(req[t])' = DirtyFiles(req[t])
  BY <1>1 DEF DirtyFiles
<1> QED BY <1>1 DEF DeliveryInv, Updates, NoMessage

(* Nor when a step closes files that are not asked about any more. *)
LEMMA DeliveryKept ==
  ASSUME IInv, overlapped \subseteq overlapped', unloaded \subseteq unloaded',
         \A f \in Files : BeingUnloaded(f)' => f \in unloaded' \cup overlapped',
         \A f \in Files \ (unloaded' \cup overlapped') :
           fileState[f].state = "Open" => fileState'[f] = fileState[f],
         \A t \in Workers : pc'[t] \in {"dirty", "saved"} =>
           /\ pc[t] = pc'[t] /\ req'[t] = req[t] /\ seen'[t] = seen[t]
           /\ out'[t] = out[t]
  PROVE  DeliveryInv'
<1> SUFFICES ASSUME NEW t \in Workers, pc'[t] \in {"dirty", "saved"}
             PROVE  /\ pc'[t] = "dirty" => seen'[t] \subseteq DirtyFiles(req'[t])
                    /\ \A f \in (IF pc'[t] = "dirty" THEN seen'[t]
                                                     ELSE DirtyFiles(req'[t]))
                                \ (unloaded' \cup overlapped') :
                         /\ fileState'[f].state = "Open"
                         /\ fileState'[f].contents = req'[t].data[f]
                    /\ pc'[t] = "saved" =>
                         \A f \in DirtyFiles(req'[t]) : ~ Updates(t, f)'
  BY DEF DeliveryInv
<1>1. /\ pc[t] = pc'[t] /\ req'[t] = req[t] /\ seen'[t] = seen[t]
      /\ out'[t] = out[t]
  OBVIOUS
<1>2. req[t] \in Requests /\ req[t].op \in {"update", "current"}
  BY <1>1 DEF IInv, TypeOK, ControlInv, ThreadInv, NoRequest
<1>3. DirtyFiles(req[t]) \subseteq Files /\ seen[t] \subseteq Files
  BY <1>2, DirtyFilesType DEF IInv, TypeOK
<1>4. /\ pc[t] = "dirty" => seen[t] \subseteq DirtyFiles(req[t])
      /\ \A f \in (IF pc[t] = "dirty" THEN seen[t] ELSE DirtyFiles(req[t]))
                  \ (unloaded \cup overlapped) :
           /\ fileState[f].state = "Open"
           /\ fileState[f].contents = req[t].data[f]
      /\ pc[t] = "saved" => \A f \in DirtyFiles(req[t]) : ~ Updates(t, f)
  BY <1>1 DEF IInv, DeliveryInv
<1> QED BY <1>1, <1>3, <1>4 DEF Updates

(* The request of a thread whose own variables a step leaves alone. *)
LEMMA ThreadUntouched ==
  ASSUME NEW t \in Workers, ThreadInv(t),
         pc'[t] = pc[t], req'[t] = req[t], out'[t] = out[t],
         announce'[t] = announce[t], mutex' = t <=> mutex = t,
         ~ initialized' => ~ initialized
  PROVE  ThreadInv(t)'
BY DEF ThreadInv
-----------------------------------------------------------------------------

(* A request begins. *)
LEMMA BeginRequestStep ==
  ASSUME IInv, NEW t \in Threads, BeginRequest(t)
  PROVE  IInv'
<1>0. PICK r \in Requests :
        /\ initialized \/ r.op \in Queued
        /\ req' = [req EXCEPT ![t] = r]
        /\ pc' = [pc EXCEPT ![t] = IF initialized THEN Entry(r) ELSE "queue"]
  BY DEF BeginRequest
<1>a. t \in Workers /\ r.op \in {"update", "current", "save", "unload"}
  BY DEF Workers, Requests
<1>b. /\ pc[t] = "idle" /\ out[t] = NoMessage /\ ~ announce[t] /\ mutex # t
      /\ req'[t] = r /\ r # NoRequest
      /\ pc'[t] = IF initialized THEN Entry(r) ELSE "queue"
      /\ \A u \in Workers \ {t} : req'[u] = req[u] /\ pc'[u] = pc[u]
      /\ UNCHANGED <<fileState, mutex, sessionVars, workspaceDirs, doc, folders,
                     seen, out, announce, storeSize, disk, diskWrites,
                     historyVars>>
      /\ requests' = requests + 1
  BY <1>0, <1>a DEF BeginRequest, IInv, TypeOK, ControlInv, ThreadInv,
                    NoRequest, NoMessage
<1>1. TypeOK'
  <2>1. req' \in [Workers -> Requests \cup {NoRequest}]
    BY <1>0 DEF IInv, TypeOK
  <2>2. pc' \in [Workers -> {"idle", "queue", "clear", "acquire", "dirty",
                             "saved", "save", "sent", "unload", "delete"}]
    BY <1>0, <1>a DEF IInv, TypeOK, Entry, Unlocked
  <2> QED BY <1>b, <2>1, <2>2 DEF IInv, TypeOK, sessionVars, historyVars
<1>2. ControlInv'
  <2>1. ThreadInv(t)'
    BY <1>0, <1>a, <1>b
    DEF ThreadInv, Entry, Unlocked, Queued, NoMessage, sessionVars
  <2>2. \A u \in Workers \ {t} : ThreadInv(u)'
    BY <1>b, ThreadUntouched DEF IInv, ControlInv, sessionVars
  <2> QED BY <1>b, <2>1, <2>2 DEF IInv, ControlInv, sessionVars
<1>c. pc'[t] \in {"queue", "acquire", "save", "unload"}
  BY <1>a, <1>b DEF Entry, Unlocked
<1>d. \A f : BeingUnloaded(f)' => BeingUnloaded(f)
  BY <1>b, <1>c DEF BeingUnloaded
<1>3. SyncInv'
  BY <1>b, <1>d, SyncUntouched DEF IInv, sessionVars, historyVars
<1>4. WorkspaceInv'
  BY <1>b DEF IInv, WorkspaceInv, sessionVars
<1>5. DeliveryInv'
  <2>1. /\ \A u \in Workers : pc'[u] \in {"dirty", "saved"} =>
             pc[u] = pc'[u] /\ req'[u] = req[u] /\ seen'[u] = seen[u]
        /\ UNCHANGED <<fileState, out, overlapped, unloaded>>
    BY <1>b, <1>c DEF historyVars
  <2> QED BY <1>d, <2>1, DeliveryUntouched DEF IInv
<1> QED BY <1>1, <1>2, <1>3, <1>4, <1>5 DEF IInv

(* What a request has to do is queued until the server is initialised. *)
LEMMA QueueHandlerStep ==
  ASSUME IInv, NEW t \in Workers, QueueHandler(t)
  PROVE  IInv'
<1>a. req[t] \in {r \in Requests : r.op \in Queued}
  BY DEF IInv, TypeOK, ControlInv, ThreadInv, QueueHandler
<1>b. /\ pc[t] = "queue" /\ mutex # t /\ out[t] = NoMessage /\ ~ announce[t]
      /\ pc'[t] \in {"idle", "clear"}
      /\ req'[t] = IF pc'[t] = "idle" THEN NoRequest ELSE req[t]
      /\ pc'[t] = "clear" => req[t].op = "update"
      /\ \A u \in Workers \ {t} :
           req'[u] = req[u] /\ pc'[u] = pc[u] /\ seen'[u] = seen[u]
      /\ UNCHANGED <<fileState, mutex, initialized, oneshot, pump, handled,
                     connected, workspaceNotifications, workspaceDirs, doc,
                     folders, out, announce, envVars, historyVars>>
  <2>1. pc[t] = "queue" /\ mutex # t /\ out[t] = NoMessage /\ ~ announce[t]
    BY DEF QueueHandler, IInv, ControlInv, ThreadInv, NoMessage
  <2>2. CASE Unloads(req[t])
    BY <2>1, <2>2 DEF QueueHandler, Finish, IInv, TypeOK
  <2>3. CASE ~ Unloads(req[t])
    BY <1>a, <2>1, <2>3 DEF QueueHandler, IInv, TypeOK, Queued, Unloads
  <2> QED BY <2>2, <2>3
<1>1. TypeOK'
  <2>1. handlers' \in Seq({r \in Requests : r.op \in Queued})
    BY <1>a DEF QueueHandler, IInv, TypeOK
  <2>2. /\ pc' \in [Workers -> {"idle", "queue", "clear", "acquire", "dirty",
                             "saved", "save", "sent", "unload", "delete"}]
        /\ req' \in [Workers -> Requests \cup {NoRequest}]
        /\ seen' \in [Workers -> SUBSET Files]
        /\ storeSize' \in [Workers -> Nat]
    <3>1. CASE Unloads(req[t])
      <4>1. Finish(t)
        BY <3>1 DEF QueueHandler
      <4> QED BY <4>1 DEF Finish, IInv, TypeOK
    <3>2. CASE ~ Unloads(req[t])
      BY <3>2 DEF QueueHandler, IInv, TypeOK
    <3> QED BY <3>1, <3>2
  <2> QED BY <1>b, <2>1, <2>2 DEF IInv, TypeOK, envVars, historyVars
<1>2. ControlInv'
  <2>1. ThreadInv(t)'
    BY <1>a, <1>b DEF ThreadInv, NoMessage, NoRequest, Requests
  <2>2. \A u \in Workers \ {t} : ThreadInv(u)'
    BY <1>b, ThreadUntouched DEF IInv, ControlInv
  <2> QED BY <1>b, <2>1, <2>2 DEF IInv, ControlInv
<1>d. \A f : BeingUnloaded(f)' => BeingUnloaded(f)
  BY <1>b DEF BeingUnloaded
<1>3. SyncInv'
  BY <1>b, <1>d, SyncUntouched DEF IInv, historyVars
<1>4. WorkspaceInv'
  BY <1>b DEF IInv, WorkspaceInv
<1>5. DeliveryInv'
  <2>1. /\ \A u \in Workers : pc'[u] \in {"dirty", "saved"} =>
             pc[u] = pc'[u] /\ req'[u] = req[u] /\ seen'[u] = seen[u]
        /\ UNCHANGED <<fileState, out, overlapped, unloaded>>
    BY <1>a, <1>b DEF historyVars
  <2> QED BY <1>d, <2>1, DeliveryUntouched DEF IInv
<1> QED BY <1>1, <1>2, <1>3, <1>4, <1>5 DEF IInv

(* The one-shot handler is dropped. *)
LEMMA ClearOneshotHandlersStep ==
  ASSUME IInv, NEW t \in Workers, ClearOneshotHandlers(t)
  PROVE  IInv'
<1>a. pc[t] = "clear" /\ mutex # t /\ out[t] = NoMessage /\ ~ announce[t]
  BY DEF ClearOneshotHandlers, IInv, ControlInv, ThreadInv, NoMessage
<1>b. /\ pc[t] = "clear" /\ mutex # t /\ out[t] = NoMessage /\ ~ announce[t]
      /\ pc'[t] = "idle" /\ req'[t] = NoRequest
      /\ \A u \in Workers \ {t} :
           req'[u] = req[u] /\ pc'[u] = pc[u] /\ seen'[u] = seen[u]
      /\ UNCHANGED <<fileState, mutex, initialized, handlers, pump, handled,
                     connected, workspaceNotifications, workspaceDirs, doc,
                     folders, out, announce, envVars, historyVars>>
  BY <1>a DEF ClearOneshotHandlers, Finish, IInv, TypeOK
<1>1. TypeOK'
  BY <1>b DEF IInv, TypeOK, ClearOneshotHandlers, Finish, envVars, historyVars
<1>2. ControlInv'
  <2>1. ThreadInv(t)'
    BY <1>b DEF ThreadInv, NoMessage, NoRequest
  <2>2. \A u \in Workers \ {t} : ThreadInv(u)'
    BY <1>b, ThreadUntouched DEF IInv, ControlInv
  <2> QED BY <1>b, <2>1, <2>2 DEF IInv, ControlInv
<1>d. \A f : BeingUnloaded(f)' => BeingUnloaded(f)
  BY <1>b DEF BeingUnloaded
<1>3. SyncInv'
  BY <1>b, <1>d, SyncUntouched DEF IInv, historyVars
<1>4. WorkspaceInv'
  BY <1>b DEF IInv, WorkspaceInv
<1>5. DeliveryInv'
  <2>1. /\ \A u \in Workers : pc'[u] \in {"dirty", "saved"} =>
             pc[u] = pc'[u] /\ req'[u] = req[u] /\ seen'[u] = seen[u]
        /\ UNCHANGED <<fileState, out, overlapped, unloaded>>
    BY <1>b DEF historyVars
  <2> QED BY <1>d, <2>1, DeliveryUntouched DEF IInv
<1> QED BY <1>1, <1>2, <1>3, <1>4, <1>5 DEF IInv

(* The initialize request is answered: no document has been opened. *)
LEMMA HandleInitializeStep ==
  ASSUME IInv, HandleInitialize
  PROVE  IInv'
<1>a. ~ initialized
  BY DEF IInv, ControlInv, HandleInitialize
<1>b. \A t \in Workers : out[t] = NoMessage /\ ~ announce[t]
  BY <1>a DEF IInv, ControlInv, ThreadInv, NoMessage
<1>1. TypeOK'
  BY DEF IInv, TypeOK, HandleInitialize, requestVars, envVars, historyVars
<1>2. ControlInv'
  <2>1. \A t \in Workers : ThreadInv(t)'
    BY ThreadUntouched DEF IInv, ControlInv, HandleInitialize, requestVars
  <2> QED BY <2>1 DEF ControlInv, HandleInitialize
<1>d. \A f : BeingUnloaded(f)' => BeingUnloaded(f)
  BY DEF BeingUnloaded, HandleInitialize, requestVars
<1>3. SyncInv'
  BY <1>d, SyncUntouched DEF IInv, HandleInitialize, requestVars, historyVars
<1>4. WorkspaceInv'
  BY <1>a, <1>b DEF IInv, WorkspaceInv, HandleInitialize, requestVars, NoMessage
<1>5. DeliveryInv'
  BY <1>d DEF IInv, DeliveryInv, Updates, HandleInitialize, requestVars,
              historyVars
<1> QED BY <1>1, <1>2, <1>3, <1>4, <1>5 DEF IInv

(* The pump begins a handler as a thread begins a request. *)
LEMMA RunHandlerStep ==
  ASSUME IInv, RunHandler
  PROVE  IInv'
<1> DEFINE r == handlers[handled + 1]
<1>a. Pump \in Workers /\ r \in Requests /\ r.op \in {"update", "unload"}
  <2>1. handled + 1 \in 1..Len(handlers)
    BY DEF IInv, TypeOK, RunHandler
  <2> QED BY <2>1 DEF IInv, TypeOK, Workers, Queued
<1>b. /\ pc[Pump] = "idle" /\ out[Pump] = NoMessage /\ ~ announce[Pump]
      /\ mutex # Pump /\ initialized
      /\ req'[Pump] = r /\ r # NoRequest
      /\ pc'[Pump] = IF r.op = "unload" THEN "unload" ELSE "acquire"
      /\ \A u \in Workers \ {Pump} : req'[u] = req[u] /\ pc'[u] = pc[u]
      /\ UNCHANGED <<fileState, mutex, initialized, handlers, oneshot, pump,
                     connected, workspaceNotifications, workspaceDirs, doc,
                     folders, seen, out, announce, storeSize, envVars,
                     historyVars>>
  <2>1. /\ pc[Pump] = "idle" /\ pump = "handles"
        /\ req'[Pump] = r /\ r # NoRequest
        /\ pc'[Pump] = IF r.op = "unload" THEN "unload" ELSE "acquire"
        /\ \A u \in Workers \ {Pump} : req'[u] = req[u] /\ pc'[u] = pc[u]
    BY <1>a DEF RunHandler, IInv, TypeOK, NoRequest, Entry, Unlocked
  <2>2. out[Pump] = NoMessage /\ ~ announce[Pump] /\ mutex # Pump /\ initialized
    BY <1>a, <2>1 DEF IInv, ControlInv, ThreadInv, NoMessage
  <2> QED BY <2>1, <2>2 DEF RunHandler
<1>1. TypeOK'
  <2>1. /\ req' \in [Workers -> Requests \cup {NoRequest}]
        /\ pc' \in [Workers -> {"idle", "queue", "clear", "acquire", "dirty",
                             "saved", "save", "sent", "unload", "delete"}]
        /\ handled' \in Nat
    BY <1>a DEF RunHandler, IInv, TypeOK, Entry, Unlocked
  <2> QED BY <1>b, <2>1 DEF IInv, TypeOK, envVars, historyVars
<1>2. ControlInv'
  <2>1. ThreadInv(Pump)'
    BY <1>a, <1>b DEF ThreadInv, NoMessage
  <2>2. \A u \in Workers \ {Pump} : ThreadInv(u)'
    BY <1>b, ThreadUntouched DEF IInv, ControlInv
  <2> QED BY <1>b, <2>1, <2>2 DEF IInv, ControlInv
<1>d. \A f : BeingUnloaded(f)' => BeingUnloaded(f)
  BY <1>b DEF BeingUnloaded
<1>3. SyncInv'
  BY <1>b, <1>d, SyncUntouched DEF IInv, historyVars
<1>4. WorkspaceInv'
  BY <1>b DEF IInv, WorkspaceInv
<1>5. DeliveryInv'
  <2>1. /\ \A u \in Workers : pc'[u] \in {"dirty", "saved"} =>
             pc[u] = pc'[u] /\ req'[u] = req[u] /\ seen'[u] = seen[u]
        /\ UNCHANGED <<fileState, out, overlapped, unloaded>>
    BY <1>a, <1>b DEF historyVars
  <2> QED BY <1>d, <2>1, DeliveryUntouched DEF IInv
<1> QED BY <1>1, <1>2, <1>3, <1>4, <1>5 DEF IInv

(* The handlers are through. *)
LEMMA HandlersDoneStep ==
  ASSUME IInv, HandlersDone
  PROVE  IInv'
<1>1. TypeOK'
  BY DEF IInv, TypeOK, HandlersDone, requestVars, envVars, historyVars
<1>2. ControlInv'
  <2>1. \A t \in Workers : ThreadInv(t)'
    BY ThreadUntouched DEF IInv, ControlInv, HandlersDone, requestVars
  <2> QED BY <2>1 DEF IInv, ControlInv, HandlersDone
<1>d. \A f : BeingUnloaded(f)' => BeingUnloaded(f)
  BY DEF BeingUnloaded, HandlersDone, requestVars
<1>3. SyncInv'
  BY <1>d, SyncUntouched DEF IInv, HandlersDone, requestVars, historyVars
<1>4. WorkspaceInv'
  BY DEF IInv, WorkspaceInv, HandlersDone, requestVars
<1>5. DeliveryInv'
  BY <1>d DEF IInv, DeliveryInv, Updates, HandlersDone, requestVars, historyVars
<1> QED BY <1>1, <1>2, <1>3, <1>4, <1>5 DEF IInv

(* Entering the with block of an update. *)
LEMMA AcquireMutexStep ==
  ASSUME IInv, NEW t \in Workers, AcquireMutex(t)
  PROVE  IInv'
<1>b. /\ pc[t] = "acquire" /\ pc'[t] = "dirty" /\ mutex = NoThread /\ mutex' = t
      /\ seen'[t] = {} /\ out[t] = NoMessage /\ ~ announce[t]
      /\ \A u \in Workers \ {t} : pc'[u] = pc[u] /\ seen'[u] = seen[u]
      /\ \A u \in Workers : mutex # u
      /\ UNCHANGED <<fileState, sessionVars, workspaceDirs, doc, folders, req,
                     out, announce, storeSize, envVars, historyVars>>
  BY DEF AcquireMutex, IInv, TypeOK, ControlInv, ThreadInv, Workers, NoMessage
<1>1. TypeOK'
  BY DEF IInv, TypeOK, AcquireMutex, sessionVars, envVars, historyVars
<1>2. ControlInv'
  <2>1. ThreadInv(t)'
    BY <1>b DEF IInv, ControlInv, ThreadInv, sessionVars
  <2>2. \A u \in Workers \ {t} : ThreadInv(u)'
    BY <1>b, ThreadUntouched DEF IInv, ControlInv, sessionVars
  <2> QED BY <1>b, <2>1, <2>2 DEF IInv, ControlInv, sessionVars
<1>d. \A f : BeingUnloaded(f)' => BeingUnloaded(f)
  BY <1>b DEF BeingUnloaded
<1>3. SyncInv'
  BY <1>b, <1>d, SyncUntouched DEF IInv, sessionVars, historyVars
<1>4. WorkspaceInv'
  BY <1>b DEF IInv, WorkspaceInv, sessionVars
<1>5. DeliveryInv'
  BY <1>b, <1>d DEF IInv, ControlInv, ThreadInv, DeliveryInv, Updates,
                    historyVars
<1> QED BY <1>1, <1>2, <1>3, <1>4, <1>5 DEF IInv

(* A request or handler ends: there is nothing left to write, or the        *)
(* connection is broken.                                                    *)
LEMMA RequestEnds ==
  ASSUME IInv, NEW t \in Workers, Finish(t),
         connected => out[t] = NoMessage,
         out' = [out EXCEPT ![t] = NoMessage],
         announce' = [announce EXCEPT ![t] = FALSE],
         pump' \in {pump, "ended"},
         UNCHANGED <<fileState, initialized, handlers, oneshot, handled,
                     connected, workspaceNotifications, workspaceDirs, doc,
                     folders, envVars, historyVars>>
  PROVE  IInv'
<1>b. /\ pc'[t] = "idle" /\ req'[t] = NoRequest /\ mutex' # t
      /\ out'[t] = NoMessage /\ ~ announce'[t]
      /\ \A u \in Workers \ {t} :
           /\ req'[u] = req[u] /\ pc'[u] = pc[u] /\ seen'[u] = seen[u]
           /\ out'[u] = out[u] /\ announce'[u] = announce[u]
           /\ mutex' = u <=> mutex = u
  BY DEF Finish, IInv, TypeOK, Workers
<1>1. TypeOK'
  <2>1. /\ pc' \in [Workers -> {"idle", "queue", "clear", "acquire", "dirty",
                             "saved", "save", "sent", "unload", "delete"}]
        /\ req' \in [Workers -> Requests \cup {NoRequest}]
        /\ seen' \in [Workers -> SUBSET Files]
        /\ storeSize' \in [Workers -> Nat]
        /\ mutex' \in Workers \cup {NoThread}
    BY DEF Finish, IInv, TypeOK
  <2>2. out' \in [Workers -> Messages] /\ announce' \in [Workers -> BOOLEAN]
    BY DEF IInv, TypeOK, Messages
  <2> QED BY <2>1, <2>2 DEF IInv, TypeOK, envVars, historyVars
<1>2. ControlInv'
  <2>1. ThreadInv(t)'
    BY <1>b DEF ThreadInv, NoMessage, NoRequest
  <2>2. \A u \in Workers \ {t} : ThreadInv(u)'
    BY <1>b, ThreadUntouched DEF IInv, ControlInv
  <2> QED BY <2>1, <2>2 DEF IInv, ControlInv
<1>d. \A f : BeingUnloaded(f)' => BeingUnloaded(f)
  BY <1>b DEF BeingUnloaded
<1>3. SyncInv'
  <2> SUFFICES ASSUME NEW f \in Files, f \notin overlapped
               PROVE  FileInv(f)'
    BY DEF SyncInv, historyVars
  <2>1. FileInv(f)
    BY DEF IInv, SyncInv
  <2>2. \A u \in Workers :
          /\ Updates(u, f)' => Updates(u, f) /\ out'[u] = out[u]
          /\ Closes(u, f)' => Closes(u, f)
          /\ connected' => /\ Updates(u, f) => Updates(u, f)'
                           /\ Closes(u, f) => Closes(u, f)'
    BY <1>b DEF Updates, Closes, NoMessage
  <2> QED BY <1>d, <2>1, <2>2, FileUntouched
<1>4. WorkspaceInv'
  <2>1. connected => \A d \in workspaceDirs \ folders :
          \E u \in Workers : announce'[u] /\ WorkspaceFor[out'[u].file] = d
    BY <1>b DEF IInv, WorkspaceInv, ControlInv, ThreadInv, NoMessage
  <2> QED BY <1>b, <2>1 DEF IInv, WorkspaceInv, NoMessage
<1>5. DeliveryInv'
  <2>1. \A u \in Workers : pc'[u] \in {"dirty", "saved"} =>
          /\ pc[u] = pc'[u] /\ req'[u] = req[u] /\ seen'[u] = seen[u]
          /\ out'[u] \in {out[u], NoMessage}
    BY <1>b
  <2> QED BY <1>d, <2>1, DeliveryUntouched DEF IInv, historyVars
<1> QED BY <1>1, <1>2, <1>3, <1>4, <1>5 DEF IInv

(* _RefreshFileContentsUnderLock: of a file that is not being unloaded, no  *)
(* other notification is pending, so the state is one ahead of the server.  *)
LEMMA RefreshFileContentsStep ==
  ASSUME IInv, NEW t \in Workers, RefreshFileContents(t)
  PROVE  IInv'
<1>0. PICK f \in DirtyFiles(req[t]) \ seen[t] :
        LET old == Lookup(f)
            new == DirtyFileState(old, req[t].data[f])
            opens == old.state = "Closed"
            announces == opens /\ IsNewWorkspace(f)
        IN /\ fileState' = [fileState EXCEPT ![f] = new]
           /\ out' = [out EXCEPT ![t] =
                IF new = old THEN NoMessage
                ELSE Message(IF opens THEN "DidOpen" ELSE "DidChange", f, new)]
           /\ announce' = [announce EXCEPT ![t] = announces]
           /\ workspaceDirs' = IF announces
                               THEN workspaceDirs \cup {WorkspaceFor[f]}
                               ELSE workspaceDirs
           /\ seen' = [seen EXCEPT ![t] = @ \cup {f}]
           /\ overlapped' = IF BeingUnloaded(f) THEN overlapped \cup {f}
                                               ELSE overlapped
           /\ unloaded' = unloaded \ {f}
  BY DEF RefreshFileContents
<1> DEFINE old == Lookup(f)
           c   == req[t].data[f]
           new == DirtyFileState(old, c)
<1>a. f \in Files /\ c \in Contents
  <2>1. req[t] \in Requests /\ req[t].op \in {"update", "current"}
    BY DEF IInv, TypeOK, ControlInv, ThreadInv, RefreshFileContents, NoRequest
  <2> QED BY <2>1, RequestData DEF DirtyFiles
<1>b. /\ old \in FileState /\ old.state \in {"Closed", "Open"}
      /\ old.state = "Open" => old = fileState[f]
      /\ old.state = "Closed" => fileState[f].state # "Open"
  BY <1>a DEF IInv, TypeOK, Lookup, NewFileState, FileState
<1>c. /\ new \in FileState /\ new.state = "Open" /\ new.contents = c
      /\ old.state = "Open" => new = old \/ new.version = old.version + 1
      /\ old.state = "Closed" => new # old /\ new.version = 1
  BY <1>a, <1>b DEF DirtyFileState, Unchanged, SendNewVersion, FileState
<1> HIDE DEF old, c, new
<1>d. /\ \A g \in Files : fileState'[g] = IF g = f THEN new ELSE fileState[g]
      /\ \A u \in Workers \ {t} :
           out'[u] = out[u] /\ announce'[u] = announce[u] /\ seen'[u] = seen[u]
      /\ new = old => out'[t] = NoMessage
      /\ new # old =>
           out'[t] = [type |-> IF old.state = "Closed" THEN "DidOpen"
                               ELSE "DidChange",
                      file |-> f, version |-> new.version,
                      contents |-> new.contents]
      /\ announce'[t] <=> old.state = "Closed" /\ IsNewWorkspace(f)
      /\ workspaceDirs' = IF announce'[t]
                          THEN workspaceDirs \cup {WorkspaceFor[f]}
                          ELSE workspaceDirs
      /\ seen'[t] = seen[t] \cup {f}
      /\ overlapped' = IF BeingUnloaded(f) THEN overlapped \cup {f}
                                          ELSE overlapped
      /\ unloaded' = unloaded \ {f}
  BY <1>0, <1>a DEF IInv, TypeOK, Message, old, c, new
<1>e. /\ pc[t] = "dirty" /\ mutex = t /\ out[t] = NoMessage /\ ~ announce[t]
      /\ req[t] # NoRequest /\ initialized
      /\ UNCHANGED <<mutex, sessionVars, doc, folders, pc, req, storeSize,
                     envVars>>
  BY DEF RefreshFileContents, IInv, ControlInv, ThreadInv, NoMessage
<1>f. \A g : BeingUnloaded(g)' <=> BeingUnloaded(g)
  BY <1>e DEF BeingUnloaded
<1>1. TypeOK'
  <2>1. fileState' \in [Files -> FileState]
    BY <1>0, <1>a, <1>c DEF IInv, TypeOK, old, new, c
  <2>2. out' \in [Workers -> Messages]
    <3>1. out'[t] \in Messages
      BY <1>a, <1>c, <1>d DEF Messages, FileState
    <3> QED BY <1>0, <3>1 DEF IInv, TypeOK
  <2>3. seen' \in [Workers -> SUBSET Files]
    BY <1>0, <1>a DEF IInv, TypeOK
  <2>4. announce' \in [Workers -> BOOLEAN]
    BY <1>0 DEF IInv, TypeOK, IsNewWorkspace
  <2>5. overlapped' \subseteq Files /\ unloaded' \subseteq Files
    BY <1>a, <1>d DEF IInv, TypeOK
  <2> QED BY <1>e, <2>1, <2>2, <2>3, <2>4, <2>5
          DEF IInv, TypeOK, sessionVars, envVars
<1>2. ControlInv'
  <2>1. ThreadInv(t)'
    <3>1. ThreadInv(t)
      BY DEF IInv, ControlInv
    <3> QED BY <1>b, <1>c, <1>d, <1>e, <3>1
            DEF ThreadInv, NoMessage, sessionVars
  <2>2. \A u \in Workers \ {t} : ThreadInv(u)'
    BY <1>d, <1>e, ThreadUntouched DEF IInv, ControlInv, sessionVars
  <2> QED BY <1>e, <2>1, <2>2 DEF IInv, ControlInv, sessionVars
<1>3. SyncInv'
  <2> SUFFICES ASSUME NEW g \in Files, g \notin overlapped'
               PROVE  FileInv(g)'
    BY DEF SyncInv
  <2>1. FileInv(g)
    BY <1>d DEF IInv, SyncInv
  <2>2. CASE g # f
    <3>1. \A u \in Workers :
            /\ Updates(u, g)' <=> Updates(u, g)
            /\ Updates(u, g) => out'[u] = out[u]
            /\ Closes(u, g)' <=> Closes(u, g)
      BY <1>d, <1>e, <2>2 DEF Updates, Closes, NoMessage
    <3> QED BY <1>d, <1>e, <1>f, <2>1, <2>2, <3>1, FileUntouched
            DEF sessionVars
  <2>3. CASE g = f
    <3>1. ~ BeingUnloaded(f)
      BY <1>d, <2>3
    <3>2. \A u \in Workers : ~ Updates(u, f) /\ ~ Closes(u, f)
      <4>1. \A u \in Workers : ~ Updates(u, f)
        BY <1>e, UpdaterHoldsMutex DEF IInv, Updates, NoMessage
      <4> QED BY <3>1, <4>1, CloserUnloads DEF IInv
    <3>3. connected => Matches(f)
      BY <2>1, <2>3, <3>2 DEF FileInv
    <3>4. CASE new = old
      <4>1. fileState'[f] = fileState[f] /\ out'[t] = out[t]
        BY <1>a, <1>b, <1>c, <1>d, <1>e, <3>4
      <4>2. \A u \in Workers : ~ Updates(u, f)' /\ ~ Closes(u, f)'
        BY <1>d, <3>2, <4>1 DEF Updates, Closes
      <4> QED BY <1>e, <1>f, <2>1, <2>3, <3>2, <4>1, <4>2, FileUntouched
              DEF sessionVars
    <3>5. CASE new # old
      <4>1. \A u \in Workers : ~ Closes(u, f)' /\ (Updates(u, f)' <=> u = t)
        BY <1>d, <3>2, <3>5 DEF Updates, Closes
      <4>2. /\ fileState'[f] = new
            /\ connected => IF out'[t].type = "DidOpen"
                            THEN ~ doc[f].open /\ out'[t].version = 1
                            ELSE /\ doc[f].open
                                 /\ out'[t].version = doc[f].version + 1
        BY <1>a, <1>b, <1>c, <1>d, <3>3, <3>5 DEF Matches
      <4> QED BY <1>c, <1>d, <1>e, <1>f, <2>3, <3>1, <3>5, <4>1, <4>2
              DEF FileInv, sessionVars
    <3> QED BY <3>4, <3>5
  <2> QED BY <2>2, <2>3
<1>4. WorkspaceInv'
  <2>1. connected => \A d \in workspaceDirs' \ folders : \E u \in Workers :
          announce'[u] /\ WorkspaceFor[out'[u].file] = d
    <3> SUFFICES ASSUME connected, NEW d \in workspaceDirs' \ folders
                 PROVE  \E u \in Workers :
                          announce'[u] /\ WorkspaceFor[out'[u].file] = d
      OBVIOUS
    <3>1. CASE d \in workspaceDirs
      BY <3>1, <1>d, <1>e DEF IInv, WorkspaceInv
    <3>2. CASE d \notin workspaceDirs
      <4>1. announce'[t] /\ d = WorkspaceFor[f] /\ new # old
        BY <3>2, <1>b, <1>c, <1>d
      <4> QED BY <1>d, <4>1
    <3> QED BY <3>1, <3>2
  <2>2. workspaceNotifications => \A u \in Workers :
          out'[u].type = "DidOpen" => WorkspaceFor[out'[u].file] \in workspaceDirs'
    <3> SUFFICES ASSUME workspaceNotifications, NEW u \in Workers,
                        out'[u].type = "DidOpen"
                 PROVE  WorkspaceFor[out'[u].file] \in workspaceDirs'
      OBVIOUS
    <3>1. CASE u # t
      BY <1>d, <3>1 DEF IInv, WorkspaceInv
    <3>2. CASE u = t
      BY <1>d, <3>2 DEF IsNewWorkspace, NoMessage
    <3> QED BY <3>1, <3>2
  <2>3. ~ workspaceNotifications => \A u \in Workers : ~ announce'[u]
    BY <1>d DEF IInv, WorkspaceInv, IsNewWorkspace
  <2> QED BY <1>d, <1>e, <2>1, <2>2, <2>3 DEF IInv, WorkspaceInv, sessionVars
<1>5. DeliveryInv'
  <2>1. \A g \in Files : BeingUnloaded(g)' => g \in unloaded' \cup overlapped'
    BY <1>d, <1>f DEF IInv, DeliveryInv
  <2>2. \A u \in Workers \ {t} : pc'[u] \notin {"dirty", "saved"}
    BY <1>e DEF IInv, ControlInv, ThreadInv
  <2>3. pc'[t] = "dirty" /\ req' = req
    BY <1>e
  <2>4. \A g \in seen'[t] \ (unloaded' \cup overlapped') :
          /\ fileState'[g].state = "Open"
          /\ fileState'[g].contents = req'[t].data[g]
    <3>1. seen[t] \subseteq Files
      BY DEF IInv, TypeOK
    <3>2. c = req'[t].data[f]
      BY <2>3 DEF c
    <3>3. \A g \in seen[t] \ (unloaded \cup overlapped) :
            /\ fileState[g].state = "Open"
            /\ fileState[g].contents = req[t].data[g]
      BY <1>e DEF IInv, DeliveryInv
    <3> QED BY <1>a, <1>c, <1>d, <2>3, <3>1, <3>2, <3>3
  <2>5. seen'[t] \subseteq DirtyFiles(req'[t])
    BY <1>d, <1>e, <2>3 DEF IInv, DeliveryInv
  <2> QED BY <2>1, <2>2, <2>3, <2>4, <2>5 DEF DeliveryInv
<1> QED BY <1>1, <1>2, <1>3, <1>4, <1>5 DEF IInv

(* The dirty buffers are done: all of them were delivered. *)
LEMMA DirtyFilesDoneStep ==
  ASSUME IInv, NEW t \in Workers, DirtyFilesDone(t)
  PROVE  IInv'
<1>a. /\ pc[t] = "dirty" /\ mutex = t /\ out[t] = NoMessage /\ ~ announce[t]
      /\ out' = [out EXCEPT ![t] = NoMessage]
      /\ announce' = [announce EXCEPT ![t] = FALSE]
      /\ UNCHANGED <<fileState, sessionVars, workspaceDirs, doc, folders, out,
                     announce, envVars, historyVars>>
  BY DEF DirtyFilesDone, IInv, TypeOK, ControlInv, ThreadInv, NoMessage
<1>1. CASE req[t].op = "current"
  <2>1. Finish(t)
    BY <1>1 DEF DirtyFilesDone
  <2> QED BY <1>a, <2>1, RequestEnds DEF IInv, TypeOK, sessionVars
<1>2. CASE req[t].op # "current"
  <2>b. /\ pc'[t] = "saved" /\ req[t].op = "update"
        /\ \A u \in Workers \ {t} : pc'[u] = pc[u] /\ seen'[u] = seen[u]
        /\ UNCHANGED <<req, mutex>>
    BY <1>2, <1>a DEF DirtyFilesDone, IInv, TypeOK, ControlInv, ThreadInv
  <2>1. TypeOK'
    <3>1. Cardinality(Keys) \in Nat
      BY FS_CardinalityType, FS_Subset DEF Keys
    <3>2. /\ pc' \in [Workers -> {"idle", "queue", "clear", "acquire", "dirty",
                             "saved", "save", "sent", "unload", "delete"}]
          /\ seen' \in [Workers -> SUBSET Files]
          /\ storeSize' \in [Workers -> Nat]
      <4>1. /\ pc' = [pc EXCEPT ![t] = "saved"]
            /\ storeSize' = [storeSize EXCEPT ![t] = Cardinality(Keys)]
            /\ seen' = [seen EXCEPT ![t] = {}]
        BY <1>2 DEF DirtyFilesDone
      <4> QED BY <3>1, <4>1 DEF IInv, TypeOK
    <3> QED BY <1>a, <2>b, <3>2
            DEF IInv, TypeOK, sessionVars, envVars, historyVars
  <2>2. ControlInv'
    <3>1. ThreadInv(t)'
      BY <1>a, <2>b DEF IInv, ControlInv, ThreadInv, NoMessage, sessionVars
    <3>2. \A u \in Workers \ {t} : ThreadInv(u)'
      BY <1>a, <2>b, ThreadUntouched DEF IInv, ControlInv, sessionVars
    <3> QED BY <1>a, <3>1, <3>2 DEF IInv, ControlInv, sessionVars
  <2>d. \A f : BeingUnloaded(f)' => BeingUnloaded(f)
    BY <2>b DEF BeingUnloaded
  <2>3. SyncInv'
    BY <1>a, <2>d, SyncUntouched DEF IInv, sessionVars, historyVars
  <2>4. WorkspaceInv'
    BY <1>a DEF IInv, WorkspaceInv, sessionVars
  <2>5. DeliveryInv'
    <3>1. DirtyFiles(req[t]) \subseteq seen[t]
      BY DEF DirtyFilesDone
    <3>2. \A u \in Workers \ {t} : pc'[u] \notin {"dirty", "saved"}
      BY <1>a, <2>b DEF IInv, ControlInv, ThreadInv
    <3>3. \A f \in DirtyFiles(req[t]) \ (unloaded \cup overlapped) :
            /\ fileState[f].state = "Open"
            /\ fileState[f].contents = req[t].data[f]
      BY <1>a, <3>1 DEF IInv, DeliveryInv
    <3>4. \A f \in DirtyFiles(req[t]) : ~ Updates(t, f)'
      BY <1>a DEF Updates, NoMessage
    <3> QED BY <1>a, <2>b, <2>d, <3>2, <3>3, <3>4
            DEF IInv, DeliveryInv, historyVars
  <2> QED BY <2>1, <2>2, <2>3, <2>4, <2>5 DEF IInv
<1> QED BY <1>1, <1>2

(* _UpdateSavedFilesUnderLock changes files that are open already, and none *)
(* of the dirty buffers.                                                    *)
LEMMA UpdateSavedFileStep ==
  ASSUME IInv, NEW t \in Workers, UpdateSavedFile(t)
  PROVE  IInv'
<1>0. PICK f \in FilesToScan(t) :
        LET old == fileState[f]
            new == SavedFileState(old, GetFileContents(f))
        IN /\ fileState' = [fileState EXCEPT ![f] = new]
           /\ out' = [out EXCEPT ![t] =
                IF new = old THEN NoMessage ELSE Message("DidChange", f, new)]
           /\ seen' = [seen EXCEPT ![t] = @ \cup {f}]
  BY DEF UpdateSavedFile
<1> DEFINE old == fileState[f]
           c   == GetFileContents(f)
           new == SavedFileState(old, c)
<1>a. f \in Files /\ c \in Contents /\ f \notin DOMAIN req[t].data
  BY DEF FilesToScan, Keys, GetFileContents, IInv, TypeOK
<1>b. old \in FileState
  BY <1>a DEF IInv, TypeOK
<1>c. /\ new \in FileState
      /\ new # old => /\ old.state = "Open" /\ new.state = "Open"
                      /\ new.version = old.version + 1
  BY <1>a, <1>b DEF SavedFileState, SendNewVersion, FileState
<1> HIDE DEF c, new
<1>d. /\ \A g \in Files : fileState'[g] = IF g = f THEN new ELSE fileState[g]
      /\ \A u \in Workers \ {t} : out'[u] = out[u] /\ seen'[u] = seen[u]
      /\ new = old => out'[t] = NoMessage
      /\ new # old =>
           out'[t] = [type |-> "DidChange", file |-> f, version |-> new.version,
                      contents |-> new.contents]
  BY <1>0, <1>a DEF IInv, TypeOK, Message, new, c
<1>e. /\ pc[t] = "saved" /\ mutex = t /\ out[t] = NoMessage /\ ~ announce[t]
      /\ UNCHANGED <<mutex, sessionVars, workspaceDirs, doc, folders, pc, req,
                     announce, storeSize, envVars, historyVars>>
  BY DEF UpdateSavedFile, Iterating, IInv, ControlInv, ThreadInv, NoMessage
<1>f. \A g : BeingUnloaded(g)' <=> BeingUnloaded(g)
  BY <1>e DEF BeingUnloaded
<1>1. TypeOK'
  <2>1. fileState' \in [Files -> FileState]
    BY <1>0, <1>a, <1>c DEF IInv, TypeOK, new, c
  <2>2. out' \in [Workers -> Messages]
    <3>1. out'[t] \in Messages
      BY <1>a, <1>c, <1>d DEF Messages, FileState
    <3> QED BY <1>0, <3>1 DEF IInv, TypeOK
  <2>3. seen' \in [Workers -> SUBSET Files]
    BY <1>0, <1>a DEF IInv, TypeOK
  <2> QED BY <1>e, <2>1, <2>2, <2>3
          DEF IInv, TypeOK, sessionVars, envVars, historyVars
<1>2. ControlInv'
  <2>1. ThreadInv(t)'
    <3>1. ThreadInv(t)
      BY DEF IInv, ControlInv
    <3> QED BY <1>d, <1>e, <3>1 DEF ThreadInv, NoMessage, sessionVars
  <2>2. \A u \in Workers \ {t} : ThreadInv(u)'
    BY <1>d, <1>e, ThreadUntouched DEF IInv, ControlInv, sessionVars
  <2> QED BY <1>e, <2>1, <2>2 DEF IInv, ControlInv, sessionVars
<1>3. SyncInv'
  <2> SUFFICES ASSUME NEW g \in Files, g \notin overlapped
               PROVE  FileInv(g)'
    BY <1>e DEF SyncInv, historyVars
  <2>1. FileInv(g)
    BY DEF IInv, SyncInv
  <2>2. CASE g # f \/ new = old
    <3>1. \A u \in Workers :
            /\ Updates(u, g)' <=> Updates(u, g)
            /\ Updates(u, g) => out'[u] = out[u]
            /\ Closes(u, g)' <=> Closes(u, g)
      BY <1>d, <1>e, <2>2 DEF Updates, Closes, NoMessage
    <3> QED BY <1>d, <1>e, <1>f, <2>1, <2>2, <3>1, FileUntouched
            DEF sessionVars
  <2>3. CASE g = f /\ new # old
    <3>1. ~ BeingUnloaded(f)
      BY <1>c, <2>1, <2>3 DEF FileInv
    <3>2. \A u \in Workers : ~ Updates(u, f) /\ ~ Closes(u, f)
      <4>1. \A u \in Workers : ~ Updates(u, f)
        BY <1>e, UpdaterHoldsMutex DEF IInv, Updates, NoMessage
      <4> QED BY <3>1, <4>1, CloserUnloads DEF IInv
    <3>3. connected => Matches(f)
      BY <2>1, <2>3, <3>2 DEF FileInv
    <3>4. \A u \in Workers : ~ Closes(u, f)' /\ (Updates(u, f)' <=> u = t)
      BY <1>d, <2>3, <3>2 DEF Updates, Closes
    <3>5. /\ fileState'[f] = new
          /\ connected => doc[f].open /\ new.version = doc[f].version + 1
      BY <1>a, <1>c, <1>d, <2>3, <3>3 DEF Matches
    <3> QED BY <1>c, <1>d, <1>e, <1>f, <2>3, <3>1, <3>4, <3>5
            DEF FileInv, sessionVars
  <2> QED BY <2>2, <2>3
<1>4. WorkspaceInv'
  <2>1. connected => \A d \in workspaceDirs \ folders : \E u \in Workers :
          announce'[u] /\ WorkspaceFor[out'[u].file] = d
    BY <1>d, <1>e DEF IInv, WorkspaceInv
  <2>2. out'[t].type # "DidOpen"
    BY <1>d DEF NoMessage
  <2> QED BY <1>d, <1>e, <2>1, <2>2 DEF IInv, WorkspaceInv, sessionVars
<1>5. DeliveryInv'
  <2>1. \A u \in Workers \ {t} : pc'[u] \notin {"dirty", "saved"}
    BY <1>e DEF IInv, ControlInv, ThreadInv
  <2>2. req[t].op = "update" /\ f \notin DirtyFiles(req[t])
    BY <1>a, <1>e DEF IInv, ControlInv, ThreadInv, DirtyFiles
  <2>3. req[t] \in Requests
    BY <2>2 DEF IInv, TypeOK, NoRequest
  <2>4. \A g \in DirtyFiles(req[t]) :
          g \in Files /\ fileState'[g] = fileState[g] /\ ~ Updates(t, g)'
    BY <1>d, <2>2, <2>3, DirtyFilesType DEF Updates, NoMessage
  <2> QED BY <1>e, <1>f, <2>1, <2>4 DEF IInv, DeliveryInv, historyVars
<1> QED BY <1>1, <1>2, <1>3, <1>4, <1>5 DEF IInv

(* The update is over and the mutex is released. *)
LEMMA SavedFilesDoneStep ==
  ASSUME IInv, NEW t \in Workers, SavedFilesDone(t)
  PROVE  IInv'
<1>1. /\ Finish(t) /\ pump' = pump /\ out[t] = NoMessage
      /\ out' = [out EXCEPT ![t] = NoMessage]
      /\ announce' = [announce EXCEPT ![t] = FALSE]
      /\ UNCHANGED <<fileState, initialized, handlers, oneshot, handled,
                     connected, workspaceNotifications, workspaceDirs, doc,
                     folders, envVars, historyVars>>
  BY DEF SavedFilesDone, IInv, TypeOK, ControlInv, ThreadInv, NoMessage,
         sessionVars
<1> QED BY <1>1, RequestEnds DEF IInv, TypeOK

(* The update fails on a store that changed while it was iterated. *)
LEMMA IterationFailsStep ==
  ASSUME IInv, NEW t \in Workers, IterationFails(t)
  PROVE  IInv'
<1>1. /\ Finish(t) /\ pump' \in {pump, "ended"} /\ out[t] = NoMessage
      /\ out' = [out EXCEPT ![t] = NoMessage]
      /\ announce' = [announce EXCEPT ![t] = FALSE]
      /\ UNCHANGED <<fileState, initialized, handlers, oneshot, handled,
                     connected, workspaceNotifications, workspaceDirs, doc,
                     folders, envVars, historyVars>>
  BY DEF IterationFails, Fail, IInv, TypeOK, ControlInv, ThreadInv, NoMessage
<1> QED BY <1>1, RequestEnds DEF IInv, TypeOK

(* The didSave was written. *)
LEMMA SaveDoneStep ==
  ASSUME IInv, NEW t \in Workers, SaveDone(t)
  PROVE  IInv'
<1>1. /\ Finish(t) /\ pump' = pump /\ out[t] = NoMessage
      /\ out' = [out EXCEPT ![t] = NoMessage]
      /\ announce' = [announce EXCEPT ![t] = FALSE]
      /\ UNCHANGED <<fileState, initialized, handlers, oneshot, handled,
                     connected, workspaceNotifications, workspaceDirs, doc,
                     folders, envVars, historyVars>>
  BY DEF SaveDone, IInv, TypeOK, ControlInv, ThreadInv, NoMessage, sessionVars
<1> QED BY <1>1, RequestEnds DEF IInv, TypeOK

(* A write fails: the connection is broken, and the request ends. *)
LEMMA WriteFailsStep ==
  ASSUME IInv, NEW t \in Workers, WriteFails(t)
  PROVE  IInv'
<1>1. /\ Finish(t) /\ pump' \in {pump, "ended"} /\ ~ connected
      /\ UNCHANGED <<initialized, handlers, oneshot, handled, connected,
                     workspaceNotifications>>
  BY DEF WriteFails, Fail
<1> QED BY <1>1, RequestEnds DEF IInv, TypeOK, WriteFails

(* OnFileSave may put a closed file into the store, and opens none; it may  *)
(* run between any two steps of an update.                                  *)
LEMMA OnFileSaveStep ==
  ASSUME IInv, NEW t \in Workers, OnFileSave(t)
  PROVE  IInv'
<1> DEFINE f == req[t].file
           old == Lookup(f)
<1>a. /\ f \in Files /\ old \in FileState
      /\ old.state = "Open" <=> fileState[f].state = "Open"
      /\ fileState[f].state = "Open" => old = fileState[f]
  <2>1. req[t] \in Requests /\ req[t].op = "save"
    BY DEF IInv, TypeOK, ControlInv, ThreadInv, OnFileSave, NoRequest
  <2>2. f \in Files
    BY <2>1, RequestData
  <2> QED BY <2>2 DEF IInv, TypeOK, Lookup, NewFileState, FileState
<1>b. /\ \A g \in Files :
           /\ fileState'[g].state = "Open" <=> fileState[g].state = "Open"
           /\ fileState[g].state = "Open" => fileState'[g] = fileState[g]
      /\ out'[t] = Message("DidSave", f, old)
      /\ \A u \in Workers \ {t} : out'[u] = out[u] /\ pc'[u] = pc[u]
      /\ out[t] = NoMessage /\ ~ announce[t] /\ mutex # t
      /\ pc[t] = "save" /\ pc'[t] = "sent"
      /\ UNCHANGED <<mutex, sessionVars, workspaceDirs, doc, folders, req, seen,
                     announce, storeSize, envVars, historyVars>>
  <2>1. /\ fileState' = [fileState EXCEPT ![f] = old]
        /\ out' = [out EXCEPT ![t] = Message("DidSave", f, old)]
        /\ pc[t] = "save" /\ pc' = [pc EXCEPT ![t] = "sent"]
    BY DEF OnFileSave
  <2>2. out[t] = NoMessage /\ ~ announce[t] /\ mutex # t
    BY <2>1 DEF IInv, ControlInv, ThreadInv, NoMessage
  <2>3. \A g \in Files :
           /\ fileState'[g].state = "Open" <=> fileState[g].state = "Open"
           /\ fileState[g].state = "Open" => fileState'[g] = fileState[g]
    BY <1>a, <2>1 DEF IInv, TypeOK
  <2>4. /\ out'[t] = Message("DidSave", f, old) /\ pc'[t] = "sent"
        /\ \A u \in Workers \ {t} : out'[u] = out[u] /\ pc'[u] = pc[u]
    BY <2>1 DEF IInv, TypeOK
  <2> QED BY <2>1, <2>2, <2>3, <2>4 DEF OnFileSave
<1>1. TypeOK'
  <2>1. fileState' \in [Files -> FileState]
    BY <1>a DEF IInv, TypeOK, OnFileSave
  <2>2. out' \in [Workers -> Messages]
    BY <1>a DEF IInv, TypeOK, OnFileSave, Messages, Message, FileState
  <2>3. pc' \in [Workers -> {"idle", "queue", "clear", "acquire", "dirty",
                             "saved", "save", "sent", "unload", "delete"}]
    BY DEF IInv, TypeOK, OnFileSave
  <2> QED BY <1>b, <2>1, <2>2, <2>3
          DEF IInv, TypeOK, sessionVars, envVars, historyVars
<1>2. ControlInv'
  <2>1. ThreadInv(t)'
    BY <1>b DEF IInv, ControlInv, ThreadInv, NoMessage, Message, sessionVars
  <2>2. \A u \in Workers \ {t} : ThreadInv(u)'
    BY <1>b, ThreadUntouched DEF IInv, ControlInv, sessionVars
  <2> QED BY <1>b, <2>1, <2>2 DEF IInv, ControlInv, sessionVars
<1>c. \A u \in Workers, g \in Files :
        /\ Updates(u, g)' <=> Updates(u, g)
        /\ Updates(u, g) => out'[u] = out[u]
        /\ Closes(u, g)' <=> Closes(u, g)
  BY <1>b DEF Updates, Closes, NoMessage, Message
<1>d. \A g : BeingUnloaded(g)' => BeingUnloaded(g)
  BY <1>b DEF BeingUnloaded
<1>3. SyncInv'
  <2> SUFFICES ASSUME NEW g \in Files, g \notin overlapped
               PROVE  FileInv(g)'
    BY <1>b DEF SyncInv, historyVars
  <2>1. FileInv(g)
    BY DEF IInv, SyncInv
  <2> QED BY <1>b, <1>c, <1>d, <2>1, FileUntouched DEF sessionVars
<1>4. WorkspaceInv'
  <2>1. connected => \A d \in workspaceDirs \ folders : \E u \in Workers :
          announce'[u] /\ WorkspaceFor[out'[u].file] = d
    BY <1>b DEF IInv, WorkspaceInv
  <2> QED BY <1>b, <2>1 DEF IInv, WorkspaceInv, sessionVars, Message
<1>5. DeliveryInv'
  <2>1. \A g \in Files : BeingUnloaded(g)' => g \in unloaded \cup overlapped
    BY <1>d DEF IInv, DeliveryInv
  <2> QED BY <1>b, <2>1, DeliveryKept DEF historyVars
<1> QED BY <1>1, <1>2, <1>3, <1>4, <1>5 DEF IInv

(* OnBufferUnload closes a file for which no update is pending, or marks it.*)
LEMMA PurgeFileFromServerStep ==
  ASSUME IInv, NEW t \in Workers, PurgeFileFromServer(t)
  PROVE  IInv'
<1> DEFINE f == req[t].file
           old == Lookup(f)
<1>a. /\ f \in Files /\ old \in FileState
      /\ old.state = "Open" <=> fileState[f].state = "Open"
      /\ fileState[f].state = "Open" => old = fileState[f]
      /\ req[t].op = "unload"
  <2>1. req[t] \in Requests /\ req[t].op = "unload"
    BY DEF IInv, TypeOK, ControlInv, ThreadInv, PurgeFileFromServer, NoRequest
  <2>2. f \in Files
    BY <2>1, RequestData
  <2> QED BY <2>1, <2>2 DEF IInv, TypeOK, Lookup, NewFileState, FileState
<1> HIDE DEF old
<1>b. /\ \A g \in Files \ {f} : fileState'[g] = fileState[g]
      /\ fileState'[f] = ClosedFileState(old)
      /\ out'[t] = IF old.state = "Open" THEN Message("DidClose", f, old)
                                         ELSE NoMessage
      /\ \A u \in Workers \ {t} : out'[u] = out[u] /\ pc'[u] = pc[u]
      /\ overlapped' = IF \E u \in Workers : Updates(u, f)
                       THEN overlapped \cup {f} ELSE overlapped
      /\ unloaded' = unloaded \cup {f}
      /\ out[t] = NoMessage /\ ~ announce[t] /\ mutex # t
      /\ pc[t] = "unload" /\ pc'[t] = "delete"
      /\ UNCHANGED <<mutex, sessionVars, workspaceDirs, doc, folders, req, seen,
                     announce, storeSize, envVars>>
  <2>1. /\ fileState' = [fileState EXCEPT ![f] = ClosedFileState(old)]
        /\ out' = [out EXCEPT ![t] =
             IF old.state = "Open" THEN Message("DidClose", f, old)
                                   ELSE NoMessage]
        /\ pc[t] = "unload" /\ pc' = [pc EXCEPT ![t] = "delete"]
    BY DEF PurgeFileFromServer, old
  <2>2. out[t] = NoMessage /\ ~ announce[t] /\ mutex # t
    BY <2>1 DEF IInv, ControlInv, ThreadInv, NoMessage
  <2>3. /\ \A g \in Files \ {f} : fileState'[g] = fileState[g]
        /\ fileState'[f] = ClosedFileState(old)
    BY <1>a, <2>1 DEF IInv, TypeOK
  <2>4. /\ out'[t] = IF old.state = "Open" THEN Message("DidClose", f, old)
                                           ELSE NoMessage
        /\ \A u \in Workers \ {t} : out'[u] = out[u] /\ pc'[u] = pc[u]
        /\ pc'[t] = "delete"
    BY <2>1 DEF IInv, TypeOK
  <2> QED BY <2>1, <2>2, <2>3, <2>4 DEF PurgeFileFromServer
<1>1. TypeOK'
  <2>1. ClosedFileState(old) \in FileState
    BY <1>a DEF ClosedFileState, FileState
  <2>2. fileState' \in [Files -> FileState]
    BY <2>1 DEF IInv, TypeOK, PurgeFileFromServer, old
  <2>3. out' \in [Workers -> Messages]
    <3>1. out'[t] \in Messages
      BY <1>a, <1>b DEF Messages, Message, FileState
    <3> QED BY <3>1 DEF IInv, TypeOK, PurgeFileFromServer
  <2>4. pc' \in [Workers -> {"idle", "queue", "clear", "acquire", "dirty",
                             "saved", "save", "sent", "unload", "delete"}]
    BY DEF IInv, TypeOK, PurgeFileFromServer
  <2> QED BY <1>a, <1>b, <2>2, <2>3, <2>4
          DEF IInv, TypeOK, sessionVars, envVars
<1>2. ControlInv'
  <2>1. ThreadInv(t)'
    BY <1>b DEF IInv, ControlInv, ThreadInv, NoMessage, Message, sessionVars
  <2>2. \A u \in Workers \ {t} : ThreadInv(u)'
    BY <1>b, ThreadUntouched DEF IInv, ControlInv, sessionVars
  <2> QED BY <1>b, <2>1, <2>2 DEF IInv, ControlInv, sessionVars
<1>c. \A g : g # f => (BeingUnloaded(g)' => BeingUnloaded(g))
  BY <1>b DEF BeingUnloaded
<1>3. SyncInv'
  <2> SUFFICES ASSUME NEW g \in Files, g \notin overlapped'
               PROVE  FileInv(g)'
    BY DEF SyncInv
  <2>1. FileInv(g)
    BY <1>b DEF IInv, SyncInv
  <2>2. CASE g # f
    <3>1. \A u \in Workers :
            /\ Updates(u, g)' <=> Updates(u, g)
            /\ Updates(u, g) => out'[u] = out[u]
            /\ Closes(u, g)' <=> Closes(u, g)
      BY <1>b, <2>2 DEF Updates, Closes, NoMessage, Message
    <3> QED BY <1>b, <1>c, <2>1, <2>2, <3>1, FileUntouched DEF sessionVars
  <2>3. CASE g = f
    <3>1. \A u \in Workers : ~ Updates(u, f) /\ ~ Updates(u, f)'
      BY <1>b, <2>3 DEF Updates, NoMessage, Message
    <3>2. fileState'[f].state # "Open"
      BY <1>a, <1>b DEF ClosedFileState, FileState
    <3>3. CASE old.state = "Open"
      <4>1. ~ BeingUnloaded(f)
        BY <1>a, <2>1, <2>3, <3>3 DEF FileInv
      <4>2. \A u \in Workers : ~ Closes(u, f)
        BY <4>1, CloserUnloads DEF IInv
      <4>3. connected => doc[f].open
        BY <1>a, <2>1, <2>3, <3>1, <3>3, <4>2 DEF FileInv, Matches
      <4>4. \A u \in Workers : Closes(u, f)' <=> u = t
        BY <1>b, <3>3, <4>2 DEF Closes, Message
      <4> QED BY <1>b, <2>3, <3>1, <3>2, <4>3, <4>4 DEF FileInv, sessionVars
    <3>4. CASE old.state # "Open"
      <4>1. \A u \in Workers : Closes(u, f)' <=> Closes(u, f)
        BY <1>b, <3>4 DEF Closes, NoMessage
      <4>2. connected /\ (\A u \in Workers : ~ Closes(u, f)) => ~ doc[f].open
        BY <1>a, <2>1, <2>3, <3>1, <3>4 DEF FileInv, Matches
      <4>3. \A u \in Workers : Closes(u, f) =>
              (connected => doc[f].open) /\ \A v \in Workers : Closes(v, f) => v = u
        BY <2>1, <2>3 DEF FileInv
      <4> QED BY <1>b, <2>3, <3>1, <3>2, <4>1, <4>2, <4>3
              DEF FileInv, Matches, sessionVars
    <3> QED BY <3>3, <3>4
  <2> QED BY <2>2, <2>3
<1>4. WorkspaceInv'
  <2>1. connected => \A d \in workspaceDirs \ folders : \E u \in Workers :
          announce'[u] /\ WorkspaceFor[out'[u].file] = d
    BY <1>b DEF IInv, WorkspaceInv
  <2>2. out'[t].type # "DidOpen"
    BY <1>b DEF NoMessage, Message
  <2> QED BY <1>b, <2>1, <2>2 DEF IInv, WorkspaceInv, sessionVars
<1>5. DeliveryInv'
  <2>1. \A g \in Files : BeingUnloaded(g)' => g \in unloaded' \cup overlapped'
    BY <1>b, <1>c DEF IInv, DeliveryInv
  <2> QED BY <1>b, <2>1, DeliveryKept
<1> QED BY <1>1, <1>2, <1>3, <1>4, <1>5 DEF IInv

(* The state of a file that is not open is deleted. *)
LEMMA DeleteFileStateStep ==
  ASSUME IInv, NEW t \in Workers, DeleteFileState(t)
  PROVE  IInv'
<1> DEFINE f == req[t].file
<1>a. f \in Files /\ BeingUnloaded(f)
  <2>1. req[t] \in Requests /\ req[t].op = "unload"
    BY DEF IInv, TypeOK, ControlInv, ThreadInv, DeleteFileState, NoRequest
  <2>2. f \in Files
    BY <2>1, RequestData
  <2> QED BY <2>2 DEF DeleteFileState, BeingUnloaded
<1>b. /\ Finish(t) /\ pump' \in {pump, "ended"}
      /\ UNCHANGED <<initialized, handlers, oneshot, handled, connected,
                     workspaceNotifications, workspaceDirs, doc, folders, out,
                     announce, envVars, historyVars>>
  BY DEF DeleteFileState, Fail, sessionVars
<1>c. /\ \A g \in Files \ {f} : fileState'[g] = fileState[g]
      /\ fileState' \in [Files -> FileState]
      /\ fileState'[f] = MissingState
      /\ pc[t] = "delete" /\ out[t] = NoMessage /\ ~ announce[t]
  BY <1>a DEF DeleteFileState, IInv, TypeOK, ControlInv, ThreadInv, FileState,
              MissingState, NoMessage
<1>d. /\ pc'[t] = "idle" /\ req'[t] = NoRequest /\ mutex' # t
      /\ \A u \in Workers \ {t} :
           /\ req'[u] = req[u] /\ pc'[u] = pc[u] /\ seen'[u] = seen[u]
           /\ mutex' = u <=> mutex = u
  BY <1>b DEF Finish, IInv, TypeOK, Workers
<1>1. TypeOK'
  <2>1. /\ pc' \in [Workers -> {"idle", "queue", "clear", "acquire", "dirty",
                             "saved", "save", "sent", "unload", "delete"}]
        /\ req' \in [Workers -> Requests \cup {NoRequest}]
        /\ seen' \in [Workers -> SUBSET Files]
        /\ storeSize' \in [Workers -> Nat]
        /\ mutex' \in Workers \cup {NoThread}
    BY <1>b DEF Finish, IInv, TypeOK
  <2> QED BY <1>b, <1>c, <2>1 DEF IInv, TypeOK, envVars, historyVars
<1>2. ControlInv'
  <2>1. ThreadInv(t)'
    BY <1>b, <1>c, <1>d DEF ThreadInv, NoMessage, NoRequest
  <2>2. \A u \in Workers \ {t} : ThreadInv(u)'
    BY <1>b, <1>d, ThreadUntouched DEF IInv, ControlInv
  <2> QED BY <1>b, <2>1, <2>2 DEF IInv, ControlInv
<1>e. \A g : BeingUnloaded(g)' => BeingUnloaded(g)
  BY <1>d DEF BeingUnloaded
<1>f. \A u \in Workers, g \in Files : /\ Updates(u, g)' <=> Updates(u, g)
                                      /\ Closes(u, g)' <=> Closes(u, g)
  BY <1>b DEF Updates, Closes
<1>3. SyncInv'
  <2> SUFFICES ASSUME NEW g \in Files, g \notin overlapped
               PROVE  FileInv(g)'
    BY <1>b DEF SyncInv, historyVars
  <2>1. FileInv(g)
    BY DEF IInv, SyncInv
  <2>2. /\ fileState'[g].state = "Open" <=> fileState[g].state = "Open"
        /\ fileState[g].state = "Open" => fileState'[g] = fileState[g]
    BY <1>a, <1>c, <2>1 DEF FileInv, MissingState
  <2> QED BY <1>b, <1>e, <1>f, <2>1, <2>2, FileUntouched
<1>4. WorkspaceInv'
  BY <1>b DEF IInv, WorkspaceInv
<1>5. DeliveryInv'
  <2>1. f \in unloaded \cup overlapped
    BY <1>a DEF IInv, DeliveryInv
  <2>2. \A g \in Files : BeingUnloaded(g)' => g \in unloaded \cup overlapped
    BY <1>e DEF IInv, DeliveryInv
  <2> QED BY <1>b, <1>c, <1>d, <2>1, <2>2, DeliveryKept DEF historyVars
<1> QED BY <1>1, <1>2, <1>3, <1>4, <1>5 DEF IInv

(* The server is told of a workspace folder. *)
LEMMA SendWorkspaceFolderStep ==
  ASSUME IInv, NEW t \in Workers, SendWorkspaceFolder(t)
  PROVE  IInv'
<1>b. /\ announce[t] /\ ~ announce'[t] /\ connected
      /\ \A u \in Workers \ {t} : announce'[u] = announce[u]
      /\ folders' = folders \cup {WorkspaceFor[out[t].file]}
      /\ UNCHANGED <<fileState, mutex, sessionVars, workspaceDirs, doc, pc, req,
                     seen, out, storeSize, envVars, historyVars>>
  BY DEF SendWorkspaceFolder, IInv, TypeOK
<1>1. TypeOK'
  <2>1. announce' \in [Workers -> BOOLEAN]
    BY DEF SendWorkspaceFolder, IInv, TypeOK
  <2> QED BY <1>b, <2>1 DEF IInv, TypeOK, sessionVars, envVars, historyVars
<1>2. ControlInv'
  <2>1. ThreadInv(t)'
    BY <1>b DEF IInv, ControlInv, ThreadInv, sessionVars
  <2>2. \A u \in Workers \ {t} : ThreadInv(u)'
    BY <1>b, ThreadUntouched DEF IInv, ControlInv, sessionVars
  <2> QED BY <1>b, <2>1, <2>2 DEF IInv, ControlInv, sessionVars
<1>d. \A f : BeingUnloaded(f)' => BeingUnloaded(f)
  BY <1>b DEF BeingUnloaded
<1>3. SyncInv'
  BY <1>b, <1>d, SyncUntouched DEF IInv, sessionVars, historyVars
<1>4. WorkspaceInv'
  <2>1. workspaceNotifications /\ initialized
    BY <1>b DEF IInv, WorkspaceInv
  <2>2. \A d \in workspaceDirs \ folders' :
          \E u \in Workers : announce'[u] /\ WorkspaceFor[out[u].file] = d
    <3> SUFFICES ASSUME NEW d \in workspaceDirs \ folders'
                 PROVE  \E u \in Workers :
                          announce'[u] /\ WorkspaceFor[out[u].file] = d
      OBVIOUS
    <3>1. PICK u \in Workers : announce[u] /\ WorkspaceFor[out[u].file] = d
      BY <1>b DEF IInv, WorkspaceInv
    <3>2. u # t
      BY <1>b, <3>1
    <3> QED BY <1>b, <3>1, <3>2
  <2> QED BY <1>b, <2>1, <2>2 DEF IInv, WorkspaceInv, sessionVars
<1>5. DeliveryInv'
  BY <1>b, <1>d, DeliveryUntouched DEF IInv, historyVars
<1> QED BY <1>1, <1>2, <1>3, <1>4, <1>5 DEF IInv

(* A notification is written: the server is level with the file state, or   *)
(* the file is closed.                                                      *)
LEMMA SendNotificationStep ==
  ASSUME IInv, NEW t \in Workers, SendNotification(t)
  PROVE  IInv'
<1> DEFINE m == out[t]
           f == out[t].file
<1>a. /\ m \in Messages /\ m # NoMessage /\ f \in Files /\ connected
      /\ m.type \in {"DidOpen", "DidChange", "DidSave", "DidClose"}
      /\ m.version \in Nat /\ m.contents \in Contents
  BY DEF IInv, TypeOK, SendNotification, Messages
<1>b. /\ doc' = Apply(m, doc) /\ out' = [out EXCEPT ![t] = NoMessage]
      /\ out'[t] = NoMessage /\ ~ announce[t]
      /\ \A u \in Workers \ {t} : out'[u] = out[u]
      /\ UNCHANGED <<fileState, mutex, sessionVars, workspaceDirs, folders, pc,
                     req, seen, announce, storeSize, envVars,
                     historyVars>>
  BY DEF SendNotification, IInv, TypeOK
<1>c. /\ \A g \in Files \ {f} : doc'[g] = doc[g]
      /\ doc'[f] = IF m.type = "DidOpen" \/ (m.type = "DidChange" /\ doc[f].open)
                   THEN [open |-> TRUE, version |-> m.version,
                         contents |-> m.contents]
                   ELSE IF m.type = "DidClose"
                   THEN [doc[f] EXCEPT !.open = FALSE]
                   ELSE doc[f]
  BY <1>a, <1>b DEF Apply, IInv, TypeOK
<1>1. TypeOK'
  <2>1. out' \in [Workers -> Messages]
    BY <1>b DEF IInv, TypeOK, Messages
  <2>2. doc' \in [Files -> [open : BOOLEAN, version : Nat, contents : Contents]]
    <3>1. CASE m.type = "DidOpen" \/ (m.type = "DidChange" /\ doc[f].open)
      <4>1. doc' = [doc EXCEPT ![f] = [open |-> TRUE, version |-> m.version,
                                       contents |-> m.contents]]
        BY <1>b, <3>1 DEF Apply
      <4> QED BY <1>a, <4>1 DEF IInv, TypeOK
    <3>2. CASE m.type = "DidClose"
      <4>1. doc' = [doc EXCEPT ![f] = [doc[f] EXCEPT !.open = FALSE]]
        BY <1>b, <3>2 DEF Apply
      <4>2. doc[f] \in [open : BOOLEAN, version : Nat, contents : Contents]
        BY <1>a DEF IInv, TypeOK
      <4>3. [doc[f] EXCEPT !.open = FALSE]
              \in [open : BOOLEAN, version : Nat, contents : Contents]
        BY <4>2
      <4> QED BY <1>a, <4>1, <4>3 DEF IInv, TypeOK
    <3>3. CASE m.type = "DidSave" \/ (m.type = "DidChange" /\ ~ doc[f].open)
      BY <1>b, <3>3 DEF Apply, IInv, TypeOK
    <3> QED BY <1>a, <3>1, <3>2, <3>3
  <2> QED BY <1>b, <2>1, <2>2
          DEF IInv, TypeOK, sessionVars, envVars, historyVars
<1>2. ControlInv'
  <2>1. ThreadInv(t)'
    BY <1>b DEF IInv, ControlInv, ThreadInv, NoMessage, sessionVars
  <2>2. \A u \in Workers \ {t} : ThreadInv(u)'
    BY <1>b, ThreadUntouched DEF IInv, ControlInv, sessionVars
  <2> QED BY <1>b, <2>1, <2>2 DEF IInv, ControlInv, sessionVars
<1>d. \A g : BeingUnloaded(g)' <=> BeingUnloaded(g)
  BY <1>b DEF BeingUnloaded
<1>e. \A u \in Workers, g \in Files :
        /\ Updates(u, g)' <=> u # t /\ Updates(u, g)
        /\ Closes(u, g)' <=> u # t /\ Closes(u, g)
  BY <1>b DEF Updates, Closes, NoMessage
<1>3. SyncInv'
  <2> SUFFICES ASSUME NEW g \in Files, g \notin overlapped
               PROVE  FileInv(g)'
    BY <1>b DEF SyncInv, historyVars
  <2>1. FileInv(g)
    BY DEF IInv, SyncInv
  <2>2. CASE g # f \/ m.type = "DidSave"
    <3>1. ~ Updates(t, g) /\ ~ Closes(t, g) /\ doc'[g] = doc[g]
      BY <1>c, <2>2 DEF Updates, Closes
    <3> QED BY <1>b, <1>d, <1>e, <2>1, <3>1, FileUntouched DEF sessionVars
  <2>3. CASE g = f /\ m.type \in {"DidOpen", "DidChange"}
    <3>1. Updates(t, g)
      BY <2>3 DEF Updates
    <3>2. /\ ~ BeingUnloaded(g) /\ fileState[g].state = "Open"
          /\ m.version = fileState[g].version
          /\ m.contents = fileState[g].contents
          /\ m.type = "DidChange" => doc[g].open
      BY <1>a, <2>1, <3>1 DEF FileInv
    <3>3. Matches(g)'
      BY <1>b, <1>c, <2>3, <3>2 DEF Matches
    <3>4. \A u \in Workers : ~ Updates(u, g)'
      <4>1. mutex = t
        BY <2>3, <1>a, UpdaterHoldsMutex DEF IInv
      <4>2. \A u \in Workers : Updates(u, g) => mutex = u
        BY UpdaterHoldsMutex DEF IInv, Updates, NoMessage
      <4> QED BY <1>e, <4>1, <4>2
    <3>5. \A u \in Workers : ~ Closes(u, g)'
      BY <1>e, <3>2, CloserUnloads DEF IInv
    <3> QED BY <1>d, <3>2, <3>3, <3>4, <3>5 DEF FileInv
  <2>4. CASE g = f /\ m.type = "DidClose"
    <3>1. Closes(t, g) /\ BeingUnloaded(g)
      BY <2>4, CloserUnloads DEF IInv, Closes
    <3>2. /\ fileState[g].state # "Open"
          /\ \A u \in Workers : Closes(u, g) => u = t
          /\ \A u \in Workers : ~ Updates(u, g)
      BY <2>1, <3>1 DEF FileInv
    <3>3. ~ doc'[g].open
      BY <1>c, <2>4 DEF IInv, TypeOK
    <3> QED BY <1>b, <1>d, <1>e, <3>2, <3>3 DEF FileInv, Matches
  <2> QED BY <1>a, <2>2, <2>3, <2>4
<1>4. WorkspaceInv'
  <2>1. initialized
    BY <1>a DEF IInv, ControlInv, ThreadInv
  <2>2. \A d \in workspaceDirs \ folders :
          \E u \in Workers : announce'[u] /\ WorkspaceFor[out'[u].file] = d
    <3> SUFFICES ASSUME NEW d \in workspaceDirs \ folders
                 PROVE  \E u \in Workers :
                          announce'[u] /\ WorkspaceFor[out'[u].file] = d
      OBVIOUS
    <3>1. PICK u \in Workers : announce[u] /\ WorkspaceFor[out[u].file] = d
      BY <1>a DEF IInv, WorkspaceInv
    <3> QED BY <1>b, <3>1
  <2>3. workspaceNotifications =>
          \A g \in Files : doc'[g].open => WorkspaceFor[g] \in folders
    <3> SUFFICES ASSUME workspaceNotifications, NEW g \in Files, doc'[g].open
                 PROVE  WorkspaceFor[g] \in folders
      OBVIOUS
    <3>1. CASE doc[g].open
      BY <3>1 DEF IInv, WorkspaceInv
    <3>2. CASE ~ doc[g].open
      <4>1. g = f /\ m.type = "DidOpen"
        BY <1>c, <3>2 DEF IInv, TypeOK
      <4>2. WorkspaceFor[g] \in workspaceDirs /\ mutex = t
        BY <1>a, <4>1, UpdaterHoldsMutex DEF IInv, WorkspaceInv
      <4>3. \A u \in Workers : announce[u] => mutex = u
        BY DEF IInv, ControlInv, ThreadInv, NoMessage
      <4> QED BY <1>a, <1>b, <4>2, <4>3 DEF IInv, WorkspaceInv
    <3> QED BY <3>1, <3>2
  <2> QED BY <1>a, <1>b, <2>1, <2>2, <2>3
          DEF IInv, WorkspaceInv, sessionVars, NoMessage
<1>5. DeliveryInv'
  BY <1>b, <1>d, DeliveryUntouched DEF IInv, historyVars
<1> QED BY <1>1, <1>2, <1>3, <1>4, <1>5 DEF IInv

(* The connection breaks: nothing is promised about the server any more. *)
LEMMA ConnectionBreaksStep ==
  ASSUME IInv, ConnectionBreaks
  PROVE  IInv'
<1>b. /\ connected' = FALSE
      /\ UNCHANGED <<fileState, mutex, initialized, handlers, oneshot, pump,
                     handled, workspaceNotifications, workspaceDirs, doc,
                     folders, pc, req, seen, out, announce, storeSize,
                     envVars, historyVars>>
  BY DEF ConnectionBreaks, requestVars
<1>1. TypeOK'
  BY <1>b DEF IInv, TypeOK, envVars, historyVars
<1>2. ControlInv'
  <2>1. \A t \in Workers : ThreadInv(t)'
    BY <1>b, ThreadUntouched DEF IInv, ControlInv
  <2> QED BY <1>b, <2>1 DEF IInv, ControlInv
<1>d. \A f : BeingUnloaded(f)' => BeingUnloaded(f)
  BY <1>b DEF BeingUnloaded
<1>3. SyncInv'
  <2> SUFFICES ASSUME NEW f \in Files, f \notin overlapped
               PROVE  FileInv(f)'
    BY <1>b DEF SyncInv, historyVars
  <2>1. FileInv(f)
    BY DEF IInv, SyncInv
  <2>2. \A t \in Workers : /\ Updates(t, f)' <=> Updates(t, f)
                           /\ Closes(t, f)' <=> Closes(t, f)
    BY <1>b DEF Updates, Closes
  <2> QED BY <1>b, <1>d, <2>1, <2>2, FileUntouched
<1>4. WorkspaceInv'
  BY <1>b DEF IInv, WorkspaceInv
<1>5. DeliveryInv'
  BY <1>b, <1>d, DeliveryUntouched DEF IInv, historyVars
<1> QED BY <1>1, <1>2, <1>3, <1>4, <1>5 DEF IInv

(* Another program's write, and a step that changes nothing. *)
LEMMA ElsewhereStep ==
  ASSUME IInv, DiskWrite \/ UNCHANGED vars
  PROVE  IInv'
<1>b. UNCHANGED <<fileState, mutex, sessionVars, workspaceDirs, doc, folders,
                  pc, req, seen, out, announce, storeSize, requests,
                  historyVars>>
  BY DEF DiskWrite, vars, requestVars, envVars
<1>1. TypeOK'
  <2>1. disk' \in [Files -> Contents \cup {Unreadable}] /\ diskWrites' \in Nat
    <3>1. CASE DiskWrite
      <4>1. PICK f \in Files, c \in Contents \cup {Unreadable} :
              disk' = [disk EXCEPT ![f] = c]
        BY <3>1 DEF DiskWrite
      <4> QED BY <3>1, <4>1 DEF IInv, TypeOK, DiskWrite
    <3>2. CASE UNCHANGED vars
      BY <3>2 DEF IInv, TypeOK, vars, envVars
    <3> QED BY <3>1, <3>2
  <2> QED BY <1>b, <2>1 DEF IInv, TypeOK, sessionVars, historyVars
<1>2. ControlInv'
  <2>1. \A t \in Workers : ThreadInv(t)'
    BY <1>b, ThreadUntouched DEF IInv, ControlInv, sessionVars
  <2> QED BY <1>b, <2>1 DEF IInv, ControlInv, sessionVars
<1>d. \A f : BeingUnloaded(f)' => BeingUnloaded(f)
  BY <1>b DEF BeingUnloaded
<1>3. SyncInv'
  BY <1>b, <1>d, SyncUntouched DEF IInv, sessionVars, historyVars
<1>4. WorkspaceInv'
  BY <1>b DEF IInv, WorkspaceInv, sessionVars
<1>5. DeliveryInv'
  BY <1>b, <1>d, DeliveryUntouched DEF IInv, historyVars
<1> QED BY <1>1, <1>2, <1>3, <1>4, <1>5 DEF IInv

(* A session begins with no document open. *)
LEMMA InitInvariant == Init => IInv
<1> SUFFICES ASSUME Init PROVE IInv
  OBVIOUS
<1>1. TypeOK
  <2>1. /\ fileState \in [Files -> FileState]
        /\ doc \in [Files -> [open : BOOLEAN, version : Nat, contents : Contents]]
        /\ disk \in [Files -> Contents \cup {Unreadable}]
    BY DEF Init, FileState, MissingState
  <2>2. /\ pc \in [Workers -> {"idle", "queue", "clear", "acquire", "dirty",
                             "saved", "save", "sent", "unload", "delete"}]
        /\ req \in [Workers -> Requests \cup {NoRequest}]
        /\ seen \in [Workers -> SUBSET Files]
        /\ out \in [Workers -> Messages]
        /\ announce \in [Workers -> BOOLEAN]
        /\ storeSize \in [Workers -> Nat]
    BY DEF Init, Messages
  <2>3. handlers \in Seq({r \in Requests : r.op \in Queued})
    BY DEF Init
  <2>4. /\ initialized \in BOOLEAN /\ oneshot \in BOOLEAN /\ connected \in BOOLEAN
        /\ workspaceNotifications \in BOOLEAN
        /\ pump \in {"waits", "handles", "listens", "ended"} /\ handled \in Nat
    BY DEF Init
  <2> QED BY <2>1, <2>2, <2>3, <2>4 DEF Init, TypeOK
<1>2. ControlInv
  BY DEF Init, ControlInv, ThreadInv, NoMessage, NoRequest, Workers
<1>3. SyncInv
  BY DEF Init, SyncInv, FileInv, Matches, Updates, Closes, BeingUnloaded,
         NoMessage, MissingState
<1>4. WorkspaceInv
  BY DEF Init, WorkspaceInv, NoMessage
<1>5. DeliveryInv
  BY DEF Init, DeliveryInv, BeingUnloaded
<1> QED BY <1>1, <1>2, <1>3, <1>4, <1>5 DEF IInv

LEMMA NextInvariant == IInv /\ [Next]_vars => IInv'
<1> SUFFICES ASSUME IInv, [Next]_vars PROVE IInv'
  OBVIOUS
<1>1. ASSUME NEW t \in Threads, BeginRequest(t) PROVE IInv'
  BY <1>1, BeginRequestStep
<1>2. ASSUME NEW t \in Workers, Work(t) PROVE IInv'
  BY <1>2, QueueHandlerStep, ClearOneshotHandlersStep, AcquireMutexStep,
     RefreshFileContentsStep, DirtyFilesDoneStep, UpdateSavedFileStep,
     SavedFilesDoneStep, IterationFailsStep, OnFileSaveStep, SaveDoneStep,
     PurgeFileFromServerStep, DeleteFileStateStep, SendWorkspaceFolderStep,
     SendNotificationStep, WriteFailsStep
  DEF Work
<1> QED
  BY <1>1, <1>2, HandleInitializeStep, RunHandlerStep, HandlersDoneStep,
     ConnectionBreaksStep, ElsewhereStep
  DEF Next
-----------------------------------------------------------------------------

(* The inductive invariant holds of every session. *)
THEOREM Invariant == Spec => []IInv
BY InitInvariant, NextInvariant, PTL DEF Spec

(* Every variable has its type. *)
THEOREM TypeCorrect == Spec => []TypeOK
BY Invariant, PTL DEF IInv

(* ycmd's file states and the server's documents agree, except for a file   *)
(* whose notification is being written, or that was unloaded and updated at *)
(* the same time: for any number of files, request threads and requests.    *)
THEOREM Synchronization == Spec => []Synchronized
<1>1. IInv => Synchronized
  <2> SUFFICES ASSUME IInv, NEW f \in Files \ overlapped, connected,
                      ~ Pending(f)
               PROVE  Matches(f)
    BY DEF Synchronized
  <2>1. \A t \in Workers : ~ Updates(t, f) /\ ~ Closes(t, f)
    BY DEF Pending, Updates, Closes, NoMessage
  <2> QED BY <2>1 DEF IInv, SyncInv, FileInv
<1> QED BY <1>1, Invariant, PTL

(* The buffers of a request are with the server when its update goes on to  *)
(* the saved files, and stay so until it releases the mutex, unless they    *)
(* are unloaded.                                                            *)
THEOREM Delivery == Spec => []DirtyBuffersDelivered
<1>1. IInv => DirtyBuffersDelivered
  <2> SUFFICES ASSUME IInv, NEW t \in Workers, pc[t] = "saved", connected,
                      NEW f \in DirtyFiles(req[t]) \ (unloaded \cup overlapped)
               PROVE  doc[f].open /\ doc[f].contents = req[t].data[f]
    BY DEF DirtyBuffersDelivered
  <2>1. f \in Files
    <3>1. req[t] \in Requests /\ req[t].op = "update"
      BY DEF IInv, TypeOK, ControlInv, ThreadInv, NoRequest
    <3> QED BY <3>1, DirtyFilesType
  <2>2. mutex = t
    BY DEF IInv, ControlInv, ThreadInv
  <2>3. \A u \in Workers : ~ Updates(u, f)
    <3>1. \A u \in Workers : Updates(u, f) => u = t
      BY <2>2, UpdaterHoldsMutex DEF IInv, Updates, NoMessage
    <3> QED BY <3>1 DEF IInv, DeliveryInv
  <2>4. \A u \in Workers : ~ Closes(u, f)
    BY <2>1, CloserUnloads DEF IInv, DeliveryInv
  <2>5. Matches(f)
    BY <2>1, <2>3, <2>4 DEF IInv, SyncInv, FileInv
  <2> QED BY <2>5 DEF IInv, DeliveryInv, Matches
<1> QED BY <1>1, Invariant, PTL

(* Documents are opened in announced workspace folders only, if the server  *)
(* wants to be told of them; otherwise it is told of none.                  *)
THEOREM Workspaces == Spec => []WorkspaceAnnounced
<1>1. IInv => WorkspaceAnnounced
  BY DEF IInv, WorkspaceInv, WorkspaceAnnounced
<1> QED BY <1>1, Invariant, PTL
-----------------------------------------------------------------------------

(* What is to be written to the server may be written at any time. *)
LEMMA PendingIsLegal ==
  ASSUME IInv, connected, NEW t \in Workers, out[t] # NoMessage,
         out[t].file \notin overlapped
  PROVE  Legal(out[t])
<1>1. /\ out[t].type \in {"DidOpen", "DidChange", "DidSave", "DidClose"}
      /\ out[t].file \in Files /\ doc[out[t].file].version \in Nat
  BY DEF IInv, TypeOK, Messages, NoMessage
<1>2. FileInv(out[t].file)
  BY <1>1 DEF IInv, SyncInv
<1>3. CASE out[t].type = "DidSave"
  BY <1>3 DEF Legal
<1>4. CASE Updates(t, out[t].file)
  BY <1>1, <1>2, <1>4 DEF FileInv, Updates, Legal
<1>5. CASE Closes(t, out[t].file)
  BY <1>2, <1>5 DEF FileInv, Closes, Legal
<1> QED BY <1>1, <1>3, <1>4, <1>5 DEF Updates, Closes

(* Every notification reaches the server in a state that allows it. *)
THEOREM Legality == Spec => NotificationsAreLegal
<1>1. IInv /\ [Next]_vars =>
        [\A t \in Workers :
           connected /\ out[t] # NoMessage /\ out'[t] = NoMessage =>
             out[t].file \in overlapped \/ Legal(out[t])]_vars
  BY PendingIsLegal
<1> QED BY <1>1, Invariant, PTL DEF Spec, NotificationsAreLegal

(* The server's documents change only when a notification is written, and   *)
(* a promise lapses only when an unload and an update meet.                 *)
LEMMA WhatTheServerSees ==
  ASSUME Next, <<doc, overlapped>>' # <<doc, overlapped>>
  PROVE  \E t \in Workers : \/ SendNotification(t)
                            \/ RefreshFileContents(t) \/ PurgeFileFromServer(t)
<1>1. \/ \E t \in Threads : BeginRequest(t)
      \/ \E t \in Workers : Work(t)
      \/ HandleInitialize \/ RunHandler \/ HandlersDone
      \/ ConnectionBreaks \/ DiskWrite
  BY DEF Next
<1> QED
  BY <1>1
  DEF Work, BeginRequest, QueueHandler, ClearOneshotHandlers, AcquireMutex,
      DirtyFilesDone, UpdateSavedFile, SavedFilesDone, IterationFails,
      OnFileSave, SaveDone, DeleteFileState, SendWorkspaceFolder, WriteFails,
      HandleInitialize, RunHandler, HandlersDone, ConnectionBreaks, DiskWrite,
      historyVars

(* The server sees the life cycle of LspDocuments and nothing else.         *)
THEOREM Refinement == Spec => DocumentsSpec
<1>1. Init => Documents!Init
  <2> SUFFICES ASSUME Init PROVE Documents!Init
    OBVIOUS
  <2>1. doc \in [Files -> Documents!Document]
    BY DEF Init, Documents!Document
  <2> QED BY <2>1 DEF Init, Documents!Init, Documents!IsClosed
<1>2. IInv /\ [Next]_vars => [Documents!Next]_<<doc, overlapped>>
  <2> SUFFICES ASSUME IInv, Next, <<doc, overlapped>>' # <<doc, overlapped>>
               PROVE  Documents!Next
    BY DEF vars, historyVars
  <2>1. ASSUME NEW t \in Workers, RefreshFileContents(t)
        PROVE  Documents!Next
    <3>1. PICK f \in DirtyFiles(req[t]) :
            overlapped' = overlapped \cup {f} /\ UNCHANGED doc
      BY <2>1 DEF RefreshFileContents
    <3>2. f \in Files
      <4>1. req[t] \in Requests /\ req[t].op \in {"update", "current"}
        BY <2>1 DEF IInv, TypeOK, ControlInv, ThreadInv, RefreshFileContents,
                    NoRequest
      <4> QED BY <4>1, DirtyFilesType
    <3> QED BY <3>1, <3>2 DEF Documents!Next, Documents!Lapse
  <2>2. ASSUME NEW t \in Workers, PurgeFileFromServer(t)
        PROVE  Documents!Next
    <3>1. overlapped' = overlapped \cup {req[t].file} /\ UNCHANGED doc
      BY <2>2 DEF PurgeFileFromServer
    <3>2. req[t].file \in Files
      <4>1. req[t] \in Requests /\ req[t].op = "unload"
        BY <2>2 DEF IInv, TypeOK, ControlInv, ThreadInv, PurgeFileFromServer,
                    NoRequest
      <4> QED BY <4>1, RequestData
    <3> QED BY <3>1, <3>2 DEF Documents!Next, Documents!Lapse
  <2>3. ASSUME NEW t \in Workers, SendNotification(t)
        PROVE  Documents!Next
    <3> DEFINE f == out[t].file
    <3>1. /\ connected /\ f \in Files /\ doc' = Apply(out[t], doc)
          /\ UNCHANGED overlapped
          /\ out[t].type \in {"DidOpen", "DidChange", "DidSave", "DidClose"}
          /\ out[t].version \in Nat /\ out[t].contents \in Contents
      BY <2>3 DEF SendNotification, IInv, TypeOK, Messages, historyVars
    <3>2. /\ doc \in [Files -> Documents!Document]
          /\ f \notin overlapped => FileInv(f)
      BY <3>1 DEF IInv, TypeOK, SyncInv, Documents!Document
    <3>3. \/ doc' = [doc EXCEPT ![f] = [open |-> TRUE,
                                        version |-> out[t].version,
                                        contents |-> out[t].contents]]
          \/ doc' = [doc EXCEPT ![f].open = FALSE]
          \/ doc' = doc
      BY <3>1 DEF Apply
    <3>4. doc' # doc
      BY <3>1
    <3>5. CASE f \in overlapped
      <4>1. doc'[f] \in Documents!Document /\ doc' = [doc EXCEPT ![f] = doc'[f]]
        <5>1. doc[f] \in Documents!Document
          BY <3>1, <3>2
        <5>2. [doc[f] EXCEPT !.open = FALSE] \in Documents!Document
          BY <5>1 DEF Documents!Document
        <5>3. [open |-> TRUE, version |-> out[t].version,
               contents |-> out[t].contents] \in Documents!Document
          BY <3>1 DEF Documents!Document
        <5> QED BY <3>1, <3>2, <3>3, <3>4, <5>2, <5>3
      <4> QED BY <3>1, <3>5, <4>1 DEF Documents!Next, Documents!Anything
    <3>6. CASE f \notin overlapped /\ out[t].type = "DidOpen"
      <4>1. ~ doc[f].open /\ out[t].version = 1
        BY <3>1, <3>2, <3>6 DEF FileInv, Updates
      <4>2. doc' = [doc EXCEPT ![f] = [open |-> TRUE, version |-> 1,
                                       contents |-> out[t].contents]]
        BY <3>1, <3>6, <4>1 DEF Apply
      <4>3. Documents!DidOpen(f)
        BY <3>1, <4>1, <4>2 DEF Documents!DidOpen, Documents!IsClosed
      <4> QED BY <3>1, <4>3 DEF Documents!Next
    <3>7. CASE f \notin overlapped /\ out[t].type = "DidChange"
      <4>1. doc[f].open /\ out[t].version = doc[f].version + 1
        BY <3>1, <3>2, <3>7 DEF FileInv, Updates
      <4>2. doc' = [doc EXCEPT ![f] = [open |-> TRUE,
                                       version |-> doc[f].version + 1,
                                       contents |-> out[t].contents]]
        BY <3>1, <3>7, <4>1 DEF Apply
      <4>3. Documents!DidChange(f)
        BY <3>1, <4>1, <4>2 DEF Documents!DidChange, Documents!IsClosed
      <4> QED BY <3>1, <4>3 DEF Documents!Next
    <3>8. CASE f \notin overlapped /\ out[t].type = "DidClose"
      <4>1. doc[f].open
        BY <3>1, <3>2, <3>8 DEF FileInv, Closes
      <4>2. doc' = [doc EXCEPT ![f].open = FALSE]
        BY <3>1, <3>8 DEF Apply
      <4>3. Documents!DidClose(f)
        BY <4>1, <4>2 DEF Documents!DidClose, Documents!IsClosed
      <4> QED BY <3>1, <4>3 DEF Documents!Next
    <3>9. out[t].type # "DidSave"
      BY <3>1, <3>4 DEF Apply
    <3> QED BY <3>1, <3>5, <3>6, <3>7, <3>8, <3>9
  <2> QED BY <2>1, <2>2, <2>3, WhatTheServerSees
<1> QED BY <1>1, <1>2, Invariant, PTL DEF Spec, DocumentsSpec, Documents!Spec
=============================================================================
