---------------------------- MODULE DocumentSync ----------------------------
(***************************************************************************)
(* How LanguageServerCompleter keeps a language server's documents in step *)
(* with the editor (completers/language_server/language_server_completer.py*)
(* and ServerFileState in language_server_protocol.py).                    *)
(*                                                                         *)
(* Every request of the editor runs in a thread of its own.  Requests that *)
(* update the server do so under _server_info_mutex; OnFileSave and        *)
(* OnBufferUnload touch the same ServerFileStateStore without it.  A       *)
(* notification is written to the connection after the file state it       *)
(* describes was changed: these are two steps, and another thread may run  *)
(* between them.  The server reads what is written in order, so `doc' is   *)
(* the server's copy after it has read everything written so far.          *)
(*                                                                         *)
(* A behaviour is one session of a server, from the moment its initialize  *)
(* request was sent, or was answered.  What requests ask for before that   *)
(* is queued, and run by the thread of the connection (the pump).          *)
(***************************************************************************)
EXTENDS Naturals, FiniteSets, Sequences

CONSTANTS
  Files,         \* the paths of the documents
  Supported,     \* those whose filetype the completer supports
  Contents,      \* the texts of files (and so their SHA1 checksums)
  Empty,         \* the empty text
  Unreadable,    \* the file on the disk is gone, or cannot be read
  InitialDisks,  \* what the disk may hold to begin with
  WorkspaceFor,  \* GetWorkspaceForFilepath, as a function of the path
  ProjectDir,    \* the folder the server was started in
  Threads,       \* the threads that handle requests
  Pump,          \* the thread of the LanguageServerConnection
  NoThread,
  Operations,    \* the requests the editor sends
  FileData,      \* what the editor may have in its dirty buffers
  Starts,        \* where the pump may be to begin with
  MaxRequests,   \* bound: requests started in a behaviour
  MaxDiskWrites  \* bound: changes made to files by other programs

ASSUME DocumentSyncAssumption ==
  /\ Supported \subseteq Files /\ IsFiniteSet(Files)
  /\ Empty \in Contents
  /\ Unreadable \notin Contents
  /\ InitialDisks \subseteq [Files -> Contents \cup {Unreadable}]
  /\ Pump \notin Threads /\ NoThread \notin Threads \cup {Pump}
  /\ DOMAIN WorkspaceFor = Files
  /\ Operations \subseteq {"update", "current", "save", "unload"}
  /\ FileData \subseteq UNION {[F -> Contents] : F \in SUBSET Files}
  /\ Starts \subseteq {"waits", "listens"}
  /\ MaxRequests \in Nat
  /\ MaxDiskWrites \in Nat

VARIABLES
  fileState,     \* _server_file_state: ServerFileState of every path
  mutex,         \* the thread that holds _server_info_mutex
  initialized,   \* _initialize_event is set
  handlers,      \* _on_initialize_complete_handlers, as the requests queued
  oneshot,       \* the handler of FileReadyToParse is registered still
  pump,          \* what the pump is about
  handled,       \* how many of the handlers it has begun
  connected,     \* what is written reaches the server
  workspaceNotifications, \* _workspace_notification_supported
  workspaceDirs, \* _server_workspace_dirs
  doc,           \* the server's documents
  folders,       \* the workspace folders the server was told of
  disk,          \* the contents of the files on the disk
  pc,            \* what each thread does next
  req,           \* the request each thread handles
  seen,          \* the files its current loop has visited
  out,           \* the notification it has built and not written yet
  announce,      \* whether a didChangeWorkspaceFolders goes before that
  storeSize,     \* len(_server_file_state) when it began iterating it
  requests,      \* how many requests were started
  diskWrites,    \* how often other programs changed the disk
  (* History variables: they record what happened, and no step reads them. *)
  overlapped,    \* files an unload and an update were about at a time
  unloaded       \* files unloaded after the latest update that named them

Workers == Threads \cup {Pump}

sessionVars == <<initialized, handlers, oneshot, pump, handled, connected,
                 workspaceNotifications>>
historyVars == <<overlapped, unloaded>>
requestVars == <<pc, req, seen, out, announce, storeSize>>
envVars     == <<disk, diskWrites, requests>>
vars == <<fileState, mutex, sessionVars, workspaceDirs, doc, folders,
          requestVars, envVars, historyVars>>

-----------------------------------------------------------------------------
(* ServerFileState.  "Missing" stands for a path that is not a key of the   *)
(* store; looking it up inserts a new, closed state (__missing__).          *)

FileState == [state : {"Missing", "Closed", "Open"}, version : Nat,
              contents : Contents]

MissingState == [state |-> "Missing", version |-> 0, contents |-> Empty]
NewFileState == [state |-> "Closed", version |-> 0, contents |-> Empty]

Lookup(f) == IF fileState[f].state = "Missing" THEN NewFileState
                                               ELSE fileState[f]

Keys == {f \in Files : fileState[f].state # "Missing"}

(* Mutant: an open file is never found to have changed. *)
Unchanged_NoChecksum(fs, c) == fs.state = "Open"

(* Equal checksums mean equal contents. *)
Unchanged(fs, c) == fs.state = "Open" /\ fs.contents = c

SendNewVersion(fs, c, base) ==
  [state |-> "Open", version |-> base + 1, contents |-> c]

(* Mutant: every update starts again with version 1. *)
DirtyFileState_Restarts(fs, c) ==
  IF Unchanged(fs, c) THEN fs ELSE SendNewVersion(fs, c, 0)

(* The state a file moves to when the editor supplies its contents... *)
DirtyFileState(fs, c) ==
  IF Unchanged(fs, c) THEN fs
  ELSE SendNewVersion(fs, c, IF fs.state = "Closed" THEN 0 ELSE fs.version)

(* Mutant: the state is not looked at. *)
SavedFileState_AnyState(fs, c) ==
  IF fs.contents = c THEN fs ELSE SendNewVersion(fs, c, fs.version)

(* ...and when the editor does not, and c was read from the disk. *)
SavedFileState(fs, c) ==
  IF fs.state # "Open" \/ fs.contents = c THEN fs
  ELSE SendNewVersion(fs, c, fs.version)

ClosedFileState(fs) == [fs EXCEPT !.state = "Closed"]

-----------------------------------------------------------------------------
(* Notifications. *)

NoMessage == [type |-> "None"]

Message(type, f, fs) ==
  [type |-> type, file |-> f, version |-> fs.version, contents |-> fs.contents]

Messages ==
  {NoMessage} \cup
  [type : {"DidOpen", "DidChange", "DidSave", "DidClose"}, file : Files,
   version : Nat, contents : Contents]

(* What the server makes of a notification it reads: it takes the text of   *)
(* an open document from didOpen and didChange, and drops a change of a     *)
(* document it does not have.                                               *)
Apply(m, docs) ==
  CASE m.type = "DidOpen" \/ (m.type = "DidChange" /\ docs[m.file].open) ->
         [docs EXCEPT ![m.file] =
            [open |-> TRUE, version |-> m.version, contents |-> m.contents]]
    [] m.type = "DidClose" -> [docs EXCEPT ![m.file].open = FALSE]
    [] OTHER -> docs

-----------------------------------------------------------------------------
(* Requests.  `data' is the request's file_data: the dirty buffers.         *)

NoRequest == [op |-> "none"]

OneBuffer == UNION {{[g \in {f} |-> d[f]] : f \in DOMAIN d} : d \in FileData}

Requests ==
  {r \in [op : {"update"}, data : FileData] \cup
          [op : {"current"}, data : OneBuffer] \cup
          [op : {"save", "unload"}, file : Files] : r.op \in Operations}

Unlocked == {"save", "unload"}

(* What OnFileReadyToParse and OnBufferUnload do is queued until the server *)
(* is initialised; OnFileSave and the commands need ServerIsReady.          *)
Queued == {"update", "unload"}

Unloads(r) == r.op = "unload"

(* Where a thread begins to handle a request. *)
Entry(r) == IF r.op \in Unlocked THEN r.op ELSE "acquire"

(* A request arrives, and looks whether _initialize_event is set. *)
BeginRequest(t) ==
  /\ pc[t] = "idle"
  /\ requests < MaxRequests
  /\ \E r \in Requests :
       /\ initialized \/ r.op \in Queued
       /\ req' = [req EXCEPT ![t] = r]
       /\ pc' = [pc EXCEPT ![t] = IF initialized THEN Entry(r) ELSE "queue"]
  /\ requests' = requests + 1
  /\ UNCHANGED <<fileState, mutex, sessionVars, workspaceDirs, doc, folders,
                 seen, out, announce, storeSize, disk, diskWrites,
                 historyVars>>

(* Mutant: the mutex is not taken. *)
AcquireMutex_NoLock(t) ==
  /\ pc[t] = "acquire"
  /\ pc' = [pc EXCEPT ![t] = "dirty"]
  /\ seen' = [seen EXCEPT ![t] = {}]
  /\ UNCHANGED <<fileState, mutex, sessionVars, workspaceDirs, doc, folders,
                 req, out, announce, storeSize, envVars, historyVars>>

(* with self._server_info_mutex *)
AcquireMutex(t) ==
  /\ pc[t] = "acquire"
  /\ mutex = NoThread
  /\ mutex' = t
  /\ pc' = [pc EXCEPT ![t] = "dirty"]
  /\ seen' = [seen EXCEPT ![t] = {}]
  /\ UNCHANGED <<fileState, sessionVars, workspaceDirs, doc, folders, req, out,
                 announce, storeSize, envVars, historyVars>>

(* The request is over: the with block releases the mutex, whether it was   *)
(* left normally or by an exception.                                        *)
Finish(t) ==
  /\ pc' = [pc EXCEPT ![t] = "idle"]
  /\ req' = [req EXCEPT ![t] = NoRequest]
  /\ seen' = [seen EXCEPT ![t] = {}]
  /\ storeSize' = [storeSize EXCEPT ![t] = 0]
  /\ mutex' = IF mutex = t THEN NoThread ELSE mutex

(* An exception ends the pump, if it is the thread. *)
Fail(t) ==
  /\ Finish(t)
  /\ pump' = IF t = Pump THEN "ended" ELSE pump
  /\ UNCHANGED <<initialized, handlers, oneshot, handled, connected,
                 workspaceNotifications>>

-----------------------------------------------------------------------------
(* Before the initialize request is answered. *)

(* A request that came before the initialize exchange was complete appends  *)
(* what it has to do; the exchange may be complete by now.                  *)
QueueHandler(t) ==
  /\ pc[t] = "queue"
  /\ handlers' = IF Unloads(req[t]) \/ oneshot THEN Append(handlers, req[t])
                                               ELSE handlers
  /\ IF Unloads(req[t])
     THEN Finish(t)
     ELSE /\ pc' = [pc EXCEPT ![t] = "clear"]
          /\ UNCHANGED <<req, seen, storeSize, mutex>>
  /\ UNCHANGED <<fileState, initialized, oneshot, pump, handled, connected,
                 workspaceNotifications, workspaceDirs, doc, folders, out,
                 announce, envVars, historyVars>>

(* The handler _UpdateServerWithFileContents is registered once only. *)
ClearOneshotHandlers(t) ==
  /\ pc[t] = "clear"
  /\ oneshot' = FALSE
  /\ Finish(t)
  /\ UNCHANGED <<fileState, initialized, handlers, pump, handled, connected,
                 workspaceNotifications, workspaceDirs, doc, folders, out,
                 announce, envVars, historyVars>>

(* _HandleInitializeInPollThread: the event is set under the mutex... *)
HandleInitialize ==
  /\ pump = "waits" /\ connected /\ mutex = NoThread
  /\ initialized' = TRUE
  /\ workspaceNotifications' \in BOOLEAN
  /\ pump' = "handles"
  /\ UNCHANGED <<fileState, mutex, handlers, oneshot, handled, connected,
                 workspaceDirs, doc, folders, requestVars, envVars,
                 historyVars>>

(* ...and the handlers are run without it, in this thread, also those that  *)
(* are appended meanwhile...                                                *)
RunHandler ==
  /\ pump = "handles" /\ pc[Pump] = "idle" /\ handled < Len(handlers)
  /\ handled' = handled + 1
  /\ req' = [req EXCEPT ![Pump] = handlers[handled + 1]]
  /\ pc' = [pc EXCEPT ![Pump] = Entry(handlers[handled + 1])]
  /\ UNCHANGED <<fileState, mutex, initialized, handlers, oneshot, pump,
                 connected, workspaceNotifications, workspaceDirs, doc, folders,
                 seen, out, announce, storeSize, envVars, historyVars>>

(* ...and then forgotten. *)
HandlersDone ==
  /\ pump = "handles" /\ pc[Pump] = "idle" /\ handled >= Len(handlers)
  /\ handlers' = <<>>
  /\ handled' = 0
  /\ pump' = "listens"
  /\ UNCHANGED <<fileState, mutex, initialized, oneshot, connected,
                 workspaceNotifications, workspaceDirs, doc, folders,
                 requestVars, envVars, historyVars>>

-----------------------------------------------------------------------------
(* The files of file_data: _UpdateDirtyFilesUnderLock, and                  *)
(* _UpdateServerWithCurrentFileContents, which refreshes the request's own  *)
(* file only and does not look at its filetype.                             *)

DirtyFiles(r) ==
  IF r.op = "current" THEN DOMAIN r.data ELSE DOMAIN r.data \cap Supported

(* Mutant: what the server supports is not looked at. *)
IsNewWorkspace_Unasked(f) == WorkspaceFor[f] \notin workspaceDirs

IsNewWorkspace(f) ==
  workspaceNotifications /\ WorkspaceFor[f] \notin workspaceDirs

(* A thread is between closing a file and deleting its state. *)
BeingUnloaded(f) == \E u \in Workers : pc[u] = "delete" /\ req[u].file = f

RefreshFileContents(t) ==
  /\ pc[t] = "dirty" /\ out[t] = NoMessage
  /\ \E f \in DirtyFiles(req[t]) \ seen[t] :
       LET old == Lookup(f)
           new == DirtyFileState(old, req[t].data[f])
           opens == old.state = "Closed"
           announces == opens /\ IsNewWorkspace(f)
       IN /\ fileState' = [fileState EXCEPT ![f] = new]
          /\ out' = [out EXCEPT ![t] =
               IF new = old THEN NoMessage
               ELSE Message(IF opens THEN "DidOpen" ELSE "DidChange", f, new)]
          /\ announce' = [announce EXCEPT ![t] = announces]
          /\ workspaceDirs' = IF announces
                              THEN workspaceDirs \cup {WorkspaceFor[f]}
                              ELSE workspaceDirs
          /\ seen' = [seen EXCEPT ![t] = @ \cup {f}]
          /\ overlapped' = IF BeingUnloaded(f) THEN overlapped \cup {f}
                                              ELSE overlapped
          /\ unloaded' = unloaded \ {f}
  /\ UNCHANGED <<mutex, sessionVars, doc, folders, pc, req, storeSize,
                 envVars>>

DirtyFilesDone(t) ==
  /\ pc[t] = "dirty" /\ out[t] = NoMessage
  /\ DirtyFiles(req[t]) \subseteq seen[t]
  /\ IF req[t].op = "current"
     THEN Finish(t)
     ELSE /\ pc' = [pc EXCEPT ![t] = "saved"]
          /\ storeSize' = [storeSize EXCEPT ![t] = Cardinality(Keys)]
          /\ seen' = [seen EXCEPT ![t] = {}]
          /\ UNCHANGED <<req, mutex>>
  /\ UNCHANGED <<fileState, sessionVars, workspaceDirs, doc, folders, out,
                 announce, envVars, historyVars>>

-----------------------------------------------------------------------------
(* _UpdateSavedFilesUnderLock.  GetFileContents turns every failure to read *)
(* a file into the empty text, so nothing is ever collected in              *)
(* files_to_purge and _PurgeMissingFilesUnderLock has nothing to do.        *)

GetFileContents(f) == IF disk[f] = Unreadable THEN Empty ELSE disk[f]

FilesToScan(t) == Keys \ (seen[t] \cup DOMAIN req[t].data)

Iterating(t) == pc[t] = "saved"

UpdateSavedFile(t) ==
  /\ Iterating(t) /\ out[t] = NoMessage
  /\ storeSize[t] = Cardinality(Keys)
  /\ \E f \in FilesToScan(t) :
       LET old == fileState[f]
           new == SavedFileState(old, GetFileContents(f))
       IN /\ fileState' = [fileState EXCEPT ![f] = new]
          /\ out' = [out EXCEPT ![t] =
               IF new = old THEN NoMessage ELSE Message("DidChange", f, new)]
          /\ seen' = [seen EXCEPT ![t] = @ \cup {f}]
  /\ UNCHANGED <<mutex, sessionVars, workspaceDirs, doc, folders, pc, req,
                 announce, storeSize, envVars, historyVars>>

SavedFilesDone(t) ==
  /\ Iterating(t) /\ out[t] = NoMessage
  /\ storeSize[t] = Cardinality(Keys)
  /\ FilesToScan(t) = {}
  /\ Finish(t)
  /\ UNCHANGED <<fileState, sessionVars, workspaceDirs, doc, folders, out,
                 announce, envVars, historyVars>>

(* RuntimeError: dictionary changed size during iteration *)
IterationFails(t) ==
  /\ Iterating(t) /\ out[t] = NoMessage
  /\ storeSize[t] # Cardinality(Keys)
  /\ Fail(t)
  /\ UNCHANGED <<fileState, workspaceDirs, doc, folders, out, announce,
                 envVars, historyVars>>

-----------------------------------------------------------------------------
(* OnFileSave, without the mutex. *)

OnFileSave(t) ==
  /\ pc[t] = "save"
  /\ LET f == req[t].file
     IN /\ fileState' = [fileState EXCEPT ![f] = Lookup(f)]
        /\ out' = [out EXCEPT ![t] = Message("DidSave", f, Lookup(f))]
  /\ pc' = [pc EXCEPT ![t] = "sent"]
  /\ UNCHANGED <<mutex, sessionVars, workspaceDirs, doc, folders, req, seen,
                 announce, storeSize, envVars, historyVars>>

SaveDone(t) ==
  /\ pc[t] = "sent" /\ out[t] = NoMessage
  /\ Finish(t)
  /\ UNCHANGED <<fileState, sessionVars, workspaceDirs, doc, folders, out,
                 announce, envVars, historyVars>>

(* OnBufferUnload: _PurgeFileFromServer, without the mutex. *)

(* The thread is about to tell the server of a new version of the file. *)
Updates(t, f) == out[t].type \in {"DidOpen", "DidChange"} /\ out[t].file = f

PurgeFileFromServer(t) ==
  /\ pc[t] = "unload"
  /\ LET f == req[t].file
         old == Lookup(f)
     IN /\ fileState' = [fileState EXCEPT ![f] = ClosedFileState(old)]
        /\ out' = [out EXCEPT ![t] =
             IF old.state = "Open" THEN Message("DidClose", f, old)
                                   ELSE NoMessage]
        /\ overlapped' = IF \E u \in Workers : Updates(u, f)
                         THEN overlapped \cup {f} ELSE overlapped
        /\ unloaded' = unloaded \cup {f}
  /\ pc' = [pc EXCEPT ![t] = "delete"]
  /\ UNCHANGED <<mutex, sessionVars, workspaceDirs, doc, folders, req, seen,
                 announce, storeSize, envVars>>

(* del self._server_file_state[ file_state.filename ] *)
DeleteFileState(t) ==
  /\ pc[t] = "delete" /\ out[t] = NoMessage
  /\ IF req[t].file \in Keys
     THEN Finish(t) /\ UNCHANGED sessionVars
     ELSE Fail(t)
  /\ fileState' = [fileState EXCEPT ![req[t].file] = MissingState]
  /\ UNCHANGED <<workspaceDirs, doc, folders, out, announce, envVars,
                 historyVars>>

-----------------------------------------------------------------------------
(* LanguageServerConnection.SendNotification: WriteData is atomic, under    *)
(* the connection's _stdin_lock.                                            *)

SendWorkspaceFolder(t) ==
  /\ announce[t] /\ connected
  /\ folders' = folders \cup {WorkspaceFor[out[t].file]}
  /\ announce' = [announce EXCEPT ![t] = FALSE]
  /\ UNCHANGED <<fileState, mutex, sessionVars, workspaceDirs, doc, pc, req,
                 seen, out, storeSize, envVars, historyVars>>

SendNotification(t) ==
  /\ out[t] # NoMessage /\ ~ announce[t] /\ connected
  /\ doc' = Apply(out[t], doc)
  /\ out' = [out EXCEPT ![t] = NoMessage]
  /\ UNCHANGED <<fileState, mutex, sessionVars, workspaceDirs, folders, pc,
                 req, seen, announce, storeSize, envVars, historyVars>>

(* The exception comes when the file state has been changed already. *)
WriteFails(t) ==
  /\ out[t] # NoMessage /\ ~ connected
  /\ Fail(t)
  /\ out' = [out EXCEPT ![t] = NoMessage]
  /\ announce' = [announce EXCEPT ![t] = FALSE]
  /\ UNCHANGED <<fileState, workspaceDirs, doc, folders, envVars, historyVars>>

(* The server dies, or the pump has ended and closes the server's input. *)
ConnectionBreaks ==
  /\ connected
  /\ connected' = FALSE
  /\ UNCHANGED <<fileState, mutex, initialized, handlers, oneshot, pump,
                 handled, workspaceNotifications, workspaceDirs, doc, folders,
                 requestVars, envVars, historyVars>>

(* Another program changes a file. *)
DiskWrite ==
  /\ diskWrites < MaxDiskWrites
  /\ \E f \in Files : \E c \in (Contents \cup {Unreadable}) \ {disk[f]} :
       disk' = [disk EXCEPT ![f] = c]
  /\ diskWrites' = diskWrites + 1
  /\ UNCHANGED <<fileState, mutex, sessionVars, workspaceDirs, doc, folders,
                 requestVars, requests, historyVars>>

-----------------------------------------------------------------------------
(* The server was started in ProjectDir, and sent the initialize request;   *)
(* it may have answered when nothing was queued.                            *)
Init ==
  /\ fileState = [f \in Files |-> MissingState]
  /\ mutex = NoThread
  /\ pump \in Starts
  /\ initialized = (pump = "listens")
  /\ workspaceNotifications \in IF initialized THEN BOOLEAN ELSE {FALSE}
  (* Not in the second session of a completer; of no account later on. *)
  /\ oneshot \in BOOLEAN /\ (initialized => ~ oneshot)
  /\ handlers = <<>>
  /\ handled = 0
  /\ connected = TRUE
  /\ workspaceDirs = {ProjectDir}
  /\ folders = {ProjectDir}
  /\ doc = [f \in Files |-> [open |-> FALSE, version |-> 0, contents |-> Empty]]
  /\ disk \in InitialDisks
  /\ pc = [t \in Workers |-> "idle"]
  /\ req = [t \in Workers |-> NoRequest]
  /\ seen = [t \in Workers |-> {}]
  /\ out = [t \in Workers |-> NoMessage]
  /\ announce = [t \in Workers |-> FALSE]
  /\ storeSize = [t \in Workers |-> 0]
  /\ requests = 0
  /\ diskWrites = 0
  /\ overlapped = {}
  /\ unloaded = {}

(* What a thread that has begun a request, or a handler, does on its own. *)
Work(t) ==
  \/ QueueHandler(t) \/ ClearOneshotHandlers(t)
  \/ AcquireMutex(t)
  \/ RefreshFileContents(t) \/ DirtyFilesDone(t)
  \/ UpdateSavedFile(t) \/ SavedFilesDone(t) \/ IterationFails(t)
  \/ OnFileSave(t) \/ SaveDone(t)
  \/ PurgeFileFromServer(t) \/ DeleteFileState(t)
  \/ SendWorkspaceFolder(t) \/ SendNotification(t) \/ WriteFails(t)

Next ==
  \/ \E t \in Threads : BeginRequest(t)
  \/ \E t \in Workers : Work(t)
  \/ HandleInitialize \/ RunHandler \/ HandlersDone
  \/ ConnectionBreaks \/ DiskWrite

Spec == Init /\ [][Next]_vars

-----------------------------------------------------------------------------
(* Properties                                                               *)

(* Every variable has its type: the keys and states of the store, at most   *)
(* one holder of _server_info_mutex, one pending notification per thread.   *)
TypeOK ==
  /\ fileState \in [Files -> FileState]
  /\ mutex \in Workers \cup {NoThread}
  /\ initialized \in BOOLEAN /\ oneshot \in BOOLEAN /\ connected \in BOOLEAN
  /\ workspaceNotifications \in BOOLEAN
  /\ handlers \in Seq({r \in Requests : r.op \in Queued})
  /\ pump \in {"waits", "handles", "listens", "ended"} /\ handled \in Nat
  /\ doc \in [Files -> [open : BOOLEAN, version : Nat, contents : Contents]]
  /\ disk \in [Files -> Contents \cup {Unreadable}]
  /\ pc \in [Workers -> {"idle", "queue", "clear", "acquire", "dirty", "saved",
                          "save", "sent", "unload", "delete"}]
  /\ req \in [Workers -> Requests \cup {NoRequest}]
  /\ seen \in [Workers -> SUBSET Files]
  /\ out \in [Workers -> Messages]
  /\ announce \in [Workers -> BOOLEAN]
  /\ storeSize \in [Workers -> Nat]
  /\ requests \in Nat /\ diskWrites \in Nat
  /\ overlapped \subseteq Files /\ unloaded \subseteq Files

Pending(f) ==
  \E t \in Workers : out[t] # NoMessage /\ out[t].file = f

Matches(f) ==
  /\ doc[f].open <=> fileState[f].state = "Open"
  /\ doc[f].open => /\ doc[f].version = fileState[f].version
                    /\ doc[f].contents = fileState[f].contents

(* ycmd's idea of a file (ServerFileState, "state machine for a particular  *)
(* file from the server's perspective, including version") is the server's  *)
(* document, except while a notification about that file is being written,  *)
(* when the connection is broken, and for files that were unloaded and      *)
(* updated at the same time.  OnBufferUnload: "we must keep the server      *)
(* synchronized".                                                           *)
Synchronized ==
  \A f \in Files \ overlapped : connected /\ ~ Pending(f) => Matches(f)

(* What the comment on _server_info_mutex says, of all files: "We protect   *)
(* from clobbering by doing all server-file-state operations under this     *)
(* mutex."  OnBufferUnload and OnFileSave do not take it.                   *)
NothingClobbered ==
  \A f \in Files : connected /\ ~ Pending(f) => Matches(f)

(* No notification reaches the server in a state the protocol forbids it    *)
(* in: a document is opened once, changed and closed only while it is open, *)
(* and its versions only grow (_SendNewVersion).                            *)
Legal(m) ==
  CASE m.type = "DidOpen"   -> ~ doc[m.file].open
    [] m.type = "DidChange" -> /\ doc[m.file].open
                               /\ m.version > doc[m.file].version
    [] m.type = "DidClose"  -> doc[m.file].open
    [] OTHER -> TRUE

NotificationsAreLegal ==
  [][\A t \in Workers :
       connected /\ out[t] # NoMessage /\ out'[t] = NoMessage =>
         out[t].file \in overlapped \/ Legal(out[t])]_vars

(* When _UpdateServerWithFileContents has gone through the dirty buffers,   *)
(* the server has their contents, and keeps them until the mutex is         *)
(* released, unless the buffer is unloaded: no other request's contents are *)
(* written in between.                                                      *)
DirtyBuffersDelivered ==
  \A t \in Workers : pc[t] = "saved" /\ connected =>
    \A f \in DirtyFiles(req[t]) \ (unloaded \cup overlapped) :
      doc[f].open /\ doc[f].contents = req[t].data[f]

(* A document is opened only in a workspace folder the server was told of   *)
(* ("First check if we need to inform the server of a new workspace"), if   *)
(* it wants to be told; otherwise it is told of none.  So it is although    *)
(* the folder is counted as announced before it is, for every file.         *)
WorkspaceAnnounced ==
  IF workspaceNotifications
  THEN \A f \in Files : doc[f].open => WorkspaceFor[f] \in folders
  ELSE folders = {ProjectDir}

(* OnBufferUnload: "we need to queue up a call to _PurgeFileFromServer.     *)
(* This ensures that the server is up to date as soon as we are able to     *)
(* send more messages": what was queued is run when the initialize exchange *)
(* completes.  The test of the event and the append are two steps.          *)
QueuedHandlersRun == pump = "listens" => handlers = <<>>

(* The server's documents follow the life cycle they were promised, but for *)
(* those that were unloaded and updated at the same time.                   *)
Documents == INSTANCE LspDocuments WITH Files <- Files, Contents <- Contents,
                                        doc <- doc, unprotected <- overlapped

DocumentsSpec == Documents!Spec

-----------------------------------------------------------------------------
(* Why the properties hold: an inductive invariant.                         *)

(* Where a thread is, what it is doing there, and who holds the mutex.      *)
ThreadInv(t) ==
  /\ pc[t] \in {"dirty", "saved"} <=> mutex = t
  /\ pc[t] = "idle" <=> req[t] = NoRequest
  /\ pc[t] \in {"acquire", "dirty"} => req[t].op \in {"update", "current"}
  /\ pc[t] \in {"saved", "clear"} => req[t].op = "update"
  /\ pc[t] = "queue" => req[t].op \in Queued
  /\ pc[t] \in {"save", "sent"} => req[t].op = "save"
  /\ pc[t] \in {"unload", "delete"} => req[t].op = "unload"
  /\ out[t] # NoMessage => pc[t] \in {"dirty", "saved", "sent", "delete"}
  /\ out[t].type = "DidSave" <=> pc[t] = "sent" /\ out[t] # NoMessage
  /\ out[t].type = "DidClose" <=> pc[t] = "delete" /\ out[t] # NoMessage
  /\ out[t].type = "DidClose" => out[t].file = req[t].file
  /\ announce[t] => out[t].type = "DidOpen"
  /\ ~ initialized => pc[t] \in {"idle", "queue", "clear"}

ControlInv ==
  /\ \A t \in Workers : ThreadInv(t)
  /\ pump = "waits" => ~ initialized
  /\ pump \in {"handles", "listens"} => initialized

(* The thread is about to tell the server that the file is closed. *)
Closes(t, f) == out[t].type = "DidClose" /\ out[t].file = f

(* The file state is one notification ahead of the server, or not at all;   *)
(* and only one thread has a notification about the file.                   *)
FileInv(f) ==
  /\ connected /\ (\A t \in Workers : ~ Updates(t, f) /\ ~ Closes(t, f)) =>
       Matches(f)
  /\ \A t \in Workers : Updates(t, f) =>
       /\ ~ BeingUnloaded(f)
       /\ fileState[f].state = "Open"
       /\ out[t].version = fileState[f].version
       /\ out[t].contents = fileState[f].contents
       /\ connected => IF out[t].type = "DidOpen"
                       THEN ~ doc[f].open /\ out[t].version = 1
                       ELSE doc[f].open /\ out[t].version = doc[f].version + 1
  /\ \A t \in Workers : Closes(t, f) =>
       /\ connected => doc[f].open
       /\ \A u \in Workers : Closes(u, f) => u = t
  /\ BeingUnloaded(f) => fileState[f].state # "Open"

SyncInv == \A f \in Files \ overlapped : FileInv(f)

(* A folder ycmd counts as announced is announced, or about to be. *)
WorkspaceInv ==
  /\ ProjectDir \in workspaceDirs
  /\ connected => \A d \in workspaceDirs \ folders :
       \E t \in Workers : announce[t] /\ WorkspaceFor[out[t].file] = d
  /\ workspaceNotifications =>
       /\ \A t \in Workers : out[t].type = "DidOpen" =>
            WorkspaceFor[out[t].file] \in workspaceDirs
       /\ \A f \in Files : doc[f].open => WorkspaceFor[f] \in folders
  /\ ~ workspaceNotifications =>
       folders = {ProjectDir} /\ \A t \in Workers : ~ announce[t]
  /\ ~ initialized =>
       ~ workspaceNotifications /\ \A f \in Files : ~ doc[f].open

(* What a thread has gone through is as its request says. *)
DeliveryInv ==
  /\ \A f \in Files : BeingUnloaded(f) => f \in unloaded \cup overlapped
  /\ \A t \in Workers :
       /\ pc[t] = "dirty" => seen[t] \subseteq DirtyFiles(req[t])
       /\ pc[t] \in {"dirty", "saved"} =>
            \A f \in (IF pc[t] = "dirty" THEN seen[t] ELSE DirtyFiles(req[t]))
                    \ (unloaded \cup overlapped) :
              /\ fileState[f].state = "Open"
              /\ fileState[f].contents = req[t].data[f]
       /\ pc[t] = "saved" =>
            \A f \in DirtyFiles(req[t]) : ~ Updates(t, f)

IInv == TypeOK /\ ControlInv /\ SyncInv /\ WorkspaceInv /\ DeliveryInv
=============================================================================
