# ycmd: a verification project

ycmd is the completion server behind YouCompleteMe. An editor sends it HTTP
requests; it answers from libclang, from its own database of identifiers, or
from language servers that it starts and talks to. Every request runs in a
thread of its own, every language server has at least one more thread that
reads what the server writes, and nearly all of this happens on shared,
mutable Python objects. That is where the difficult behaviour is, and what
these modules are about.

Paths below are relative to the repository. `language_server_completer.py`
stands for `ycmd/completers/language_server/language_server_completer.py`, and
`typescript_completer.py` for `ycmd/completers/typescript/typescript_completer.py`;
a file `X.cpp` or `X.h` is in `cpp/ycm/` or `cpp/ycm/ClangCompleter/`.

How to run, in this directory:

    tlc -config DocumentSync.cfg MCDocumentSync.tla            # a run
    tlapm DocumentSync_proofs.tla                              # proofs

Runs that are expected to find a violation are listed under "Disagreements
between the code and what it says" (section 6).

## 1. Inventory

### Components

| component | state it keeps | operations | shares it with |
|---|---|---|---|
| **Document synchronisation** (`ServerFileState`, `_UpdateServerWithFileContents`, `OnFileSave`, `OnBufferUnload`) | `_server_file_state`: for every path a state, a version and a checksum; `_server_workspace_dirs` | update with all dirty buffers, update with the current buffer, save, unload | request threads, under `_server_info_mutex` or not; the connection it writes to |
| **Connection** (`LanguageServerConnection`, `Response`) | `_last_id`, `_responses`, `_stop_event`, the two ends of the stream | request, notification, wait with a timeout, dispatch, abort, stop, close | request threads and the message pump, through `_response_mutex` and `_stdout_lock` |
| **Message framing** (`_ReadMessages`, `_ReadHeaders`, `ReadData`) | local variables of the pump: data, prefix, position, content | read, scan for a header line, collect content, dispatch | nobody; the input is a byte stream cut anywhere |
| **Server life cycle** (`StartServer`, `_SendInitialize`, `_HandleInitializeInPollThread`, `OnFileReadyToParse`, `Shutdown`, `ShutdownServer`, `_Reset`, `_RestartServer`) | `_server_handle`, `_connection`, `_server_started`, `_initialize_event`, `_initialize_response`, `_server_capabilities`, the lists of handlers | parse, restart, stop; callbacks on the pump thread | request threads, the pumps of this and of earlier servers |
| **Message polling** (`PollForMessagesInner`, `_AddNotificationToQueue`) | `_notifications`, a queue of at most 250 messages; the latest diagnostics | add, empty, wait for initialisation | the pump and the poll thread of the editor |
| **Completion caches** (`CompletionsCache`, `LanguageServerCompletionsCache`) | the request and candidates of the last completion | look up, update, invalidate | request threads, under `_access_lock` |
| **TypeScript completer** | `_tsserver_handle`, `_tsserver_is_running`, `_sequenceid`, `_pending` | request, restart, stop; the reader loop | request threads and one reader thread for the life of the completer |
| **Clang translation units** (`TranslationUnitStore`, `TranslationUnit`, `ClangCompleter`) | translation unit and hash of flags by file; of each unit its libclang pointer and diagnostics; the files being compiled | parse, reparse, complete, look up, fix, remove | request threads, under the store's mutex, which is released while clang parses, and one mutex per unit |
| **Identifier database** (`IdentifierDatabase`, `Repository`, `IdentifierCompleter`) | candidates by file type and path; interned candidates; times of tag files | add one, replace a file's, read tag files and keywords, query | request threads, under a mutex that a query releases before it sorts |
| **Candidate matching** (`Word`, `Character`, `Candidate`, `Result`, `FilterAndSortCandidates`) | none of its own | break a text into characters, compare them, match a query, rank results | nobody |
| **Server state, watchdog, extra conf store, include cache** | completers by filetype; time of the last request; modules loaded; listings by directory | create, shut down, look up, expire | request threads, each under a lock of its own |
| The other completers (C#, tern, Java, jedi, file names, UltiSnips), the HTTP layer, conversions | see PROJECT.json | | |

### Interactions

    editor --HTTP--> request threads --(update, request)--> connection --bytes--> language server
                          |   ^                                 |  ^                     |
            _server_info_mutex \--wait for Response--- _response_mutex, pump <---bytes----/
                          |                                        |
                    file states, life cycle  <---callbacks on the pump thread

* A request that needs the language server first updates the server's documents
  (document synchronisation), then issues a request on the connection and waits.
* The pump dispatches each message: an answer wakes the request thread that
  waits; a notification goes to the polling queue and to handlers; the answer
  to `initialize` runs a callback of the completer *inside* the pump, which
  reaches into the life cycle and, through its handlers, into document
  synchronisation.
* A restart replaces the connection, the server and the whole state of the life
  cycle while other threads still refer to the old ones.

### What is hard here

* **Interleavings.** Request threads, the pump, and (for TypeScript) the reader
  work on the same objects. Some operations take a mutex, some do not
  (`OnBufferUnload`, `OnFileSave`, the test of `_server_started`), and there are
  two mutexes that are taken in both orders.
* **State read, then used later.** The connection, the handle of the process and
  the initialisation event are read without a lock and may belong to another session
  when they are used.
* **Order between a change of state and a write.** A file state is changed before
  the notification is written; a response is registered before its request is written.
* **Timeouts and late answers**, ends of streams, servers that die, servers that
  do not exit, servers that break the protocol.
* **Byte streams** cut at any place.

PROJECT.json lists under "hazards" each of these at the line where it bites.

### What makes each component correct

* *Document synchronisation*: the server has the text ycmd believes it has;
  notifications obey the document life cycle of the protocol; an update has
  delivered its buffers when it ends; documents are opened in announced folders.
* *Connection*: an answer reaches the request it answers, once; no thread waits
  on a response that nobody can complete; the end of the server is noticed;
  closing comes to an end.
* *Message framing*: what is dispatched is what was sent, in order, however the
  stream is cut.
* *Life cycle*: one server at a time; nothing but `initialize` before its answer;
  handlers that were registered are called; requests come to an end; nothing of
  a session survives it.
* *TypeScript*: answers reach their deferred responses; one server at a time; the
  reader reads from the server that runs; restarts come to an end.
* *Polling*: no message is dropped while the queue has room; the order is kept;
  a client that should poll again is told so.
* *Caches*: what is returned was computed for an equivalent request and was not
  invalidated.
* *Translation units*: one thread makes the unit of a file; a request works on a
  unit of its flags; diagnostics are of the parse they are reported for; no
  sentinel stays; requests come to an end.
* *Identifier database*: updates are atomic; a query answers from one snapshot;
  no pointer or iterator outlives what it points into; tag files are up to date.
* *Matching*: texts are broken as Unicode says; equivalent texts are equal; a query
  matches exactly the candidates it is a subsequence of; the best ones come first.

## 2. Plan

| module | composes | models |
|---|---|---|
| `LspDocuments` | - | abstract: the document life cycle a language server is promised |
| `DocumentSync` | refines `LspDocuments` | synchronisation by request threads |
| `DocumentSync_proofs` | `DocumentSync`, `LspDocuments` | invariant, safety, refinement |
| `LspConnection` | - | requests, responses, pump, streams |
| `LspConnection_proofs` | `LspConnection` | invariant, safety |
| `LspLifecycle` | what `LspConnection` does with a few requests, its mutex in detail | start, initialise, stop, restart |
| `LspLifecycle_proofs` | `LspLifecycle` | types; what the completer knows of its session |
| `MessageReader` | - | framing |
| `NotificationQueue` | - | the queue of notifications and the polls that empty it |
| `MessagePump` | `MessageReader`, `NotificationQueue` | from the bytes of the server to the editor |
| `MessagePump_proofs` | `MessagePump` | invariant, safety of the queue; the reader: invariant, framing; refinement |
| `TypeScriptServer` | - | the TypeScript completer |
| `TypeScriptServer_proofs` | `TypeScriptServer` | invariant, safety |
| `TranslationUnit`, `TranslationUnitStore` | the second extends the first | libclang units with their mutex; the store of them |
| `ClangCompleter` | both | requests on translation units |
| `ClangCompleter_proofs` | `ClangCompleter` | invariant, safety |
| `BestIdentifiers` | - | the best of what was found, by rank |
| `IdentifierStore` | extends `BestIdentifiers` | abstract: atomic updates, queries answered from one snapshot |
| `IdentifierDatabase` | refines `IdentifierStore` | the database with its pointers, and the requests that fill and ask it |
| `IdentifierDatabase_proofs` | `IdentifierDatabase`, `IdentifierStore` | invariant, safety, refinement |
| `Character`, `Word`, `Result`, `Candidate` | each extends what it uses | texts, characters, matches and their order |
| `Matching` | these | a text that is typed, broken and used as a query |
| `Matching_proofs` | `Matching` | the algorithms, invariant, safety; breaking, comparing and equivalence of texts |

What is left, in the order in which it is worth doing:

1. `CompletionsCache` and `IncludeCache`: invalidation between computing and
   storing.
2. `ServerState`, `ExtraConfStore`, `Watchdog`: small modules; discrete time for
   the last.

One run answers one question about a module. No module uses a RECURSIVE operator.

## 3. The modules and the code

### DocumentSync, LspDocuments

`fileState` is `_server_file_state`, with the state "Missing" for a path that is
not a key of it; `doc` is the server's copy of every document after it has read
everything that was written. Contents stand for their checksums. A behaviour is
one session: it begins when the initialize request has been sent (`Starts` has
"waits") or answered ("listens"). Each request of the editor is a sequence of
steps of one thread `t`:

| action | code |
|---|---|
| `BeginRequest` | a handler is entered, with the buffers of its request, and tests `_initialize_event` |
| `QueueHandler`, `ClearOneshotHandlers` | before the exchange has completed, `OnFileReadyToParse` and `OnBufferUnload` append to `_on_initialize_complete_handlers` |
| `AcquireMutex` | `with self._server_info_mutex` |
| `RefreshFileContents`, `DirtyFilesDone` | the loop of `_UpdateDirtyFilesUnderLock` (or the one file of `_UpdateServerWithCurrentFileContents`) around `_RefreshFileContentsUnderLock` |
| `UpdateSavedFile`, `SavedFilesDone`, `IterationFails` | the loop of `_UpdateSavedFilesUnderLock` over the store, which raises when the store has changed its size |
| `OnFileSave`, `SaveDone` | `OnFileSave`, without the mutex |
| `PurgeFileFromServer`, `DeleteFileState` | `OnBufferUnload`: close and notify, then `del`, without the mutex |
| `SendWorkspaceFolder`, `SendNotification` | `SendNotification` of what the worker has built: the workspace folder first, if the server wants to be told (`workspaceNotifications`, line 2192) and the document is the first in it |
| `WriteFails` | the write raises, when the connection is broken: the request ends with the file state changed and nothing sent |
| `HandleInitialize`, `RunHandler`, `HandlersDone` | the pump completes the exchange and runs what was queued, each handler being a request of the thread `Pump` |
| `ConnectionBreaks`, `DiskWrite` | the server is gone; another program changes or removes a file |

A file state is changed in one step and the notification about it is written in
a later one, as in the code, so two threads can write in the other order.
`LspDocuments` is the abstract specification: open with version 1 while closed,
change with the next version while open, close while open. `DocumentsSpec`
says that `DocumentSync` implements it; `doc` is the state of both.

An unload takes no mutex. When it meets an update of the same file, anything may
be sent (section 6), and the code gives no way to tell these files apart. Two
history variables do: `overlapped` has the files at which an unload met an update
that had not been written yet, or the other way round, `unloaded` those that were
unloaded after the update that names them. The properties speak of the other
files, and the abstract promise about a document lapses (`Lapse`, `Anything`) when
it overlaps. No request is kept from the editor.

### LspConnection

`responses` is `_responses`, `answer` the state of the `Response` objects,
`pump` and `closer` the places of the pump and of the thread that runs `Stop`
and `Close`. What the code does under `_response_mutex` is one step. The server
is the environment: it answers in any order, late or never, sends requests
(some of which register or unregister file observers) and notifications, dies,
and if `faulty` sends something malformed, or an answer to a request it was not
sent. `transport` is the class of the connection:

* `StandardIOLanguageServerConnection`: reads notice the end of the stream. What
  is written to a server that is gone stays in the buffer of the pipe
  (`unflushed`), and closing the pipe then raises (`ClosingInputRaises`).
* `TCPSingleStreamConnection`: reads do not notice the end. There is no lock for
  writes, so two of them may mix (`BeginWrite`, `Mixes`); from then on nothing
  written makes sense to the server (`garbled`). If no connection can be made,
  `_client_socket` is None, and `Shutdown` raises (`NoSocket`).

`Shutdown` of either class first stops the observers (`CancelWatchdogThreads`), from
the pump or from the thread that closes; the pump may start another afterwards.

### LspLifecycle

Every start of the server is a session with its own process, connection and
pump; `session` is the one the completer refers to. Both mutexes are explicit,
as the order in which they are taken matters: the pump handles a message under
`responseMutex[s]`, and takes `infoMutex` in the callback. `lists` holds every
list of handlers there has been, because the callback may iterate one that a
reset has replaced. Handlers are named by the request whose contents they send.

| action | code |
|---|---|
| `OnFileReadyToParse` ... `UpdateServer` | `OnFileReadyToParse`: what it tests without a lock, then queues or does |
| `StartAndInitializeServer`, `GetSettings` | the settings, which may be unknown |
| `StartServer`, `Connected`, `ConnectionTimeout` | `StartServer`, which holds the mutex until the connection is there, or times out and shuts down |
| `SendInitialize`, `RegisterInitialize`, `WriteInitialize` | `_SendInitialize` and `GetResponseAsync`: registered, then written, which may fail |
| `Shutdown` ... `SendExit`, `SendExitFails` | `Shutdown` and `ShutdownServer`; what cannot be written skips the rest and `Close` |
| `Close`, `Join`, `CloseStreams`, `AwaitProcess`, `ProcessTerminated`, `ShutdownDone` | the rest of `Shutdown`: the connection, its pump, the streams, the wait of 30 seconds for the process under the mutex, the reset |
| `Connect`, `ConnectFails` | `TryServerConnectionBlocking` |
| `ReceiveInitialize`, `HandleInitialize`, `HandleRefusal`, `RunHandler`, `HandlersDone`, `ClearHandlers` | `_DispatchMessage` and `_HandleInitializeInPollThread`; an error has no `result`, and ends the pump |
| `ReceiveShutdown`, `Abort` | the answer to shutdown; the end of `run` |

`Timeouts` says which waits may time out. Three history variables tell what went
wrong: `forgotten`, that a session was reset or replaced before its pump was over;
`late`, which servers got documents because another one had been initialised;
`told`, which were sent the exit notification.

### MessageReader, NotificationQueue, MessagePump

`MessageReader`: the stream is a sequence of pieces: the name in a header line,
the number after it, a newline, a byte of content that is a character, and one
that only begins a character. The actions follow the loops of `_ReadHeaders` and
`_ReadMessages`, scanning one byte at a time. `reads` says what a read may
return: a line (standard output), any beginning of what has arrived (a socket),
or one of at least two pieces that ends at a character ("coarse"). `Encoded[m]`
is the stream up to the end of message m. A content ends with a whole character
(`MessageReaderAssumption`): it is the JSON text of a server.

`NotificationQueue`: notifications are numbers, in the order of dispatch. The pump
adds one in the two steps of `_AddNotificationToQueue` (`PutNowait`, which finds
the queue full, and `DiscardOldest`), between which a poll may run. A poll goes
through `PollForMessagesInner`:

| action | code |
|---|---|
| `PollForMessages` | the handler is entered, and the first test of `_initialize_event` |
| `CheckConnection`, `GetNowait` | one turn of the loop of `_GetPendingMessages`: `GetConnection()` is called twice |
| `AwaitServerMessages`, `AwaitInitialized` | the test of the event, and the wait for it |
| `AwaitConnection`, `FindQueue` | the two calls of `GetConnection()` |
| `AwaitNotification`, `AwaitTimeout`, `ReturnMessage` | `get( timeout )`, `queue.Empty`, the message converted |
| `StartServer`, `InitializeComplete`, `Reset` | what other threads do to the server meanwhile |

`MessagePump` composes the two: `DispatchNotification` is the step in which the
reader dispatches a message and begins to add it. The pump reads on when the
message is in the queue.

### TypeScriptServer

`handle`, `running`, `pending` and `sequenceId` are the attributes of the
completer. Starts and stops hold `lock` (`_tsserver_lock`); requests and the
reader do not. The reader looks the handle up anew at each read, as the code
does. Closing the output of a process waits for a reader that is in it. What is
written to a process that is gone stays in its buffer (`unflushed`): writing
raises, which skips the wait for the process when it was the exit command
(`StopServerFails`), and so may closing the input, which ends the stop or restart
with the handle still there (`CloseInput`). `VisitBuffer` is what a restart ends
with, under the lock.

### TranslationUnit, TranslationUnitStore, ClangCompleter

`units` are the units that were ever parsed, each with its pointer to libclang
(`clang`), its mutex (`access`) and the parse its diagnostics are of. `store` and
`flagsHash` are the two maps of the store. Every definition of
`TranslationUnitStore` is one hold of its mutex; `ClangCompleter` puts them, and
the operations of units, into the steps of a request:

| action | code |
|---|---|
| `GetUnit`, `CheckUpdating` | `UpdatingTranslationUnit` |
| `Enter`, `Leave` | `GetExclusive` on `_files_being_compiled` (`clang_completer.py`) |
| `FindUnit`, `BeginCreate`, `Create`, `CreateFails` | `GetOrCreate`: the lookup, the sentinel, the parse without a mutex, the unit stored or the sentinel removed |
| `BeginReparse`, `EndReparse`, `SkipReparse` | `TranslationUnit::Reparse` under its mutex, or nothing for a null unit |
| `ReparseFails`, `DestroyUnit` | the failure, and `Destroy` after the mutex was released |
| `Diagnose`, `Report` | `UpdateLatestDiagnostics`, and the copy that is returned |
| `BeginAccess`, `EndAccess`, `SkipAccess` | a lookup in the unit, or a completion |
| `EndAccessInMainFile`, `EndAccessInSystemHeader` | `GetDocsForLocationInFile`, which may need the unit of a header |
| `DeleteCachesForFile` | `OnBufferUnload`, and the removal after a failed update |

The Python threads release the GIL in every call of the C++ part, so all these
steps interleave. Any parse may fail.

### IdentifierStore, IdentifierDatabase

`db` holds the candidates of each place (a filetype and a path) in the order of
their vector, `results` the pointers a query has collected, as a place and an
index each. An update that clears a vector, or moves it because it grows, puts the
queries that point into it into `torn`, and so does one that inserts a filetype
while a query keeps an iterator to another: what these queries read is freed
memory, which is one value, `Garbage`. `FilterUnchangedTagFiles`,
`ExtractIdentifiersFromTagsFile` and `AddIdentifiersFromTagFiles` are the steps
in which the identifier completer reads a tag file that has changed. Reading may
fail, in two ways: a file that cannot be opened is read as an empty one
(`TagsFileIsUnreadable`), and a path in it that cannot be resolved ends the request
(`PathIsUnresolvable`); the history variable `tagsUnread` remembers it until the
file is read again.

`IdentifierStore` is the abstract specification: sets of identifiers by place,
atomic updates, and queries in three steps (`Ask`, `Look`, `Reply`), answered at
`Look` with the best of what is stored. The mapping takes the range of every
vector, and for a query what it will answer, which is decided when it has
collected (`AnswerOf`). The database sorts by the rank of each text (`Sorted`:
those of one rank in any order), the store says which text is the k-th (`Best`):
the k-th is the one that k of those found are not worse than. An update may
spoil queries that overlap with it: their answer is `Garbage`. `StoreSpec` says
that the database implements this. What a query finds and prefers is given
(`Ranking`); `IdentifierDatabaseAssumption` says that it ranks no text twice and
not the empty one, `MarksAssumption` that the values used as marks are not
results.

### Character, Word, Result, Candidate, Matching

The pure part of the C++ library. `CodePoint` is a table of what the Unicode
data says of each code point. `Word` breaks a text with the two state machines
of `Word.cpp` and the flags they keep; `Character` builds a character from a
cluster and compares characters; `Candidate` has the word boundary characters
and the loop that matches a query; `Result` the longest common subsequence and
the order. `Matching` is the state machine that types a text (one turn of the
loop of `BreakCodePointsIntoCharacters` per action) and uses it as a query:
`SkipCandidate`, `RejectCandidate` and `KeepCandidate` are the branches of the
loop of `FilterAndSortCandidates`, `PartialSort` the choice of the next best.
The loops over characters are recursive functions, and so is the one over the
rows of the table of common subsequences, of which only two are kept
(`NextRow`). `CodePointAssumption` says that decomposing a code point gives code
points that are not decomposed further, `PropertyAssumption` how the properties
of a code point go together (a consonant of a conjunct is no mark, what goes on
with a conjunct extends a character, a mark is decomposed into marks of its
class): both are so in `UnicodeTable.inc`. `SwappedAssumption` says that code
points are numbers. The reference definitions (the rules of UAX 29 over whole
texts, embeddings of a query, the documented conditions of the order) are at the
end of `Matching`, and with them `SimpleScript` and `DecomposesAlike`, the
hypotheses of two theorems.

## 4. The runs

| run | configuration | instance | what it shows |
|---|---|---|---|
| `docs` | `DocumentSync.cfg` | 2 threads, 2 files, 2 texts, empty files, 1 of which another program changes or removes, 3 requests of all kinds, failing writes, a server that wants to know the folders or does not | but for files that were unloaded and updated at the same time, ycmd and the server agree, notifications are legal, and the abstract life cycle is implemented |
| `docs_start` | `DocumentSync_start.cfg` | from the initialize request on: 2 threads, 2 files, 3 requests (update, save, unload), failing writes | what was queued and is run by the pump, between the requests of other threads, keeps notifications legal and announces folders |
| `docs_live` | `DocumentSync_live.cfg` | as `docs_start`, 2 requests | the mutex is given up, also when an iteration or a write fails |
| `conn` | `LspConnection.cfg` | both transports, 2 threads, 2 requests, 2 unasked messages, faults | answers reach their requests, once; nobody is left waiting |
| `conn_live` | `LspConnection_live.cfg` | both transports, 1 thread, 2 requests, 1 unasked message | the end of the server is noticed; closing ends, possibly with an exception |
| `life` | `LspLifecycle.cfg` | 2 threads, 2 requests (parse, restart, stop), 2 sessions, 1 death, both timeouts | the order of the initialize exchange; what counts as initialised is of the session |
| `life_alone` | `LspLifecycle_alone.cfg` | 1 thread, 4 requests, 3 sessions | one request at a time never forgets a session whose pump still acts |
| `life_ready` | `LspLifecycle_ready.cfg` | 2 threads, 3 parse requests, 1 session, 1 death, both timeouts | requests return, the server becomes ready |
| `reader` | `MessagePump.cfg` | 4 messages, all three kinds of reads, death at any byte, a queue of 2, polls one at a time | no wrong message is dispatched, none is lost that can be read; the editor gets them in order and once, unless they had to make room |
| `ts` | `TypeScriptServer.cfg` | 2 threads, 2 operations, 2 servers, 1 death, 1 event | no waiting thread is forgotten, no answer lost, one server; restarts and stops end, answers are delivered |
| `tu` | `ClangCompleter.cfg` | 2 threads, 2 files, 2 flags, 2 requests of all kinds, failures | one thread makes a unit; flags are respected; diagnostics are current; nothing is left behind; requests end |
| `idents` | `IdentifierDatabase.cfg` | 2 threads, 4 places, 3 requests, 2 versions of a tag file, which may be unreadable | refinement of `IdentifierStore`; tags are up to date |
| `matching` | `Matching.cfg` | every text of 3 code points of 20 kinds, longer ones where rules act together; queries of up to 3 over 5 code points against 26 candidates | breaking, comparing and matching do what is documented; the order of results is one the sort can use |

The largest of them, `conn`, has 4.6 million states and takes about 80 seconds with
two workers; `ts` has 225 thousand and takes two minutes, most of it for liveness.
The other twelve runs (section 6) are expected to end with a violation.

The type invariants of `LspConnection`, `LspLifecycle`, `MessageReader`,
`TypeScriptServer`, `IdentifierDatabase` and `Matching` hold under the
configurations of their runs, as do the inductive invariants: `IInv` of
`DocumentSync`, `LspConnection`, `TypeScriptServer`, `ClangCompleter`,
`IdentifierDatabase`, `Matching` and `MessagePump` (the last also with two polls
at a time), `HandlersInv` and `SessionInv` of `LspLifecycle`. The runs leave
them out in favour of properties that say more. Those of the modules with proofs
are proved (section 5).

### Bounds

* *Two threads* are enough for every race between two operations; no property
  relates more than two threads. *Two files* let one be dirty and one be saved,
  each in a workspace of its own, one of them the project's (`MCWorkspaceFor`).
  *Three requests* (`MaxRequests` of `docs`) let a file be opened, changed by
  one thread and unloaded, or opened again after it was unloaded. In `docs_start`
  they are a queued update, the one that is queued or runs while the pump handles
  it, and a save or unload.
* The proofs (section 5) remove all bounds for the safety of `DocumentSync`,
  `LspConnection`, `LspLifecycle`, `TypeScriptServer`, `ClangCompleter`,
  `MessagePump` and `IdentifierDatabase` (each with its refinement), and for
  `MessagePump` also the restrictions to one poll at a time and to the contents
  below: for these the bounds matter for liveness only. `NothingForgotten` is the
  exception.
* `LspConnection`: with *two requests* both threads wait at once, or one thread
  issues its second request while the late answer to its first is under way.
  *Two unasked messages* let an observer be registered and unregistered, or
  registered before the one that breaks the protocol. Liveness needs one message
  that the pump may be busy with.
* `LspLifecycle`: *two sessions* let the pump of one act on the state of the next,
  and *three* (`life_alone`) let it meet the one after. In `life_ready` one session
  is enough, as parse requests do not replace a server. Two requests in `life` are
  a start and what interferes with it; longer histories are those of `life_alone`
  and of the proofs.
* `MessagePump`: contents with a character of two bytes at the beginning, in
  the middle and before the end, an empty content, a message with two headers;
  reads leave remainders of every length. With a queue of *two* instead of 250
  and *four* messages, one of which is ignored, the queue overflows twice. An
  editor asks again when it was answered, so there is *one poll at a time*. One
  session: the queue belongs to the connection, and a second session has
  another.
* `TypeScriptServer`: the first server and the one that replaces it; `SlowExit`
  lets a server outlive the wait for its end.
* `ClangCompleter`: *two requests* in two threads on *two files* with *two flags*
  let a creation or reparse meet a request for the same file with the same or
  with other flags, or an unload; the second file is the header that `GetDoc`
  goes to.
* `IdentifierDatabase`: the four places are a buffer that the tag file also
  mentions, a file known from the tag file only, the keywords, and a buffer of
  another filetype (whose insertion may rehash the map). *Three requests* let a
  query overlap with an update and another one follow; *two versions* of the tag
  file are the fewest that change. `MaxCandidates` 2 of 3 texts that match.
* `Matching`: code points of every break property, letters in both cases, with
  and without marks, marks of three classes; the properties that act together
  over a distance (conjuncts, emoji, flags) have texts of length 4 and 5.
  Queries of three characters reach every condition of the order; the 26
  candidates differ in each of them. At most 5 results are asked for, so that
  the sort is a partial one.

Symmetry over threads is used in runs without liveness only. Deadlock checking is
off but in the runs of `Matching`, which goes on for ever with the next text: the
requests of every other instance are bounded, and ycmd is idle when nobody asks
anything. Mutual waiting is covered by `NoDeadlock`, `MutexReleased`,
`RequestsReturn`, `LockReleased` and `CloseReturns`.

### Fairness

Weak fairness of a thread says that the operating system and the Python
interpreter run a thread that can run; nothing else in ycmd schedules them, and
a thread that waits for a mutex may be overtaken again and again. As the
requests of an instance are bounded this does not show in the runs.

* `DocumentSync`, `TypeScriptServer`: the request threads, the pump and the reader
  run. Nothing makes a server answer. A tsserver that was told to exit exits in the
  end, if `SlowExit` only after `WaitUntilProcessIsTerminated` has given up.
* `LspConnection`: the pump and the thread that closes run. `OrderlySpec` adds
  that the server exits once its input is closed, which is what servers are
  expected to do and ycmd cannot make them do. Nothing bounds the wait otherwise:
  without it `CloseReturns` fails.
* `LspLifecycle`: in addition the server answers `initialize` and `shutdown`, or
  dies. Initialisation has no meaning with a server that does neither.
* `MessagePump`: the pump goes on while there is something to read; the server
  is started and initialised; waits have timeouts, and an editor that was not
  told to stop asks "again immediately" (`docs/openapi.yml`:699).
* `ClangCompleter`: the request threads run, and libclang returns. A unit's mutex
  needs no strong fairness here, as the requests are bounded.

## 5. What is proved

Eight modules prove safety properties for every value of the constants: any
threads, files, servers and numbers of requests. The bounds on counters
(`MaxRequests` and the like) are constants of the modules, so a theorem holds
however large they are. Each proof goes the same way. `IInv`, at the end of the
specification module, is an inductive invariant and the conjunction of named
parts; lemmas show, action by action, that a step preserves it, with one step
for every part; `Invariant` collects them, and the theorems about the properties
follow from it.

### DocumentSync

`DocumentSync_proofs` proves, for all files, texts, threads, workspaces and any
number of requests:

| theorem | statement |
|---|---|
| `Invariant` | `Spec => []IInv`, the inductive invariant |
| `TypeCorrect` | `Spec => []TypeOK` |
| `Synchronization` | `Spec => []Synchronized`: file state and server's document agree for every file about which no notification is pending, as long as the connection works |
| `Delivery` | `Spec => []DirtyBuffersDelivered`: an update that went through its dirty buffers has delivered them, and they stay until it releases the mutex, unless they are unloaded |
| `Workspaces` | `Spec => []WorkspaceAnnounced`: if the server wants to know the folders no document is open in one it was not told of, and otherwise it is told of none |
| `Legality` | `Spec => NotificationsAreLegal`: the server can accept every notification when it reads it |
| `Refinement` | `Spec => DocumentsSpec`: `DocumentSync` implements `LspDocuments` |

All assume only `DocumentSyncAssumption`: the constants are what their names say.
Any request may overlap any other; what `Synchronization`, `Delivery`, `Legality`
and `Refinement` say nothing of are the files in `overlapped`, about which
`docs_unload` shows that nothing can be said, and they say that every other file
is left alone by such a meeting. `Workspaces` is about all files.

`IInv` is the conjunction of `TypeOK` and

* `ControlInv`: a worker is in an update exactly if it holds the mutex; its place
  determines the kind of its request and of the notification it may have
  pending; before the exchange has completed nobody is past the queue;
* `SyncInv` (`FileInv` of every file that is not overlapped): the server's copy and
  the file state agree, or a worker has the notification pending that makes them
  agree, with the version the server expects next; a document that is about to be
  closed is open, and its file state is not; only one worker is closing it, and
  none updates it meanwhile;
* `WorkspaceInv`: a folder ycmd counts as announced is announced, or about to be;
* `DeliveryInv`: what an update has gone through is as its request says, and
  the later loop over saved files leaves it alone.

`Synchronized` is not inductive on its own. That the agreement returns when a
notification is written depends on what is in the notification (`FileInv`), and
that no other worker changes the file state before that depends on who may be
inside (`ControlInv`): with the mutex for updates, and for unloads because a file
at which one meets an update is `overlapped` from then on. A write that fails
leaves the file state ahead, which is why `Matches` is claimed only while the
connection works; a broken connection never works again. The proof has one lemma
for each action, and in it one step for each conjunct. `Legality` and `Refinement`
follow from the same invariant, since `SendNotification` is the only action that
changes `doc`, and `FileInv` says what it may write.

### LspConnection

`LspConnection_proofs` assumes only `LspConnectionAssumption`: the bounds are
numbers, the transports are among the two. It proves, over both transports, with
a server that may die, answer late or never, send messages unasked, or break
the protocol, writes that fail or mix, and connections that are never made:

| theorem | statement |
|---|---|
| `Invariant`, `TypeCorrect` | `Spec => []IInv`, `Spec => []TypeOK` |
| `ResponsesKept` | `Spec => []NoLostResponse`: who waits in `AwaitResponse` has its answer or is registered |
| `NoWaitAfterEnd` | `Spec => []NobodyLeftWaiting`: over standard streams, nobody waits for a pump that has ended |
| `TrueAnswers` | `Spec => []AnswersAreTrue`: an answer was given by the server to this request; an abort means that the pump is at its end |
| `SingleAnswer` | `Spec => AnsweredOnce`: no answer or abort overwrites another |

The parts of `IInv` and why they are needed:

* `IdInv`: an id belongs to one request; before it is registered nobody has
  heard of it, and before it is written the server has not. This is what the
  order of `GetResponseAsync` (register, then write) buys.
* `ResponseInv`: what is registered has no answer yet. `AnsweredOnce` follows:
  a response is taken from the registry when it is completed.
* `WireInv`: each request is answered by at most one message, whether it is on
  the wire or being dispatched. Without it a second answer could find the
  response gone, which would end the pump.
* `PendingInv`: until the pump closes, whatever the server has received or
  answered is still registered. A timeout does not remove a response, so a late
  answer finds it.
* `EndInv`: over standard streams, and if the server keeps to the protocol, the
  pump comes to its end only when nothing can be written any more. It is what
  makes `NobodyLeftWaiting` inductive: a thread that registers its response
  after the pump has aborted the others fails to write and does not wait.

### LspLifecycle

`LspLifecycle_proofs` assumes only `LspLifecycleAssumption`: any threads, requests,
sessions, deaths and timeouts.

| theorem | statement |
|---|---|
| `TypeCorrect` | `Spec => [](TypeOK /\ HandlersInv)`: also that the iterator over the handlers stays within a list that exists, though another thread replaces the list meanwhile |
| `SessionIsKept` | `Spec => []SessionInv`, the inductive invariant |
| `InitializeFirst` | `Spec => []NotBeforeInitialized`: who was sent the initialized notification or documents had answered initialize |
| `EventIsOfSession` | `Spec => []EventOfSession`: while the event is set for a server that runs, the capabilities are its own, and it was notified |

Two things the code really does make the plain statements false, and both have
a run of section 6. A session can be *forgotten* before its pump is over: by two
starts that overlap, by a server that dies before its answer is handled, or by a
wait that times out. Its pump then acts on the next session. The properties
are therefore about histories in which that has not happened (`forgotten`); they
still hold over all interleavings of starts, stops and restarts, with deaths,
refusals and timeouts. And a request may use the event of one session for the
next (`late`). That a session is not forgotten when requests come one at a time
and nothing dies or times out is `NothingForgotten`, which TLC checks.

* `MutexInv`: who holds `_server_info_mutex` at each place; a session in which
  initialize is sent is not exchanged meanwhile.
* `ExchangeInv`: whose answer to initialize is under way has answered.
* `NoSessionInv`: without a session there is no event, and no initialize request.
* `PumpInv`: of the sessions before nothing is left that would act. It survives the
  reset because `Close` waits for the pump, and is what makes the pump that
  handles an answer that of the session.
* `EventInv`: what the event says of the session, and what a thread that is about
  to update has seen of the one it looked at.

### MessagePump

`MessagePump_proofs` assumes only `NotificationQueueAssumption`: any number of polls
at a time, any size of the queue, any stream and any way to read it.

| theorem | statement |
|---|---|
| `Invariant` | `PumpSpec => []IInv` |
| `NotificationOrder` | `PumpSpec => []NotificationsKept`: notifications reach the editor in order and once; what does not had to make room, or was lost to a reset |
| `ReaderInvariant` | `Spec => []ReaderInv`, `Spec` that of `MessageReader` |
| `PumpReads` | `PumpSpec => Spec`: the composition with the queue implements the reader |
| `MessagesAreFramed` | `PumpSpec => []Framing`: the contents dispatched are those that were sent, in order, from the first on |
| `MessagesAreNotLost` | `PumpSpec => []NothingLost`: a pump that reads lines, or pieces that are not too small, ends only with the stream, and has dispatched all that arrived in full |

The queue:

* `QueueInv`: the queue is always the newest notifications that were added, without
  a gap. What is not in it any more is then known from its length (`Gone`), and
  what a poll takes next is newer than everything taken before.
* `GoneInv`: what has left the queue was returned to the editor or is about to be,
  in order, was ignored, discarded, or went with a reset.
* `DroppedInv`: what a full queue discarded has `QueueSize` newer ones behind it,
  unless a poll came in between the two steps of `_AddNotificationToQueue`.
* `PollInv`: a poll that does not go through the queue has taken nothing; something
  is lost only once there was a reset.

The reader assumes `MessageReaderAssumption` as well. Neither property is
inductive: nothing in them says where in the stream the reader is.

* `SliceInv`: what is held is a slice of what was sent. How much was read (`Arrived`)
  and how much of it belongs to earlier reads (`Base`) gives its place (`Position`).
* `HeadersInv`, `ScanInv`: between messages, `data` begins at a line of the headers of
  the current message (`LineStart`), the scan has passed no empty line, and a length
  that is known is that of the current content.
* `ContentInv`: the content read so far begins where the headers end, and what is
  counted is its length.

With these a content that is complete is the current one: its length and its place
are. The proof needs to know where message m begins, `Encoded[m - 1]`, and so facts
about a recursive function for all its arguments (`EncodedGrows`, `EncodedPrefix`,
`SentLayout`). They are proved by induction from the well-ordering of the numbers
(`Smallest`, `Induction`): the set of counterexamples has a smallest element.

### TypeScriptServer

`TypeScriptServer_proofs` assumes only `TypeScriptServerAssumption`. Starts, stops
and restarts of any number of threads overlap with requests, with the reader,
and with servers that exit at any time:

| theorem | statement |
|---|---|
| `Invariant`, `TypeCorrect` | `Spec => []IInv`, `Spec => []TypeOK`, which includes that exactly the holder of `_tsserver_lock` is in the code it protects |
| `DeferredKept` | `Spec => []NoLostDeferred`: who waits has its result, or is in `_pending` |
| `AnswersKept` | `Spec => []NoAnswerLost`: until the first server is stopped, an answer to a pending request is in its stream or with the reader |
| `SingleServer` | `Spec => []OneServer`: a server that is not the current one was told to exit or has lost its input |

* `SeqInv`: a number belongs to one request, is registered before it is written,
  and is in no inbox before that.
* `ServerInv`: the handle is the last server that was started, or none; the thread
  that stops a server has closed its input before it forgets the handle. Two
  threads cannot both be there, by the lock: `OneServer` depends on this.
* `ReaderInv`, `InboxInv`: the reader reads from a server there was, and an
  unanswered request is with the server it was sent to; `NoAnswerLost` needs
  both when an answer moves from the inbox to the stream and to the reader.

### ClangCompleter

`ClangCompleter_proofs` assumes only `ClangCompleterAssumption` and proves, for any
threads, files, flags and units, whatever fails to parse:

| theorem | statement |
|---|---|
| `Invariant`, `TypeCorrect` | `Spec => []IInv`, `Spec => []TypeOK`, which includes that a unit's mutex is held by exactly the thread that works on it |
| `SingleCreation` | `Spec => []OneCreator` |
| `FlagSafety` | `Spec => []FlagsRespected` |
| `CurrentDiagnostics` | `Spec => []DiagnosticsAreCurrent` |
| `CleanWhenIdle` | `Spec => []NothingLeftBehind` |

* `ControlInv`: what a thread handles at each place, and the unit and the parse
  it refers to.
* `CreatorInv`: a creation nobody disturbed has its sentinel and its flags in the
  store, and is alone. `OneCreator` is not inductive without it: a second thread
  is kept out by the sentinel *and* by its flags being the stored ones.
* `SentinelInv`, `ExclusiveInv`: every sentinel has somebody who parses, every
  file being compiled somebody who compiles; when no thread is busy there is
  neither, which is `NothingLeftBehind`.
* `FlagsInv`: `FlagsRespected` for all places where a unit is worked on, not only
  for those that the property mentions.
* A lemma on mutexes (`TypeOK` with `MutexOwners`) shows that a thread that
  enters a unit finds it free, and that no step of another takes it away.

### IdentifierDatabase

`IdentifierDatabase_proofs` assumes `IdentifierDatabaseAssumption` and
`MarksAssumption`, and proves for any threads, places, texts, queries and versions of
the tag file:

| theorem | statement |
|---|---|
| `Invariant` | `Spec => []IInv` |
| `TagsStayCurrent` | `Spec => []TagsAreCurrent`: unless two threads read the tag file at once or reading failed, what it says is in the database when its time is remembered and nobody brings it |
| `ImplementsStore` | `Spec => StoreSpec`: updates are atomic, and a query is answered from one state of the database, or with garbage if an update has freed what it reads |

* `RequestInv`: what a thread handles at each place.
* `PointersInv`: the pointers of a query that is not torn lead to candidates that
  match it, no two of them to the same text. A query that is not torn has seen no
  update of the vectors it points into since it collected.
* `TagsInv`: `TagsAreCurrent` is inductive only with what the thread that has read
  the file brings, and with its being the only one. Both are given up when reading
  fails or a second thread reads.

The refinement is the harder part. A query is answered in the abstract store when it
has collected, but the code sorts and reads later: `AnswerOf` says what it will
answer, and `PointersInv` that sorting does not change that. `Sorted` is proved to be
the one sequence that `Best` describes, by counting what is not worse.

### Matching

`Matching_proofs` assumes `CodePointAssumption`, `PropertyAssumption` and
`SwappedAssumption`, and of the texts only that they are sequences of code points: it
is about queries and candidates of any length. All six properties of the run
`matching` are proved. The core of the match and the order are three theorems about
pure algorithms, the first two against a definition that does not compute:

* `LongestCommonSubsequence`: the two rows end with the length of the longest
  sequence that is in both. After n turns of the outer loop every cell of the row
  holds the number for two prefixes (`Longest`), whichever of the two sequences is
  the longer one: when the last characters are equal, a longest sequence can use
  both (`CommonEqual`), and otherwise leaves one of them out (`CommonDifferent`).
* `MatchFindsTheLeastEmbedding`: the loop of `QueryMatchResult` never goes back, and
  still finds an embedding when there is one. After n characters of the candidate
  (`Greedy`) it has placed as many characters of the query as any embedding into
  them places, and each at least as far to the left (`GreedyTurn`); so its sum of
  indices is the least, and it ends at the length of the query only when the query
  is a prefix.
* `OrderIsByRank`: nine tests, of which the first that decides does, come to a
  comparison of two tuples of numbers and then of the texts. Some of the tests are
  made only when one of two results matched the whole query at word boundaries,
  so this is no matter of course; it needs that no result matches more word boundary
  characters than the query has, which comes from `LongestCommonSubsequence`.

The prover cannot be asked to use induction directly. `Recursion` builds, for a
step given as a function, a recursive function whose values are in a set;
`Induction` is about the set of numbers for which a statement holds. What a LET
function of the model returns follows, since every solution of its equation is the
one that was built (`MatchTurns`, `IndexSumUnfolds`, `BreakType`,
`WordBoundaryType`, `RowsAreLongest`). `SequenceInduction`, about the set of the texts
for which a statement holds, comes from it; most of what follows goes from a text
to the same with one code point more.

The invariant (`PhaseInv`, `MatchesInv`, `SortedInv`) says that the matches are
exactly those of the candidates seen so far that answer the query, and that the
sorted front is in order and nothing left is less. `BoundaryMatchesAreLongest`
and `ResultsAreOrdered` (`OrderedResults`) follow from it by the theorems above.
`MatchIsEmbedding` also says that the filter by bytes rejects nothing that would
match, and that is only true when folding keeps bases apart: `EmbeddingFound`
has `FoldingKeepsBases` as its hypothesis. In `UnicodeTable.inc` one code point
breaks it, U+0345, which is a mark and folds to a letter (section 6);
`MCMatching` checks it for all clusters of two code points of its table.

The other three theorems are about every text that may be typed:

* `BreaksAreThoseOfTheRules` (`BreaksFollowRules`). The rules look back over the whole
  text: an emoji and marks before the joiner, an odd number of flags, a consonant with
  a linker. The code has four flags. `FlagsMean` says what each of them means of the
  text that was read, as far as the last code point lets it matter; a turn of the
  loop keeps that, and joins as the rules do (`TextsBreakByRules`). The rules must be
  shown to allow no break exactly where one of two machines does, although each of
  them ignores the other. `TypingReads` relates `word`, which grows with the text, to
  the function that reads a whole text. The hypothesis that no joiner stands before a
  mark is needed (section 6).
* `MatchingIsSmart` (`SmartMatching`). Of a text in a `SimpleScript` every
  character is one base and its marks, or bases without case
  (`TextIsOfClusters`, from where the loop breaks), and sorting by class only
  moves the marks (`SortOfCluster`). So the folded spelling of a character is
  that of its base and then its marks, which can be told apart, and the three
  disjuncts of `MatchesSmart` come to what its comment says. `SimpleScript`
  leaves out of `UnicodeTable.inc`: the joiner, the code points that PREPEND,
  the six linkers, U+0345, and the capitals that fold to the same as another
  (DŽ, LJ, NJ, DZ in both their capital forms, and the two capital thetas). That
  is not for ease: two conjuncts that differ only in where their marks stand, or
  two such capitals under the same mark, have the same base, case and marks and
  do not match.
* `EquivalentTextsAreTheSame` (`CanonicalEquivalence`). Two texts go on alike
  (`AlikeTexts`) when they end alike, which five facts decide (`SameEnd`), and have the
  same characters up to the order of marks: whatever follows then keeps them alike
  (`AlikeTail`). Two marks of different classes end a text in the same way in either
  order, and pass each other in the sort (`InsertTwo`, `SwappedAlike`). A code point
  ends a text as its decomposition does if it `DecomposesAlike`
  (`PartsRead`, `DecomposedAlike`). All of `UnicodeTable.inc` does but U+21AE, an arrow
  whose decomposition begins with a pictograph: behind a joiner that changes what is
  one character.

`MCMatching` checks `SimpleScript` for the code points of the run but for three (the
joiner, one that PREPENDs and a linker), that the candidates are texts of these, and
`DecomposesAlike` for all of them.

### What is only model-checked

`NothingForgotten` of `LspLifecycle`, which is about one thread, no deaths and no
timeouts, and `SmartMatching` outside of simple scripts, beyond the texts of the
run. Every other invariant and action property that a passing run checks is stated
by a theorem. Out of the prover's reach, and left to TLC: liveness
(`MutexReleased`, `DeathNoticed`, `CloseReturns`, `RequestsReturn`,
`ServerBecomesReady`, `MessagesReachTheEditor`, `LockReleased`,
`AnswersDelivered`, `RequestsEnd`).

## 6. Disagreements between the code and what it says

Each of these runs checks one property that a comment of the repository states,
and TLC finds it violated. PROJECT.json quotes the lines under "findings".

| run | configuration | property | what happens |
|---|---|---|---|
| `docs_unload` | `DocumentSync_unload.cfg` | `NothingClobbered` | an unload takes no mutex; when it meets an update, the server keeps a document open that ycmd has forgotten, or the reverse |
| `docs_queue` | `DocumentSync_queue.cfg` | `QueuedHandlersRun` | a handler that is registered while initialisation completes is never run |
| `conn_tcp` | `LspConnection_tcp.cfg` | `SocketClosedNoticed` | the end of a TCP stream, `b''`, is compared with `''`, and the pump spins |
| `life_orphan` | `LspLifecycle_orphan.cfg` | `NoOrphanServer` | two first parse requests start two servers, the first of which is never stopped |
| `life_death` | `LspLifecycle_death.cfg` | `InitializedTruly` | the pump of a server that died initialises the state of the next one, which counts as initialised without having answered |
| `life_stale` | `LspLifecycle_stale.cfg` | `DocumentsWait` | a request tests the event of one session and updates the server of the next, which has not answered initialize |
| `life_deadlock` | `LspLifecycle_deadlock.cfg` | `NoDeadlock` | `_response_mutex` and `_server_info_mutex` are taken in both orders |
| `ts_reader` | `TypeScriptServer_reader.cfg` | `ReaderAlive` | a stop at the wrong moment ends the only reader with an exception nobody catches |
| `tu_broken` | `ClangCompleter_broken.cfg` | `BrokenUnitsRemoved` | a reparse that fails in a command leaves a destroyed unit in the store, and the file counts as being parsed until it is unloaded or its flags change |
| `idents_tags` | `IdentifierDatabase_tags.cfg` | `TagsProcessed` | a tag file that could not be read counts as read until it changes |
| `idents_race` | `IdentifierDatabase_race.cfg` | `QueryReadsLiveCandidates` | a query sorts and reads candidates through pointers that an update has made dangling |
| `matching_order` | `Matching_order.cfg` | `RankedAsDocumented` | the comment of the order asks whether all word boundary characters *of a result* are matched, the code whether as many are as the *query* has; for the query abc the code prefers abcd to a_bxc |

One more definition states what the code does not do, and no run is kept for it
(`ReadsEveryStream` of `MessageReader`): a read that ends inside a character
(line 554), or a header line that takes three reads (line 575), ends the pump.
It shows up in a few seconds in `MessagePump.cfg` with `Typed = {2}`, `Reads =
{"any"}` and `Spec`.

### Other observations

The models behave this way too, unless noted.

*Language servers* (lines of `language_server_completer.py`)

* `OnFileSave` inserts a key into the store while another thread iterates it
  (2288); the update fails (`IterationFails`).
* A file that is gone from the disk is sent as an empty document and stays
  open: `GetFileContents` raises nothing, so the `except` of line 2248 is dead
  code and `_PurgeMissingFilesUnderLock` never has anything to do.
* After a protocol error the pump aborts the outstanding requests before it
  closes the streams (370); a request in between waits for its timeout.
* `Shutdown` waits without a bound for a server that ignores the end of its
  input (1191).
* A second parse request before initialisation queues no update (1947, 1962).
* An error answer to initialize ends the pump with a `KeyError` (2453) and leaves
  `_initialize_response` set: the server runs on, and never becomes ready.
* When the exit notification cannot be written, `Close` is skipped (1242): the pump
  and the streams are left to themselves, and the session is reset.
* After a write that failed, the file state says that the server has what it was
  never sent (2207); nothing repairs it, until the server is restarted.
* Writes to a socket take no lock (832), and messages of two threads may mix. An
  observer that the pump starts after `_CancelWatchdogThreads` (302) is never
  stopped. `Shutdown` of a socket that was never connected raises (823).
* A poll that empties a full queue between the two steps of
  `_AddNotificationToQueue` makes the pump discard a message although there is
  room by then (the history variable `raced`).
* A reset in the middle of a poll drops what the poll has taken, or ends it with
  an `AttributeError` at the second `GetConnection()` (2018). A poll that waits
  for the initialisation of a session that is replaced meanwhile waits on the
  old event, until its timeout (2045).

*TypeScript* (lines of `typescript_completer.py`)

* The reader may clear the event a restart has just set (258), and may read
  header and content of one message from two servers (301): `NoAnswerLost` and
  `AnswersDelivered` speak of the first server, until it is stopped.
* A request that cannot be written, or times out, leaves its deferred response
  in `_pending` for ever (364).

*Clang*

* `GetOrCreate` stores the hash of the flags with the sentinel, not again with
  the unit. Two creations with different flags may leave a unit under the hash of
  the other's flags; a removal during a creation lets the unit come back without
  a hash; a creation that fails removes what another thread has stored
  meanwhile. The history variable `disturbed` marks such files, and `OneCreator`
  and `FlagsRespected` speak of the others.
* An update that gets a sentinel answers with no diagnostics.
* `TranslationUnit.cpp`:429 reads the pointer to libclang without the mutex,
  while another thread may set it to null.

*Identifiers*

* Two threads that read the tag file at once may leave the older identifiers
  until it changes again (`tagsRaced`). A path that a new version of the tag
  file no longer mentions keeps its identifiers, and tags replace those of a
  buffer with the same path.

*Matching*

* `within_emoji_modifier` survives a mark that follows a joiner, so that a
  pictograph, a joiner, a mark, a joiner and a pictograph are one character
  where UAX 29, which `Word.cpp`:259 refers to, breaks them. `BreaksFollowRules`
  leaves out texts with a joiner before a mark.
* The same flag stays set over letters, and is reset by a mark that is followed by
  one. So U+2600 U+200D U+0903 á b U+200D U+2600 ends with one character, and with
  the á decomposed with two: equivalent texts whose characters are not the same
  (`Character.cpp`:80). The text is longer than those of the run; it is the case in
  which the proof of `CanonicalEquivalence` failed, which therefore leaves out texts
  with a joiner before a mark too.
* A candidate of more than 80 bytes becomes the empty candidate and never
  matches.
* U+0345 is a mark and folds to a letter. After a code point that joins the next
  (break property PREPEND) it makes a character that is, up to case, that of the
  letter, and has no base where the other has one: the byte filter can reject what
  would match. It is not among the code points of the run, and is what
  `FoldingKeepsBases` excludes.

## 7. What is not modelled

* Most C and C++ of the repository is not ycmd's: of its 33010 lines, about
  27000 are the headers of libclang and pybind11 (`cpp/llvm`, `cpp/pybind11`),
  which are interfaces without behaviour to model, or data
  (`UnicodeTable.inc`). The modules cover about a third of what is ycmd's own
  in `cpp/ycm`, and the core of the language server and TypeScript completers
  in Python. What is left in `cpp/ycm` is conversion (`CompletionData`,
  `ClangHelpers`, `ClangUtils`, `Range`, `Location`, `Documentation`,
  `FixIt`), bindings (`ycm_core.cpp`), and `CompilationDatabase`, whose state is
  one flag around a call of libclang.
* The contents of requests and answers, conversions of positions, ranges and
  fixits: data that no property here tells apart.
* Decoding UTF-8, and the Unicode table itself: code points are given.
  `std::sort` in `CanonicalSort` is taken to keep the order of equal elements.
* `TranslationUnitStore::RemoveAll`, which runs when the process ends.
* HTTP, HMAC and JSON, which wrap libraries.
* Caches: `CompletionsCache`, of which entries may be stored after an
  invalidation (`completers/completer.py`:585), and the include cache, whose
  listing may be older than the time stored with it (`include_cache.py`:88).
  Both are planned.
* The watchdog (a request between its test and the shutdown,
  `watchdog_plugin.py`:84), the extra conf store (two threads that load one
  module, `extra_conf_store.py`:146), and the server state: small, planned.
* What concerns one concrete server only (settings, command lines, Java's
  workspaces and deferred start).
* Real time: a timeout may occur whenever the wait is not over.
* The Python memory model: a step is what runs between two points where the
  interpreter may switch threads and another thread can tell the difference.
