---------------------------- MODULE LspLifecycle ----------------------------
(***************************************************************************)
(* Starting, initialising, shutting down and restarting a language server  *)
(* (LanguageServerCompleter in                                             *)
(* completers/language_server/language_server_completer.py).               *)
(*                                                                         *)
(* Request threads and the message pump threads of the connections share   *)
(* the completer's state; _server_info_mutex protects most of it, and each *)
(* connection has its _response_mutex.  The pump runs the callback of the  *)
(* initialize request while it holds _response_mutex, and that callback    *)
(* takes _server_info_mutex.  Every start of the server is a session: a    *)
(* process that ycmd runs, a connection to it over its pipes or a socket,  *)
(* and its pump.                                                           *)
(***************************************************************************)
EXTENDS Naturals, Sequences

CONSTANTS
  Threads,      \* the threads that handle requests
  Nobody,
  Operations,   \* the requests the editor sends
  MaxRequests,  \* bound: requests
  MaxSessions,  \* bound: starts of the server
  MaxDeaths,    \* bound: servers that die by themselves
  Timeouts      \* the waits that may time out: for the connection to be
                \* established, for the process to exit

ASSUME LspLifecycleAssumption ==
  /\ Operations \subseteq {"parse", "restart", "stop"}
  /\ MaxRequests \in Nat /\ MaxSessions \in Nat /\ MaxDeaths \in Nat
  /\ Threads \cap Nat = {} /\ Nobody \notin Threads \cup Nat
  /\ Timeouts \subseteq {"connect", "exit"}

Sessions == 1 .. MaxSessions

(* The initialize request, and an answer to it that is an error, beside the *)
(* shutdown request of a thread, which is named by the thread.              *)
Initialize == 0
Refusal == 1

VARIABLES
  infoMutex,     \* who holds _server_info_mutex
  session,       \* _connection and _server_handle; 0 is None
  sessions,      \* how many sessions there have been
  started,       \* _server_started
  initResponse,  \* whether _initialize_response is not None
  event,         \* whether _initialize_event is set
  lists,         \* the lists _on_initialize_complete_handlers has been; a
                 \* handler is the number of the request it updates with
  once,          \* whether the once handler of FileReadyToParse is registered
  capabilities,  \* the session whose answer set _server_capabilities
  pc, op, number,\* what each thread does, for which request
  then,          \* what it does after Shutdown
  checked,       \* the session it found initialised
  answer,        \* the answer to the thread's shutdown request
  closing,       \* the session whose connection it closes
  pump, index,   \* what each pump does; its place in which list
  responseMutex, \* who holds _response_mutex of each session's connection
  responses,     \* the requests outstanding on it
  unflushed,     \* the sessions whose pipe still has what could not be written
  alive, input,  \* the server of a session runs, and has an open input
  inbox, wire,   \* requests the server has not answered; answers not read
  initialized,   \* the servers that have answered initialize
  told,          \* the servers that were sent the exit notification
  notified,      \* the servers that were sent the initialized notification
  docs,          \* the number of the request whose contents each server has
  requests, deaths,
  forgotten,     \* history: whether a session was ever forgotten, or replaced
                 \* by another, before its pump was over
  late,          \* history: the servers that were sent a document because
                 \* another server had been initialised
  disturbed      \* history: whether two requests ever ran at a time, a wait
                 \* timed out, or a server died

sessionVars   == <<session, sessions, forgotten>>
completerVars == <<sessionVars, started, initResponse, event, lists, once,
                   capabilities>>
threadVars    == <<pc, op, number, then, checked, answer, closing>>
connVars      == <<pump, index, responseMutex, responses, unflushed, input>>
serverVars    == <<alive, inbox, wire, initialized, told, notified, docs, late>>
boundVars     == <<requests, deaths, disturbed>>

(* What a step of a thread inside the completer leaves alone. *)
outsideVars   == <<op, number, then, checked, answer, closing, connVars,
                   serverVars, boundVars>>

vars ==
  <<infoMutex, completerVars, threadVars, connVars, serverVars, boundVars>>

-----------------------------------------------------------------------------
(* Helpers *)

ServerIsHealthy == session # 0 /\ alive[session]

(* "assert self._connection_event.is_set()" of a socket that has not been   *)
(* connected                                                                *)
Unconnected(s) == pump[s] \in {"connecting", "unreachable"}

Ended(s) == pump[s] \in {"unreachable", "ended"}

(* The pump does nothing more to the completer. *)
Over(s) == Ended(s) \/ pump[s] = "failing"

CanWrite(s) == s # 0 /\ alive[s] /\ input[s] /\ ~ Unconnected(s)

(* What is written to session s, if anything can be.  A pipe that the       *)
(* server has left keeps the message in its buffer.                         *)
Write(s) ==
  unflushed' = IF s # 0 /\ ~ alive[s] /\ input[s] /\ ~ Unconnected(s)
               THEN unflushed \cup {s} ELSE unflushed

Goto(t, label) == pc' = [pc EXCEPT ![t] = label]

(* The request ends, normally or with an exception. *)
Return(t) == Goto(t, "idle")

OnInitializeComplete(r) ==
  lists' = [lists EXCEPT ![Len(lists)] = Append(@, r)]

(* Mutant: the event is not replaced. *)
Reset_KeepsEvent ==
  /\ session' = 0
  /\ initResponse' = FALSE
  /\ lists' = Append(lists, <<>>)
  /\ capabilities' = 0
  /\ UNCHANGED <<sessions, started, once, event, forgotten>>

(* _Reset and ServerReset.  _server_started stays as it is. *)
Reset ==
  /\ session' = 0
  /\ initResponse' = FALSE
  /\ event' = FALSE
  /\ lists' = Append(lists, <<>>)
  /\ capabilities' = 0
  /\ forgotten' = (forgotten \/ (session # 0 /\ ~ Over(session)))
  /\ UNCHANGED <<sessions, started, once>>

(* Mutant: an exception leaves _server_info_mutex locked. *)
ReleaseInfoMutex_Keeps == UNCHANGED infoMutex

(* The end of "with self._server_info_mutex" *)
ReleaseInfoMutex == infoMutex' = Nobody

(* Mutant: the waiting threads are not told. *)
InitializeComplete_Silent == initResponse' = FALSE /\ UNCHANGED event

(* "Notify the other threads that we have completed the initialize exchange" *)
InitializeComplete == initResponse' = FALSE /\ event' = TRUE

(* _UpdateServerWithFileContents, looked at in detail in DocumentSync. *)
Update(r) == docs' = [docs EXCEPT ![session] = r]

-----------------------------------------------------------------------------
(* OnFileReadyToParse *)

BeginRequest(t) ==
  /\ pc[t] = "idle" /\ requests < MaxRequests
  /\ requests' = requests + 1
  /\ number' = [number EXCEPT ![t] = requests + 1]
  /\ \E o \in Operations :
       /\ op' = [op EXCEPT ![t] = o]
       /\ then' = [then EXCEPT ![t] = IF o = "restart" THEN "start" ELSE "idle"]
       /\ Goto(t, IF o = "parse" THEN "parse" ELSE "shutdown")
  /\ disturbed' = (disturbed \/ \E u \in Threads : pc[u] # "idle")
  /\ UNCHANGED <<infoMutex, completerVars, checked, answer, closing, connVars,
                 serverVars, deaths>>

(* "if not self.ServerIsHealthy() and not self._server_started" *)
OnFileReadyToParse(t) ==
  /\ pc[t] = "parse"
  /\ Goto(t, IF ~ ServerIsHealthy /\ ~ started THEN "start" ELSE "check")
  /\ UNCHANGED <<infoMutex, completerVars, outsideVars>>

CheckHealthy(t) ==
  /\ pc[t] = "check"
  /\ Goto(t, IF ServerIsHealthy THEN "check event" ELSE "idle")
  /\ UNCHANGED <<infoMutex, completerVars, outsideVars>>

CheckInitialized(t) ==
  /\ pc[t] = "check event"
  /\ checked' = [checked EXCEPT ![t] = session]
  /\ Goto(t, IF event THEN "update" ELSE "queue")
  /\ UNCHANGED <<infoMutex, completerVars, op, number, then, answer, closing,
                 connVars, serverVars, boundVars>>

QueueHandlers(t) ==
  /\ pc[t] = "queue"
  /\ IF once THEN OnInitializeComplete(number[t])
             ELSE UNCHANGED lists
  /\ Goto(t, "clear")
  /\ UNCHANGED <<infoMutex, sessionVars, started, initResponse, event, once,
                 capabilities, outsideVars>>

ClearOneshotHandlers(t) ==
  /\ pc[t] = "clear"
  /\ once' = FALSE
  /\ Return(t)
  /\ UNCHANGED <<infoMutex, sessionVars, started, initResponse, event, lists,
                 capabilities, outsideVars>>

(* Without a connection, or if it is closed, there is an exception.  The    *)
(* event may have been that of another session by then.                     *)
UpdateServer(t) ==
  /\ pc[t] = "update" /\ infoMutex = Nobody
  /\ IF CanWrite(session)
     THEN /\ Update(number[t])
          /\ once' = FALSE
          /\ late' = IF checked[t] = session THEN late ELSE late \cup {session}
     ELSE UNCHANGED <<docs, once, late>>
  /\ Write(session)
  /\ Return(t)
  /\ UNCHANGED <<infoMutex, sessionVars, started, initResponse, event, lists,
                 capabilities, op, number, then, checked, answer, closing,
                 pump, index, responseMutex, responses, input, alive, inbox,
                 wire, initialized, told, notified, boundVars>>

-----------------------------------------------------------------------------
(* _StartAndInitializeServer *)

StartAndInitializeServer(t) ==
  /\ pc[t] = "start"
  /\ started' = FALSE
  /\ Goto(t, "settings")
  /\ UNCHANGED <<infoMutex, sessionVars, initResponse, event, lists, once,
                 capabilities, outsideVars>>

(* The extra conf may be unknown: the request ends with an exception, and   *)
(* the next one tries again.                                                *)
GetSettings(t) ==
  /\ pc[t] = "settings"
  /\ \/ started' = TRUE /\ Goto(t, "start server")
     \/ UNCHANGED started /\ Return(t)
  /\ UNCHANGED <<infoMutex, sessionVars, initResponse, event, lists, once,
                 capabilities, outsideVars>>

(* The process, the connection and its pump, up to AwaitServerConnection.   *)
(* Whatever session there was is replaced.                                  *)
StartServer(t) ==
  /\ pc[t] = "start server" /\ infoMutex = Nobody
  /\ sessions < MaxSessions
  /\ infoMutex' = t
  /\ sessions' = sessions + 1
  /\ session' = sessions + 1
  /\ forgotten' = (forgotten \/ session # 0)
  /\ alive' = [alive EXCEPT ![sessions + 1] = TRUE]
  /\ input' = [input EXCEPT ![sessions + 1] = TRUE]
  /\ pump' = [pump EXCEPT ![sessions + 1] = "connecting"]
  /\ Goto(t, "await connection")
  /\ UNCHANGED <<started, initResponse, event, lists, once, capabilities, op,
                 number, then, checked, answer, closing, index, responseMutex,
                 responses, unflushed, inbox, wire, initialized, told,
                 notified, docs, late, boundVars>>

(* The program cannot be run. *)
StartServerFails(t) ==
  /\ pc[t] = "start server" /\ infoMutex = Nobody
  /\ Return(t)
  /\ UNCHANGED <<infoMutex, completerVars, outsideVars>>

(* AwaitServerConnection returns. *)
Connected(t) ==
  /\ pc[t] = "await connection" /\ ~ Unconnected(session)
  /\ ReleaseInfoMutex
  /\ Goto(t, "initialize")
  /\ UNCHANGED <<completerVars, outsideVars>>

(* What a request thread does once the server is started. *)
AfterStart(t) == IF op[t] = "parse" THEN "check" ELSE "register"

(* LanguageServerConnectionTimeout: self.Shutdown(), and the server has not *)
(* been started.                                                            *)
ConnectionTimeout(t) ==
  /\ pc[t] = "await connection" /\ Unconnected(session)
  /\ "connect" \in Timeouts
  /\ ReleaseInfoMutex
  /\ then' = [then EXCEPT ![t] = AfterStart(t)]
  /\ Goto(t, "shutdown")
  /\ disturbed' = TRUE
  /\ UNCHANGED <<completerVars, op, number, checked, answer, closing, connVars,
                 serverVars, requests, deaths>>

(* "assert not self._initialize_response"; there must be a connection.      *)
SendInitialize(t) ==
  /\ pc[t] = "initialize" /\ infoMutex = Nobody
  /\ IF initResponse \/ session = 0
     THEN Return(t) /\ UNCHANGED infoMutex
     ELSE Goto(t, "send initialize") /\ infoMutex' = t
  /\ UNCHANGED <<completerVars, outsideVars>>

(* GetResponseAsync: the response is registered ... *)
RegisterInitialize(t) ==
  /\ pc[t] = "send initialize" /\ responseMutex[session] = Nobody
  /\ responses' = [responses EXCEPT ![session] = @ \cup {Initialize}]
  /\ Goto(t, "write initialize")
  /\ UNCHANGED <<infoMutex, completerVars, op, number, then, checked, answer,
                 closing, pump, index, responseMutex, unflushed, input,
                 serverVars, boundVars>>

(* ... and the message written, which fails when the server is gone.        *)
WriteInitialize(t) ==
  /\ pc[t] = "write initialize"
  /\ IF CanWrite(session)
     THEN /\ inbox' = [inbox EXCEPT ![session] = @ \cup {Initialize}]
          /\ initResponse' = TRUE
          /\ Goto(t, AfterStart(t))
     ELSE /\ Return(t)
          /\ UNCHANGED <<inbox, initResponse>>
  /\ Write(session)
  /\ ReleaseInfoMutex
  /\ UNCHANGED <<sessionVars, started, event, lists, once, capabilities, op,
                 number, then, checked, answer, closing, pump, index,
                 responseMutex, responses, input, alive, wire, initialized,
                 told, notified, docs, late, boundVars>>

(* _RestartServer ends with _OnInitializeComplete( an update ). *)
RegisterUpdate(t) ==
  /\ pc[t] = "register"
  /\ OnInitializeComplete(number[t])
  /\ Return(t)
  /\ UNCHANGED <<infoMutex, sessionVars, started, initResponse, event, once,
                 capabilities, outsideVars>>

-----------------------------------------------------------------------------
(* Shutdown *)

Shutdown(t) ==
  /\ pc[t] = "shutdown" /\ infoMutex = Nobody
  /\ IF ServerIsHealthy
     THEN Goto(t, "shutdown server") /\ UNCHANGED completerVars
     ELSE Goto(t, then[t]) /\ Reset
  /\ UNCHANGED <<infoMutex, outsideVars>>

ShutdownServer(t) ==
  /\ pc[t] = "shutdown server" /\ infoMutex = Nobody
  /\ infoMutex' = t
  /\ Goto(t, IF ServerIsHealthy /\ event THEN "shutdown request" ELSE "exit")
  /\ UNCHANGED <<completerVars, outsideVars>>

(* GetResponse, called while _server_info_mutex is held: the response is    *)
(* registered ...                                                           *)
ShutdownRequest(t) ==
  /\ pc[t] = "shutdown request" /\ responseMutex[session] = Nobody
  /\ responses' = [responses EXCEPT ![session] = @ \cup {t}]
  /\ answer' = [answer EXCEPT ![t] = "none"]
  /\ Goto(t, "shutdown write")
  /\ UNCHANGED <<infoMutex, completerVars, op, number, then, checked, closing,
                 pump, index, responseMutex, unflushed, input, serverVars,
                 boundVars>>

(* ... and the request written; what cannot be written is ignored.          *)
WriteShutdown(t) ==
  /\ pc[t] = "shutdown write"
  /\ IF CanWrite(session)
     THEN /\ inbox' = [inbox EXCEPT ![session] = @ \cup {t}]
          /\ Goto(t, "shutdown wait")
     ELSE Goto(t, "exit") /\ UNCHANGED inbox
  /\ Write(session)
  /\ UNCHANGED <<infoMutex, completerVars, op, number, then, checked, answer,
                 closing, pump, index, responseMutex, responses, input, alive,
                 wire, initialized, told, notified, docs, late, boundVars>>

(* Answered, or timed out after 30 seconds; ResponseAbortedException leaves *)
(* ShutdownServer at once.                                                  *)
ShutdownAnswered(t) ==
  /\ pc[t] = "shutdown wait"
  /\ IF answer[t] = "abort"
     THEN Goto(t, "close") /\ ReleaseInfoMutex
     ELSE Goto(t, "exit") /\ UNCHANGED infoMutex
  /\ UNCHANGED <<completerVars, outsideVars>>

(* The exit notification; and "if any threads are waiting for the           *)
(* initialize exchange to complete, release them".                          *)
SendExit(t) ==
  /\ pc[t] = "exit" /\ (ServerIsHealthy => CanWrite(session))
  /\ told' = IF ServerIsHealthy THEN told \cup {session} ELSE told
  /\ IF initResponse /\ ~ event THEN InitializeComplete
                                ELSE UNCHANGED <<initResponse, event>>
  /\ ReleaseInfoMutex
  /\ Goto(t, "close")
  /\ UNCHANGED <<sessionVars, started, lists, once, capabilities, op, number,
                 then, checked, answer, closing, connVars, alive, inbox, wire,
                 initialized, notified, docs, late, boundVars>>

(* What cannot be written raises: the connection is not closed.             *)
SendExitFails(t) ==
  /\ pc[t] = "exit" /\ ServerIsHealthy /\ ~ CanWrite(session)
  /\ ReleaseInfoMutex
  /\ Goto(t, "reset")
  /\ UNCHANGED <<completerVars, outsideVars>>

(* self._connection.Close(), without any mutex.  It raises when the socket  *)
(* is None, as it has not been connected, and when a pipe cannot be flushed.*)
Close(t) ==
  /\ pc[t] = "close"
  /\ \/ /\ session # 0 /\ ~ Unconnected(session)
        /\ closing' = [closing EXCEPT ![t] = session]
        /\ input' = [input EXCEPT ![session] = FALSE]
        /\ Goto(t, "join")
     \/ /\ session # 0 => Unconnected(session) \/ session \in unflushed
        /\ Goto(t, "reset")
        /\ UNCHANGED <<closing, input>>
  /\ unflushed' = unflushed \ {session}
  /\ UNCHANGED <<infoMutex, completerVars, op, number, then, checked, answer,
                 pump, index, responseMutex, responses, serverVars, boundVars>>

(* Mutant: the pump is not waited for. *)
Join_DoesNotWait(t) ==
  /\ pc[t] = "join"
  /\ Goto(t, "streams")
  /\ UNCHANGED <<infoMutex, completerVars, outsideVars>>

(* self.join() *)
Join(t) ==
  /\ pc[t] = "join" /\ Ended(closing[t])
  /\ Goto(t, "streams")
  /\ UNCHANGED <<infoMutex, completerVars, outsideVars>>

(* The streams of self._server_handle, which may be that of another session *)
(* by now.  They are not those of a socket; and the output of a process     *)
(* cannot be closed while its pump reads it.                                *)
CloseStreams(t) ==
  /\ pc[t] = "streams"
  /\ \/ session = 0 /\ Goto(t, "reset") /\ UNCHANGED input
     \/ session # 0 /\ Goto(t, "process") /\ UNCHANGED input
     \/ /\ session # 0 /\ pump[session] \notin {"connecting", "reading"}
        /\ input' = [input EXCEPT ![session] = FALSE]
        /\ Goto(t, "process")
  /\ UNCHANGED <<infoMutex, completerVars, op, number, then, checked, answer,
                 closing, pump, index, responseMutex, responses, unflushed,
                 serverVars, boundVars>>

AwaitProcess(t) ==
  /\ pc[t] = "process" /\ infoMutex = Nobody
  /\ infoMutex' = t
  /\ Goto(t, "wait")
  /\ UNCHANGED <<completerVars, outsideVars>>

(* WaitUntilProcessIsTerminated returns, or raises after 30 seconds: "We    *)
(* leave the process running."                                              *)
ProcessTerminated(t) ==
  /\ pc[t] = "wait" /\ (~ ServerIsHealthy \/ "exit" \in Timeouts)
  /\ ReleaseInfoMutex
  /\ Goto(t, "reset")
  /\ disturbed' = (disturbed \/ ServerIsHealthy)
  /\ UNCHANGED <<completerVars, op, number, then, checked, answer, closing,
                 connVars, serverVars, requests, deaths>>

ShutdownDone(t) ==
  /\ pc[t] = "reset" /\ infoMutex = Nobody
  /\ Reset
  /\ Goto(t, then[t])
  /\ UNCHANGED <<infoMutex, outsideVars>>

-----------------------------------------------------------------------------
(* The message pump of session s                                            *)

(* TryServerConnectionBlocking: at once over the pipes of the process.      *)
Connect(s) ==
  /\ pump[s] = "connecting"
  /\ pump' = [pump EXCEPT ![s] = "reading"]
  /\ UNCHANGED <<infoMutex, completerVars, threadVars, index, responseMutex,
                 responses, unflushed, input, serverVars, boundVars>>

(* No socket could be connected; the connection's Shutdown raises, too.     *)
ConnectFails(s) ==
  /\ pump[s] = "connecting" /\ "connect" \in Timeouts
  /\ pump' = [pump EXCEPT ![s] = "unreachable"]
  /\ disturbed' = TRUE
  /\ UNCHANGED <<infoMutex, completerVars, threadVars, index, responseMutex,
                 responses, unflushed, input, serverVars, requests, deaths>>

(* _DispatchMessage: the answer to initialize.  ResponseReceived, and the   *)
(* callback with it, runs under _response_mutex.                            *)
ReceiveInitialize(s) ==
  /\ pump[s] = "reading" /\ responseMutex[s] = Nobody
  /\ \E m \in wire[s] \cap {Initialize, Refusal} :
       /\ wire' = [wire EXCEPT ![s] = @ \ {m}]
       /\ pump' = [pump EXCEPT ![s] =
                      IF m = Initialize THEN "initialize" ELSE "refused"]
  /\ responseMutex' = [responseMutex EXCEPT ![s] = s]
  /\ UNCHANGED <<infoMutex, completerVars, threadVars, index, responses,
                 unflushed, input, alive, inbox, initialized, told, notified,
                 docs, late, boundVars>>

(* _HandleInitializeInPollThread, up to the release of the info mutex.  The *)
(* state it sets is the completer's, whichever session that is in by now;   *)
(* what cannot be written raises.                                           *)
HandleInitialize(s) ==
  /\ pump[s] = "initialize" /\ infoMutex = Nobody
  /\ capabilities' = s
  /\ IF CanWrite(session)
     THEN /\ notified' = notified \cup {session}
          /\ InitializeComplete
          /\ pump' = [pump EXCEPT ![s] = "handlers"]
          /\ index' = [index EXCEPT ![s] = <<Len(lists), 1>>]
     ELSE /\ pump' = [pump EXCEPT ![s] = "failing"]
          /\ UNCHANGED <<notified, initResponse, event, index>>
  /\ Write(session)
  /\ UNCHANGED <<infoMutex, sessionVars, started, lists, once, threadVars,
                 responseMutex, responses, input, alive, inbox, wire,
                 initialized, told, docs, late, boundVars>>

(* "response[ 'result' ]": an error has none, and ends the pump. *)
HandleRefusal(s) ==
  /\ pump[s] = "refused" /\ infoMutex = Nobody
  /\ pump' = [pump EXCEPT ![s] = "failing"]
  /\ UNCHANGED <<infoMutex, completerVars, threadVars, index, responseMutex,
                 responses, unflushed, input, serverVars, boundVars>>

HasHandler(s) == index[s][2] <= Len(lists[index[s][1]])

(* for handler in self._on_initialize_complete_handlers: handler( self )    *)
RunHandler(s) ==
  /\ pump[s] = "handlers" /\ HasHandler(s) /\ infoMutex = Nobody
  /\ LET r == lists[index[s][1]][index[s][2]]
     IN IF CanWrite(session)
        THEN /\ Update(r)
             /\ index' = [index EXCEPT ![s] = <<@[1], @[2] + 1>>]
             /\ UNCHANGED pump
        ELSE /\ pump' = [pump EXCEPT ![s] = "failing"]
             /\ UNCHANGED <<docs, index>>
  /\ Write(session)
  /\ UNCHANGED <<infoMutex, completerVars, threadVars, responseMutex,
                 responses, input, alive, inbox, wire, initialized, told,
                 notified, late, boundVars>>

HandlersDone(s) ==
  /\ pump[s] = "handlers" /\ ~ HasHandler(s)
  /\ pump' = [pump EXCEPT ![s] = "clear"]
  /\ UNCHANGED <<infoMutex, completerVars, threadVars, index, responseMutex,
                 responses, unflushed, input, serverVars, boundVars>>

(* self._on_initialize_complete_handlers = [], and back in _DispatchMessage *)
ClearHandlers(s) ==
  /\ pump[s] = "clear"
  /\ lists' = Append(lists, <<>>)
  /\ responses' = [responses EXCEPT ![s] = @ \ {Initialize}]
  /\ responseMutex' = [responseMutex EXCEPT ![s] = Nobody]
  /\ pump' = [pump EXCEPT ![s] = "reading"]
  /\ UNCHANGED <<infoMutex, sessionVars, started, initResponse, event, once,
                 capabilities, threadVars, index, unflushed, input, serverVars,
                 boundVars>>

ReceiveShutdown(s) ==
  /\ pump[s] = "reading" /\ responseMutex[s] = Nobody
  /\ \E t \in wire[s] \cap Threads :
       /\ wire' = [wire EXCEPT ![s] = @ \ {t}]
       /\ responses' = [responses EXCEPT ![s] = @ \ {t}]
       /\ answer' = [answer EXCEPT ![t] = "result"]
  /\ UNCHANGED <<infoMutex, completerVars, pc, op, number, then, checked,
                 closing, pump, index, responseMutex, unflushed, input, alive,
                 inbox, initialized, told, notified, docs, late, boundVars>>

(* The end of the stream, a stream that was closed, or an exception: all    *)
(* responses are aborted; the callback of initialize then does nothing.     *)
Abort(s) ==
  /\ \/ pump[s] = "reading" /\ ~ input[s]
     \/ pump[s] = "reading" /\ wire[s] = {} /\ ~ alive[s]
     \/ pump[s] = "failing"
  /\ responseMutex[s] \in {Nobody, s}
  /\ responseMutex' = [responseMutex EXCEPT ![s] = Nobody]
  /\ answer' =
       [t \in Threads |-> IF t \in responses[s] THEN "abort" ELSE answer[t]]
  /\ responses' = [responses EXCEPT ![s] = {}]
  /\ input' = [input EXCEPT ![s] = @ /\ pump[s] # "failing"]
  /\ pump' = [pump EXCEPT ![s] = "ended"]
  /\ UNCHANGED <<infoMutex, completerVars, pc, op, number, then, checked,
                 closing, index, unflushed, serverVars, boundVars>>

-----------------------------------------------------------------------------
(* The server of session s                                                  *)

(* The answer to initialize may be an error. *)
Reply(s) ==
  /\ alive[s]
  /\ \E m \in inbox[s] :
       /\ inbox' = [inbox EXCEPT ![s] = @ \ {m}]
       /\ \/ /\ wire' = [wire EXCEPT ![s] = @ \cup {m}]
             /\ initialized' = IF m = Initialize THEN initialized \cup {s}
                                                 ELSE initialized
          \/ /\ m = Initialize
             /\ wire' = [wire EXCEPT ![s] = @ \cup {Refusal}]
             /\ UNCHANGED initialized
  /\ UNCHANGED <<infoMutex, completerVars, threadVars, connVars, alive, told,
                 notified, docs, late, boundVars>>

(* The server was told to exit, or has lost its input. *)
Exit(s) ==
  /\ alive[s] /\ (s \in told \/ ~ input[s])
  /\ alive' = [alive EXCEPT ![s] = FALSE]
  /\ UNCHANGED <<infoMutex, completerVars, threadVars, connVars, inbox, wire,
                 initialized, told, notified, docs, late, boundVars>>

Die(s) ==
  /\ alive[s] /\ deaths < MaxDeaths
  /\ deaths' = deaths + 1
  /\ disturbed' = TRUE
  /\ alive' = [alive EXCEPT ![s] = FALSE]
  /\ UNCHANGED <<infoMutex, completerVars, threadVars, connVars, inbox, wire,
                 initialized, told, notified, docs, late, requests>>

-----------------------------------------------------------------------------
Init ==
  /\ infoMutex = Nobody
  /\ session = 0 /\ sessions = 0
  /\ started = FALSE /\ initResponse = FALSE /\ event = FALSE
  /\ lists = <<<<>>>>
  /\ once = TRUE
  /\ capabilities = 0
  /\ pc = [t \in Threads |-> "idle"]
  /\ op = [t \in Threads |-> "stop"]
  /\ number = [t \in Threads |-> 0]
  /\ then = [t \in Threads |-> "idle"]
  /\ checked = [t \in Threads |-> 0]
  /\ answer = [t \in Threads |-> "none"]
  /\ closing = [t \in Threads |-> 0]
  /\ pump = [s \in Sessions |-> "none"]
  /\ index = [s \in Sessions |-> <<1, 1>>]
  /\ responseMutex = [s \in Sessions |-> Nobody]
  /\ responses = [s \in Sessions |-> {}]
  /\ unflushed = {}
  /\ alive = [s \in Sessions |-> FALSE]
  /\ input = [s \in Sessions |-> FALSE]
  /\ inbox = [s \in Sessions |-> {}] /\ wire = [s \in Sessions |-> {}]
  /\ initialized = {} /\ told = {} /\ notified = {}
  /\ docs = [s \in Sessions |-> 0]
  /\ requests = 0 /\ deaths = 0
  /\ forgotten = FALSE /\ late = {} /\ disturbed = FALSE

Work(t) ==
  \/ OnFileReadyToParse(t) \/ CheckHealthy(t) \/ CheckInitialized(t)
  \/ QueueHandlers(t) \/ ClearOneshotHandlers(t) \/ UpdateServer(t)
  \/ StartAndInitializeServer(t) \/ GetSettings(t) \/ StartServer(t)
  \/ StartServerFails(t) \/ Connected(t) \/ ConnectionTimeout(t)
  \/ SendInitialize(t) \/ RegisterInitialize(t) \/ WriteInitialize(t)
  \/ RegisterUpdate(t)
  \/ Shutdown(t) \/ ShutdownServer(t) \/ ShutdownRequest(t)
  \/ WriteShutdown(t) \/ ShutdownAnswered(t) \/ SendExit(t)
  \/ SendExitFails(t) \/ Close(t) \/ Join(t) \/ CloseStreams(t)
  \/ AwaitProcess(t) \/ ProcessTerminated(t) \/ ShutdownDone(t)

Pump(s) ==
  \/ Connect(s) \/ ConnectFails(s)
  \/ ReceiveInitialize(s) \/ HandleInitialize(s) \/ HandleRefusal(s)
  \/ RunHandler(s) \/ HandlersDone(s) \/ ClearHandlers(s)
  \/ ReceiveShutdown(s) \/ Abort(s)

Next ==
  \/ \E t \in Threads : BeginRequest(t) \/ Work(t)
  \/ \E s \in Sessions : Pump(s) \/ Reply(s) \/ Exit(s) \/ Die(s)

Spec == Init /\ [][Next]_vars

(* Threads that can run are run; the server answers, and exits when told.   *)
FairSpec ==
  /\ Spec
  /\ \A t \in Threads : WF_vars(Work(t))
  /\ \A s \in Sessions : WF_vars(Pump(s))
  /\ \A s \in Sessions : WF_vars(Reply(s)) /\ WF_vars(Exit(s))

-----------------------------------------------------------------------------
(* Properties                                                               *)

(* Where a request may be. *)
Places ==
  {"idle", "parse", "check", "check event", "queue", "clear", "update",
   "start", "settings", "start server", "await connection", "initialize",
   "send initialize", "write initialize", "register", "shutdown",
   "shutdown server", "shutdown request", "shutdown write", "shutdown wait",
   "exit", "close", "join", "streams", "process", "wait", "reset"}

PumpPlaces ==
  {"none", "connecting", "unreachable", "reading", "initialize", "refused",
   "handlers", "clear", "failing", "ended"}

Messages == Threads \cup {Initialize, Refusal}

(* Every variable has its type. *)
TypeOK ==
  /\ infoMutex \in Threads \cup {Nobody}
  /\ session \in 0 .. sessions /\ sessions \in 0 .. MaxSessions
  /\ started \in BOOLEAN /\ initResponse \in BOOLEAN /\ event \in BOOLEAN
  /\ lists \in Seq(Seq(1 .. MaxRequests))
  /\ once \in BOOLEAN
  /\ capabilities \in 0 .. MaxSessions
  /\ pc \in [Threads -> Places] /\ then \in [Threads -> Places]
  /\ op \in [Threads -> {"parse", "restart", "stop"}]
  /\ number \in [Threads -> 0 .. MaxRequests]
  /\ checked \in [Threads -> 0 .. MaxSessions]
  /\ answer \in [Threads -> {"none", "result", "abort"}]
  /\ closing \in [Threads -> 0 .. MaxSessions]
  /\ pump \in [Sessions -> PumpPlaces]
  /\ index \in [Sessions -> Nat \X Nat]
  /\ responseMutex \in [Sessions -> Sessions \cup {Nobody}]
  /\ responses \in [Sessions -> SUBSET Messages]
  /\ unflushed \subseteq Sessions
  /\ alive \in [Sessions -> BOOLEAN] /\ input \in [Sessions -> BOOLEAN]
  /\ inbox \in [Sessions -> SUBSET Messages]
  /\ wire \in [Sessions -> SUBSET Messages]
  /\ initialized \subseteq Sessions
  /\ told \subseteq Sessions /\ notified \subseteq Sessions
  /\ docs \in [Sessions -> 0 .. MaxRequests]
  /\ requests \in 0 .. MaxRequests /\ deaths \in 0 .. MaxDeaths
  /\ forgotten \in BOOLEAN /\ late \subseteq Sessions
  /\ disturbed \in BOOLEAN

(* _SendInitialize: "Implementations must not issue further requests to the *)
(* server until the initialize exchange has completed".  As long as no      *)
(* session was forgotten before its pump was over, a server that was sent  *)
(* the initialized notification has answered initialize; so has one that    *)
(* was sent a document, unless the event that the thread looked at was that *)
(* of another session, or was set because the server was told to exit.      *)
NotBeforeInitialized ==
  ~ forgotten =>
    \A s \in Sessions :
      s \in notified \/ (docs[s] # 0 /\ s \notin late \cup told)
      => s \in initialized

(* The event, the capabilities and the notification are those of one        *)
(* session.  As long as no session was forgotten before its pump was over, *)
(* _initialize_event is set for a server that runs, and has not been told   *)
(* to exit or lost its input, only if the capabilities are those it sent    *)
(* and it is the one that was told so; whoever starts, stops and restarts   *)
(* servers meanwhile, and whichever die.                                    *)
EventOfSession ==
  ~ forgotten /\ event /\ ServerIsHealthy /\ input[session]
    /\ session \notin told
  => capabilities = session /\ session \in notified

(* _OnInitializeComplete: "if the server is shut down or reset, the         *)
(* callback is not called".  As long as there was one request at a time, no *)
(* wait timed out and no server died, the pump of a session is over when    *)
(* the session is reset: Close waits for it.                                *)
NothingForgotten == disturbed \/ ~ forgotten

(* __init__: "We need to make sure that multiple client requests don't try  *)
(* to start or stop the server simultaneously, so we also do all server     *)
(* start/stop/etc. operations under this mutex": a server that runs without *)
(* having been told to exit, or having lost its input, is the one the       *)
(* completer knows of.                                                      *)
NoOrphanServer ==
  \A s \in Sessions : alive[s] /\ input[s] /\ s \notin told => s = session

(* _ServerIsInitialized: "Returns True if the server is running and the     *)
(* initialization exchange has completed successfully.": it has, unless the *)
(* event was set because the server was told to exit.                       *)
InitializedTruly ==
  ServerIsHealthy /\ event /\ session \notin told => session \in initialized

(* _SendInitialize: "Implementations must not issue further requests to the *)
(* server until the initialize exchange has completed": while no session    *)
(* was forgotten, a server that was sent a document, and not told to exit,  *)
(* has answered.                                                            *)
DocumentsWait ==
  ~ forgotten =>
    \A s \in Sessions : docs[s] # 0 /\ s \notin told => s \in initialized

(* __init__: "Acquiring this mutex from the poll thread can lead to         *)
(* deadlocks.  Currently, this is avoided": no thread that holds            *)
(* _server_info_mutex waits for the _response_mutex of a pump that waits    *)
(* for _server_info_mutex.                                                  *)
NoDeadlock ==
  ~ \E t \in Threads :
      /\ infoMutex = t /\ pc[t] \in {"shutdown request", "send initialize"}
      /\ responseMutex[session] = session
      /\ \/ pump[session] \in {"initialize", "refused"}
         \/ pump[session] = "handlers" /\ HasHandler(session)

(* Whatever the server does, a request comes to an end. *)
RequestsReturn == \A t \in Threads : pc[t] # "idle" ~> pc[t] = "idle"

(* A server that is started becomes ready, unless it is gone. *)
ServerBecomesReady ==
  \A s \in Sessions :
    session = s ~> (session = s /\ event) \/ session # s \/ ~ alive[s]
-----------------------------------------------------------------------------
(* The parts of an inductive invariant.                                     *)

(* A handler updates a server for a request there was; a pump calls those   *)
(* of one list after the other.                                             *)
HandlersInv ==
  /\ lists # <<>>
  /\ \A t \in Threads : pc[t] # "idle" => number[t] \in 1 .. MaxRequests
  /\ \A s \in Sessions : pump[s] = "handlers" =>
       index[s][1] \in DOMAIN lists /\ index[s][2] # 0

(* Where a thread holds _server_info_mutex from one step to the next.       *)
Holding ==
  {"await connection", "send initialize", "write initialize",
   "shutdown request", "shutdown write", "shutdown wait", "exit", "wait"}

(* A session in which initialize is sent is not exchanged meanwhile.        *)
MutexInv ==
  \A t \in Threads :
    /\ pc[t] \in Holding <=> infoMutex = t
    /\ pc[t] \in {"send initialize", "write initialize"} => session # 0
    /\ then[t] \in {"idle", "start", "check", "register"}

(* Whose answer to initialize is under way, or handled, has answered.       *)
ExchangeInv ==
  \A s \in Sessions :
    Initialize \in wire[s] \/ pump[s] \in {"initialize", "handlers", "clear"}
    => s \in initialized

(* Without a session there is no initialize request, and no event.          *)
NoSessionInv == session = 0 => ~ initResponse /\ ~ event

(* Nothing is left of the other sessions that would act.                    *)
PumpInv ==
  ~ forgotten => \A s \in Sessions \ {session} : pump[s] = "none" \/ Over(s)

(* What the event says of the session, and what a thread has seen of one.   *)
EventInv ==
  ~ forgotten =>
    /\ event /\ session # 0 =>
         \/ ~ alive[session] \/ session \in told
         \/ /\ capabilities = session
            /\ session \in notified /\ session \in initialized
    /\ \A t \in Threads : pc[t] = "update" =>
         /\ checked[t] \in 1 .. sessions
         /\ ~ alive[checked[t]] \/ checked[t] \in told \cup initialized

SessionInv ==
  /\ MutexInv /\ ExchangeInv /\ NoSessionInv /\ PumpInv /\ EventInv
  /\ NotBeforeInitialized
=============================================================================
