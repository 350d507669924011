---------------------------- MODULE LspConnection ----------------------------
(***************************************************************************)
(* LanguageServerConnection and Response                                   *)
(* (completers/language_server/language_server_completer.py): request      *)
(* threads issue requests and wait for the answers, a message pump thread  *)
(* reads what the server writes and hands every answer to the thread that  *)
(* waits for it, and a thread that shuts the server down stops the pump.   *)
(*                                                                         *)
(* What is done under _response_mutex is one step here; LspLifecycle looks *)
(* at that mutex and at the callback that runs while it is held.  Reading  *)
(* from standard output holds _stdout_lock, so does closing it; writing to *)
(* standard input holds _stdin_lock, but writing to a socket holds nothing *)
(* and two threads' messages may mix.                                      *)
(***************************************************************************)
EXTENDS Naturals, Sequences

CONSTANTS
  Threads,       \* the threads that issue requests
  Transports,    \* "stdio", "tcp", or both
  MaxRequests,   \* bound: requests issued on the connection
  MaxMessages    \* bound: messages the server sends unasked

ASSUME LspConnectionAssumption ==
  /\ Transports \subseteq {"stdio", "tcp"}
  /\ MaxRequests \in Nat /\ MaxMessages \in Nat

VARIABLES
  transport,  \* the class of the connection: standard streams or one socket
  faulty,     \* whether the server breaks the protocol
  connected,  \* _connection_event is set; for TCP, there is a socket
  lastId,     \* _last_id
  responses,  \* _responses: the ids of the requests not answered yet
  answer,     \* what each Response object has received
  pc, id,     \* what each request thread does, and the id of its request, or 0
  stopped,    \* _stop_event
  input,      \* whether ycmd's end of the server's standard input is open,
  output,     \*   and of its standard output; for TCP, the one socket
  unflushed,  \* what could not be written is still in the input's buffer
  garbled,    \* two messages were mixed on their way to the server
  observers,  \* how many of _observers run: they tell the server of files
  pump,       \* what the message pump does
  message,    \* the message it has read
  closer,     \* what the thread that shuts the server down does
  alive,      \* the server runs
  inbox,      \* the requests it has received and not answered
  replied,    \* those it has answered
  wire,       \* what it has written and the pump has not read
  unasked     \* how many messages it has sent unasked

clientVars == <<lastId, responses, answer, pc, id>>
closeVars  == <<stopped, closer>>
streamVars == <<transport, faulty, connected, input, output>>
writeVars  == <<unflushed, garbled>>
pumpVars   == <<pump, message, observers>>
serverVars == <<alive, inbox, replied, wire, unasked>>
vars ==
  <<clientVars, closeVars, streamVars, writeVars, pumpVars, serverVars>>

Ids == 1 .. MaxRequests

(* The state of a Response: its event is set unless it is "none". *)
Answers == {"none", "result", "error", "abort"}

NoMessage == [type |-> "none"]
Messages  == [type : {"response"}, id : Ids, answer : {"result", "error"}] \cup
             [type : {"request", "register", "unregister", "notification",
                      "malformed", "stray"}]

-----------------------------------------------------------------------------
(* A request: GetResponse = NextRequestId, GetResponseAsync, AwaitResponse. *)

NextRequestId(t) ==
  /\ pc[t] = "idle" /\ connected
  /\ lastId < MaxRequests
  /\ lastId' = lastId + 1
  /\ id' = [id EXCEPT ![t] = lastId + 1]
  /\ pc' = [pc EXCEPT ![t] = "register"]
  /\ UNCHANGED <<responses, answer, closeVars, streamVars, writeVars, pumpVars,
                 serverVars>>

Register(t) ==
  /\ pc[t] = "register"
  /\ responses' = responses \cup {id[t]}
  /\ pc' = [pc EXCEPT ![t] = "write"]
  /\ UNCHANGED <<lastId, answer, id, closeVars, streamVars, writeVars, pumpVars,
                 serverVars>>

(* The call returns or raises, as its answer, or the want of one, tells.    *)
Return(t) ==
  /\ pc' = [pc EXCEPT ![t] = "idle"]
  /\ id' = [id EXCEPT ![t] = 0]

(* The server takes what is written while it runs.  Once it is gone, a      *)
(* pipe is broken; a socket may swallow some more.                          *)
CanWrite  == input /\ (alive \/ transport = "tcp")
CannotWrite == ~ input \/ ~ alive

(* A message written while a thread is in the middle of its own mixes with  *)
(* it; what the server reads from then on makes no sense to it.             *)
Mixes(writers) ==
  /\ garbled' = (garbled \/ \E t \in writers : pc[t] = "writing")
  /\ UNCHANGED unflushed

(* A broken pipe leaves the message in the buffer of the stream.            *)
LeavesUnflushed ==
  /\ unflushed' = (unflushed \/ (transport = "stdio" /\ input))
  /\ UNCHANGED garbled

(* "total_sent += sent": the socket has taken a part of the message.        *)
BeginWrite(t) ==
  /\ pc[t] = "write" /\ transport = "tcp" /\ CanWrite
  /\ Mixes(Threads \ {t})
  /\ pc' = [pc EXCEPT ![t] = "writing"]
  /\ UNCHANGED <<lastId, responses, answer, id, closeVars, streamVars,
                 pumpVars, serverVars>>

(* The rest of the message, or the whole.                                   *)
WriteData(t) ==
  /\ pc[t] \in {"write", "writing"} /\ CanWrite
  /\ Mixes(Threads \ {t})
  /\ inbox' = IF garbled' THEN inbox ELSE inbox \cup {id[t]}
  /\ pc' = [pc EXCEPT ![t] = "await"]
  /\ UNCHANGED <<lastId, responses, answer, id, closeVars, streamVars,
                 pumpVars, alive, replied, wire, unasked>>

(* WriteData raises; the response stays registered. *)
WriteFails(t) ==
  /\ pc[t] \in {"write", "writing"} /\ CannotWrite
  /\ LeavesUnflushed
  /\ Return(t)
  /\ UNCHANGED <<lastId, responses, answer, closeVars, streamVars, pumpVars,
                 serverVars>>

AwaitResponse(t) ==
  /\ pc[t] = "await"
  /\ answer[id[t]] # "none"
  /\ Return(t)
  /\ UNCHANGED <<lastId, responses, answer, closeVars, streamVars, writeVars,
                 pumpVars, serverVars>>

(* ResponseTimeoutException; the response stays registered. *)
ResponseTimeout(t) ==
  /\ pc[t] = "await"
  /\ answer[id[t]] = "none"
  /\ Return(t)
  /\ UNCHANGED <<lastId, responses, answer, closeVars, streamVars, writeVars,
                 pumpVars, serverVars>>

-----------------------------------------------------------------------------
(* The message pump: run, _ReadMessages, _DispatchMessage.                  *)

Connect ==
  /\ pump = "connecting"
  /\ connected' = TRUE
  /\ pump' = "ready"
  /\ UNCHANGED <<transport, faulty, input, output, message, observers,
                 clientVars, closeVars, writeVars, serverVars>>

(* TryServerConnectionBlocking gives up: there will be no socket.           *)
ConnectFails ==
  /\ pump = "connecting" /\ transport = "tcp"
  /\ pump' = "failing"
  /\ UNCHANGED <<message, observers, clientVars, closeVars, streamVars,
                 writeVars, serverVars>>

(* Mutant: a clean end does not abort the requests. *)
NoData_Silent == pump' = IF stopped THEN "ended" ELSE "failing"

(* Mutant: reading is tried again. *)
NoData_Retries == pump' = IF stopped THEN "stopping" ELSE "ready"

(* No more data: "Connection severed when (not self.IsStopped()) means the  *)
(* server died unexpectedly."                                               *)
NoData == pump' = IF stopped THEN "stopping" ELSE "failing"

BeginRead ==
  /\ pump = "ready"
  /\ IF output THEN pump' = "reading" ELSE NoData
  /\ UNCHANGED <<message, observers, clientVars, closeVars, streamVars,
                 writeVars, serverVars>>

Read ==
  /\ pump = "reading" /\ wire # <<>>
  /\ message' = Head(wire)
  /\ wire' = Tail(wire)
  /\ pump' = "dispatch"
  /\ UNCHANGED <<observers, clientVars, closeVars, streamVars, writeVars, alive,
                 inbox, replied, unasked>>

(* End of file.  A socket's recv returns b'', which is not the '' that      *)
(* ReadData looks for: it is taken for data and reading goes on, unless the *)
(* server reset the connection and recv raises.                             *)
ReadEndOfFile ==
  /\ pump = "reading" /\ wire = <<>> /\ ~ alive
  /\ NoData \/ (transport = "tcp" /\ pump' = "ready")
  /\ UNCHANGED <<message, observers, clientVars, closeVars, streamVars,
                 writeVars, serverVars>>

(* Mutant: every request that waits gets the answer. *)
ResponseReceived_Broadcast(i, a) ==
  /\ answer' = [j \in Ids |-> IF j \in responses THEN a ELSE answer[j]]
  /\ responses' = {}

ResponseReceived(i, a) ==
  /\ answer' = [answer EXCEPT ![i] = a]
  /\ responses' = responses \ {i}

DispatchResponse ==
  /\ pump = "dispatch" /\ message.type = "response"
  /\ message.id \in responses
  /\ ResponseReceived(message.id, message.answer)
  /\ pump' = "ready" /\ message' = NoMessage
  /\ UNCHANGED <<lastId, pc, id, observers, closeVars, streamVars, writeVars,
                 serverVars>>

(* Requests of the server.  A registration for didChangeWatchedFiles starts *)
(* an observer, and one that is taken back stops them all, before the       *)
(* answer is written.                                                       *)
Asks == {"request", "register", "unregister"}

HandleRegistrations ==
  observers' = CASE message.type = "register"   -> observers + 1
                 [] message.type = "unregister" -> 0
                 [] OTHER                       -> observers

(* A notification is queued (see NotificationQueue); a request of the       *)
(* server is answered at once, whatever its method is.                      *)
DispatchOther ==
  /\ pump = "dispatch"
  /\ \/ message.type = "notification" /\ UNCHANGED writeVars
     \/ message.type \in Asks /\ CanWrite /\ Mixes(Threads)
  /\ HandleRegistrations
  /\ pump' = "ready" /\ message' = NoMessage
  /\ UNCHANGED <<clientVars, closeVars, streamVars, serverVars>>

(* An exception leaves _ReadMessages: no Content-Length, an assertion about *)
(* the id of a response, an answer that cannot be written.                  *)
DispatchFails ==
  /\ pump = "dispatch"
  /\ \/ message.type \in {"malformed", "stray"} /\ UNCHANGED writeVars
     \/ message.type = "response" /\ message.id \notin responses
        /\ UNCHANGED writeVars
     \/ message.type \in Asks /\ CannotWrite /\ LeavesUnflushed
  /\ HandleRegistrations
  /\ pump' = "failing" /\ message' = NoMessage
  /\ UNCHANGED <<clientVars, closeVars, streamVars, serverVars>>

(* Mutant: the requests are dropped, not aborted. *)
AbortResponses_Forgets ==
  /\ pump \in {"stopping", "failing"}
  /\ responses' = {}
  /\ pump' = IF pump = "stopping" THEN "ended" ELSE "cancelling"
  /\ UNCHANGED <<lastId, answer, pc, id, message, observers, closeVars,
                 streamVars, writeVars, serverVars>>

(* Mutant: requests that were answered are aborted too. *)
AbortResponses_All ==
  /\ pump \in {"stopping", "failing"}
  /\ answer' = [i \in Ids |-> IF i <= lastId THEN "abort" ELSE answer[i]]
  /\ responses' = {}
  /\ pump' = IF pump = "stopping" THEN "ended" ELSE "cancelling"
  /\ UNCHANGED <<lastId, pc, id, message, observers, closeVars, streamVars,
                 writeVars, serverVars>>

AbortResponses ==
  /\ pump \in {"stopping", "failing"}
  /\ answer' = [i \in Ids |-> IF i \in responses THEN "abort" ELSE answer[i]]
  /\ responses' = {}
  /\ pump' = IF pump = "stopping" THEN "ended" ELSE "cancelling"
  /\ UNCHANGED <<lastId, pc, id, message, observers, closeVars, streamVars,
                 writeVars, serverVars>>

(* Shutdown, of the pump and of Close, begins with _CancelWatchdogThreads.  *)
CancelWatchdogThreads == observers' = 0

(* Then it closes the socket, which raises when there is none; or the       *)
(* standard streams, which raises at the first when that cannot be flushed. *)
NoSocket == transport = "tcp" /\ ~ connected
ClosingInputRaises == input /\ unflushed

PumpCancelsWatchdogs ==
  /\ pump = "cancelling"
  /\ CancelWatchdogThreads
  /\ pump' = "closing"
  /\ UNCHANGED <<message, clientVars, closeVars, streamVars, writeVars,
                 serverVars>>

(* "Close any remaining sockets or files" *)
PumpShutdown ==
  /\ pump = "closing"
  /\ input'  = (input /\ NoSocket)
  /\ output' = (output /\ (NoSocket \/ ClosingInputRaises))
  /\ pump' = "ended"
  /\ UNCHANGED <<transport, faulty, connected, message, observers, clientVars,
                 closeVars, writeVars, serverVars>>

-----------------------------------------------------------------------------
(* Stop and Close, called by LanguageServerCompleter.Shutdown; also when    *)
(* AwaitServerConnection has given up waiting for the pump to connect.      *)

Stop ==
  /\ closer = "running"
  /\ stopped' = TRUE
  /\ closer' = "cancel"
  /\ UNCHANGED <<clientVars, streamVars, writeVars, pumpVars, serverVars>>

(* The server is not healthy, or the exit notification cannot be written:   *)
(* Shutdown does not come to Close.                                         *)
NotClosed ==
  /\ closer = "cancel"
  /\ CannotWrite \/ NoSocket
  /\ closer' = "skipped"
  /\ UNCHANGED <<stopped, clientVars, streamVars, writeVars, pumpVars,
                 serverVars>>

CloserCancelsWatchdogs ==
  /\ closer = "cancel"
  /\ CancelWatchdogThreads
  /\ closer' = "close"
  /\ UNCHANGED <<stopped, pump, message, clientVars, streamVars, writeVars,
                 serverVars>>

AfterInput == IF transport = "tcp" THEN "join" ELSE "output"

(* Mutant: the server's standard input (or the socket) is left open. *)
CloseInput_LeavesOpen ==
  /\ closer = "close"
  /\ closer' = AfterInput
  /\ UNCHANGED <<stopped, clientVars, streamVars, writeVars, pumpVars,
                 serverVars>>

(* An exception leaves Close before the pump is joined.                     *)
CloseInput ==
  /\ closer = "close"
  /\ input'  = (input /\ NoSocket)
  /\ output' = (output /\ (transport = "stdio" \/ NoSocket))
  /\ closer' = IF NoSocket \/ ClosingInputRaises THEN "failed" ELSE AfterInput
  /\ UNCHANGED <<stopped, transport, faulty, connected, clientVars, writeVars,
                 pumpVars, serverVars>>

(* The pump holds _stdout_lock for as long as a read blocks. *)
CloseOutput ==
  /\ closer = "output" /\ pump # "reading"
  /\ output' = FALSE
  /\ closer' = "join"
  /\ UNCHANGED <<stopped, transport, faulty, connected, input, clientVars,
                 writeVars, pumpVars, serverVars>>

Join ==
  /\ closer = "join" /\ pump = "ended"
  /\ closer' = "closed"
  /\ UNCHANGED <<stopped, clientVars, streamVars, writeVars, pumpVars,
                 serverVars>>

-----------------------------------------------------------------------------
(* A watchdog observer tells the server of a file that changed; it ends     *)
(* with the exception when that cannot be written.                          *)
Observe ==
  /\ observers > 0
  /\ \/ CanWrite /\ Mixes(Threads) /\ UNCHANGED observers
     \/ CannotWrite /\ LeavesUnflushed /\ observers' = observers - 1
  /\ UNCHANGED <<pump, message, clientVars, closeVars, streamVars, serverVars>>

-----------------------------------------------------------------------------
(* The server: answers what it has received, in any order or not at all,    *)
(* sends messages of its own, and dies.                                     *)

Reply ==
  /\ alive
  /\ \E i \in inbox, a \in {"result", "error"} :
       /\ wire' = Append(wire, [type |-> "response", id |-> i, answer |-> a])
       /\ inbox' = inbox \ {i}
       /\ replied' = replied \cup {i}
  /\ UNCHANGED <<alive, unasked, clientVars, closeVars, streamVars, writeVars,
                 pumpVars>>

Unasked ==
  Asks \cup {"notification"} \cup
  (IF faulty \/ garbled THEN {"malformed", "stray"} ELSE {})

SendUnasked ==
  /\ alive /\ unasked < MaxMessages
  /\ \E type \in Unasked :
       wire' = Append(wire, [type |-> type])
  /\ unasked' = unasked + 1
  /\ UNCHANGED <<alive, inbox, replied, clientVars, closeVars, streamVars,
                 writeVars, pumpVars>>

Die ==
  /\ alive
  /\ alive' = FALSE
  /\ UNCHANGED <<inbox, replied, wire, unasked, clientVars, closeVars,
                 streamVars, writeVars, pumpVars>>

(* A server that has lost its input exits; it was told to before.           *)
Exit == ~ input /\ Die

-----------------------------------------------------------------------------
Init ==
  /\ transport \in Transports /\ faulty \in BOOLEAN
  /\ lastId = 0
  /\ responses = {}
  /\ answer = [i \in Ids |-> "none"]
  /\ pc = [t \in Threads |-> "idle"]
  /\ id = [t \in Threads |-> 0]
  /\ connected = FALSE /\ stopped = FALSE
  /\ input = TRUE /\ output = TRUE
  /\ unflushed = FALSE /\ garbled = FALSE /\ observers = 0
  /\ pump = "connecting" /\ message = NoMessage
  /\ closer = "running"
  /\ alive = TRUE /\ inbox = {} /\ replied = {}
  /\ wire = <<>> /\ unasked = 0

Request(t) ==
  \/ NextRequestId(t) \/ Register(t) \/ BeginWrite(t) \/ WriteData(t)
  \/ WriteFails(t) \/ AwaitResponse(t) \/ ResponseTimeout(t)

Pump ==
  \/ Connect \/ ConnectFails \/ BeginRead \/ Read \/ ReadEndOfFile
  \/ DispatchResponse \/ DispatchOther \/ DispatchFails
  \/ AbortResponses \/ PumpCancelsWatchdogs \/ PumpShutdown

Close ==
  NotClosed \/ CloserCancelsWatchdogs \/ CloseInput \/ CloseOutput \/ Join

Server == Reply \/ SendUnasked \/ Die

Next ==
  \/ \E t \in Threads : Request(t)
  \/ Pump \/ Stop \/ Close \/ Observe \/ Server

Spec == Init /\ [][Next]_vars

(* The threads of ycmd run when they can.  Nothing is said of the server.   *)
FairSpec == Spec /\ WF_vars(Pump) /\ WF_vars(Close)

(* Moreover, the server exits once its standard input is closed.            *)
OrderlySpec == FairSpec /\ WF_vars(Exit)

-----------------------------------------------------------------------------
(* Properties                                                               *)

(* Every variable has its type. *)
TypeOK ==
  /\ transport \in Transports /\ faulty \in BOOLEAN
  /\ lastId \in 0 .. MaxRequests
  /\ responses \subseteq Ids
  /\ answer \in [Ids -> Answers]
  /\ pc \in [Threads -> {"idle", "register", "write", "writing", "await"}]
  /\ id \in [Threads -> 0 .. MaxRequests]
  /\ connected \in BOOLEAN /\ stopped \in BOOLEAN
  /\ input \in BOOLEAN /\ output \in BOOLEAN
  /\ unflushed \in BOOLEAN /\ garbled \in BOOLEAN /\ observers \in Nat
  /\ pump \in {"connecting", "ready", "reading", "dispatch", "stopping",
               "failing", "cancelling", "closing", "ended"}
  /\ message \in Messages \cup {NoMessage}
  /\ closer \in {"running", "cancel", "close", "output", "join",
                 "closed", "failed", "skipped"}
  /\ alive \in BOOLEAN
  /\ inbox \subseteq Ids /\ replied \subseteq Ids
  /\ wire \in Seq(Messages)
  /\ unasked \in Nat

(* A thread that waits in AwaitResponse is never forgotten: its event is    *)
(* set, or the pump still knows the response and will set it.               *)
NoLostResponse ==
  \A t \in Threads : pc[t] = "await" =>
    answer[id[t]] # "none" \/ id[t] \in responses

(* AwaitResponse "throws ResponseAbortedException in case the server is     *)
(* shut down": over standard streams, when the pump has ended because the   *)
(* server is gone or ycmd stopped it, nobody is left waiting for an answer  *)
(* that only the pump can give.  (After a protocol error the requests are   *)
(* aborted before the streams are closed, and a socket takes requests that  *)
(* no one will read: there the timeout is what ends the wait.)              *)
NobodyLeftWaiting ==
  transport = "stdio" /\ ~ faulty /\ pump = "ended" =>
    \A t \in Threads : pc[t] = "await" => answer[id[t]] # "none"

(* ResponseReceived is called at most once for a Response: what a waiting   *)
(* thread was told is not taken back by a late answer or by an abort.       *)
AnsweredOnce ==
  [][\A i \in Ids : answer[i] # "none" => answer'[i] = answer[i]]_vars

(* A request's answer is the answer to that request, and an abort means     *)
(* that the pump is at its end.                                             *)
AnswersAreTrue ==
  \A i \in Ids :
    /\ answer[i] \in {"result", "error"} => i \in replied
    /\ answer[i] = "abort" => pump \in {"cancelling", "closing", "ended"}

(* ReadData of StandardIOLanguageServerConnection: "Connection to server    *)
(* died": when the server is gone, the pump comes to its end (and aborts    *)
(* the outstanding requests).                                               *)
DeathNoticed == transport = "stdio" /\ ~ alive ~> pump = "ended"

(* ReadData of TCPSingleStreamConnection: "The socket was closed" is to be  *)
(* noticed in the same way.                                                 *)
SocketClosedNoticed == transport = "tcp" /\ ~ alive ~> pump = "ended"

(* Shutdown: "To ensure that isn't blocked, we close all of our connections *)
(* and wait for the process to exit": the thread that closes the connection *)
(* waits for the pump, which holds the lock of the stream it reads and      *)
(* waits for the server, which waits for its input; closing comes to an     *)
(* end, with an exception where it cannot be completed.                     *)
CloseReturns ==
  closer = "cancel" ~> closer \in {"closed", "failed", "skipped"}
-----------------------------------------------------------------------------
(* The parts of an inductive invariant.                                     *)

Issued == 1 .. lastId

(* An answer to a request, among the messages. *)
IsResponse(m) == m.type = "response"

(* Every request under way has an id of its own, which nobody has heard of  *)
(* before it is registered, and the server not before it is written.        *)
IdInv ==
  /\ responses \cup inbox \cup replied \subseteq Issued
  /\ \A i \in Ids \ Issued : answer[i] = "none"
  /\ \A t \in Threads : pc[t] # "idle" =>
       /\ id[t] \in Issued
       /\ \A t2 \in Threads : pc[t2] # "idle" /\ id[t2] = id[t] => t2 = t
       /\ pc[t] = "register" =>
            id[t] \notin responses /\ answer[id[t]] = "none"
       /\ pc[t] # "await" => id[t] \notin inbox \cup replied

(* A response is registered until it is received or aborted.                *)
ResponseInv ==
  /\ \A i \in responses : answer[i] = "none"
  /\ \A t \in Threads : pc[t] \in {"write", "writing", "await"} =>
       answer[id[t]] # "none" \/ id[t] \in responses

(* What the server has sent are answers to requests it has received, one    *)
(* for each.                                                                *)
WireInv ==
  /\ inbox \cap replied = {}
  /\ \A n \in DOMAIN wire : IsResponse(wire[n]) =>
       /\ wire[n].id \in replied
       /\ \A k \in DOMAIN wire :
            IsResponse(wire[k]) /\ wire[k].id = wire[n].id => k = n
       /\ IsResponse(message) => message.id # wire[n].id
  /\ IsResponse(message) => message.id \in replied

(* Until the pump aborts them, the responses of the requests that the       *)
(* server has received, and of the answers under way, are registered.       *)
PendingInv ==
  pump \notin {"cancelling", "closing", "ended"} =>
    /\ inbox \subseteq responses
    /\ \A n \in DOMAIN wire : IsResponse(wire[n]) => wire[n].id \in responses
    /\ IsResponse(message) => message.id \in responses

(* Over standard streams, the pump comes to its end when nothing can be     *)
(* written any more, unless the server breaks the protocol; and then nobody *)
(* waits for an answer.                                                     *)
EndInv ==
  /\ \A n \in DOMAIN wire :
       wire[n].type \in {"malformed", "stray"} => faulty \/ garbled
  /\ message.type \in {"malformed", "stray"} => faulty \/ garbled
  /\ pump = "dispatch" <=> message # NoMessage
  /\ transport = "stdio" =>
       /\ ~ garbled /\ \A t \in Threads : pc[t] # "writing"
       /\ closer \in {"output", "join", "closed"} => ~ input
       /\ ~ output => ~ input
  /\ transport = "stdio" /\ ~ faulty =>
       /\ pump \in {"stopping", "failing", "cancelling", "closing", "ended"} =>
            CannotWrite
       /\ pump \in {"cancelling", "closing", "ended"} =>
            \A t \in Threads : pc[t] = "await" => answer[id[t]] # "none"

IInv ==
  /\ TypeOK /\ IdInv /\ ResponseInv /\ WireInv /\ PendingInv
  /\ AnswersAreTrue /\ EndInv
=============================================================================
