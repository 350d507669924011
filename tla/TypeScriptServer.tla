--------------------------- MODULE TypeScriptServer ---------------------------
(***************************************************************************)
(* The TypeScript completer and its server (TypeScriptCompleter and        *)
(* DeferredResponse in completers/typescript/typescript_completer.py).     *)
(*                                                                         *)
(* Request threads register a deferred response, write the request to the  *)
(* server of the moment and wait.  One reader thread, which lives as long  *)
(* as the completer, reads from the server of the moment, and sleeps on an *)
(* event while there is none.  Starts and stops hold _tsserver_lock, which *)
(* neither the requests nor the reader take.                               *)
(*                                                                         *)
(* _SetServerVersion, which runs in a thread of its own after each start,  *)
(* is one more request.  A header and its content are each read at once.   *)
(***************************************************************************)
EXTENDS Naturals, Sequences

CONSTANTS
  Threads,      \* the threads that handle requests
  Nobody,
  Operations,   \* what they do
  SlowExit,     \* whether a server may take more than 5 seconds to exit
  MaxRequests,  \* bound: operations
  MaxServers,   \* bound: servers started
  MaxEvents,    \* bound: events the servers send by themselves
  MaxDeaths     \* bound: servers that exit without being told to

ASSUME TypeScriptServerAssumption ==
  /\ Operations \subseteq {"request", "restart", "stop"}
  /\ MaxRequests \in Nat /\ MaxServers \in Nat \ {0}
  /\ SlowExit \in BOOLEAN
  /\ MaxEvents \in Nat /\ MaxDeaths \in Nat
  /\ Nobody \notin Threads

Servers == 1 .. MaxServers
Seqs    == 1 .. MaxRequests
Event   == 0   \* a message that is an event; responses are named by their seq

VARIABLES
  lock,       \* who holds _tsserver_lock
  handle,     \* _tsserver_handle; 0 is None
  running,    \* whether the event _tsserver_is_running is set
  started,    \* how many servers there have been
  pending,    \* _pending: the requests whose response is waited for
  resolved,   \* the requests whose deferred response has its message
  pc, op,     \* what each thread does
  seq,        \* the request it waits for
  sequenceId, \* _sequenceid
  reader,     \* what the reader thread does
  from,       \* the server whose header it has read, or waits for
  message,    \* the message it is reading
  process,    \* each server is "unborn", "running", "exiting" (its output is
              \* closed, but its process is there) or "gone"
  input, output, \* the ends of its streams that ycmd holds are open
  exit,       \* the servers that were told to exit
  unflushed,  \* the servers with a write that failed: its bytes are still in
              \* the buffer of the stream
  inbox, wire,\* requests each server has; its messages that were not read
  sentTo,     \* the server each request was written to
  replied,    \* the requests that were answered
  operations, events, deaths

stateVars  == <<lock, handle, running, started>>
deferVars  == <<pending, resolved>>
threadVars == <<pc, op, seq, sequenceId>>
readerVars == <<reader, from, message>>
streamVars == <<input, output, exit, unflushed>>
serverVars == <<process, inbox, wire, replied>>
boundVars  == <<operations, events, deaths>>
vars == <<stateVars, deferVars, threadVars, readerVars, streamVars, serverVars,
          sentTo, boundVars>>

-----------------------------------------------------------------------------
(* Helpers *)

Goto(t, label) == pc' = [pc EXCEPT ![t] = label]

(* The operation ends, normally or with an exception. *)
Return(t) ==
  /\ Goto(t, "idle")
  /\ op' = [op EXCEPT ![t] = "none"]
  /\ seq' = [seq EXCEPT ![t] = 0]

(* ProcessIsRunning( self._tsserver_handle ) *)
ServerIsRunning == handle # 0 /\ process[handle] # "gone"

(* A write reaches a server that is there, or has just left it.             *)
CanWrite ==
  /\ handle # 0 /\ input[handle] /\ process[handle] # "gone"
  /\ handle \notin unflushed

(* Without a handle there is an AttributeError, with a closed stream a      *)
(* ValueError, without a process an OSError: then the bytes stay where they *)
(* are, and every later flush fails as well.                                *)
WriteFails ==
  /\ handle # 0 /\ input[handle] => process[handle] # "running"
  /\ unflushed' = unflushed \cup {s \in {handle} \ {0} : input[s]}

(* A thread begins one of the operations. *)
Begin(t) ==
  /\ pc[t] = "idle" /\ operations < MaxRequests
  /\ operations' = operations + 1
  /\ \E o \in Operations :
       /\ op' = [op EXCEPT ![t] = o]
       /\ Goto(t, IF o = "request" THEN "build" ELSE "lock")
  /\ UNCHANGED <<stateVars, deferVars, seq, sequenceId, readerVars,
                 streamVars, serverVars, sentTo, events, deaths>>

-----------------------------------------------------------------------------
(* _SendRequest                                                             *)

(* Mutant: the request is written before its response is registered. *)
NextStep_WritesFirst(label) ==
  CASE label = "build"    -> "write"
    [] label = "write"    -> "register"
    [] label = "register" -> "await"

NextStep(label) ==
  CASE label = "build"    -> "register"
    [] label = "register" -> "write"
    [] label = "write"    -> "await"

BuildRequest(t) ==
  /\ pc[t] = "build" /\ sequenceId < MaxRequests
  /\ sequenceId' = sequenceId + 1
  /\ seq' = [seq EXCEPT ![t] = sequenceId + 1]
  /\ Goto(t, NextStep("build"))
  /\ UNCHANGED <<stateVars, deferVars, op, readerVars, streamVars, serverVars,
                 sentTo, boundVars>>

RegisterResponse(t) ==
  /\ pc[t] = "register"
  /\ pending' = pending \cup {seq[t]}
  /\ Goto(t, NextStep("register"))
  /\ UNCHANGED <<stateVars, resolved, op, seq, sequenceId, readerVars,
                 streamVars, serverVars, sentTo, boundVars>>

WriteRequest(t) ==
  /\ pc[t] = "write" /\ CanWrite
  /\ inbox' = [inbox EXCEPT ![handle] = @ \cup {seq[t]}]
  /\ sentTo' = [sentTo EXCEPT ![seq[t]] = handle]
  /\ Goto(t, NextStep("write"))
  /\ UNCHANGED <<stateVars, deferVars, op, seq, sequenceId, readerVars,
                 streamVars, process, wire, replied, boundVars>>

(* The response stays in _pending. *)
WriteRequestFails(t) ==
  /\ pc[t] = "write" /\ WriteFails
  /\ Return(t)
  /\ UNCHANGED <<stateVars, deferVars, sequenceId, readerVars, input, output,
                 exit, serverVars, sentTo, boundVars>>

(* The deferred result: the message or, after 10 seconds, RuntimeError. *)
Result(t) ==
  /\ pc[t] = "await" /\ seq[t] \in resolved
  /\ Return(t)
  /\ UNCHANGED <<stateVars, deferVars, sequenceId, readerVars, streamVars,
                 serverVars, sentTo, boundVars>>

ResponseTimeout(t) ==
  /\ pc[t] = "await" /\ seq[t] \notin resolved
  /\ Return(t)
  /\ UNCHANGED <<stateVars, deferVars, sequenceId, readerVars, streamVars,
                 serverVars, sentTo, boundVars>>

-----------------------------------------------------------------------------
(* _RestartServer, _StopServer                                              *)

(* Mutant: the lock is not taken. *)
AcquireLock_NoLock(t) ==
  /\ pc[t] = "lock"
  /\ Goto(t, "stop")
  /\ UNCHANGED <<stateVars, deferVars, op, seq, sequenceId, readerVars,
                 streamVars, serverVars, sentTo, boundVars>>

AcquireLock(t) ==
  /\ pc[t] = "lock" /\ lock = Nobody
  /\ lock' = t
  /\ Goto(t, "stop")
  /\ UNCHANGED <<handle, running, started, deferVars, op, seq, sequenceId,
                 readerVars, streamVars, serverVars, sentTo, boundVars>>

StopServer(t) ==
  /\ pc[t] = "stop"
  /\ IF ServerIsRunning
     THEN CanWrite /\ exit' = exit \cup {handle} /\ Goto(t, "wait")
     ELSE Goto(t, "close input") /\ UNCHANGED exit
  /\ UNCHANGED <<stateVars, deferVars, op, seq, sequenceId, readerVars, input,
                 output, unflushed, serverVars, sentTo, boundVars>>

(* The exit command cannot be written, which is logged; nobody waits then.  *)
StopServerFails(t) ==
  /\ pc[t] = "stop" /\ ServerIsRunning /\ WriteFails
  /\ Goto(t, "close input")
  /\ UNCHANGED <<stateVars, deferVars, op, seq, sequenceId, readerVars, input,
                 output, exit, serverVars, sentTo, boundVars>>

(* WaitUntilProcessIsTerminated, for 5 seconds; a timeout is logged. *)
WaitForExit(t) ==
  /\ pc[t] = "wait" /\ (SlowExit \/ ~ ServerIsRunning)
  /\ Goto(t, "close input")
  /\ UNCHANGED <<stateVars, deferVars, op, seq, sequenceId, readerVars,
                 streamVars, serverVars, sentTo, boundVars>>

(* CloseStandardStreams: to close the input flushes it.  When that raises    *)
(* it is closed nevertheless, and the restart or stop ends with the          *)
(* exception: the handle and the output stay as they are.                   *)
CloseInput(t) ==
  /\ pc[t] = "close input"
  /\ input' = [s \in Servers |-> s # handle /\ input[s]]
  /\ Goto(t, IF handle = 0 THEN "forget"
             ELSE IF input[handle] /\ handle \in unflushed THEN "release"
             ELSE "close output")
  /\ UNCHANGED <<stateVars, deferVars, op, seq, sequenceId, readerVars,
                 output, exit, unflushed, serverVars, sentTo, boundVars>>

(* A stream cannot be closed while another thread reads from it. *)
CloseOutput(t) ==
  /\ pc[t] = "close output"
  /\ ~ (reader = "header" /\ from = handle)
  /\ output' = [output EXCEPT ![handle] = FALSE]
  /\ Goto(t, "forget")
  /\ UNCHANGED <<stateVars, deferVars, op, seq, sequenceId, readerVars, input,
                 exit, unflushed, serverVars, sentTo, boundVars>>

ForgetHandle(t) ==
  /\ pc[t] = "forget"
  /\ handle' = 0
  /\ Goto(t, IF op[t] = "restart" THEN "start" ELSE "release")
  /\ UNCHANGED <<lock, running, started, deferVars, op, seq, sequenceId,
                 readerVars, streamVars, serverVars, sentTo, boundVars>>

(* "if self._ServerIsRunning(): return", or the program cannot be run. *)
StartNothing(t) ==
  /\ pc[t] = "start"
  /\ Goto(t, "release")
  /\ UNCHANGED <<stateVars, deferVars, op, seq, sequenceId, readerVars,
                 streamVars, serverVars, sentTo, boundVars>>

StartServer(t) ==
  /\ pc[t] = "start" /\ ~ ServerIsRunning /\ started < MaxServers
  /\ started' = started + 1
  /\ handle' = started + 1
  /\ process' = [process EXCEPT ![started + 1] = "running"]
  /\ input' = [input EXCEPT ![started + 1] = TRUE]
  /\ output' = [output EXCEPT ![started + 1] = TRUE]
  /\ Goto(t, "set")
  /\ UNCHANGED <<lock, running, deferVars, op, seq, sequenceId, readerVars,
                 exit, unflushed, inbox, wire, replied, sentTo, boundVars>>

SetRunning(t) ==
  /\ pc[t] = "set"
  /\ running' = TRUE
  /\ Goto(t, "visit")
  /\ UNCHANGED <<lock, handle, started, deferVars, op, seq, sequenceId,
                 readerVars, streamVars, serverVars, sentTo, boundVars>>

(* OnBufferVisit: an open command, for which there is no answer.            *)
VisitBuffer(t) ==
  /\ pc[t] = "visit"
  /\ (CanWrite /\ UNCHANGED unflushed) \/ WriteFails
  /\ Goto(t, "release")
  /\ UNCHANGED <<stateVars, deferVars, op, seq, sequenceId, readerVars, input,
                 output, exit, serverVars, sentTo, boundVars>>

(* Mutant: the lock is kept. *)
ReleaseLock_Keeps(t) ==
  /\ pc[t] = "release"
  /\ Return(t)
  /\ UNCHANGED <<stateVars, deferVars, sequenceId, readerVars, streamVars,
                 serverVars, sentTo, boundVars>>

(* The end of the with block, also after an exception. *)
ReleaseLock(t) ==
  /\ pc[t] = "release"
  /\ lock' = Nobody
  /\ Return(t)
  /\ UNCHANGED <<handle, running, started, deferVars, sequenceId, readerVars,
                 streamVars, serverVars, sentTo, boundVars>>

-----------------------------------------------------------------------------
(* _ReaderLoop, _ReadMessage                                                *)

WaitRunning ==
  /\ reader = "wait" /\ running
  /\ reader' = "read"
  /\ UNCHANGED <<stateVars, deferVars, threadVars, from, message, streamVars,
                 serverVars, sentTo, boundVars>>

(* What was read of a message is given up. *)
Fail(label) == reader' = label /\ from' = 0 /\ message' = Event

(* self._tsserver_handle.stdout: the AttributeError of None is not caught   *)
(* and ends the thread, the ValueError of a closed stream is.               *)
BeginRead ==
  /\ reader = "read"
  /\ reader' = CASE handle = 0 -> "dead"
                 [] handle # 0 /\ ~ output[handle] -> "error"
                 [] handle # 0 /\ output[handle] -> "header"
  /\ from' = handle
  /\ UNCHANGED <<stateVars, deferVars, threadVars, message, streamVars,
                 serverVars, sentTo, boundVars>>

ReadHeader ==
  /\ reader = "header" /\ wire[from] # <<>>
  /\ message' = Head(wire[from])
  /\ wire' = [wire EXCEPT ![from] = Tail(@)]
  /\ reader' = "content"
  /\ UNCHANGED <<stateVars, deferVars, threadVars, from, streamVars, process,
                 inbox, replied, sentTo, boundVars>>

EndOfFile(s) == wire[s] = <<>> /\ process[s] \in {"exiting", "gone"}

(* "Missing 'Content-Length' header" *)
ReadNoHeader ==
  /\ reader = "header" /\ EndOfFile(from)
  /\ Fail("error")
  /\ UNCHANGED <<stateVars, deferVars, threadVars, streamVars, serverVars,
                 sentTo, boundVars>>

ReadContent ==
  /\ reader = "content" /\ handle = from
  /\ IF output[handle] THEN reader' = "dispatch" /\ UNCHANGED <<from,
                                                                message>>
                       ELSE Fail("error")
  /\ UNCHANGED <<stateVars, deferVars, threadVars, streamVars, serverVars,
                 sentTo, boundVars>>

(* self._tsserver_handle is looked up again for the content: as many bytes  *)
(* of another server's messages are not JSON.                               *)
ReadOtherContent ==
  /\ reader = "content" /\ handle # from
  /\ \/ handle = 0 /\ Fail("dead") /\ UNCHANGED wire
     \/ /\ handle # 0 /\ (~ output[handle] \/ EndOfFile(handle))
        /\ Fail("error") /\ UNCHANGED wire
     \/ /\ handle # 0 /\ output[handle] /\ wire[handle] # <<>>
        /\ wire' = [wire EXCEPT ![handle] = Tail(@)]
        /\ Fail("error")
  /\ UNCHANGED <<stateVars, deferVars, threadVars, streamVars, process, inbox,
                 replied, sentTo, boundVars>>

(* "if not self._ServerIsRunning()" *)
CheckRunning ==
  /\ reader = "error"
  /\ reader' = IF ServerIsRunning THEN "wait" ELSE "clear"
  /\ UNCHANGED <<stateVars, deferVars, threadVars, from, message, streamVars,
                 serverVars, sentTo, boundVars>>

ClearRunning ==
  /\ reader = "clear"
  /\ running' = FALSE
  /\ reader' = "wait"
  /\ UNCHANGED <<lock, handle, started, deferVars, threadVars, from, message,
                 streamVars, serverVars, sentTo, boundVars>>

(* Mutant: the response is taken from _pending but not resolved. *)
Resolve_Forgets(i) == pending' = pending \ {i} /\ UNCHANGED resolved

Resolve(i) == pending' = pending \ {i} /\ resolved' = resolved \cup {i}

(* An event, or an answer nobody waits for, is dropped. *)
HandleMessage ==
  /\ reader = "dispatch"
  /\ IF message \in pending THEN Resolve(message) ELSE UNCHANGED deferVars
  /\ reader' = "wait" /\ from' = 0 /\ message' = Event
  /\ UNCHANGED <<stateVars, threadVars, streamVars, serverVars, sentTo,
                 boundVars>>

-----------------------------------------------------------------------------
(* The servers                                                              *)

Reply(s) ==
  /\ process[s] = "running"
  /\ \E i \in inbox[s] :
       /\ inbox' = [inbox EXCEPT ![s] = @ \ {i}]
       /\ wire' = [wire EXCEPT ![s] = Append(@, i)]
       /\ replied' = replied \cup {i}
  /\ UNCHANGED <<stateVars, deferVars, threadVars, readerVars, streamVars,
                 process, sentTo, boundVars>>

SendEvent(s) ==
  /\ process[s] = "running" /\ events < MaxEvents
  /\ events' = events + 1
  /\ wire' = [wire EXCEPT ![s] = Append(@, Event)]
  /\ UNCHANGED <<stateVars, deferVars, threadVars, readerVars, streamVars,
                 process, inbox, replied, sentTo, operations, deaths>>

(* A server exits when it is told to, or has lost its input. *)
Exit(s) ==
  /\ process[s] = "running" /\ (s \in exit \/ ~ input[s])
  /\ process' = [process EXCEPT ![s] = "exiting"]
  /\ UNCHANGED <<stateVars, deferVars, threadVars, readerVars, streamVars,
                 inbox, wire, replied, sentTo, boundVars>>

Die(s) ==
  /\ process[s] = "running" /\ deaths < MaxDeaths
  /\ deaths' = deaths + 1
  /\ process' = [process EXCEPT ![s] = "exiting"]
  /\ UNCHANGED <<stateVars, deferVars, threadVars, readerVars, streamVars,
                 inbox, wire, replied, sentTo, operations, events>>

Gone(s) ==
  /\ process[s] = "exiting"
  /\ process' = [process EXCEPT ![s] = "gone"]
  /\ UNCHANGED <<stateVars, deferVars, threadVars, readerVars, streamVars,
                 inbox, wire, replied, sentTo, boundVars>>

-----------------------------------------------------------------------------
(* The completer has started its first server. *)
Init ==
  /\ lock = Nobody /\ handle = 1 /\ running = TRUE /\ started = 1
  /\ pending = {} /\ resolved = {}
  /\ pc = [t \in Threads |-> "idle"]
  /\ op = [t \in Threads |-> "none"]
  /\ seq = [t \in Threads |-> 0]
  /\ sequenceId = 0
  /\ reader = "wait" /\ from = 0 /\ message = Event
  /\ process = [s \in Servers |-> IF s = 1 THEN "running" ELSE "unborn"]
  /\ input = [s \in Servers |-> s = 1] /\ output = [s \in Servers |-> s = 1]
  /\ exit = {} /\ unflushed = {}
  /\ inbox = [s \in Servers |-> {}] /\ wire = [s \in Servers |-> <<>>]
  /\ sentTo = [i \in Seqs |-> 0]
  /\ replied = {}
  /\ operations = 0 /\ events = 0 /\ deaths = 0

Work(t) ==
  \/ BuildRequest(t) \/ RegisterResponse(t)
  \/ WriteRequest(t) \/ WriteRequestFails(t)
  \/ Result(t) \/ ResponseTimeout(t)
  \/ AcquireLock(t) \/ StopServer(t) \/ StopServerFails(t) \/ WaitForExit(t)
  \/ CloseInput(t) \/ CloseOutput(t) \/ ForgetHandle(t)
  \/ StartNothing(t) \/ StartServer(t) \/ SetRunning(t) \/ VisitBuffer(t)
  \/ ReleaseLock(t)

ReaderLoop ==
  \/ WaitRunning \/ BeginRead \/ ReadHeader \/ ReadNoHeader
  \/ ReadContent \/ ReadOtherContent
  \/ CheckRunning \/ ClearRunning \/ HandleMessage

Server(s) == Reply(s) \/ SendEvent(s) \/ Exit(s) \/ Die(s) \/ Gone(s)

Next ==
  \/ \E t \in Threads : Begin(t) \/ Work(t)
  \/ ReaderLoop
  \/ \E s \in Servers : Server(s)

Spec == Init /\ [][Next]_vars

(* The threads run when they can, and a server that is told to exit does.   *)
(* Nothing makes a server answer.                                           *)
FairSpec ==
  /\ Spec
  /\ \A t \in Threads : WF_vars(Work(t))
  /\ WF_vars(ReaderLoop)
  /\ \A s \in Servers : WF_vars(Exit(s)) /\ WF_vars(Gone(s))

-----------------------------------------------------------------------------
(* Properties                                                               *)

Locked == {"stop", "wait", "close input", "close output", "forget", "start",
           "set", "visit", "release"}

Labels ==
  Locked \cup {"idle", "build", "register", "write", "await", "lock"}

(* Every variable has its type, and _tsserver_lock is held by the one       *)
(* thread that starts or stops the server, if any.                          *)
TypeOK ==
  /\ handle \in 0 .. started /\ started \in Servers /\ running \in BOOLEAN
  /\ pending \subseteq Seqs /\ resolved \subseteq Seqs
  /\ pc \in [Threads -> Labels]
  /\ op \in [Threads -> {"none", "request", "restart", "stop"}]
  /\ seq \in [Threads -> 0 .. sequenceId] /\ sequenceId \in 0 .. MaxRequests
  /\ reader \in {"wait", "read", "header", "content", "dispatch", "error",
                 "clear", "dead"}
  /\ from \in 0 .. MaxServers /\ message \in Seqs \cup {Event}
  /\ process \in [Servers -> {"unborn", "running", "exiting", "gone"}]
  /\ input \in [Servers -> BOOLEAN] /\ output \in [Servers -> BOOLEAN]
  /\ exit \subseteq Servers /\ unflushed \subseteq Servers
  /\ inbox \in [Servers -> SUBSET Seqs]
  /\ wire \in [Servers -> Seq(Seqs \cup {Event})]
  /\ sentTo \in [Seqs -> 0 .. MaxServers] /\ replied \subseteq Seqs
  /\ {t \in Threads : pc[t] \in Locked} = {lock} \ {Nobody}

(* A thread that waits for its deferred result is never forgotten: the      *)
(* result is there, or the reader knows whom to give it to.                 *)
NoLostDeferred ==
  \A t \in Threads : pc[t] = "await" => seq[t] \in pending \cup resolved

(* _ReaderLoop: "Read responses from TSServer and use them to resolve the   *)
(* DeferredResponse instances": until it is first stopped, what the server  *)
(* has answered is still to be read, is being read, or was given to who     *)
(* waits for it.                                                            *)
NoAnswerLost ==
  \A i \in replied \cap pending :
    handle = 1 /\ output[1] /\ sentTo[i] = 1 =>
      \/ \E n \in DOMAIN wire[1] : wire[1][n] = i
      \/ message = i /\ reader \in {"content", "dispatch"}

(* There is one server: any other was told to exit, or has lost its input.  *)
OneServer ==
  \A s \in Servers :
    process[s] = "running" /\ s # handle => s \in exit \/ ~ input[s]

(* A restart or stop comes to an end. *)
LockReleased == \A t \in Threads : pc[t] = "lock" ~> pc[t] = "idle"

(* A request that the server answers is given its answer, unless that       *)
(* server is stopped.                                                       *)
AnswersDelivered ==
  \A i \in Seqs :
    i \in replied /\ sentTo[i] = 1 ~> i \in resolved \/ handle # 1

(* The reader thread, whose loop is to "read responses from TSServer and    *)
(* use them to resolve the DeferredResponse instances", lives as long as    *)
(* the completer: no start or stop of the server ends it.                   *)
ReaderAlive == reader # "dead"
-----------------------------------------------------------------------------
(* The parts of an inductive invariant.                                     *)

Waiting == {"register", "write", "await"}

(* Every request under way has a number of its own; it is registered before *)
(* it is written, and no server knows it before that.                       *)
SeqInv ==
  /\ \A t \in Threads : pc[t] \in Waiting =>
       /\ seq[t] \in 1 .. sequenceId
       /\ \A t2 \in Threads : pc[t2] \in Waiting /\ seq[t2] = seq[t] => t2 = t
       /\ pc[t] # "register" => seq[t] \in pending \cup resolved
       /\ pc[t] # "await" =>
            /\ seq[t] \notin replied
            /\ \A s \in Servers : seq[t] \notin inbox[s]
  /\ \A i \in Seqs : i > sequenceId =>
       i \notin replied /\ \A s \in Servers : i \notin inbox[s]

(* The handle is the server that was started last, or none.  The thread     *)
(* that holds the lock has closed the input of the server it forgets.       *)
ServerInv ==
  /\ handle \in {0, started}
  /\ \A s \in Servers : s > started => process[s] = "unborn"
  /\ \A t \in Threads :
       /\ pc[t] = "close output" => handle # 0
       /\ pc[t] \in {"close output", "forget"} /\ handle # 0 => ~ input[handle]
       /\ pc[t] = "start" => handle = 0

(* The reader reads from a server there was, and has a message only while   *)
(* it handles it.                                                           *)
ReaderInv ==
  /\ from \in 0 .. started
  /\ reader \in {"header", "content", "dispatch"} => from # 0

(* What a server has not answered was sent to it.                           *)
InboxInv == \A s \in Servers : \A i \in inbox[s] : sentTo[i] = s

IInv ==
  /\ TypeOK /\ SeqInv /\ ServerInv /\ ReaderInv /\ InboxInv
  /\ OneServer /\ NoAnswerLost
=============================================================================
