------------------------- MODULE LspLifecycle_proofs --------------------------
(***************************************************************************)
(* Proofs about LspLifecycle, for any threads, requests and sessions, and  *)
(* whatever dies or times out.                                             *)
(*                                                                         *)
(* The argument: _initialize_event, the capabilities and the answer that    *)
(* the pump handles belong to one session as long as no session has been   *)
(* forgotten before its pump was over.  For then the pumps of the other     *)
(* sessions do nothing more to the completer (PumpInv); so the pump that    *)
(* handles an answer to initialize is that of the session, whose server    *)
(* has answered (ExchangeInv), and _initialize_event is set for a server    *)
(* that has answered, or that was told to exit or is gone (EventInv).  A    *)
(* session is replaced, or reset, only under the mutex, which a thread      *)
(* holds between the check of a session and what it writes to it           *)
(* (MutexInv).                                                             *)
(***************************************************************************)
EXTENDS LspLifecycle, SequenceTheorems, TLAPS

USE LspLifecycleAssumption

(* The session there is, if there is one, is the last.                      *)
LEMMA Numbers ==
  ASSUME TypeOK
  PROVE  /\ sessions \in Nat /\ sessions <= MaxSessions
         /\ session \in 0 .. MaxSessions
         /\ session # 0 => session \in Sessions
<1>1. sessions \in 0 .. MaxSessions /\ session \in 0 .. sessions
  BY DEF TypeOK
<1> QED BY <1>1 DEF Sessions

(* A thread goes from one place to another.                                *)
LEMMA Moved ==
  ASSUME TypeOK, NEW t \in Threads, \E l \in Places : Goto(t, l)
  PROVE  pc' \in [Threads -> Places]
<1>1. pc \in [Threads -> Places]
  BY DEF TypeOK
<1> QED BY <1>1 DEF Goto

(* A thread that has a request does not disturb what a pump does.          *)
LEMMA HandlersKept ==
  ASSUME TypeOK, HandlersInv, NEW t \in Threads, pc[t] # "idle",
         \E l \in Places : Goto(t, l), UNCHANGED <<number, lists, pump, index>>
  PROVE  HandlersInv'
<1>1. \A u \in Threads : pc'[u] # "idle" => pc[u] # "idle"
  <2>1. pc \in [Threads -> Places]
    BY DEF TypeOK
  <2> QED BY <2>1 DEF Goto
<1> QED BY <1>1 DEF HandlersInv

(* A handler is added to the present list.                                 *)
LEMMA HandlerAdded ==
  ASSUME lists \in Seq(Seq(1 .. MaxRequests)), lists # <<>>,
         NEW r \in 1 .. MaxRequests, OnInitializeComplete(r)
  PROVE  /\ lists' \in Seq(Seq(1 .. MaxRequests)) /\ lists' # <<>>
         /\ DOMAIN lists' = DOMAIN lists
<1>1. /\ Len(lists) \in Nat /\ DOMAIN lists = 1 .. Len(lists)
      /\ Len(lists) \in DOMAIN lists
  BY LenProperties, EmptySeq
<1>2. Append(lists[Len(lists)], r) \in Seq(1 .. MaxRequests)
  BY <1>1, ElementOfSeq, AppendProperties
<1>3. /\ lists' \in Seq(Seq(1 .. MaxRequests)) /\ Len(lists') = Len(lists)
  BY <1>1, <1>2, ExceptSeq DEF OnInitializeComplete
<1>4. DOMAIN lists' = DOMAIN lists
  BY DEF OnInitializeComplete
<1> QED BY <1>1, <1>3, <1>4

(* A new list takes the place of the present one.                          *)
LEMMA ListAdded ==
  ASSUME lists \in Seq(Seq(1 .. MaxRequests)), lists' = Append(lists, <<>>)
  PROVE  /\ lists' \in Seq(Seq(1 .. MaxRequests)) /\ lists' # <<>>
         /\ DOMAIN lists \subseteq DOMAIN lists'
<1>1. <<>> \in Seq(1 .. MaxRequests)
  BY EmptySeq
<1>2. /\ lists' \in Seq(Seq(1 .. MaxRequests)) /\ lists' # <<>>
      /\ Len(lists') = Len(lists) + 1
  BY <1>1, AppendProperties
<1>3. /\ Len(lists) \in Nat /\ DOMAIN lists = 1 .. Len(lists)
      /\ DOMAIN lists' = 1 .. Len(lists')
  BY <1>2, LenProperties
<1> QED BY <1>2, <1>3

(* _Reset puts every variable of the completer in order.                   *)
LEMMA TypesReset ==
  ASSUME TypeOK, Reset
  PROVE  /\ lists' \in Seq(Seq(1 .. MaxRequests))
         /\ session' \in 0 .. sessions' /\ sessions' \in 0 .. MaxSessions
         /\ initResponse' \in BOOLEAN /\ event' \in BOOLEAN
         /\ capabilities' \in 0 .. MaxSessions /\ started' \in BOOLEAN
         /\ once' \in BOOLEAN /\ forgotten' \in BOOLEAN
<1>1. lists \in Seq(Seq(1 .. MaxRequests)) /\ lists' = Append(lists, <<>>)
  BY DEF TypeOK, Reset
<1>2. lists' \in Seq(Seq(1 .. MaxRequests))
  BY <1>1, ListAdded
<1>3. /\ session' = 0 /\ capabilities' = 0 /\ sessions' = sessions
      /\ sessions \in Nat /\ sessions <= MaxSessions
  BY Numbers DEF Reset
<1>4. /\ session' \in 0 .. sessions' /\ sessions' \in 0 .. MaxSessions
      /\ capabilities' \in 0 .. MaxSessions
  BY <1>3
<1>5. /\ initResponse' \in BOOLEAN /\ event' \in BOOLEAN
      /\ started' \in BOOLEAN /\ once' \in BOOLEAN
      /\ forgotten' \in BOOLEAN
  BY DEF TypeOK, Reset
<1> QED BY <1>2, <1>4, <1>5

(* The types of the variables of the completer.                             *)
CompleterOK ==
  /\ infoMutex \in Threads \cup {Nobody}
  /\ session \in 0 .. sessions /\ sessions \in 0 .. MaxSessions
  /\ started \in BOOLEAN /\ initResponse \in BOOLEAN /\ event \in BOOLEAN
  /\ lists \in Seq(Seq(1 .. MaxRequests)) /\ lists # <<>>
  /\ once \in BOOLEAN /\ forgotten \in BOOLEAN
  /\ capabilities \in 0 .. MaxSessions

(* A thread that has a request goes on, inside the completer.               *)
LEMMA TypesInside ==
  ASSUME TypeOK, HandlersInv, NEW t \in Threads, pc[t] # "idle",
         \E l \in Places : Goto(t, l), CompleterOK',
         UNCHANGED outsideVars \/ ProcessTerminated(t),
         DOMAIN lists \subseteq DOMAIN lists'
  PROVE  TypeOK' /\ HandlersInv'
<1>1. UNCHANGED <<op, number, then, checked, answer, closing, pump, index,
                  responseMutex, responses, unflushed, input, alive, inbox,
                  wire, initialized, told, notified, docs, late, requests,
                  deaths>>
  BY DEF outsideVars, connVars, serverVars, boundVars, ProcessTerminated
<1>d. disturbed' \in BOOLEAN
  BY DEF TypeOK, outsideVars, boundVars, ProcessTerminated
<1>2. TypeOK'
  BY <1>1, <1>d, Moved DEF TypeOK, CompleterOK
<1>3. HandlersInv'
  <2>1. \A u \in Threads : pc'[u] # "idle" => pc[u] # "idle"
    <3>1. pc \in [Threads -> Places]
      BY DEF TypeOK
    <3> QED BY <3>1 DEF Goto
  <2> QED BY <1>1, <2>1 DEF HandlersInv, CompleterOK
<1> QED BY <1>2, <1>3

(* A write leaves at most one more session with something unflushed.        *)
LEMMA Written ==
  ASSUME TypeOK, Write(session)
  PROVE  unflushed' \subseteq Sessions
<1>1. unflushed' = unflushed \/ (session # 0 /\ unflushed' = unflushed \cup {session})
  BY DEF Write
<1> QED BY <1>1, Numbers DEF TypeOK

(* Every step preserves the types, whatever the threads.                   *)
LEMMA TypeStep ==
  ASSUME TypeOK, HandlersInv, [Next]_vars
  PROVE  TypeOK' /\ HandlersInv'
<1>1. ASSUME NEW t \in Threads,
             \/ OnFileReadyToParse(t) \/ CheckHealthy(t)
             \/ QueueHandlers(t) \/ ClearOneshotHandlers(t)
             \/ StartAndInitializeServer(t) \/ GetSettings(t)
             \/ StartServerFails(t) \/ Connected(t) \/ SendInitialize(t)
             \/ RegisterUpdate(t) \/ Shutdown(t) \/ ShutdownServer(t)
             \/ ShutdownAnswered(t) \/ SendExitFails(t) \/ Join(t)
             \/ AwaitProcess(t) \/ ProcessTerminated(t) \/ ShutdownDone(t)
      PROVE  TypeOK' /\ HandlersInv'
  <2>1. CompleterOK
    BY DEF TypeOK, HandlersInv, CompleterOK
  <2>2. CASE \/ OnFileReadyToParse(t) \/ CheckHealthy(t)
             \/ StartServerFails(t) \/ Connected(t) \/ SendInitialize(t)
             \/ ShutdownServer(t) \/ ShutdownAnswered(t) \/ SendExitFails(t)
             \/ Join(t) \/ AwaitProcess(t) \/ ProcessTerminated(t)
    <3>1. /\ pc[t] # "idle"
          /\ UNCHANGED outsideVars \/ ProcessTerminated(t)
          /\ \E l \in Places : Goto(t, l)
      BY <2>2
         DEF OnFileReadyToParse, CheckHealthy, StartServerFails, Connected,
             SendInitialize, ShutdownServer, ShutdownAnswered, SendExitFails,
             Join, AwaitProcess, ProcessTerminated, Return, Places
    <3>2. UNCHANGED completerVars /\ infoMutex' \in {infoMutex, t, Nobody}
      BY <2>2
         DEF OnFileReadyToParse, CheckHealthy, StartServerFails, Connected,
             SendInitialize, ShutdownServer, ShutdownAnswered, SendExitFails,
             Join, AwaitProcess, ProcessTerminated, ReleaseInfoMutex
    <3>3. CompleterOK' /\ lists' = lists
      BY <2>1, <3>2 DEF CompleterOK, completerVars, sessionVars
    <3> QED BY <3>1, <3>3, TypesInside
  <2>3. CASE \/ ClearOneshotHandlers(t) \/ StartAndInitializeServer(t)
             \/ GetSettings(t)
    <3>1. /\ pc[t] # "idle" /\ UNCHANGED outsideVars
          /\ \E l \in Places : Goto(t, l)
      BY <2>3
         DEF ClearOneshotHandlers, StartAndInitializeServer, GetSettings,
             Return, Places
    <3>2. /\ UNCHANGED <<infoMutex, session, sessions, forgotten, initResponse,
                         event, lists, capabilities>>
          /\ once' \in {once, FALSE} /\ started' \in {started, FALSE, TRUE}
      BY <2>3 DEF ClearOneshotHandlers, StartAndInitializeServer, GetSettings,
                  sessionVars
    <3>3. CompleterOK'
      BY <2>1, <3>2 DEF CompleterOK
    <3> QED BY <3>1, <3>2, <3>3, TypesInside
  <2>4. CASE QueueHandlers(t) \/ RegisterUpdate(t)
    <3>1. /\ pc[t] # "idle" /\ UNCHANGED outsideVars
          /\ \E l \in Places : Goto(t, l)
      BY <2>4 DEF QueueHandlers, RegisterUpdate, Return, Places
    <3>2. /\ UNCHANGED <<infoMutex, session, sessions, forgotten, started,
                         initResponse, event, once, capabilities>>
          /\ lists' = lists \/ OnInitializeComplete(number[t])
      BY <2>4 DEF QueueHandlers, RegisterUpdate, sessionVars
    <3>3. number[t] \in 1 .. MaxRequests
      BY <3>1 DEF HandlersInv
    <3>4. /\ lists' \in Seq(Seq(1 .. MaxRequests)) /\ lists' # <<>>
          /\ DOMAIN lists' = DOMAIN lists
      BY <2>1, <3>2, <3>3, HandlerAdded DEF CompleterOK
    <3>5. CompleterOK'
      BY <2>1, <3>2, <3>4 DEF CompleterOK
    <3> QED BY <3>1, <3>4, <3>5, TypesInside
  <2>5. CASE Shutdown(t) \/ ShutdownDone(t)
    <3>1. /\ pc[t] # "idle" /\ UNCHANGED outsideVars
          /\ \E l \in Places : Goto(t, l)
      <4>1. then[t] \in Places /\ "shutdown server" \in Places
        BY DEF TypeOK, Places
      <4> QED BY <2>5, <4>1 DEF Shutdown, ShutdownDone
    <3>2. infoMutex' = infoMutex /\ (Reset \/ UNCHANGED completerVars)
      BY <2>5 DEF Shutdown, ShutdownDone
    <3>3. CASE Reset
      <4>1. /\ CompleterOK' /\ DOMAIN lists \subseteq DOMAIN lists'
        BY <2>1, <3>2, <3>3, TypesReset, ListAdded DEF CompleterOK, Reset
      <4> QED BY <3>1, <4>1, TypesInside
    <3>4. CASE UNCHANGED completerVars
      <4>1. CompleterOK' /\ lists' = lists
        BY <2>1, <3>2, <3>4 DEF CompleterOK, completerVars, sessionVars
      <4> QED BY <3>1, <4>1, TypesInside
    <3> QED BY <3>2, <3>3, <3>4
  <2> QED BY <1>1, <2>2, <2>3, <2>4, <2>5
<1>2. ASSUME NEW t \in Threads, BeginRequest(t)
      PROVE  TypeOK' /\ HandlersInv'
  <2>1. requests + 1 \in 1 .. MaxRequests
    BY <1>2 DEF TypeOK, BeginRequest
  <2>2. number' = [number EXCEPT ![t] = requests + 1]
    BY <1>2 DEF BeginRequest
  <2>3. TypeOK'
    <3>1. pc' \in [Threads -> Places]
      <4>1. \E l \in Places : Goto(t, l)
        BY <1>2 DEF Places, BeginRequest
      <4> QED BY <4>1, Moved
    <3>2. op' \in [Threads -> {"parse", "restart", "stop"}]
      BY <1>2 DEF TypeOK, BeginRequest
    <3>3. number' \in [Threads -> 0 .. MaxRequests]
      <4>1. requests + 1 \in 0 .. MaxRequests
        BY <2>1
      <4> QED BY <2>2, <4>1 DEF TypeOK
    <3>4. requests' \in 0 .. MaxRequests
      BY <1>2, <2>1 DEF BeginRequest
    <3>5. then' \in [Threads -> Places]
      <4>1. \E l \in {"start", "idle"} : then' = [then EXCEPT ![t] = l]
        BY <1>2 DEF BeginRequest
      <4>2. then \in [Threads -> Places] /\ {"start", "idle"} \subseteq Places
        BY DEF TypeOK, Places
      <4> QED BY <4>1, <4>2
    <3>6. disturbed' \in BOOLEAN
      BY <1>2 DEF TypeOK, BeginRequest
    <3> QED BY <1>2, <3>1, <3>2, <3>3, <3>4, <3>5, <3>6
            DEF TypeOK, BeginRequest, completerVars, sessionVars, connVars,
                serverVars
  <2>4. HandlersInv'
    <3>1. \A u \in Threads : pc'[u] # "idle" => number'[u] \in 1 .. MaxRequests
      <4>1. SUFFICES ASSUME NEW u \in Threads, pc'[u] # "idle"
                     PROVE  number'[u] \in 1 .. MaxRequests
        OBVIOUS
      <4>2. CASE u = t
        BY <2>1, <2>2, <4>2 DEF TypeOK
      <4>3. CASE u # t
        BY <1>2, <2>2, <4>1, <4>3 DEF TypeOK, HandlersInv, BeginRequest, Goto
      <4> QED BY <4>2, <4>3
    <3> QED BY <1>2, <3>1
            DEF HandlersInv, BeginRequest, completerVars, connVars
  <2> QED BY <2>3, <2>4
<1>3. ASSUME NEW t \in Threads, CheckInitialized(t) \/ ConnectionTimeout(t)
      PROVE  TypeOK' /\ HandlersInv'
  <2>1. pc[t] # "idle" /\ \E l \in Places : Goto(t, l)
    BY <1>3 DEF Places, CheckInitialized, ConnectionTimeout
  <2>2. TypeOK'
    <3>1. checked' \in [Threads -> 0 .. MaxSessions]
      <4>1. checked' = checked \/ checked' = [checked EXCEPT ![t] = session]
        BY <1>3 DEF CheckInitialized, ConnectionTimeout
      <4>2. checked \in [Threads -> 0 .. MaxSessions]
        BY DEF TypeOK
      <4> QED BY <4>1, <4>2, Numbers
    <3>2. then' \in [Threads -> Places]
      <4>1. then' = then \/ then' = [then EXCEPT ![t] = AfterStart(t)]
        BY <1>3 DEF CheckInitialized, ConnectionTimeout
      <4>2. AfterStart(t) \in Places
        BY DEF AfterStart, Places
      <4>3. then \in [Threads -> Places]
        BY DEF TypeOK
      <4> QED BY <4>1, <4>2, <4>3
    <3>3. infoMutex' \in Threads \cup {Nobody}
      BY <1>3 DEF TypeOK, CheckInitialized, ConnectionTimeout, ReleaseInfoMutex
    <3>4. disturbed' \in BOOLEAN
      BY <1>3 DEF TypeOK, CheckInitialized, ConnectionTimeout, boundVars
    <3> QED BY <1>3, <2>1, <3>1, <3>2, <3>3, <3>4, Moved
            DEF TypeOK, CheckInitialized, ConnectionTimeout, completerVars,
                sessionVars, connVars, serverVars, boundVars
  <2>3. HandlersInv'
    BY <1>3, <2>1, HandlersKept
       DEF CheckInitialized, ConnectionTimeout, completerVars, connVars
  <2> QED BY <2>2, <2>3
<1>4. ASSUME NEW t \in Threads, UpdateServer(t)
      PROVE  TypeOK' /\ HandlersInv'
  <2>1. \E l \in Places : Goto(t, l)
    BY <1>4 DEF Places, Return, UpdateServer
  <2>2. TypeOK'
    <3>1. docs' \in [Sessions -> 0 .. MaxRequests]
      <4>1. docs' = docs \/ docs' = [docs EXCEPT ![session] = number[t]]
        BY <1>4 DEF UpdateServer, Update
      <4>2. number[t] \in 0 .. MaxRequests
        BY DEF TypeOK
      <4> QED BY <4>1, <4>2 DEF TypeOK
    <3>2. once' \in BOOLEAN
      BY <1>4 DEF TypeOK, UpdateServer
    <3>3. late' \subseteq Sessions
      <4>1. late' = late \/ (session # 0 /\ late' = late \cup {session})
        BY <1>4 DEF UpdateServer, CanWrite
      <4> QED BY <4>1, Numbers DEF TypeOK
    <3>4. unflushed' \subseteq Sessions
      BY <1>4, Written DEF UpdateServer
    <3> QED BY <1>4, <2>1, <3>1, <3>2, <3>3, <3>4, Moved
            DEF TypeOK, UpdateServer, sessionVars, boundVars
  <2>3. HandlersInv'
    BY <1>4, <2>1, HandlersKept DEF UpdateServer
  <2> QED BY <2>2, <2>3
<1>5. ASSUME NEW t \in Threads, StartServer(t)
      PROVE  TypeOK' /\ HandlersInv'
  <2>1. TypeOK'
    <3>1. pc' \in [Threads -> Places]
      <4>1. \E l \in Places : Goto(t, l)
        BY <1>5 DEF Places, StartServer
      <4> QED BY <4>1, Moved
    <3>2. /\ sessions + 1 \in Sessions /\ sessions + 1 \in 0 .. MaxSessions
          /\ sessions + 1 \in 0 .. sessions + 1
      <4>1. sessions < MaxSessions
        BY <1>5 DEF StartServer
      <4> QED BY <4>1, Numbers DEF Sessions
    <3>3. /\ alive' \in [Sessions -> BOOLEAN]
          /\ input' \in [Sessions -> BOOLEAN]
          /\ pump' \in [Sessions -> PumpPlaces]
      BY <1>5 DEF TypeOK, StartServer, PumpPlaces
    <3>4. session' \in 0 .. sessions' /\ sessions' \in 0 .. MaxSessions
      BY <1>5, <3>2 DEF StartServer
    <3>5. forgotten' \in BOOLEAN /\ infoMutex' \in Threads \cup {Nobody}
      BY <1>5 DEF TypeOK, StartServer
    <3> QED BY <1>5, <3>1, <3>3, <3>4, <3>5 DEF TypeOK, StartServer, boundVars
  <2>2. HandlersInv'
    BY <1>5 DEF TypeOK, HandlersInv, StartServer, Goto
  <2> QED BY <2>1, <2>2
<1>6. ASSUME NEW t \in Threads, RegisterInitialize(t) \/ ShutdownRequest(t)
      PROVE  TypeOK' /\ HandlersInv'
  <2>1. pc[t] # "idle" /\ \E l \in Places : Goto(t, l)
    BY <1>6 DEF Places, RegisterInitialize, ShutdownRequest
  <2>2. TypeOK'
    <3>1. responses' \in [Sessions -> SUBSET Messages]
      <4>1. \E m \in Messages :
              responses' = [responses EXCEPT ![session] = @ \cup {m}]
        BY <1>6 DEF RegisterInitialize, ShutdownRequest, Messages
      <4>2. responses \in [Sessions -> SUBSET Messages]
        BY DEF TypeOK
      <4> QED BY <4>1, <4>2
    <3>2. answer' \in [Threads -> {"none", "result", "abort"}]
      BY <1>6 DEF TypeOK, RegisterInitialize, ShutdownRequest
    <3> QED BY <1>6, <2>1, <3>1, <3>2, Moved
            DEF TypeOK, RegisterInitialize, ShutdownRequest, completerVars,
                sessionVars, serverVars, boundVars
  <2>3. HandlersInv'
    BY <1>6, <2>1, HandlersKept
       DEF RegisterInitialize, ShutdownRequest, completerVars
  <2> QED BY <2>2, <2>3
<1>7. ASSUME NEW t \in Threads, WriteInitialize(t) \/ WriteShutdown(t)
      PROVE  TypeOK' /\ HandlersInv'
  <2>1. pc[t] # "idle" /\ \E l \in Places : Goto(t, l)
    BY <1>7 DEF Places, WriteInitialize, WriteShutdown, Return, AfterStart
  <2>2. TypeOK'
    <3>1. inbox' \in [Sessions -> SUBSET Messages]
      <4>1. inbox' = inbox \/ \E m \in Messages :
              inbox' = [inbox EXCEPT ![session] = @ \cup {m}]
        BY <1>7 DEF WriteInitialize, WriteShutdown, Messages
      <4>2. inbox \in [Sessions -> SUBSET Messages]
        BY DEF TypeOK
      <4> QED BY <4>1, <4>2
    <3>2. initResponse' \in BOOLEAN /\ infoMutex' \in Threads \cup {Nobody}
      BY <1>7 DEF TypeOK, WriteInitialize, WriteShutdown, ReleaseInfoMutex,
                  completerVars
    <3>3. unflushed' \subseteq Sessions
      BY <1>7, Written DEF WriteInitialize, WriteShutdown
    <3> QED BY <1>7, <2>1, <3>1, <3>2, <3>3, Moved
            DEF TypeOK, WriteInitialize, WriteShutdown, completerVars,
                sessionVars, boundVars
  <2>3. HandlersInv'
    BY <1>7, <2>1, HandlersKept
       DEF WriteInitialize, WriteShutdown, completerVars
  <2> QED BY <2>2, <2>3
<1>8. ASSUME NEW t \in Threads, SendExit(t)
      PROVE  TypeOK' /\ HandlersInv'
  <2>1. pc[t] # "idle" /\ \E l \in Places : Goto(t, l)
    BY <1>8 DEF Places, SendExit
  <2>2. TypeOK'
    <3>1. told' \subseteq Sessions
      <4>1. told' = told \/ (session # 0 /\ told' = told \cup {session})
        BY <1>8 DEF SendExit, ServerIsHealthy
      <4> QED BY <4>1, Numbers DEF TypeOK
    <3>2. /\ initResponse' \in BOOLEAN /\ event' \in BOOLEAN
          /\ infoMutex' \in Threads \cup {Nobody}
      BY <1>8 DEF TypeOK, SendExit, InitializeComplete, ReleaseInfoMutex
    <3> QED BY <1>8, <2>1, <3>1, <3>2, Moved
            DEF TypeOK, SendExit, sessionVars, connVars, boundVars
  <2>3. HandlersInv'
    BY <1>8, <2>1, HandlersKept DEF SendExit, connVars
  <2> QED BY <2>2, <2>3
<1>9. ASSUME NEW t \in Threads, Close(t) \/ CloseStreams(t)
      PROVE  TypeOK' /\ HandlersInv'
  <2>1. pc[t] # "idle" /\ \E l \in Places : Goto(t, l)
    BY <1>9 DEF Places, Close, CloseStreams
  <2>2. TypeOK'
    <3>1. input' \in [Sessions -> BOOLEAN]
      <4>1. input' = input \/ input' = [input EXCEPT ![session] = FALSE]
        BY <1>9 DEF Close, CloseStreams
      <4> QED BY <4>1 DEF TypeOK
    <3>2. closing' \in [Threads -> 0 .. MaxSessions]
      <4>1. closing' = closing \/ closing' = [closing EXCEPT ![t] = session]
        BY <1>9 DEF Close, CloseStreams
      <4>2. closing \in [Threads -> 0 .. MaxSessions]
        BY DEF TypeOK
      <4> QED BY <4>1, <4>2, Numbers
    <3>3. unflushed' \subseteq Sessions
      BY <1>9 DEF TypeOK, Close, CloseStreams
    <3> QED BY <1>9, <2>1, <3>1, <3>2, <3>3, Moved
            DEF TypeOK, Close, CloseStreams, completerVars, sessionVars,
                serverVars, boundVars
  <2>3. HandlersInv'
    BY <1>9, <2>1, HandlersKept DEF Close, CloseStreams, completerVars
  <2> QED BY <2>2, <2>3
<1>10. ASSUME NEW s \in Sessions, NEW l \in PumpPlaces \ {"handlers"},
              pump' = [pump EXCEPT ![s] = l], UNCHANGED <<lists, index>>
       PROVE  /\ pump' \in [Sessions -> PumpPlaces]
              /\ \A r \in Sessions : pump'[r] = "handlers" =>
                   index[r][1] \in DOMAIN lists /\ index[r][2] # 0
  BY <1>10 DEF TypeOK, HandlersInv
<1>11. ASSUME NEW s \in Sessions,
              \/ Connect(s) \/ ConnectFails(s) \/ HandleRefusal(s)
              \/ HandlersDone(s)
       PROVE  TypeOK' /\ HandlersInv'
  <2>1. PICK l \in PumpPlaces \ {"handlers"} : pump' = [pump EXCEPT ![s] = l]
    BY <1>11
       DEF Connect, ConnectFails, HandleRefusal, HandlersDone, PumpPlaces
  <2>2. /\ UNCHANGED <<infoMutex, completerVars, threadVars, index,
                       responseMutex, responses, unflushed, input, serverVars,
                       requests, deaths>>
        /\ disturbed' \in {disturbed, TRUE}
    BY <1>11 DEF Connect, ConnectFails, HandleRefusal, HandlersDone, boundVars
  <2>3. UNCHANGED <<lists, index>>
    BY <2>2 DEF completerVars
  <2>4. TypeOK'
    BY <1>10, <2>1, <2>2, <2>3
       DEF TypeOK, completerVars, sessionVars, threadVars, serverVars, boundVars
  <2>5. HandlersInv'
    BY <1>10, <2>1, <2>2, <2>3 DEF HandlersInv, completerVars, threadVars
  <2> QED BY <2>4, <2>5
<1>12. ASSUME NEW s \in Sessions, ReceiveInitialize(s)
       PROVE  TypeOK' /\ HandlersInv'
  <2>1. PICK m \in wire[s] :
          /\ wire' = [wire EXCEPT ![s] = @ \ {m}]
          /\ pump' = [pump EXCEPT ![s] =
                        IF m = Initialize THEN "initialize" ELSE "refused"]
    BY <1>12 DEF ReceiveInitialize
  <2>2. \E l \in PumpPlaces \ {"handlers"} : pump' = [pump EXCEPT ![s] = l]
    <3>1. (IF m = Initialize THEN "initialize" ELSE "refused")
            \in PumpPlaces \ {"handlers"}
      BY DEF PumpPlaces
    <3> QED BY <2>1, <3>1
  <2>3. wire' \in [Sessions -> SUBSET Messages]
    BY <2>1 DEF TypeOK
  <2>4. UNCHANGED <<lists, index>>
    BY <1>12 DEF ReceiveInitialize, completerVars
  <2>5. responseMutex' \in [Sessions -> Sessions \cup {Nobody}]
    BY <1>12 DEF TypeOK, ReceiveInitialize
  <2>6. TypeOK'
    BY <1>10, <1>12, <2>2, <2>3, <2>4, <2>5
       DEF TypeOK, ReceiveInitialize, completerVars, sessionVars, threadVars,
           boundVars
  <2>7. HandlersInv'
    BY <1>10, <1>12, <2>2, <2>4
       DEF HandlersInv, ReceiveInitialize, completerVars, threadVars
  <2> QED BY <2>6, <2>7
<1>13. ASSUME NEW s \in Sessions, HandleInitialize(s)
       PROVE  TypeOK' /\ HandlersInv'
  <2>1. /\ Len(lists) \in Nat /\ Len(lists) \in DOMAIN lists
    BY LenProperties, EmptySeq DEF TypeOK, HandlersInv
  <2>2. \E l \in {"handlers", "failing"} : pump' = [pump EXCEPT ![s] = l]
    BY <1>13 DEF HandleInitialize
  <2>3. \/ index' = index /\ pump' = [pump EXCEPT ![s] = "failing"]
        \/ index' = [index EXCEPT ![s] = <<Len(lists), 1>>]
    BY <1>13 DEF HandleInitialize
  <2>4. TypeOK'
    <3>1. pump' \in [Sessions -> PumpPlaces]
      BY <2>2 DEF TypeOK, PumpPlaces
    <3>2. notified' \subseteq Sessions
      <4>1. \/ notified' = notified
            \/ session # 0 /\ notified' = notified \cup {session}
        BY <1>13 DEF HandleInitialize, CanWrite
      <4> QED BY <4>1, Numbers DEF TypeOK
    <3>3. index' \in [Sessions -> Nat \X Nat]
      <4>1. <<Len(lists), 1>> \in Nat \X Nat
        BY <2>1
      <4>2. index \in [Sessions -> Nat \X Nat]
        BY DEF TypeOK
      <4> QED BY <2>3, <4>1, <4>2
    <3>4. capabilities' \in 0 .. MaxSessions
      BY <1>13 DEF HandleInitialize, Sessions
    <3>5. initResponse' \in BOOLEAN /\ event' \in BOOLEAN
      BY <1>13 DEF TypeOK, HandleInitialize, InitializeComplete
    <3>6. unflushed' \subseteq Sessions
      BY <1>13, Written DEF HandleInitialize
    <3> QED BY <1>13, <3>1, <3>2, <3>3, <3>4, <3>5, <3>6
            DEF TypeOK, HandleInitialize, sessionVars, threadVars, boundVars
  <2>5. HandlersInv'
    <3>1. ASSUME NEW r \in Sessions, pump'[r] = "handlers"
          PROVE  index'[r][1] \in DOMAIN lists /\ index'[r][2] # 0
      <4>1. /\ pump \in [Sessions -> PumpPlaces]
            /\ index \in [Sessions -> Nat \X Nat]
        BY DEF TypeOK
      <4>2. CASE r = s
        BY <2>1, <2>2, <2>3, <3>1, <4>1, <4>2
      <4>3. CASE r # s
        BY <2>2, <2>3, <3>1, <4>1, <4>3 DEF HandlersInv
      <4> QED BY <4>2, <4>3
    <3> QED BY <1>13, <3>1 DEF HandlersInv, HandleInitialize, threadVars
  <2> QED BY <2>4, <2>5
<1>14. ASSUME NEW s \in Sessions, RunHandler(s)
       PROVE  TypeOK' /\ HandlersInv'
  <2>1. /\ index[s] \in Nat \X Nat /\ index[s][1] \in DOMAIN lists
        /\ index[s][2] # 0 /\ index[s][2] <= Len(lists[index[s][1]])
    BY <1>14 DEF TypeOK, HandlersInv, RunHandler, HasHandler
  <2>2. /\ lists[index[s][1]] \in Seq(1 .. MaxRequests)
        /\ index[s][2] \in DOMAIN lists[index[s][1]]
    BY <2>1, ElementOfSeq, LenProperties DEF TypeOK
  <2>3. lists[index[s][1]][index[s][2]] \in 0 .. MaxRequests
    BY <2>2, ElementOfSeq, LenProperties
  <2>4. docs' \in [Sessions -> 0 .. MaxRequests]
    BY <1>14, <2>3 DEF TypeOK, RunHandler, Update
  <2>5. /\ index' \in [Sessions -> Nat \X Nat]
        /\ \A r \in Sessions :
             \/ index'[r] = index[r]
             \/ index'[r][1] = index[r][1] /\ index'[r][2] # 0
    <3>1. index' = index \/ index' =
            [index EXCEPT ![s] = <<index[s][1], index[s][2] + 1>>]
      BY <1>14 DEF RunHandler
    <3>2. /\ index \in [Sessions -> Nat \X Nat]
          /\ <<index[s][1], index[s][2] + 1>> \in Nat \X Nat
      BY <2>1 DEF TypeOK
    <3> QED BY <2>1, <3>1, <3>2
  <2>6. pump' \in [Sessions -> PumpPlaces]
    <3>1. pump' = pump \/ pump' = [pump EXCEPT ![s] = "failing"]
      BY <1>14 DEF RunHandler
    <3> QED BY <3>1 DEF TypeOK, PumpPlaces
  <2>7. unflushed' \subseteq Sessions
    BY <1>14, Written DEF RunHandler
  <2>8. TypeOK'
    BY <1>14, <2>4, <2>5, <2>6, <2>7
       DEF TypeOK, RunHandler, completerVars, sessionVars, threadVars, boundVars
  <2>9. \A r \in Sessions : pump'[r] = "handlers" => pump[r] = "handlers"
    BY <1>14 DEF TypeOK, RunHandler
  <2>10. HandlersInv'
    BY <1>14, <2>5, <2>9 DEF HandlersInv, RunHandler, completerVars, threadVars
  <2> QED BY <2>8, <2>10
<1>15. ASSUME NEW s \in Sessions, ClearHandlers(s)
       PROVE  TypeOK' /\ HandlersInv'
  <2>1. /\ lists' \in Seq(Seq(1 .. MaxRequests)) /\ lists' # <<>>
        /\ DOMAIN lists \subseteq DOMAIN lists'
    BY <1>15, ListAdded DEF TypeOK, ClearHandlers
  <2>2. /\ pump' \in [Sessions -> PumpPlaces]
        /\ \A r \in Sessions : pump'[r] = "handlers" => pump[r] = "handlers"
    BY <1>15 DEF TypeOK, PumpPlaces, ClearHandlers
  <2>3. /\ responses' \in [Sessions -> SUBSET Messages]
        /\ responseMutex' \in [Sessions -> Sessions \cup {Nobody}]
    BY <1>15 DEF TypeOK, ClearHandlers
  <2>4. TypeOK'
    BY <1>15, <2>1, <2>2, <2>3
       DEF TypeOK, ClearHandlers, sessionVars, threadVars, serverVars, boundVars
  <2>5. HandlersInv'
    BY <1>15, <2>1, <2>2 DEF HandlersInv, ClearHandlers, threadVars
  <2> QED BY <2>4, <2>5
<1>16. ASSUME NEW s \in Sessions, ReceiveShutdown(s)
       PROVE  TypeOK' /\ HandlersInv'
  <2>1. TypeOK'
    <3>1. wire' \in [Sessions -> SUBSET Messages]
      BY <1>16 DEF TypeOK, ReceiveShutdown
    <3>2. responses' \in [Sessions -> SUBSET Messages]
      BY <1>16 DEF TypeOK, ReceiveShutdown
    <3>3. answer' \in [Threads -> {"none", "result", "abort"}]
      BY <1>16 DEF TypeOK, ReceiveShutdown
    <3> QED BY <1>16, <3>1, <3>2, <3>3 DEF TypeOK, ReceiveShutdown,
         completerVars, sessionVars, boundVars
  <2>2. HandlersInv'
    BY <1>16 DEF HandlersInv, ReceiveShutdown, completerVars
  <2> QED BY <2>1, <2>2
<1>17. ASSUME NEW s \in Sessions, Abort(s)
       PROVE  TypeOK' /\ HandlersInv'
  <2>1. /\ pump' \in [Sessions -> PumpPlaces]
        /\ \A r \in Sessions : pump'[r] = "handlers" => pump[r] = "handlers"
    BY <1>17 DEF TypeOK, PumpPlaces, Abort
  <2>2. /\ responses' \in [Sessions -> SUBSET Messages]
        /\ responseMutex' \in [Sessions -> Sessions \cup {Nobody}]
        /\ input' \in [Sessions -> BOOLEAN]
        /\ answer' \in [Threads -> {"none", "result", "abort"}]
    BY <1>17 DEF TypeOK, Abort
  <2>3. TypeOK'
    BY <1>17, <2>1, <2>2
       DEF TypeOK, Abort, completerVars, sessionVars, serverVars, boundVars
  <2>4. HandlersInv'
    BY <1>17, <2>1 DEF HandlersInv, Abort, completerVars
  <2> QED BY <2>3, <2>4
<1>18. ASSUME NEW s \in Sessions, Reply(s)
       PROVE  TypeOK' /\ HandlersInv'
  <2>1. TypeOK'
    <3>1. inbox' \in [Sessions -> SUBSET Messages]
      BY <1>18 DEF TypeOK, Reply
    <3>2. wire' \in [Sessions -> SUBSET Messages]
      <4>1. \E m \in Messages : wire' = [wire EXCEPT ![s] = @ \cup {m}]
        <5>1. inbox[s] \subseteq Messages /\ Refusal \in Messages
          BY DEF TypeOK, Messages
        <5> QED BY <1>18, <5>1 DEF Reply
      <4>2. wire \in [Sessions -> SUBSET Messages]
        BY DEF TypeOK
      <4> QED BY <4>1, <4>2
    <3>3. initialized' \subseteq Sessions
      BY <1>18 DEF TypeOK, Reply
    <3> QED BY <1>18, <3>1, <3>2, <3>3 DEF TypeOK, Reply, completerVars,
         sessionVars, threadVars, connVars, boundVars
  <2>2. HandlersInv'
    BY <1>18 DEF HandlersInv, Reply, completerVars, threadVars, connVars
  <2> QED BY <2>1, <2>2
<1>19. ASSUME NEW s \in Sessions, Exit(s) \/ Die(s)
       PROVE  TypeOK' /\ HandlersInv'
  <2>1. TypeOK'
    <3>1. deaths' \in 0 .. MaxDeaths /\ requests' \in 0 .. MaxRequests
      BY <1>19 DEF TypeOK, Die, Exit, boundVars
    <3>2. alive' \in [Sessions -> BOOLEAN] /\ disturbed' \in BOOLEAN
      BY <1>19 DEF TypeOK, Die, Exit, boundVars
    <3> QED BY <1>19, <3>1, <3>2 DEF TypeOK, Die, Exit, completerVars,
         sessionVars, threadVars, connVars
  <2>2. HandlersInv'
    BY <1>19 DEF HandlersInv, Die, Exit, completerVars, threadVars, connVars
  <2> QED BY <2>1, <2>2
<1>20. CASE UNCHANGED vars
  BY <1>20
     DEF TypeOK, HandlersInv, vars, completerVars, sessionVars, threadVars,
         connVars, serverVars, boundVars
<1> QED
  BY <1>1, <1>2, <1>3, <1>4, <1>5, <1>6, <1>7, <1>8, <1>9, <1>11, <1>12,
     <1>13, <1>14, <1>15, <1>16, <1>17, <1>18, <1>19, <1>20
     DEF Next, Work, Pump

-----------------------------------------------------------------------------
(* _server_info_mutex                                                       *)

(* A thread goes on, keeping, taking or giving up the mutex as its places   *)
(* say; the session is exchanged only when nobody holds it.                 *)
LEMMA MutexKept ==
  ASSUME TypeOK, MutexInv, NEW t \in Threads, NEW l \in Places, Goto(t, l),
         \A u \in Threads : then'[u] \in {"idle", "start", "check", "register"},
         \/ infoMutex' = infoMutex /\ (pc[t] \in Holding <=> l \in Holding)
         \/ infoMutex = Nobody /\ infoMutex' = t /\ l \in Holding
         \/ infoMutex = t /\ infoMutex' = Nobody /\ l \notin Holding,
         l \in {"send initialize", "write initialize"} => session' # 0,
         session' = session \/ infoMutex = Nobody
  PROVE  MutexInv'
<1>1. pc'[t] = l /\ \A u \in Threads \ {t} : pc'[u] = pc[u]
  BY DEF TypeOK, Goto
<1>2. \A u \in Threads : pc'[u] \in Holding <=> infoMutex' = u
  BY <1>1 DEF MutexInv
<1>3. ASSUME NEW u \in Threads,
             pc'[u] \in {"send initialize", "write initialize"}
      PROVE  session' # 0
  <2>1. CASE u = t
    BY <1>1, <1>3, <2>1
  <2>2. CASE u # t
    <3>1. pc[u] \in {"send initialize", "write initialize"}
      BY <1>1, <1>3, <2>2
    <3>2. infoMutex = u /\ session # 0
      BY <3>1 DEF MutexInv, Holding
    <3> QED BY <3>2
  <2> QED BY <2>1, <2>2
<1> QED BY <1>2, <1>3 DEF MutexInv

(* What no thread has a part in, or all threads are left alone by.          *)
LEMMA MutexSame ==
  ASSUME MutexInv, UNCHANGED <<pc, then, infoMutex, session>>
  PROVE  MutexInv'
BY DEF MutexInv

(* The threads that go from one place to another without the mutex.         *)
LEMMA MutexFree ==
  ASSUME TypeOK, MutexInv, NEW t \in Threads,
         \/ OnFileReadyToParse(t) \/ CheckHealthy(t) \/ CheckInitialized(t)
         \/ QueueHandlers(t) \/ ClearOneshotHandlers(t) \/ UpdateServer(t)
         \/ StartAndInitializeServer(t) \/ GetSettings(t)
         \/ StartServerFails(t) \/ RegisterUpdate(t) \/ Close(t) \/ Join(t)
         \/ CloseStreams(t)
  PROVE  MutexInv'
<1>1. pc[t] \notin Holding
  BY DEF OnFileReadyToParse, CheckHealthy, CheckInitialized, QueueHandlers,
         ClearOneshotHandlers, UpdateServer, StartAndInitializeServer,
         GetSettings, StartServerFails, RegisterUpdate, Close, Join,
         CloseStreams, Holding
<1>2. \E l \in Places \ Holding : Goto(t, l)
  BY DEF OnFileReadyToParse, CheckHealthy, CheckInitialized, QueueHandlers,
         ClearOneshotHandlers, UpdateServer, StartAndInitializeServer,
         GetSettings, StartServerFails, RegisterUpdate, Close, Join,
         CloseStreams, Holding, Places, Return
<1>3. UNCHANGED <<then, infoMutex, session>>
  BY DEF OnFileReadyToParse, CheckHealthy, CheckInitialized, QueueHandlers,
         ClearOneshotHandlers, UpdateServer, StartAndInitializeServer,
         GetSettings, StartServerFails, RegisterUpdate, Close, Join,
         CloseStreams, outsideVars, completerVars, sessionVars
<1>4. \A u \in Threads : then'[u] \in {"idle", "start", "check", "register"}
  BY <1>3 DEF MutexInv
<1>5. \A l \in Places \ Holding : l \notin {"send initialize", "write initialize"}
  BY DEF Holding
<1> QED BY <1>1, <1>2, <1>3, <1>4, <1>5, MutexKept

(* A request arrives.                                                       *)
LEMMA MutexBegin ==
  ASSUME TypeOK, MutexInv, NEW t \in Threads, BeginRequest(t)
  PROVE  MutexInv'
<1>1. pc[t] \notin Holding
  BY DEF BeginRequest, Holding
<1>2. \E l \in {"parse", "shutdown"} : Goto(t, l)
  BY DEF BeginRequest
<1>3. UNCHANGED <<infoMutex, session>>
  BY DEF BeginRequest, completerVars, sessionVars
<1>4. \A u \in Threads : then'[u] \in {"idle", "start", "check", "register"}
  <2>1. \E l \in {"start", "idle"} : then' = [then EXCEPT ![t] = l]
    BY DEF BeginRequest
  <2>2. then \in [Threads -> Places]
    BY DEF TypeOK
  <2> QED BY <2>1, <2>2 DEF MutexInv
<1>5. {"parse", "shutdown"} \subseteq Places \ Holding
  BY DEF Places, Holding
<1> QED BY <1>1, <1>2, <1>3, <1>4, <1>5, MutexKept

(* Shutdown takes the mutex and gives it up in one step, at its two ends.   *)
LEMMA MutexReset ==
  ASSUME TypeOK, MutexInv, NEW t \in Threads, Shutdown(t) \/ ShutdownDone(t)
  PROVE  MutexInv'
<1>1. pc[t] \notin Holding /\ infoMutex = Nobody
  BY DEF Shutdown, ShutdownDone, Holding
<1>2. Goto(t, then[t]) \/ Goto(t, "shutdown server")
  BY DEF Shutdown, ShutdownDone
<1>3. UNCHANGED <<infoMutex, then>>
  BY DEF Shutdown, ShutdownDone, outsideVars
<1>4. \A u \in Threads : then'[u] \in {"idle", "start", "check", "register"}
  BY <1>3 DEF MutexInv
<1>5. {"idle", "start", "check", "register", "shutdown server"}
        \subseteq Places \ Holding
  BY DEF Places, Holding
<1>6. \E l \in {"idle", "start", "check", "register", "shutdown server"} :
        Goto(t, l)
  BY <1>2 DEF MutexInv
<1>7. \E l \in Places \ Holding : Goto(t, l)
  BY <1>5, <1>6
<1>8. \A l \in Places \ Holding : l \notin {"send initialize", "write initialize"}
  BY DEF Holding
<1> QED BY <1>1, <1>3, <1>4, <1>7, <1>8, MutexKept

(* The mutex is taken.                                                      *)
LEMMA MutexTaken ==
  ASSUME TypeOK, MutexInv, NEW t \in Threads,
         \/ StartServer(t) \/ SendInitialize(t) \/ ShutdownServer(t)
         \/ AwaitProcess(t)
  PROVE  MutexInv'
<1>1. infoMutex = Nobody /\ pc[t] \notin Holding /\ then' = then
  BY DEF StartServer, SendInitialize, ShutdownServer, AwaitProcess, Holding,
         outsideVars
<1>2. \/ /\ infoMutex' = t
         /\ \E l \in {"await connection", "shutdown request", "exit", "wait"} :
              Goto(t, l)
      \/ infoMutex' = t /\ Goto(t, "send initialize") /\ session' # 0
      \/ infoMutex' = infoMutex /\ Goto(t, "idle")
  BY DEF StartServer, SendInitialize, ShutdownServer, AwaitProcess, Return,
         completerVars, sessionVars
<1>3. \A u \in Threads : then'[u] \in {"idle", "start", "check", "register"}
  BY <1>1 DEF MutexInv
<1>4. /\ {"await connection", "shutdown request", "exit", "wait",
          "send initialize"} \subseteq Places \cap Holding
      /\ "idle" \in Places \ Holding
  BY DEF Places, Holding
<1>5. CASE /\ infoMutex' = t
           /\ \E l \in {"await connection", "shutdown request", "exit",
                        "wait"} : Goto(t, l)
  BY <1>1, <1>3, <1>4, <1>5, MutexKept
<1>6. CASE infoMutex' = t /\ Goto(t, "send initialize") /\ session' # 0
  BY <1>1, <1>3, <1>4, <1>6, MutexKept
<1>7. CASE infoMutex' = infoMutex /\ Goto(t, "idle")
  BY <1>1, <1>3, <1>4, <1>7, MutexKept
<1> QED BY <1>2, <1>5, <1>6, <1>7

(* A thread that holds the mutex goes on, or gives it up.                   *)
LEMMA MutexHeld ==
  ASSUME TypeOK, MutexInv, NEW t \in Threads,
         \/ Connected(t) \/ ConnectionTimeout(t) \/ RegisterInitialize(t)
         \/ WriteInitialize(t) \/ ShutdownRequest(t) \/ WriteShutdown(t)
         \/ ShutdownAnswered(t) \/ SendExit(t) \/ SendExitFails(t)
         \/ ProcessTerminated(t)
  PROVE  MutexInv'
<1>1. pc[t] \in Holding
  BY DEF Connected, ConnectionTimeout, RegisterInitialize, WriteInitialize,
         ShutdownRequest, WriteShutdown, ShutdownAnswered, SendExit,
         SendExitFails, ProcessTerminated, Holding
<1>2. infoMutex = t
  BY <1>1 DEF MutexInv
<1>3. session' = session
  BY DEF Connected, ConnectionTimeout, RegisterInitialize, WriteInitialize,
         ShutdownRequest, WriteShutdown, ShutdownAnswered, SendExit,
         SendExitFails, ProcessTerminated, completerVars, sessionVars
<1>4. \A u \in Threads : then'[u] \in {"idle", "start", "check", "register"}
  <2>1. then' = then \/ \E l \in {"check", "register"} :
          then' = [then EXCEPT ![t] = l]
    BY DEF Connected, ConnectionTimeout, RegisterInitialize, WriteInitialize,
           ShutdownRequest, WriteShutdown, ShutdownAnswered, SendExit,
           SendExitFails, ProcessTerminated, AfterStart, outsideVars
  <2>2. then \in [Threads -> Places]
    BY DEF TypeOK
  <2> QED BY <2>1, <2>2 DEF MutexInv
<1>5. \/ /\ infoMutex' = infoMutex
         /\ \E l \in {"shutdown write", "shutdown wait", "exit"} : Goto(t, l)
      \/ /\ infoMutex' = infoMutex
         /\ pc[t] = "send initialize" /\ Goto(t, "write initialize")
      \/ /\ infoMutex' = Nobody
         /\ \E l \in {"initialize", "shutdown", "check", "register", "idle",
                      "close", "reset"} : Goto(t, l)
  BY DEF Connected, ConnectionTimeout, RegisterInitialize, WriteInitialize,
         ShutdownRequest, WriteShutdown, ShutdownAnswered, SendExit,
         SendExitFails, ProcessTerminated, AfterStart, Return, ReleaseInfoMutex
<1>6. /\ {"shutdown write", "shutdown wait", "exit", "write initialize"}
           \subseteq Places \cap Holding
      /\ {"initialize", "shutdown", "check", "register", "idle", "close",
          "reset"} \subseteq Places \ Holding
  BY DEF Places, Holding
<1>7. CASE /\ infoMutex' = infoMutex
           /\ \E l \in {"shutdown write", "shutdown wait", "exit"} : Goto(t, l)
  BY <1>1, <1>3, <1>4, <1>6, <1>7, MutexKept
<1>8. CASE /\ infoMutex' = infoMutex
           /\ pc[t] = "send initialize" /\ Goto(t, "write initialize")
  <2>1. session' # 0
    BY <1>3, <1>8 DEF MutexInv
  <2> QED BY <1>1, <1>3, <1>4, <1>6, <1>8, <2>1, MutexKept
<1>9. CASE /\ infoMutex' = Nobody
           /\ \E l \in {"initialize", "shutdown", "check", "register", "idle",
                        "close", "reset"} : Goto(t, l)
  <2>1. PICK l \in {"initialize", "shutdown", "check", "register", "idle",
                    "close", "reset"} : Goto(t, l)
    BY <1>9
  <2> QED BY <1>2, <1>3, <1>4, <1>6, <1>9, <2>1, MutexKept
<1> QED BY <1>5, <1>7, <1>8, <1>9

(* Every step keeps the mutex in order.                                     *)
LEMMA MutexStep ==
  ASSUME TypeOK, MutexInv, [Next]_vars
  PROVE  MutexInv'
<1>1. ASSUME NEW t \in Threads, BeginRequest(t) \/ Work(t)
      PROVE  MutexInv'
  BY <1>1, MutexFree, MutexBegin, MutexReset, MutexTaken, MutexHeld DEF Work
<1>2. ASSUME NEW s \in Sessions, Pump(s) \/ Reply(s) \/ Exit(s) \/ Die(s)
      PROVE  MutexInv'
  <2>1. UNCHANGED <<pc, then, infoMutex, session>>
    BY <1>2
       DEF Pump, Connect, ConnectFails, ReceiveInitialize, HandleInitialize,
           HandleRefusal, RunHandler, HandlersDone, ClearHandlers,
           ReceiveShutdown, Abort, Reply, Exit, Die, completerVars,
           sessionVars, threadVars
  <2> QED BY <2>1, MutexSame
<1>3. CASE UNCHANGED vars
  <2>1. UNCHANGED <<pc, then, infoMutex, session>>
    BY <1>3 DEF vars, completerVars, sessionVars, threadVars
  <2> QED BY <2>1, MutexSame
<1> QED BY <1>1, <1>2, <1>3 DEF Next

-----------------------------------------------------------------------------
(* The sessions                                                             *)

(* What the steps below keep, beside MutexInv.                              *)
PartsInv ==
  /\ ExchangeInv /\ NoSessionInv /\ PumpInv /\ EventInv /\ NotBeforeInitialized

sessionFacts ==
  <<session, sessions, forgotten, initResponse, event, capabilities, alive,
    pump, wire, initialized, told, notified, docs, late, checked>>

(* What concerns no session.                                                *)
LEMMA QuietStep ==
  ASSUME PartsInv, UNCHANGED sessionFacts,
         \A u \in Threads : pc'[u] = "update" => pc[u] = "update"
  PROVE  PartsInv'
BY DEF PartsInv, sessionFacts, ExchangeInv, NoSessionInv, PumpInv, EventInv,
       NotBeforeInitialized, Over, Ended

(* A thread that goes anywhere but to the update.                           *)
LEMMA NoUpdate ==
  ASSUME TypeOK, NEW t \in Threads, NEW l, Goto(t, l), l # "update"
  PROVE  \A u \in Threads : pc'[u] = "update" => pc[u] = "update"
BY DEF TypeOK, Goto

(* A thread's steps that concern no session.                                *)
LEMMA QuietSteps ==
  ASSUME TypeOK, PartsInv, NEW t \in Threads,
         \/ BeginRequest(t) \/ OnFileReadyToParse(t) \/ CheckHealthy(t)
         \/ QueueHandlers(t) \/ ClearOneshotHandlers(t)
         \/ StartAndInitializeServer(t) \/ GetSettings(t)
         \/ StartServerFails(t) \/ Connected(t) \/ ConnectionTimeout(t)
         \/ SendInitialize(t) \/ RegisterInitialize(t) \/ RegisterUpdate(t)
         \/ ShutdownServer(t) \/ ShutdownRequest(t) \/ WriteShutdown(t)
         \/ ShutdownAnswered(t) \/ SendExitFails(t) \/ Close(t) \/ Join(t)
         \/ CloseStreams(t) \/ AwaitProcess(t) \/ ProcessTerminated(t)
  PROVE  PartsInv'
<1>1. \E l \in Places \ {"update"} : Goto(t, l)
  BY DEF BeginRequest, OnFileReadyToParse, CheckHealthy, QueueHandlers,
         ClearOneshotHandlers, StartAndInitializeServer, GetSettings,
         StartServerFails, Connected, ConnectionTimeout, SendInitialize,
         RegisterInitialize, RegisterUpdate, ShutdownServer, ShutdownRequest,
         WriteShutdown, ShutdownAnswered, SendExitFails, Close, Join,
         CloseStreams, AwaitProcess, ProcessTerminated, Return, Places
<1>2. UNCHANGED sessionFacts
  BY DEF BeginRequest, OnFileReadyToParse, CheckHealthy, QueueHandlers,
         ClearOneshotHandlers, StartAndInitializeServer, GetSettings,
         StartServerFails, Connected, ConnectionTimeout, SendInitialize,
         RegisterInitialize, RegisterUpdate, ShutdownServer, ShutdownRequest,
         WriteShutdown, ShutdownAnswered, SendExitFails, Close, Join,
         CloseStreams, AwaitProcess, ProcessTerminated, sessionFacts,
         outsideVars, completerVars, sessionVars, connVars, serverVars
<1> QED BY <1>1, <1>2, NoUpdate, QuietStep

(* A thread looks at the event: it is that of the session.                  *)
LEMMA CheckStep ==
  ASSUME TypeOK, PartsInv, NEW t \in Threads, CheckInitialized(t)
  PROVE  PartsInv'
<1>1. UNCHANGED <<session, sessions, forgotten, initResponse, event,
                  capabilities, alive, pump, wire, initialized, told, notified,
                  docs, late>>
  BY DEF CheckInitialized, completerVars, sessionVars, connVars, serverVars
<1>2. ExchangeInv' /\ NoSessionInv' /\ PumpInv' /\ NotBeforeInitialized'
  BY <1>1 DEF PartsInv, ExchangeInv, NoSessionInv, PumpInv,
              NotBeforeInitialized, Over, Ended
<1>3. ASSUME ~ forgotten, NEW u \in Threads, pc'[u] = "update"
      PROVE  /\ checked'[u] \in 1 .. sessions
             /\ ~ alive[checked'[u]] \/ checked'[u] \in told \cup initialized
  <2>1. CASE u = t
    <3>1. event /\ checked'[t] = session
      BY <1>3, <2>1 DEF CheckInitialized, TypeOK, Goto
    <3>2. session # 0
      BY <3>1 DEF PartsInv, NoSessionInv
    <3>3. ~ alive[session] \/ session \in told \cup initialized
      BY <1>3, <3>1, <3>2 DEF PartsInv, EventInv
    <3>4. session \in 1 .. sessions
      BY <3>2, Numbers DEF TypeOK
    <3> QED BY <2>1, <3>1, <3>3, <3>4
  <2>2. CASE u # t
    <3>1. pc'[u] = pc[u] /\ checked'[u] = checked[u]
      BY <2>2 DEF TypeOK, CheckInitialized, Goto
    <3> QED BY <1>3, <3>1 DEF PartsInv, EventInv
  <2> QED BY <2>1, <2>2
<1>4. EventInv'
  BY <1>1, <1>3 DEF PartsInv, EventInv
<1> QED BY <1>2, <1>4 DEF PartsInv

(* An update: the server has answered initialize, or the check was of       *)
(* another session, or it was told to exit.                                 *)
LEMMA UpdateStep ==
  ASSUME TypeOK, PartsInv, NEW t \in Threads, UpdateServer(t)
  PROVE  PartsInv'
<1>1. UNCHANGED <<session, sessions, forgotten, initResponse, event,
                  capabilities, alive, pump, wire, initialized, told, notified,
                  checked>>
  BY DEF UpdateServer, sessionVars
<1>2. \A u \in Threads : pc'[u] = "update" => pc[u] = "update"
  BY NoUpdate DEF UpdateServer, Return
<1>3. ExchangeInv' /\ NoSessionInv' /\ PumpInv' /\ EventInv'
  BY <1>1, <1>2 DEF PartsInv, ExchangeInv, NoSessionInv, PumpInv, EventInv,
                    Over, Ended
<1>4. ASSUME ~ forgotten, NEW s \in Sessions,
             docs'[s] # 0, s \notin late' \cup told
      PROVE  s \in initialized
  <2>1. CASE s = session /\ CanWrite(session)
    <3>1. checked[t] = session
      BY <1>4, <2>1 DEF UpdateServer
    <3>2. pc[t] = "update" /\ alive[session]
      BY <2>1 DEF UpdateServer, CanWrite
    <3> QED BY <1>4, <2>1, <3>1, <3>2 DEF PartsInv, EventInv
  <2>2. CASE ~ (s = session /\ CanWrite(session))
    <3>1. docs'[s] = docs[s] /\ late \subseteq late'
      BY <2>2 DEF TypeOK, UpdateServer, Update
    <3> QED BY <1>4, <3>1 DEF PartsInv, NotBeforeInitialized
  <2> QED BY <2>1, <2>2
<1>5. NotBeforeInitialized'
  BY <1>1, <1>4 DEF PartsInv, NotBeforeInitialized
<1> QED BY <1>3, <1>5 DEF PartsInv

(* A session begins: there was none, or it is forgotten.                    *)
LEMMA StartStep ==
  ASSUME TypeOK, PartsInv, NEW t \in Threads, StartServer(t)
  PROVE  PartsInv'
<1>1. /\ sessions \in Nat /\ sessions + 1 \in Sessions
      /\ session' = sessions + 1 /\ sessions' = sessions + 1
  <2>1. sessions < MaxSessions /\ sessions' = sessions + 1
    BY DEF StartServer
  <2>2. session' = sessions + 1
    BY DEF StartServer
  <2>3. sessions \in Nat
    BY Numbers
  <2> QED BY <2>1, <2>2, <2>3 DEF Sessions
<1>2. UNCHANGED <<initResponse, event, capabilities, wire, initialized, told,
                  notified, docs, late, checked>>
  BY DEF StartServer
<1>3. /\ pump' = [pump EXCEPT ![sessions + 1] = "connecting"]
      /\ alive' = [alive EXCEPT ![sessions + 1] = TRUE]
      /\ forgotten' = (forgotten \/ session # 0)
  BY DEF StartServer
<1>4. /\ pump'[sessions + 1] = "connecting"
      /\ \A s \in Sessions \ {sessions + 1} :
           pump'[s] = pump[s] /\ alive'[s] = alive[s]
  BY <1>1, <1>3 DEF TypeOK
<1>5. \A u \in Threads : pc'[u] = "update" => pc[u] = "update"
  BY NoUpdate DEF StartServer
<1>6. ~ forgotten' => ~ forgotten /\ session = 0 /\ ~ event
  BY <1>3 DEF PartsInv, NoSessionInv, TypeOK
<1>7. ExchangeInv'
  BY <1>1, <1>2, <1>4 DEF PartsInv, ExchangeInv
<1>8. NoSessionInv'
  BY <1>1 DEF NoSessionInv
<1>9. PumpInv'
  BY <1>1, <1>4, <1>6 DEF PartsInv, PumpInv, Over, Ended, Sessions
<1>10. EventInv'
  <2>1. ASSUME ~ forgotten', NEW u \in Threads, pc'[u] = "update"
        PROVE  /\ checked'[u] \in 1 .. sessions'
               /\ \/ ~ alive'[checked'[u]]
                  \/ checked'[u] \in told' \cup initialized'
    <3>1. /\ checked[u] \in 1 .. sessions
          /\ ~ alive[checked[u]] \/ checked[u] \in told \cup initialized
      BY <1>5, <1>6, <2>1 DEF PartsInv, EventInv
    <3>2. checked[u] \in Sessions \ {sessions + 1}
      BY <1>1, <3>1, Numbers DEF Sessions
    <3>3. checked[u] \in 1 .. sessions'
      BY <1>1, <3>1
    <3> QED BY <1>2, <1>4, <3>1, <3>2, <3>3
  <2> QED BY <1>2, <1>6, <2>1 DEF EventInv
<1>11. NotBeforeInitialized'
  BY <1>2, <1>6 DEF PartsInv, NotBeforeInitialized
<1> QED BY <1>7, <1>8, <1>9, <1>10, <1>11 DEF PartsInv

(* The initialize request of the session.                                   *)
LEMMA InitializeStep ==
  ASSUME TypeOK, MutexInv, PartsInv, NEW t \in Threads, WriteInitialize(t)
  PROVE  PartsInv'
<1>1. UNCHANGED <<session, sessions, forgotten, event, capabilities, alive,
                  pump, wire, initialized, told, notified, docs, late, checked>>
  BY DEF WriteInitialize, sessionVars
<1>2. \E l \in {"check", "register", "idle"} : Goto(t, l)
  BY DEF WriteInitialize, AfterStart, Return
<1>3. \A u \in Threads : pc'[u] = "update" => pc[u] = "update"
  BY <1>2, NoUpdate
<1>4. session # 0
  BY DEF WriteInitialize, MutexInv
<1> QED BY <1>1, <1>3, <1>4
        DEF PartsInv, ExchangeInv, NoSessionInv, PumpInv, EventInv,
            NotBeforeInitialized, Over, Ended

(* The exit notification: whoever waits is released.                        *)
LEMMA ExitStep ==
  ASSUME TypeOK, PartsInv, NEW t \in Threads, SendExit(t)
  PROVE  PartsInv'
<1>1. UNCHANGED <<session, sessions, forgotten, capabilities, alive, pump,
                  wire, initialized, notified, docs, late, checked>>
  BY DEF SendExit, sessionVars, connVars
<1>2. \A u \in Threads : pc'[u] = "update" => pc[u] = "update"
  BY NoUpdate DEF SendExit
<1>3. /\ told \subseteq told'
      /\ session # 0 => ~ alive[session] \/ session \in told'
  BY DEF SendExit, ServerIsHealthy
<1>4. session = 0 => ~ initResponse' /\ ~ event'
  BY DEF SendExit, PartsInv, NoSessionInv, InitializeComplete
<1>5. ExchangeInv' /\ NoSessionInv' /\ PumpInv' /\ NotBeforeInitialized'
  BY <1>1, <1>3, <1>4 DEF PartsInv, ExchangeInv, NoSessionInv, PumpInv,
                          NotBeforeInitialized, Over, Ended
<1>6. EventInv'
  BY <1>1, <1>2, <1>3 DEF PartsInv, EventInv
<1> QED BY <1>5, <1>6 DEF PartsInv

(* _Reset, after which there is no session, or a healthy one goes on.       *)
LEMMA ResetStep ==
  ASSUME TypeOK, MutexInv, PartsInv, NEW t \in Threads,
         Shutdown(t) \/ ShutdownDone(t)
  PROVE  PartsInv'
<1>1. UNCHANGED <<sessions, alive, pump, wire, initialized, told, notified,
                  docs, late, checked>>
  BY DEF Shutdown, ShutdownDone, Reset, outsideVars, completerVars,
         sessionVars, connVars, serverVars
<1>2. \A u \in Threads : pc'[u] = "update" => pc[u] = "update"
  <2>1. Goto(t, then[t]) \/ Goto(t, "shutdown server")
    BY DEF Shutdown, ShutdownDone
  <2>2. then[t] # "update"
    BY DEF MutexInv
  <2> QED BY <2>1, <2>2, NoUpdate
<1>3. CASE Reset
  <2>1. /\ session' = 0 /\ ~ initResponse' /\ ~ event'
        /\ forgotten' = (forgotten \/ (session # 0 /\ ~ Over(session)))
    BY <1>3 DEF Reset
  <2>2. ~ forgotten' => ~ forgotten /\ (session = 0 \/ Over(session))
    BY <2>1 DEF TypeOK
  <2>3. ExchangeInv' /\ NoSessionInv' /\ EventInv' /\ NotBeforeInitialized'
    BY <1>1, <1>2, <2>1, <2>2 DEF PartsInv, ExchangeInv, NoSessionInv,
                                  EventInv, NotBeforeInitialized
  <2>4. PumpInv'
    BY <1>1, <2>1, <2>2 DEF PartsInv, PumpInv, Over, Ended
  <2> QED BY <2>3, <2>4 DEF PartsInv
<1>4. CASE UNCHANGED completerVars
  <2>1. UNCHANGED sessionFacts
    BY <1>1, <1>4 DEF completerVars, sessionVars, sessionFacts
  <2> QED BY <1>2, <2>1, QuietStep
<1> QED BY <1>3, <1>4 DEF Shutdown, ShutdownDone

(* A pump that has something to do to the completer is that of the session. *)
LEMMA OwnPump ==
  ASSUME PartsInv, ~ forgotten, NEW s \in Sessions, pump[s] # "none", ~ Over(s)
  PROVE  s = session
BY DEF PartsInv, PumpInv

(* A pump goes from one place to another.                                   *)
LEMMA PumpStep ==
  ASSUME TypeOK, PartsInv, NEW s \in Sessions, NEW l \in PumpPlaces,
         pump' = [pump EXCEPT ![s] = l],
         ~ Over(s) \/ l = "ended",
         pump[s] # "none",
         l \in {"initialize", "handlers", "clear"} => s \in initialized,
         UNCHANGED <<session, sessions, forgotten, initResponse, event,
                     capabilities, alive, initialized, told, notified, docs,
                     late, checked, pc>>,
         \A r \in Sessions : wire'[r] \subseteq wire[r]
  PROVE  PartsInv'
<1>1. /\ pump'[s] = l
      /\ \A r \in Sessions \ {s} : pump'[r] = pump[r]
  BY DEF TypeOK
<1>2. ExchangeInv'
  BY <1>1 DEF PartsInv, ExchangeInv
<1>3. PumpInv'
  BY <1>1, OwnPump DEF PartsInv, PumpInv, Over, Ended
<1>4. NoSessionInv' /\ EventInv' /\ NotBeforeInitialized'
  BY DEF PartsInv, NoSessionInv, EventInv, NotBeforeInitialized
<1> QED BY <1>2, <1>3, <1>4 DEF PartsInv

(* The steps of a pump that leave the completer alone.                      *)
LEMMA PumpSteps ==
  ASSUME TypeOK, PartsInv, NEW s \in Sessions,
         \/ Connect(s) \/ ConnectFails(s) \/ ReceiveInitialize(s)
         \/ HandleRefusal(s) \/ HandlersDone(s) \/ ClearHandlers(s)
         \/ ReceiveShutdown(s) \/ Abort(s)
  PROVE  PartsInv'
<1>1. UNCHANGED <<session, sessions, forgotten, initResponse, event,
                  capabilities, alive, initialized, told, notified, docs, late,
                  checked, pc>>
  BY DEF Connect, ConnectFails, ReceiveInitialize, HandleRefusal,
         HandlersDone, ClearHandlers, ReceiveShutdown, Abort, completerVars,
         sessionVars, threadVars, serverVars
<1>2. \A r \in Sessions : wire'[r] \subseteq wire[r]
  BY DEF Connect, ConnectFails, ReceiveInitialize, HandleRefusal,
         HandlersDone, ClearHandlers, ReceiveShutdown, Abort, serverVars, TypeOK
<1>3. CASE Connect(s) \/ ConnectFails(s) \/ HandleRefusal(s)
           \/ ClearHandlers(s)
  <2>1. \E l \in PumpPlaces \ {"initialize", "handlers", "clear"} :
          pump' = [pump EXCEPT ![s] = l]
    BY <1>3 DEF Connect, ConnectFails, HandleRefusal, ClearHandlers, PumpPlaces
  <2>2. pump[s] # "none" /\ ~ Over(s)
    BY <1>3 DEF Connect, ConnectFails, HandleRefusal, ClearHandlers, Over, Ended
  <2> QED BY <1>1, <1>2, <2>1, <2>2, PumpStep
<1>4. CASE ReceiveInitialize(s)
  <2>1. PICK m \in wire[s] : pump' =
          [pump EXCEPT ![s] = IF m = Initialize THEN "initialize" ELSE "refused"]
    BY <1>4 DEF ReceiveInitialize
  <2>2. /\ (IF m = Initialize THEN "initialize" ELSE "refused") \in PumpPlaces
        /\ (IF m = Initialize THEN "initialize" ELSE "refused") \in
             {"initialize", "handlers", "clear"} => s \in initialized
    BY DEF PumpPlaces, PartsInv, ExchangeInv
  <2>3. pump[s] # "none" /\ ~ Over(s)
    BY <1>4 DEF ReceiveInitialize, Over, Ended
  <2> QED BY <1>1, <1>2, <2>1, <2>2, <2>3, PumpStep
<1>5. CASE HandlersDone(s)
  <2>1. /\ pump[s] = "handlers" /\ pump' = [pump EXCEPT ![s] = "clear"]
        /\ s \in initialized
    BY <1>5 DEF HandlersDone, PartsInv, ExchangeInv
  <2>2. ~ Over(s) /\ "clear" \in PumpPlaces
    BY <2>1 DEF Over, Ended, PumpPlaces
  <2> QED BY <1>1, <1>2, <2>1, <2>2, PumpStep
<1>6. CASE ReceiveShutdown(s)
  <2>1. pump' = pump
    BY <1>6 DEF ReceiveShutdown
  <2> QED BY <1>1, <1>2, <2>1 DEF PartsInv, ExchangeInv, NoSessionInv, PumpInv,
                               EventInv, NotBeforeInitialized, Over, Ended
<1>7. CASE Abort(s)
  <2>1. pump[s] \in {"reading", "failing"} /\ pump' = [pump EXCEPT ![s] = "ended"]
    BY <1>7 DEF Abort
  <2>2. "ended" \in PumpPlaces
    BY DEF PumpPlaces
  <2> QED BY <1>1, <1>2, <2>1, <2>2, PumpStep
<1> QED BY <1>3, <1>4, <1>5, <1>6, <1>7

(* The answer to initialize is handled: for the session, which has given it.*)
LEMMA HandleStep ==
  ASSUME TypeOK, PartsInv, NEW s \in Sessions, HandleInitialize(s)
  PROVE  PartsInv'
<1>1. UNCHANGED <<session, sessions, forgotten, alive, wire, initialized, told,
                  docs, late, checked, pc>>
  BY DEF HandleInitialize, sessionVars, threadVars
<1>2. pump[s] = "initialize" /\ s \in initialized
  BY DEF HandleInitialize, PartsInv, ExchangeInv
<1>3. ~ forgotten => s = session
  BY <1>2, OwnPump DEF Over, Ended
<1>4. \E l \in {"handlers", "failing"} : pump' = [pump EXCEPT ![s] = l]
  BY DEF HandleInitialize
<1>5. ExchangeInv' /\ PumpInv'
  <2>1. \A r \in Sessions \ {s} : pump'[r] = pump[r]
    BY <1>4 DEF TypeOK
  <2>2. ExchangeInv'
    BY <1>1, <1>2, <2>1 DEF PartsInv, ExchangeInv
  <2>3. PumpInv'
    BY <1>1, <1>3, <2>1 DEF PartsInv, PumpInv, Over, Ended
  <2> QED BY <2>2, <2>3
<1>6. CASE CanWrite(session)
  <2>1. /\ capabilities' = s /\ notified' = notified \cup {session}
        /\ session # 0
    BY <1>6 DEF HandleInitialize, CanWrite
  <2>2. NoSessionInv'
    BY <1>1, <2>1 DEF NoSessionInv
  <2>3. EventInv'
    BY <1>1, <1>2, <1>3, <2>1 DEF PartsInv, EventInv
  <2>4. NotBeforeInitialized'
    BY <1>1, <1>2, <1>3, <2>1 DEF PartsInv, NotBeforeInitialized
  <2> QED BY <1>5, <2>2, <2>3, <2>4 DEF PartsInv
<1>7. CASE ~ CanWrite(session)
  <2>1. capabilities' = s /\ UNCHANGED <<notified, initResponse, event>>
    BY <1>7 DEF HandleInitialize
  <2>2. NoSessionInv' /\ NotBeforeInitialized'
    BY <1>1, <2>1 DEF PartsInv, NoSessionInv, NotBeforeInitialized
  <2>3. EventInv'
    BY <1>1, <1>3, <2>1 DEF PartsInv, EventInv
  <2> QED BY <1>5, <2>2, <2>3 DEF PartsInv
<1> QED BY <1>6, <1>7

(* A handler updates the session, whose server has answered.                *)
LEMMA HandlerStep ==
  ASSUME TypeOK, PartsInv, NEW s \in Sessions, RunHandler(s)
  PROVE  PartsInv'
<1>1. UNCHANGED <<session, sessions, forgotten, initResponse, event,
                  capabilities, alive, wire, initialized, told, notified, late,
                  checked, pc>>
  BY DEF RunHandler, completerVars, sessionVars, threadVars
<1>2. pump[s] = "handlers" /\ s \in initialized
  BY DEF RunHandler, PartsInv, ExchangeInv
<1>3. ~ forgotten => s = session
  BY <1>2, OwnPump DEF Over, Ended
<1>4. pump' = pump \/ pump' = [pump EXCEPT ![s] = "failing"]
  BY DEF RunHandler
<1>5. ExchangeInv' /\ PumpInv'
  <2>1. \A r \in Sessions \ {s} : pump'[r] = pump[r]
    BY <1>4 DEF TypeOK
  <2>2. ExchangeInv'
    BY <1>1, <1>2, <2>1 DEF PartsInv, ExchangeInv
  <2>3. PumpInv'
    BY <1>1, <1>3, <2>1 DEF PartsInv, PumpInv, Over, Ended
  <2> QED BY <2>2, <2>3
<1>6. \A r \in Sessions \ {session} : docs'[r] = docs[r]
  BY DEF TypeOK, RunHandler, Update
<1>7. NotBeforeInitialized'
  BY <1>1, <1>2, <1>3, <1>6 DEF PartsInv, NotBeforeInitialized
<1>8. NoSessionInv' /\ EventInv'
  BY <1>1 DEF PartsInv, NoSessionInv, EventInv
<1> QED BY <1>5, <1>7, <1>8 DEF PartsInv

(* The servers.                                                             *)
LEMMA ServerSteps ==
  ASSUME TypeOK, PartsInv, NEW s \in Sessions, Reply(s) \/ Exit(s) \/ Die(s)
  PROVE  PartsInv'
<1>1. UNCHANGED <<session, sessions, forgotten, initResponse, event,
                  capabilities, pump, told, notified, docs, late, checked, pc>>
  BY DEF Reply, Exit, Die, completerVars, sessionVars, threadVars, connVars
<1>2. \A r \in Sessions : alive'[r] => alive[r]
  BY DEF Reply, Exit, Die, TypeOK
<1>3. initialized \subseteq initialized'
  BY DEF Reply, Exit, Die
<1>4. \A r \in Sessions : Initialize \in wire'[r] =>
        Initialize \in wire[r] \/ r \in initialized'
  <2>1. CASE Reply(s)
    <3>1. PICK m \in inbox[s] :
            \/ /\ wire' = [wire EXCEPT ![s] = @ \cup {m}]
               /\ initialized' = IF m = Initialize THEN initialized \cup {s}
                                                   ELSE initialized
            \/ wire' = [wire EXCEPT ![s] = @ \cup {Refusal}]
      BY <2>1 DEF Reply
    <3>2. Initialize # Refusal
      BY DEF Initialize, Refusal
    <3>3. wire \in [Sessions -> SUBSET Messages]
      BY DEF TypeOK
    <3>4. ASSUME NEW r \in Sessions, Initialize \in wire'[r]
          PROVE  Initialize \in wire[r] \/ r \in initialized'
      <4>1. CASE r # s
        BY <3>1, <3>3, <3>4, <4>1
      <4>2. CASE r = s /\ m = Initialize
        BY <3>1, <3>2, <3>3, <3>4, <4>2
      <4>3. CASE r = s /\ m # Initialize
        BY <3>1, <3>2, <3>3, <3>4, <4>3
      <4> QED BY <4>1, <4>2, <4>3
    <3> QED BY <3>4
  <2>2. CASE Exit(s) \/ Die(s)
    BY <2>2 DEF Exit, Die
  <2> QED BY <2>1, <2>2
<1>5. ExchangeInv' /\ NoSessionInv' /\ PumpInv' /\ NotBeforeInitialized'
  BY <1>1, <1>3, <1>4 DEF PartsInv, ExchangeInv, NoSessionInv, PumpInv,
                          NotBeforeInitialized, Over, Ended
<1>6. EventInv'
  <2>1. session # 0 => session \in Sessions
    BY Numbers
  <2>2. \A r \in 1 .. sessions : r \in Sessions
    BY Numbers DEF Sessions
  <2> QED BY <1>1, <1>2, <1>3, <2>1, <2>2 DEF PartsInv, EventInv
<1> QED BY <1>5, <1>6 DEF PartsInv

(* Every step.                                                              *)
LEMMA SessionStep ==
  ASSUME TypeOK, SessionInv, [Next]_vars
  PROVE  SessionInv'
<1>1. MutexInv /\ PartsInv
  BY DEF SessionInv, PartsInv
<1>2. ASSUME NEW t \in Threads, BeginRequest(t) \/ Work(t)
      PROVE  PartsInv'
  BY <1>1, <1>2, QuietSteps, CheckStep, UpdateStep, StartStep, InitializeStep,
     ExitStep, ResetStep DEF Work
<1>3. ASSUME NEW s \in Sessions, Pump(s) \/ Reply(s) \/ Exit(s) \/ Die(s)
      PROVE  PartsInv'
  BY <1>1, <1>3, PumpSteps, HandleStep, HandlerStep, ServerSteps DEF Pump
<1>4. ASSUME UNCHANGED vars
      PROVE  PartsInv'
  <2>1. UNCHANGED sessionFacts
    BY <1>4 DEF vars, sessionFacts, completerVars, sessionVars, threadVars,
                connVars, serverVars
  <2>2. pc' = pc
    BY <1>4 DEF vars, threadVars
  <2> QED BY <1>1, <2>1, <2>2, QuietStep
<1>5. PartsInv'
  <2>1. CASE Next
    BY <1>2, <1>3, <2>1 DEF Next
  <2> QED BY <1>4, <2>1
<1>6. MutexInv'
  BY <1>1, MutexStep
<1> QED BY <1>5, <1>6 DEF SessionInv, PartsInv

-----------------------------------------------------------------------------
(* Theorems                                                                 *)

(* The types, initially.                                                    *)
LEMMA InitTypes ==
  ASSUME Init
  PROVE  TypeOK /\ HandlersInv
<1>1. lists \in Seq(Seq(1 .. MaxRequests)) /\ lists # <<>>
  BY DEF Init
<1>2. /\ session \in 0 .. sessions /\ sessions \in 0 .. MaxSessions
      /\ capabilities \in 0 .. MaxSessions
      /\ requests \in 0 .. MaxRequests /\ deaths \in 0 .. MaxDeaths
  BY DEF Init
<1>3. /\ pc \in [Threads -> Places] /\ then \in [Threads -> Places]
      /\ pump \in [Sessions -> PumpPlaces]
  BY DEF Init, Places, PumpPlaces
<1>4. /\ index \in [Sessions -> Nat \X Nat]
      /\ number \in [Threads -> 0 .. MaxRequests]
      /\ closing \in [Threads -> 0 .. MaxSessions]
      /\ checked \in [Threads -> 0 .. MaxSessions]
      /\ docs \in [Sessions -> 0 .. MaxRequests]
  BY DEF Init
<1>5. TypeOK
  BY <1>1, <1>2, <1>3, <1>4 DEF Init, TypeOK
<1>6. HandlersInv
  BY <1>1 DEF Init, HandlersInv
<1> QED BY <1>5, <1>6

(* The sessions, initially.                                                 *)
LEMMA InitSession ==
  ASSUME Init
  PROVE  SessionInv
<1>1. MutexInv
  BY DEF Init, MutexInv, Holding
<1>2. ExchangeInv /\ NoSessionInv /\ PumpInv
  BY DEF Init, ExchangeInv, NoSessionInv, PumpInv
<1>3. EventInv /\ NotBeforeInitialized
  BY DEF Init, EventInv, NotBeforeInitialized
<1> QED BY <1>1, <1>2, <1>3 DEF SessionInv

(* Every variable of the completer, of its connections and of the servers   *)
(* has its type, for any threads, requests, sessions and deaths; a pump     *)
(* that calls handlers is in a list that exists.                            *)
THEOREM TypeCorrect == Spec => [](TypeOK /\ HandlersInv)
<1>1. TypeOK /\ HandlersInv /\ [Next]_vars => (TypeOK /\ HandlersInv)'
  BY TypeStep
<1>2. Init => TypeOK /\ HandlersInv
  BY InitTypes
<1> QED BY <1>1, <1>2, PTL DEF Spec

(* What the completer knows of a session is true of it, whoever starts,     *)
(* stops and restarts servers, and whichever die or do not answer; as long  *)
(* as no session has been forgotten before its pump was over.               *)
THEOREM SessionIsKept == Spec => []SessionInv
<1>1. TypeOK /\ SessionInv /\ [Next]_vars => SessionInv'
  BY SessionStep
<1>2. Init => SessionInv
  BY InitSession
<1> QED BY <1>1, <1>2, TypeCorrect, PTL DEF Spec

(* A server that was sent the initialized notification, or a document, has  *)
(* answered initialize.                                                     *)
THEOREM InitializeFirst == Spec => []NotBeforeInitialized
<1>1. SessionInv => NotBeforeInitialized
  BY DEF SessionInv
<1> QED BY <1>1, SessionIsKept, PTL

(* The event that is set, the capabilities and the initialized notification *)
(* are those of the session.                                                *)
THEOREM EventIsOfSession == Spec => []EventOfSession
<1>1. SessionInv => EventOfSession
  BY DEF SessionInv, EventInv, EventOfSession, ServerIsHealthy
<1> QED BY <1>1, SessionIsKept, PTL
=============================================================================
