----------------------- MODULE TypeScriptServer_proofs ------------------------
(***************************************************************************)
(* Proofs about TypeScriptServer, for any set of threads, any number of    *)
(* servers, of requests and of operations.                                 *)
(*                                                                         *)
(* The argument: a request has its number to itself and registers its      *)
(* deferred response before it is written (SeqInv), so an answer always    *)
(* finds one.  Only the thread that holds _tsserver_lock starts and stops  *)
(* servers (TypeOK relates the lock to the program counters), the handle is*)
(* the last server or none, and its input is closed before it is forgotten *)
(* (ServerInv): OneServer rests on that.  NoAnswerLost needs to know which *)
(* server the reader reads from (ReaderInv) and that an unanswered request *)
(* is in the inbox of the server it was sent to (InboxInv).  There is one  *)
(* lemma for every action, and one step in it for every part of IInv.      *)
(***************************************************************************)
EXTENDS TypeScriptServer, SequenceTheorems, TLAPS

USE TypeScriptServerAssumption

(* Sending a message leaves those on the way alone. *)
LEMMA Sent ==
  ASSUME NEW S, NEW q \in Seq(S), NEW m \in S
  PROVE  /\ Append(q, m) \in Seq(S)
         /\ \A n \in DOMAIN q : n \in DOMAIN Append(q, m)
                                /\ Append(q, m)[n] = q[n]
         /\ Len(q) + 1 \in DOMAIN Append(q, m)
         /\ Append(q, m)[Len(q) + 1] = m
  OBVIOUS

(* Reading a message leaves the others as they are, one place further on.   *)
LEMMA Taken ==
  ASSUME NEW S, NEW q \in Seq(S), q # <<>>
  PROVE  /\ Tail(q) \in Seq(S)
         /\ Head(q) \in S
         /\ \A n \in DOMAIN q : \/ q[n] = Head(q)
                                \/ /\ n - 1 \in DOMAIN Tail(q)
                                   /\ Tail(q)[n - 1] = q[n]
  OBVIOUS

(* Who is not in the part of the code that holds the lock stays outside, and *)
(* who is in it stays inside.                                               *)
LEMMA LockKept ==
  ASSUME TypeOK, NEW t \in Threads, NEW label, Goto(t, label), lock' = lock,
         pc[t] \in Locked <=> label \in Locked
  PROVE  {s \in Threads : pc'[s] \in Locked} = {lock'} \ {Nobody}
<1>1. \A s \in Threads : pc'[s] \in Locked <=> pc[s] \in Locked
  BY DEF TypeOK, Goto
<1> QED BY <1>1 DEF TypeOK

(* A thread moves on to another place. *)
LEMMA Moved ==
  ASSUME TypeOK, NEW t \in Threads, NEW label \in Labels,
         pc' = [pc EXCEPT ![t] = label]
  PROVE  pc' \in [Threads -> Labels]
  BY DEF TypeOK

(* The lock is held by who is in the part of the code that holds it.        *)
LEMMA LockOwner ==
  ASSUME IInv
  PROVE  /\ lock \in Threads \cup {Nobody}
         /\ \A t \in Threads : pc[t] \in Locked <=> lock = t
<1>1. {t \in Threads : pc[t] \in Locked} = {lock} \ {Nobody}
  BY DEF IInv, TypeOK
<1>2. lock # Nobody => lock \in Threads
  BY <1>1
<1> QED BY <1>1, <1>2

(* The next number is new, as long as the bound on the requests is not       *)
(* reached.                                                                  *)
LEMMA Numbers ==
  ASSUME IInv
  PROVE  /\ sequenceId \in Nat /\ 0 \in 0 .. sequenceId
         /\ sequenceId < MaxRequests =>
              /\ sequenceId + 1 \in Seqs
              /\ sequenceId + 1 \in 0 .. MaxRequests
              /\ 0 .. sequenceId + 1 = 0 .. sequenceId \cup {sequenceId + 1}
              /\ 1 .. sequenceId + 1 = 1 .. sequenceId \cup {sequenceId + 1}
         /\ \A t \in Threads : pc[t] \in Waiting => seq[t] \in Seqs
         /\ started \in Servers /\ started \in Nat
         /\ 0 \in 0 .. started /\ started \in 0 .. started
         /\ started < MaxServers =>
              /\ started + 1 \in Servers
              /\ 0 .. started + 1 = 0 .. started \cup {started + 1}
         /\ handle # 0 => handle \in Servers /\ handle = started
         /\ from # 0 => from \in Servers
         /\ Servers \subseteq 0 .. MaxServers /\ 0 \in 0 .. MaxServers
         /\ 1 \in Servers /\ Event \notin Seqs
<1>1. /\ sequenceId \in 0 .. MaxRequests /\ started \in Servers
      /\ handle \in {0, started} /\ from \in 0 .. started
      /\ \A t \in Threads : pc[t] \in Waiting => seq[t] \in 1 .. sequenceId
  BY DEF IInv, TypeOK, SeqInv, ServerInv, ReaderInv
<1>2. MaxRequests \in Nat /\ MaxServers \in Nat \ {0}
  OBVIOUS
<1> QED BY <1>1, <1>2 DEF Seqs, Servers, Event

(* A thread begins an operation that the completer performs. *)
LEMMA BeginStep ==
  ASSUME IInv, NEW t \in Threads, Begin(t)
  PROVE  IInv'
<1>1. TypeOK'
  <2>1. pc' \in [Threads -> Labels]
    <3>1. \E label \in {"build", "lock"} :
            pc' = [pc EXCEPT ![t] = label]
      BY DEF Begin, Goto
    <3> QED BY <3>1, Moved DEF IInv, Labels, Locked
  <2>2. {s \in Threads : pc'[s] \in Locked} = {lock'} \ {Nobody}
    BY LockKept DEF IInv, TypeOK, Locked, Begin, stateVars, deferVars,
       readerVars, streamVars, serverVars
  <2> QED BY <2>1, <2>2 DEF IInv, TypeOK, Begin, Goto, stateVars, deferVars,
       readerVars, streamVars, serverVars
<1>2. SeqInv'
  BY DEF IInv, SeqInv, TypeOK, Waiting, Begin, Goto, stateVars, deferVars,
     readerVars, streamVars, serverVars
<1>3. ServerInv'
  <2>1. /\ \A u \in Threads : u # t => pc'[u] = pc[u]
        /\ pc'[t] \notin {"close output", "forget", "start"}
        /\ handle' = handle /\ started' = started
        /\ process' = process /\ input' = input
    BY DEF IInv, TypeOK, Begin, Goto, stateVars, deferVars, readerVars,
       streamVars, serverVars
  <2> QED BY <2>1 DEF IInv, ServerInv
<1>4. ReaderInv'
  BY DEF IInv, ReaderInv, TypeOK, Begin, Goto, stateVars, deferVars,
     readerVars, streamVars, serverVars
<1>5. InboxInv'
  BY DEF IInv, InboxInv, TypeOK, Begin, Goto, stateVars, deferVars,
     readerVars, streamVars, serverVars
<1>6. OneServer'
  BY DEF IInv, OneServer, TypeOK, Begin, Goto, stateVars, deferVars,
     readerVars, streamVars, serverVars
<1>7. NoAnswerLost'
  BY DEF IInv, NoAnswerLost, TypeOK, Begin, Goto, stateVars, deferVars,
     readerVars, streamVars, serverVars
<1> QED BY <1>1, <1>2, <1>3, <1>4, <1>5, <1>6, <1>7 DEF IInv

(* _BuildRequest takes the next number: it is in no stream and no inbox. *)
LEMMA BuildRequestStep ==
  ASSUME IInv, NEW t \in Threads, BuildRequest(t)
  PROVE  IInv'
<1>1. TypeOK'
  <2>1. pc' \in [Threads -> Labels]
    BY DEF IInv, TypeOK, Labels, Locked, BuildRequest, Goto, NextStep,
       stateVars, deferVars, readerVars, streamVars, serverVars, boundVars
  <2>2. {s \in Threads : pc'[s] \in Locked} = {lock'} \ {Nobody}
    BY LockKept DEF IInv, TypeOK, Locked, BuildRequest, NextStep, stateVars,
       deferVars, readerVars, streamVars, serverVars, boundVars
  <2>3. seq' \in [Threads -> 0 .. sequenceId']
    BY Numbers DEF IInv, TypeOK, BuildRequest
  <2>4. sequenceId' \in 0 .. MaxRequests
    BY Numbers DEF BuildRequest
  <2> QED BY <2>1, <2>2, <2>3, <2>4 DEF IInv, TypeOK, BuildRequest, Goto,
           NextStep,
       stateVars, deferVars, readerVars, streamVars, serverVars, boundVars
<1>2. SeqInv'
  <2>1. /\ \A u \in Threads : u # t => pc'[u] = pc[u] /\ seq'[u] = seq[u]
        /\ pc'[t] = "register" /\ seq'[t] = sequenceId + 1
        /\ sequenceId' = sequenceId + 1 /\ sequenceId + 1 \in Seqs
        /\ pending' = pending /\ resolved' = resolved /\ replied' = replied
        /\ inbox' = inbox
    BY Numbers
    DEF IInv, TypeOK, BuildRequest, Goto, NextStep, deferVars, serverVars
  <2>2. /\ sequenceId + 1 > sequenceId
        /\ \A i \in Seqs : i > sequenceId + 1 => i > sequenceId
        /\ sequenceId + 1 \notin 1 .. sequenceId
        /\ 1 .. sequenceId + 1 = 1 .. sequenceId \cup {sequenceId + 1}
    BY Numbers DEF Seqs, BuildRequest
  <2> QED BY <2>1, <2>2 DEF IInv, SeqInv, Waiting
<1>3. ServerInv'
  BY DEF IInv, ServerInv, TypeOK, BuildRequest, Goto, NextStep, stateVars,
     deferVars, readerVars, streamVars, serverVars, boundVars
<1>4. ReaderInv'
  BY DEF IInv, ReaderInv, TypeOK, BuildRequest, Goto, NextStep, stateVars,
     deferVars, readerVars, streamVars, serverVars, boundVars
<1>5. InboxInv'
  BY DEF IInv, InboxInv, TypeOK, BuildRequest, Goto, NextStep, stateVars,
     deferVars, readerVars, streamVars, serverVars, boundVars
<1>6. OneServer'
  BY DEF IInv, OneServer, TypeOK, BuildRequest, Goto, NextStep, stateVars,
     deferVars, readerVars, streamVars, serverVars, boundVars
<1>7. NoAnswerLost'
  BY DEF IInv, NoAnswerLost, TypeOK, BuildRequest, Goto, NextStep, stateVars,
     deferVars, readerVars, streamVars, serverVars, boundVars
<1> QED BY <1>1, <1>2, <1>3, <1>4, <1>5, <1>6, <1>7 DEF IInv

(* The deferred response is registered, before anything is written. *)
LEMMA RegisterResponseStep ==
  ASSUME IInv, NEW t \in Threads, RegisterResponse(t)
  PROVE  IInv'
<1>1. TypeOK'
  <2>1. pc' \in [Threads -> Labels]
    BY DEF IInv, TypeOK, Labels, Locked, RegisterResponse, Goto, NextStep,
       stateVars, readerVars, streamVars, serverVars, boundVars
  <2>2. {s \in Threads : pc'[s] \in Locked} = {lock'} \ {Nobody}
    BY LockKept DEF IInv, TypeOK, Locked, RegisterResponse, NextStep,
       stateVars, readerVars, streamVars, serverVars, boundVars
  <2>3. seq[t] \in Seqs
    BY Numbers DEF RegisterResponse, Waiting
  <2> QED BY <2>1, <2>2, <2>3 DEF IInv, TypeOK, RegisterResponse, Goto,
           NextStep,
       stateVars, readerVars, streamVars, serverVars, boundVars
<1>2. SeqInv'
  BY DEF IInv, SeqInv, TypeOK, Waiting, RegisterResponse, Goto, NextStep,
     stateVars, readerVars, streamVars, serverVars, boundVars
<1>3. ServerInv'
  BY DEF IInv, ServerInv, TypeOK, RegisterResponse, Goto, NextStep, stateVars,
     readerVars, streamVars, serverVars, boundVars
<1>4. ReaderInv'
  BY DEF IInv, ReaderInv, TypeOK, RegisterResponse, Goto, NextStep, stateVars,
     readerVars, streamVars, serverVars, boundVars
<1>5. InboxInv'
  BY DEF IInv, InboxInv, TypeOK, RegisterResponse, Goto, NextStep, stateVars,
     readerVars, streamVars, serverVars, boundVars
<1>6. OneServer'
  BY DEF IInv, OneServer, TypeOK, RegisterResponse, Goto, NextStep, stateVars,
     readerVars, streamVars, serverVars, boundVars
<1>7. NoAnswerLost'
  <2>1. /\ seq[t] \notin replied /\ pending' = pending \cup {seq[t]}
        /\ replied' = replied
    BY DEF IInv, SeqInv, Waiting, RegisterResponse, serverVars
  <2> QED BY <2>1
          DEF IInv, NoAnswerLost, RegisterResponse, stateVars, readerVars,
              streamVars, serverVars
<1> QED BY <1>1, <1>2, <1>3, <1>4, <1>5, <1>6, <1>7 DEF IInv

(* _WriteRequest gives the request to the server, or fails. *)
LEMMA WriteRequestStep ==
  ASSUME IInv, NEW t \in Threads, WriteRequest(t)
  PROVE  IInv'
<1>1. TypeOK'
  <2>1. pc' \in [Threads -> Labels]
    <3>1. pc' = [pc EXCEPT ![t] = "await"]
      BY DEF WriteRequest, NextStep, Goto
    <3> QED BY <3>1, Moved DEF IInv, Labels, Locked
  <2>2. {s \in Threads : pc'[s] \in Locked} = {lock'} \ {Nobody}
    BY LockKept DEF IInv, TypeOK, Locked, WriteRequest, NextStep,
       stateVars, deferVars, readerVars, streamVars, boundVars
  <2>4. inbox' \in [Servers -> SUBSET Seqs]
    <3>1. handle \in Servers /\ seq[t] \in Seqs
      BY Numbers DEF CanWrite, WriteRequest, Waiting
    <3> QED BY <3>1 DEF IInv, TypeOK, WriteRequest
  <2>5. sentTo' \in [Seqs -> 0 .. MaxServers]
    <3>1. handle \in 0 .. MaxServers /\ seq[t] \in Seqs
      BY Numbers DEF CanWrite, WriteRequest, Waiting
    <3> QED BY <3>1 DEF IInv, TypeOK, WriteRequest
  <2> QED BY <2>1, <2>2, <2>4, <2>5 DEF IInv, TypeOK, WriteRequest,
       Goto, NextStep, stateVars, deferVars, readerVars, streamVars,
       boundVars
<1>2. SeqInv'
  <2>1. /\ \A u \in Threads : u # t => pc'[u] = pc[u] /\ seq'[u] = seq[u]
        /\ pc[t] = "write" /\ sequenceId' = sequenceId
        /\ pending' = pending /\ resolved' = resolved /\ replied' = replied
    BY DEF IInv, TypeOK, WriteRequest, Goto, deferVars
  <2>2. /\ pc'[t] = "await" /\ seq'[t] = seq[t]
        /\ \A s \in Servers : inbox'[s] \subseteq inbox[s] \cup {seq[t]}
    BY DEF IInv, TypeOK, WriteRequest, Goto, NextStep
  <2>3. /\ seq[t] \in 1 .. sequenceId /\ ~ (seq[t] > sequenceId)
        /\ \A u \in Threads : pc[u] \in Waiting /\ u # t => seq[u] # seq[t]
    BY <2>1, Numbers DEF IInv, SeqInv, Waiting
  <2> QED BY <2>1, <2>2, <2>3 DEF IInv, SeqInv, Waiting
<1>3. ServerInv'
  <2>1. /\ \A u \in Threads : u # t => pc'[u] = pc[u]
        /\ pc'[t] \notin {"close output", "forget", "start"}
        /\ handle' = handle /\ started' = started
        /\ process' = process /\ input' = input
    BY DEF IInv, TypeOK, WriteRequest, Goto, NextStep, stateVars,
       deferVars, readerVars, streamVars, boundVars
  <2> QED BY <2>1 DEF IInv, ServerInv
<1>4. ReaderInv'
  BY DEF IInv, ReaderInv, TypeOK, WriteRequest, Goto, NextStep,
     stateVars, deferVars, readerVars, streamVars, boundVars
<1>5. InboxInv'
  <2>1. /\ handle \in Servers /\ seq[t] \in Seqs
        /\ inbox' = [inbox EXCEPT ![handle] = @ \cup {seq[t]}]
        /\ sentTo' = [sentTo EXCEPT ![seq[t]] = handle]
    BY Numbers DEF WriteRequest, CanWrite, Waiting
  <2>2. \A s \in Servers : seq[t] \notin inbox[s]
    BY DEF IInv, SeqInv, Waiting, WriteRequest
  <2> QED BY <2>1, <2>2 DEF IInv, InboxInv, TypeOK
<1>6. OneServer'
  BY DEF IInv, OneServer, TypeOK, WriteRequest, Goto, NextStep,
     stateVars, deferVars, readerVars, streamVars, boundVars
<1>7. NoAnswerLost'
  <2>1. /\ seq[t] \notin replied /\ seq[t] \in Seqs
    BY Numbers DEF IInv, SeqInv, Waiting, WriteRequest
  <2>2. \A i \in replied : sentTo'[i] = sentTo[i]
    BY <2>1 DEF IInv, TypeOK, WriteRequest
  <2> QED BY <2>2
          DEF IInv, NoAnswerLost, WriteRequest, stateVars, deferVars,
              readerVars, streamVars
<1> QED BY <1>1, <1>2, <1>3, <1>4, <1>5, <1>6, <1>7 DEF IInv

(* The request cannot be written: the thread gives up. *)
LEMMA WriteRequestFailsStep ==
  ASSUME IInv, NEW t \in Threads, WriteRequestFails(t)
  PROVE  IInv'
<1>1. TypeOK'
  <2>1. pc' \in [Threads -> Labels]
    <3>1. pc' = [pc EXCEPT ![t] = "idle"]
      BY DEF WriteRequestFails, Goto, Return
    <3> QED BY <3>1, Moved DEF IInv, Labels, Locked
  <2>2. {s \in Threads : pc'[s] \in Locked} = {lock'} \ {Nobody}
    BY LockKept DEF IInv, TypeOK, Locked, WriteRequestFails, Return, stateVars
  <2>3. unflushed' \subseteq Servers
    BY Numbers DEF IInv, TypeOK, WriteRequestFails, WriteFails, Servers
  <2>4. /\ seq' \in [Threads -> 0 .. sequenceId]
        /\ op' \in [Threads -> {"none", "request", "restart", "stop"}]
    BY Numbers DEF IInv, TypeOK, WriteRequestFails, Return
  <2> QED BY <2>1, <2>2, <2>3, <2>4 DEF IInv, TypeOK, WriteRequestFails,
       stateVars, deferVars, readerVars,
       serverVars, boundVars
<1>2. SeqInv'
  BY DEF IInv, SeqInv, TypeOK, Waiting, WriteRequestFails, WriteFails, Goto,
     Return,
     stateVars, deferVars, readerVars,
     serverVars, boundVars
<1>3. ServerInv'
  BY DEF IInv, ServerInv, TypeOK, WriteRequestFails, WriteFails, Goto, Return,
     stateVars, deferVars, readerVars,
     serverVars, boundVars
<1>4. ReaderInv'
  BY DEF IInv, ReaderInv, TypeOK, WriteRequestFails, WriteFails, Goto, Return,
     stateVars, deferVars, readerVars,
     serverVars, boundVars
<1>5. InboxInv'
  BY DEF IInv, InboxInv, TypeOK, WriteRequestFails, WriteFails, Goto, Return,
     stateVars, deferVars, readerVars,
     serverVars, boundVars
<1>6. OneServer'
  BY DEF IInv, OneServer, TypeOK, WriteRequestFails, WriteFails, Goto, Return,
     stateVars, deferVars, readerVars,
     serverVars, boundVars
<1>7. NoAnswerLost'
  BY DEF IInv, NoAnswerLost, TypeOK, WriteRequestFails, WriteFails, Goto,
     Return,
     stateVars, deferVars, readerVars,
     serverVars, boundVars
<1> QED BY <1>1, <1>2, <1>3, <1>4, <1>5, <1>6, <1>7 DEF IInv

(* DeferredResponse.result returns with the answer, or without one in time;  *)
(* the response stays registered in the latter case.                         *)
LEMMA AwaitStep ==
  ASSUME IInv, NEW t \in Threads, Result(t) \/ ResponseTimeout(t)
  PROVE  IInv'
<1>1. TypeOK'
  <2>1. pc' \in [Threads -> Labels]
    <3>1. \E label \in {"idle"} :
            pc' = [pc EXCEPT ![t] = label]
      BY DEF Result, ResponseTimeout, Return, Goto
    <3> QED BY <3>1, Moved DEF IInv, Labels, Locked
  <2>2. {s \in Threads : pc'[s] \in Locked} = {lock'} \ {Nobody}
    BY LockKept DEF IInv, TypeOK, Locked, Result, ResponseTimeout, Return,
       stateVars, deferVars, readerVars, streamVars, serverVars, boundVars
  <2>3. seq' \in [Threads -> 0 .. sequenceId]
    <3>1. seq' = [seq EXCEPT ![t] = 0]
      BY DEF Result, ResponseTimeout, Return
    <3>2. /\ seq \in [Threads -> 0 .. sequenceId]
          /\ 0 \in 0 .. sequenceId
      BY Numbers DEF IInv, TypeOK
    <3> QED BY <3>1, <3>2
  <2>4. op' \in [Threads -> {"none", "request", "restart", "stop"}]
    <3>1. op' = [op EXCEPT ![t] = "none"]
      BY DEF Result, ResponseTimeout, Return
    <3> QED BY <3>1 DEF IInv, TypeOK
  <2> QED BY <2>1, <2>2, <2>3, <2>4 DEF IInv, TypeOK, Result, ResponseTimeout,
           Return,
       Goto, stateVars, deferVars, readerVars, streamVars, serverVars,
       boundVars
<1>2. SeqInv'
  <2>1. /\ \A u \in Threads : u # t => pc'[u] = pc[u] /\ seq'[u] = seq[u]
        /\ pc'[t] = "idle" /\ sequenceId' = sequenceId
        /\ pending' = pending /\ resolved' = resolved /\ replied' = replied
        /\ inbox' = inbox
    BY DEF IInv, TypeOK, Result, ResponseTimeout, Goto, Return, deferVars,
           serverVars
  <2> QED BY <2>1 DEF IInv, SeqInv, Waiting
<1>3. ServerInv'
  <2>1. /\ \A u \in Threads : u # t => pc'[u] = pc[u]
        /\ pc'[t] \notin {"close output", "forget", "start"}
        /\ handle' = handle /\ started' = started
        /\ process' = process /\ input' = input
    BY DEF IInv, TypeOK, Result, ResponseTimeout, Return, Goto, stateVars,
       deferVars, readerVars, streamVars, serverVars, boundVars
  <2> QED BY <2>1 DEF IInv, ServerInv
<1>4. ReaderInv'
  BY DEF IInv, ReaderInv, TypeOK, Result, ResponseTimeout, Return, Goto,
     stateVars, deferVars, readerVars, streamVars, serverVars, boundVars
<1>5. InboxInv'
  BY DEF IInv, InboxInv, TypeOK, Result, ResponseTimeout, Return, Goto,
     stateVars, deferVars, readerVars, streamVars, serverVars, boundVars
<1>6. OneServer'
  BY DEF IInv, OneServer, TypeOK, Result, ResponseTimeout, Return, Goto,
     stateVars, deferVars, readerVars, streamVars, serverVars, boundVars
<1>7. NoAnswerLost'
  BY DEF IInv, NoAnswerLost, TypeOK, Result, ResponseTimeout, Return, Goto,
     stateVars, deferVars, readerVars, streamVars, serverVars, boundVars
<1> QED BY <1>1, <1>2, <1>3, <1>4, <1>5, <1>6, <1>7 DEF IInv

(* _tsserver_lock is taken to stop, start or restart the server. *)
LEMMA AcquireLockStep ==
  ASSUME IInv, NEW t \in Threads, AcquireLock(t)
  PROVE  IInv'
<1>1. TypeOK'
  <2>1. pc' \in [Threads -> Labels]
    BY DEF IInv, TypeOK, Labels, Locked, AcquireLock, Goto
  <2>2. {s \in Threads : pc'[s] \in Locked} = {lock'} \ {Nobody}
    <3>1. /\ \A u \in Threads \ {t} : pc[u] \notin Locked /\ pc'[u] = pc[u]
          /\ pc'[t] \in Locked /\ lock' = t
      BY LockOwner DEF IInv, TypeOK, Locked, AcquireLock, Goto
    <3> QED BY <3>1
  <2> QED BY <2>1, <2>2
          DEF IInv, TypeOK, AcquireLock, deferVars, readerVars, streamVars,
              serverVars
<1>2. SeqInv'
  BY DEF IInv, SeqInv, TypeOK, Waiting, AcquireLock, Goto, deferVars,
     readerVars, streamVars, serverVars, boundVars
<1>3. ServerInv'
  BY DEF IInv, ServerInv, TypeOK, AcquireLock, Goto, deferVars, readerVars,
     streamVars, serverVars, boundVars
<1>4. ReaderInv'
  BY DEF IInv, ReaderInv, TypeOK, AcquireLock, Goto, deferVars, readerVars,
     streamVars, serverVars, boundVars
<1>5. InboxInv'
  BY DEF IInv, InboxInv, TypeOK, AcquireLock, Goto, deferVars, readerVars,
     streamVars, serverVars, boundVars
<1>6. OneServer'
  BY DEF IInv, OneServer, TypeOK, AcquireLock, Goto, deferVars, readerVars,
     streamVars, serverVars, boundVars
<1>7. NoAnswerLost'
  BY DEF IInv, NoAnswerLost, TypeOK, AcquireLock, Goto, deferVars, readerVars,
     streamVars, serverVars, boundVars
<1> QED BY <1>1, <1>2, <1>3, <1>4, <1>5, <1>6, <1>7 DEF IInv

(* _StopServer tells the server to exit, or finds none that runs. *)
LEMMA StopServerStep ==
  ASSUME IInv, NEW t \in Threads, StopServer(t)
  PROVE  IInv'
<1>1. TypeOK'
  <2>1. pc' \in [Threads -> Labels]
    <3>1. \E label \in {"wait", "close input"} :
            pc' = [pc EXCEPT ![t] = label]
      BY DEF StopServer, Goto
    <3> QED BY <3>1, Moved DEF IInv, Labels, Locked
  <2>2. {s \in Threads : pc'[s] \in Locked} = {lock'} \ {Nobody}
    BY LockKept DEF IInv, TypeOK, Locked, StopServer, stateVars, deferVars,
       readerVars, serverVars, boundVars
  <2>3. exit' \subseteq Servers
    <3>1. CASE exit' = exit
      BY <3>1 DEF IInv, TypeOK
    <3>2. CASE handle # 0 /\ exit' = exit \cup {handle}
      BY <3>2, Numbers DEF IInv, TypeOK
    <3> QED BY <3>1, <3>2 DEF StopServer, CanWrite
  <2> QED BY <2>1, <2>2, <2>3 DEF IInv, TypeOK, StopServer, Goto, stateVars,
       deferVars, readerVars, serverVars, boundVars
<1>2. SeqInv'
  <2>1. /\ \A u \in Threads : u # t => pc'[u] = pc[u] /\ seq' = seq
        /\ pc[t] \notin Waiting /\ pc'[t] \notin Waiting
        /\ sequenceId' = sequenceId /\ inbox' = inbox
        /\ pending' = pending /\ resolved' = resolved /\ replied' = replied
    BY DEF IInv, TypeOK, Waiting, StopServer, Goto, deferVars, serverVars
  <2> QED BY <2>1 DEF IInv, SeqInv
<1>3. ServerInv'
  <2>1. /\ \A u \in Threads : u # t => pc'[u] = pc[u]
        /\ pc'[t] \notin {"close output", "forget", "start"}
        /\ handle' = handle /\ started' = started
        /\ process' = process /\ input' = input
    BY DEF IInv, TypeOK, StopServer, Goto, stateVars, deferVars, readerVars,
       serverVars, boundVars
  <2> QED BY <2>1 DEF IInv, ServerInv
<1>4. ReaderInv'
  BY DEF IInv, ReaderInv, TypeOK, StopServer, Goto, stateVars, deferVars,
     readerVars, serverVars, boundVars
<1>5. InboxInv'
  BY DEF IInv, InboxInv, TypeOK, StopServer, Goto, stateVars, deferVars,
     readerVars, serverVars, boundVars
<1>6. OneServer'
  BY DEF IInv, OneServer, TypeOK, StopServer, Goto, stateVars, deferVars,
     readerVars, serverVars, boundVars
<1>7. NoAnswerLost'
  BY DEF IInv, NoAnswerLost, TypeOK, StopServer, Goto, stateVars, deferVars,
     readerVars, serverVars, boundVars
<1> QED BY <1>1, <1>2, <1>3, <1>4, <1>5, <1>6, <1>7 DEF IInv

(* The exit command cannot be written. *)
LEMMA StopServerFailsStep ==
  ASSUME IInv, NEW t \in Threads, StopServerFails(t)
  PROVE  IInv'
<1>1. TypeOK'
  <2>1. pc' \in [Threads -> Labels]
    <3>1. pc' = [pc EXCEPT ![t] = "close input"]
      BY DEF StopServerFails, Goto
    <3> QED BY <3>1, Moved DEF IInv, Labels, Locked
  <2>2. {s \in Threads : pc'[s] \in Locked} = {lock'} \ {Nobody}
    BY LockKept DEF IInv, TypeOK, Locked, StopServerFails, stateVars
  <2>3. unflushed' \subseteq Servers
    BY Numbers DEF IInv, TypeOK, StopServerFails, WriteFails, Servers
  <2> QED BY <2>1, <2>2, <2>3 DEF IInv, TypeOK, StopServerFails, stateVars,
       deferVars, readerVars,
       serverVars, boundVars
<1>2. SeqInv'
  BY DEF IInv, SeqInv, TypeOK, Waiting, StopServerFails, WriteFails, Goto,
     stateVars, deferVars, readerVars,
     serverVars, boundVars
<1>3. ServerInv'
  BY DEF IInv, ServerInv, TypeOK, StopServerFails, WriteFails, Goto,
     stateVars, deferVars, readerVars,
     serverVars, boundVars
<1>4. ReaderInv'
  BY DEF IInv, ReaderInv, TypeOK, StopServerFails, WriteFails, Goto,
     stateVars, deferVars, readerVars,
     serverVars, boundVars
<1>5. InboxInv'
  BY DEF IInv, InboxInv, TypeOK, StopServerFails, WriteFails, Goto,
     stateVars, deferVars, readerVars,
     serverVars, boundVars
<1>6. OneServer'
  BY DEF IInv, OneServer, TypeOK, StopServerFails, WriteFails, Goto,
     stateVars, deferVars, readerVars,
     serverVars, boundVars
<1>7. NoAnswerLost'
  BY DEF IInv, NoAnswerLost, TypeOK, StopServerFails, WriteFails, Goto,
     stateVars, deferVars, readerVars,
     serverVars, boundVars
<1> QED BY <1>1, <1>2, <1>3, <1>4, <1>5, <1>6, <1>7 DEF IInv

(* The server has exited, or has not in time. *)
LEMMA WaitForExitStep ==
  ASSUME IInv, NEW t \in Threads, WaitForExit(t)
  PROVE  IInv'
<1>1. TypeOK'
  <2>1. pc' \in [Threads -> Labels]
    BY DEF IInv, TypeOK, Labels, Locked, WaitForExit, Goto, stateVars,
       deferVars, readerVars, streamVars, serverVars, boundVars
  <2>2. {s \in Threads : pc'[s] \in Locked} = {lock'} \ {Nobody}
    BY LockKept DEF IInv, TypeOK, Locked, WaitForExit, stateVars, deferVars,
       readerVars, streamVars, serverVars, boundVars
  <2> QED BY <2>1, <2>2 DEF IInv, TypeOK, WaitForExit, Goto, stateVars,
           deferVars,
       readerVars, streamVars, serverVars, boundVars
<1>2. SeqInv'
  BY DEF IInv, SeqInv, TypeOK, Waiting, WaitForExit, Goto, stateVars,
     deferVars, readerVars, streamVars, serverVars, boundVars
<1>3. ServerInv'
  BY DEF IInv, ServerInv, TypeOK, WaitForExit, Goto, stateVars, deferVars,
     readerVars, streamVars, serverVars, boundVars
<1>4. ReaderInv'
  BY DEF IInv, ReaderInv, TypeOK, WaitForExit, Goto, stateVars, deferVars,
     readerVars, streamVars, serverVars, boundVars
<1>5. InboxInv'
  BY DEF IInv, InboxInv, TypeOK, WaitForExit, Goto, stateVars, deferVars,
     readerVars, streamVars, serverVars, boundVars
<1>6. OneServer'
  BY DEF IInv, OneServer, TypeOK, WaitForExit, Goto, stateVars, deferVars,
     readerVars, streamVars, serverVars, boundVars
<1>7. NoAnswerLost'
  BY DEF IInv, NoAnswerLost, TypeOK, WaitForExit, Goto, stateVars, deferVars,
     readerVars, streamVars, serverVars, boundVars
<1> QED BY <1>1, <1>2, <1>3, <1>4, <1>5, <1>6, <1>7 DEF IInv

(* CloseStandardStreams closes the input of the server. *)
LEMMA CloseInputStep ==
  ASSUME IInv, NEW t \in Threads, CloseInput(t)
  PROVE  IInv'
<1>1. TypeOK'
  <2>1. pc' \in [Threads -> Labels]
    <3>1. \E label \in {"forget", "release", "close output"} :
            pc' = [pc EXCEPT ![t] = label]
      BY DEF CloseInput, Goto
    <3> QED BY <3>1, Moved DEF IInv, Labels, Locked
  <2>2. {s \in Threads : pc'[s] \in Locked} = {lock'} \ {Nobody}
    BY LockKept DEF IInv, TypeOK, Locked, CloseInput, stateVars, deferVars,
       readerVars, serverVars, boundVars
  <2> QED BY <2>1, <2>2 DEF IInv, TypeOK, CloseInput, Goto, stateVars,
           deferVars,
       readerVars, serverVars, boundVars
<1>2. SeqInv'
  <2>1. /\ \A u \in Threads : u # t => pc'[u] = pc[u] /\ seq' = seq
        /\ pc[t] \notin Waiting /\ pc'[t] \notin Waiting
        /\ sequenceId' = sequenceId /\ inbox' = inbox
        /\ pending' = pending /\ resolved' = resolved /\ replied' = replied
    BY DEF IInv, TypeOK, Waiting, CloseInput, Goto, deferVars, serverVars
  <2> QED BY <2>1 DEF IInv, SeqInv
<1>3. ServerInv'
  <2>1. /\ \A u \in Threads : u # t =>
             pc'[u] = pc[u] /\ pc[u] \notin {"close output", "forget", "start"}
        /\ handle' = handle /\ started' = started /\ process' = process
    BY LockOwner
    DEF IInv, TypeOK, Locked, CloseInput, Goto, stateVars, serverVars
  <2>2. \/ handle = 0 /\ pc'[t] = "forget"
        \/ pc'[t] = "release"
        \/ handle # 0 /\ pc'[t] = "close output" /\ ~ input'[handle]
    BY Numbers DEF IInv, TypeOK, CloseInput, Goto
  <2> QED BY <2>1, <2>2 DEF IInv, ServerInv
<1>4. ReaderInv'
  BY DEF IInv, ReaderInv, TypeOK, CloseInput, Goto, stateVars, deferVars,
     readerVars, serverVars, boundVars
<1>5. InboxInv'
  BY DEF IInv, InboxInv, TypeOK, CloseInput, Goto, stateVars, deferVars,
     readerVars, serverVars, boundVars
<1>6. OneServer'
  BY DEF IInv, OneServer, TypeOK, CloseInput, Goto, stateVars, deferVars,
     readerVars, serverVars, boundVars
<1>7. NoAnswerLost'
  BY DEF IInv, NoAnswerLost, TypeOK, CloseInput, Goto, stateVars, deferVars,
     readerVars, serverVars, boundVars
<1> QED BY <1>1, <1>2, <1>3, <1>4, <1>5, <1>6, <1>7 DEF IInv

(* CloseStandardStreams closes the output of the server. *)
LEMMA CloseOutputStep ==
  ASSUME IInv, NEW t \in Threads, CloseOutput(t)
  PROVE  IInv'
<1>1. TypeOK'
  <2>1. pc' \in [Threads -> Labels]
    BY DEF IInv, TypeOK, Labels, Locked, CloseOutput, Goto, stateVars,
       deferVars, readerVars, serverVars, boundVars
  <2>2. {s \in Threads : pc'[s] \in Locked} = {lock'} \ {Nobody}
    BY LockKept DEF IInv, TypeOK, Locked, CloseOutput, stateVars, deferVars,
       readerVars, serverVars, boundVars
  <2> QED BY <2>1, <2>2 DEF IInv, TypeOK, CloseOutput, Goto, stateVars,
           deferVars,
       readerVars, serverVars, boundVars
<1>2. SeqInv'
  BY DEF IInv, SeqInv, TypeOK, Waiting, CloseOutput, Goto, stateVars,
     deferVars, readerVars, serverVars, boundVars
<1>3. ServerInv'
  BY DEF IInv, ServerInv, TypeOK, CloseOutput, Goto, stateVars, deferVars,
     readerVars, serverVars, boundVars
<1>4. ReaderInv'
  BY DEF IInv, ReaderInv, TypeOK, CloseOutput, Goto, stateVars, deferVars,
     readerVars, serverVars, boundVars
<1>5. InboxInv'
  BY DEF IInv, InboxInv, TypeOK, CloseOutput, Goto, stateVars, deferVars,
     readerVars, serverVars, boundVars
<1>6. OneServer'
  BY DEF IInv, OneServer, TypeOK, CloseOutput, Goto, stateVars, deferVars,
     readerVars, serverVars, boundVars
<1>7. NoAnswerLost'
  <2>1. output' = [output EXCEPT ![handle] = FALSE] /\ handle' = handle
    BY DEF CloseOutput, stateVars
  <2>2. handle' = 1 => ~ output'[1]
    BY <2>1, Numbers DEF IInv, TypeOK
  <2> QED BY <2>2 DEF NoAnswerLost
<1> QED BY <1>1, <1>2, <1>3, <1>4, <1>5, <1>6, <1>7 DEF IInv

(* The handle is forgotten: the input of its server is closed. *)
LEMMA ForgetHandleStep ==
  ASSUME IInv, NEW t \in Threads, ForgetHandle(t)
  PROVE  IInv'
<1>1. TypeOK'
  <2>1. pc' \in [Threads -> Labels]
    BY DEF IInv, TypeOK, Labels, Locked, ForgetHandle, Goto, deferVars,
       readerVars, streamVars, serverVars, boundVars
  <2>2. {s \in Threads : pc'[s] \in Locked} = {lock'} \ {Nobody}
    BY LockKept DEF IInv, TypeOK, Locked, ForgetHandle, deferVars, readerVars,
       streamVars, serverVars, boundVars
  <2>3. handle' \in 0 .. started
    BY Numbers DEF ForgetHandle
  <2> QED BY <2>1, <2>2, <2>3 DEF IInv, TypeOK, ForgetHandle, Goto, deferVars,
       readerVars, streamVars, serverVars, boundVars
<1>2. SeqInv'
  BY DEF IInv, SeqInv, TypeOK, Waiting, ForgetHandle, Goto, deferVars,
     readerVars, streamVars, serverVars, boundVars
<1>3. ServerInv'
  <2>1. \A u \in Threads : u # t =>
          pc[u] \notin {"close output", "forget", "start"}
    BY LockOwner DEF Locked, ForgetHandle
  <2>2. /\ \A u \in Threads : u # t => pc'[u] = pc[u]
        /\ pc'[t] \in {"start", "release"}
        /\ handle' = 0 /\ started' = started /\ process' = process
    BY DEF IInv, TypeOK, ForgetHandle, Goto, serverVars
  <2> QED BY <2>1, <2>2 DEF IInv, ServerInv
<1>4. ReaderInv'
  BY DEF IInv, ReaderInv, TypeOK, ForgetHandle, Goto, deferVars, readerVars,
     streamVars, serverVars, boundVars
<1>5. InboxInv'
  BY DEF IInv, InboxInv, TypeOK, ForgetHandle, Goto, deferVars, readerVars,
     streamVars, serverVars, boundVars
<1>6. OneServer'
  <2>1. /\ handle # 0 => ~ input[handle]
        /\ handle' = 0
        /\ process' = process /\ exit' = exit /\ input' = input
    BY DEF IInv, ServerInv, ForgetHandle, streamVars, serverVars
  <2> QED BY <2>1 DEF IInv, OneServer
<1>7. NoAnswerLost'
  BY DEF IInv, NoAnswerLost, TypeOK, ForgetHandle, Goto, deferVars,
     readerVars, streamVars, serverVars, boundVars
<1> QED BY <1>1, <1>2, <1>3, <1>4, <1>5, <1>6, <1>7 DEF IInv

(* _StartServer starts nothing: a server runs, or none can be started. *)
LEMMA StartNothingStep ==
  ASSUME IInv, NEW t \in Threads, StartNothing(t)
  PROVE  IInv'
<1>1. TypeOK'
  <2>1. pc' \in [Threads -> Labels]
    BY DEF IInv, TypeOK, Labels, Locked, StartNothing, Goto, stateVars,
       deferVars, readerVars, streamVars, serverVars, boundVars
  <2>2. {s \in Threads : pc'[s] \in Locked} = {lock'} \ {Nobody}
    BY LockKept DEF IInv, TypeOK, Locked, StartNothing, stateVars, deferVars,
       readerVars, streamVars, serverVars, boundVars
  <2> QED BY <2>1, <2>2 DEF IInv, TypeOK, StartNothing, Goto, stateVars,
           deferVars,
       readerVars, streamVars, serverVars, boundVars
<1>2. SeqInv'
  BY DEF IInv, SeqInv, TypeOK, Waiting, StartNothing, Goto, stateVars,
     deferVars, readerVars, streamVars, serverVars, boundVars
<1>3. ServerInv'
  BY DEF IInv, ServerInv, TypeOK, StartNothing, Goto, stateVars, deferVars,
     readerVars, streamVars, serverVars, boundVars
<1>4. ReaderInv'
  BY DEF IInv, ReaderInv, TypeOK, StartNothing, Goto, stateVars, deferVars,
     readerVars, streamVars, serverVars, boundVars
<1>5. InboxInv'
  BY DEF IInv, InboxInv, TypeOK, StartNothing, Goto, stateVars, deferVars,
     readerVars, streamVars, serverVars, boundVars
<1>6. OneServer'
  BY DEF IInv, OneServer, TypeOK, StartNothing, Goto, stateVars, deferVars,
     readerVars, streamVars, serverVars, boundVars
<1>7. NoAnswerLost'
  BY DEF IInv, NoAnswerLost, TypeOK, StartNothing, Goto, stateVars, deferVars,
     readerVars, streamVars, serverVars, boundVars
<1> QED BY <1>1, <1>2, <1>3, <1>4, <1>5, <1>6, <1>7 DEF IInv

(* _StartServer starts a server: the thread holds the lock, and the handle   *)
(* of the last server has been forgotten.                                    *)
LEMMA StartServerStep ==
  ASSUME IInv, NEW t \in Threads, StartServer(t)
  PROVE  IInv'
<1>1. TypeOK'
  <2>1. pc' \in [Threads -> Labels]
    BY DEF IInv, TypeOK, Labels, Locked, StartServer, Goto, ServerIsRunning,
       deferVars, readerVars, boundVars
  <2>2. {s \in Threads : pc'[s] \in Locked} = {lock'} \ {Nobody}
    BY LockKept DEF IInv, TypeOK, Locked, StartServer, ServerIsRunning,
       deferVars, readerVars, boundVars
  <2>3. /\ started' \in Servers /\ handle' \in 0 .. started'
        /\ process' \in [Servers -> {"unborn", "running", "exiting", "gone"}]
    BY Numbers DEF IInv, TypeOK, StartServer
  <2>4. input' \in [Servers -> BOOLEAN] /\ output' \in [Servers -> BOOLEAN]
    BY DEF IInv, TypeOK, StartServer
  <2> QED BY <2>1, <2>2, <2>3, <2>4 DEF IInv, TypeOK, StartServer, Goto,
       ServerIsRunning, deferVars, readerVars, boundVars
<1>2. SeqInv'
  BY DEF IInv, SeqInv, TypeOK, Waiting, StartServer, Goto, ServerIsRunning,
     deferVars, readerVars, boundVars
<1>3. ServerInv'
  <2>1. /\ started + 1 \in Servers /\ started' = started + 1
        /\ handle' = started + 1 /\ handle = 0
        /\ process' = [process EXCEPT ![started + 1] = "running"]
        /\ input' = [input EXCEPT ![started + 1] = TRUE]
        /\ output' = [output EXCEPT ![started + 1] = TRUE]
    BY Numbers DEF IInv, ServerInv, StartServer
  <2>2. /\ pc[t] = "start" /\ pc'[t] = "set"
        /\ \A u \in Threads : u # t => pc'[u] = pc[u]
    BY DEF IInv, TypeOK, StartServer, Goto
  <2>4. \A u \in Threads : u # t =>
          pc[u] \notin {"close output", "forget", "start"}
    BY <2>2, LockOwner DEF Locked
  <2>3. \A s \in Servers : s > started + 1 => s > started /\ s # started + 1
    <3>1. started \in Nat
      BY Numbers
    <3> QED BY <3>1 DEF Servers
  <2>5. process \in [Servers -> {"unborn", "running", "exiting", "gone"}]
    BY DEF IInv, TypeOK
  <2> QED BY <2>1, <2>2, <2>3, <2>4, <2>5 DEF IInv, ServerInv
<1>4. ReaderInv'
  <2>1. /\ started' = started + 1 /\ from' = from /\ reader' = reader
        /\ 0 .. started + 1 = 0 .. started \cup {started + 1}
    BY Numbers DEF StartServer, readerVars
  <2> QED BY <2>1 DEF IInv, ReaderInv
<1>5. InboxInv'
  BY DEF IInv, InboxInv, TypeOK, StartServer, Goto, ServerIsRunning,
     deferVars, readerVars, boundVars
<1>6. OneServer'
  <2>1. /\ started + 1 \in Servers /\ started' = started + 1
        /\ handle' = started + 1 /\ handle = 0
        /\ process' = [process EXCEPT ![started + 1] = "running"]
        /\ input' = [input EXCEPT ![started + 1] = TRUE]
        /\ output' = [output EXCEPT ![started + 1] = TRUE]
    BY Numbers DEF IInv, ServerInv, StartServer
  <2>2. \A s \in Servers : s # started + 1 =>
          process'[s] = process[s] /\ input'[s] = input[s] /\ s # 0
    BY <2>1 DEF IInv, TypeOK, Servers
  <2>3. exit' = exit
    BY DEF StartServer
  <2> QED BY <2>1, <2>2, <2>3 DEF IInv, OneServer
<1>7. NoAnswerLost'
  <2>1. handle' # 1
    BY Numbers DEF StartServer, Servers
  <2> QED BY <2>1 DEF NoAnswerLost
<1> QED BY <1>1, <1>2, <1>3, <1>4, <1>5, <1>6, <1>7 DEF IInv

(* The event that the reader waits for is set. *)
LEMMA SetRunningStep ==
  ASSUME IInv, NEW t \in Threads, SetRunning(t)
  PROVE  IInv'
<1>1. TypeOK'
  <2>1. pc' \in [Threads -> Labels]
    BY DEF IInv, TypeOK, Labels, Locked, SetRunning, Goto, deferVars,
       readerVars, streamVars, serverVars, boundVars
  <2>2. {s \in Threads : pc'[s] \in Locked} = {lock'} \ {Nobody}
    BY LockKept DEF IInv, TypeOK, Locked, SetRunning, deferVars, readerVars,
       streamVars, serverVars, boundVars
  <2> QED BY <2>1, <2>2 DEF IInv, TypeOK, SetRunning, Goto, deferVars,
           readerVars,
       streamVars, serverVars, boundVars
<1>2. SeqInv'
  BY DEF IInv, SeqInv, TypeOK, Waiting, SetRunning, Goto, deferVars,
     readerVars, streamVars, serverVars, boundVars
<1>3. ServerInv'
  BY DEF IInv, ServerInv, TypeOK, SetRunning, Goto, deferVars, readerVars,
     streamVars, serverVars, boundVars
<1>4. ReaderInv'
  BY DEF IInv, ReaderInv, TypeOK, SetRunning, Goto, deferVars, readerVars,
     streamVars, serverVars, boundVars
<1>5. InboxInv'
  BY DEF IInv, InboxInv, TypeOK, SetRunning, Goto, deferVars, readerVars,
     streamVars, serverVars, boundVars
<1>6. OneServer'
  BY DEF IInv, OneServer, TypeOK, SetRunning, Goto, deferVars, readerVars,
     streamVars, serverVars, boundVars
<1>7. NoAnswerLost'
  BY DEF IInv, NoAnswerLost, TypeOK, SetRunning, Goto, deferVars, readerVars,
     streamVars, serverVars, boundVars
<1> QED BY <1>1, <1>2, <1>3, <1>4, <1>5, <1>6, <1>7 DEF IInv

(* The new server is told of the buffer, or cannot be. *)
LEMMA VisitBufferStep ==
  ASSUME IInv, NEW t \in Threads, VisitBuffer(t)
  PROVE  IInv'
<1>1. TypeOK'
  <2>1. pc' \in [Threads -> Labels]
    <3>1. pc' = [pc EXCEPT ![t] = "release"]
      BY DEF VisitBuffer, Goto
    <3> QED BY <3>1, Moved DEF IInv, Labels, Locked
  <2>2. {s \in Threads : pc'[s] \in Locked} = {lock'} \ {Nobody}
    BY LockKept DEF IInv, TypeOK, Locked, VisitBuffer, stateVars
  <2>3. unflushed' \subseteq Servers
    BY Numbers DEF IInv, TypeOK, VisitBuffer, WriteFails, Servers
  <2> QED BY <2>1, <2>2, <2>3 DEF IInv, TypeOK, VisitBuffer, stateVars,
       deferVars, readerVars,
       serverVars, boundVars
<1>2. SeqInv'
  BY DEF IInv, SeqInv, TypeOK, Waiting, VisitBuffer, WriteFails, Goto,
     stateVars, deferVars, readerVars,
     serverVars, boundVars
<1>3. ServerInv'
  BY DEF IInv, ServerInv, TypeOK, VisitBuffer, WriteFails, Goto,
     stateVars, deferVars, readerVars,
     serverVars, boundVars
<1>4. ReaderInv'
  BY DEF IInv, ReaderInv, TypeOK, VisitBuffer, WriteFails, Goto,
     stateVars, deferVars, readerVars,
     serverVars, boundVars
<1>5. InboxInv'
  BY DEF IInv, InboxInv, TypeOK, VisitBuffer, WriteFails, Goto,
     stateVars, deferVars, readerVars,
     serverVars, boundVars
<1>6. OneServer'
  BY DEF IInv, OneServer, TypeOK, VisitBuffer, WriteFails, Goto,
     stateVars, deferVars, readerVars,
     serverVars, boundVars
<1>7. NoAnswerLost'
  BY DEF IInv, NoAnswerLost, TypeOK, VisitBuffer, WriteFails, Goto,
     stateVars, deferVars, readerVars,
     serverVars, boundVars
<1> QED BY <1>1, <1>2, <1>3, <1>4, <1>5, <1>6, <1>7 DEF IInv

(* _tsserver_lock is released. *)
LEMMA ReleaseLockStep ==
  ASSUME IInv, NEW t \in Threads, ReleaseLock(t)
  PROVE  IInv'
<1>1. TypeOK'
  <2>1. pc' \in [Threads -> Labels]
    BY DEF IInv, TypeOK, Labels, Locked, ReleaseLock, Return, Goto
  <2>2. {s \in Threads : pc'[s] \in Locked} = {lock'} \ {Nobody}
    <3>1. /\ \A u \in Threads \ {t} : pc[u] \notin Locked /\ pc'[u] = pc[u]
          /\ pc'[t] \notin Locked /\ lock' = Nobody
      BY LockOwner DEF IInv, TypeOK, Locked, ReleaseLock, Return, Goto
    <3> QED BY <3>1
  <2>3. seq' \in [Threads -> 0 .. sequenceId]
    BY Numbers DEF IInv, TypeOK, ReleaseLock, Return
  <2> QED BY <2>1, <2>2, <2>3
          DEF IInv, TypeOK, ReleaseLock, Return, deferVars, readerVars,
              streamVars, serverVars
<1>2. SeqInv'
  BY DEF IInv, SeqInv, TypeOK, Waiting, ReleaseLock, Goto, Return, deferVars,
     readerVars, streamVars, serverVars, boundVars
<1>3. ServerInv'
  BY DEF IInv, ServerInv, TypeOK, ReleaseLock, Goto, Return, deferVars,
     readerVars, streamVars, serverVars, boundVars
<1>4. ReaderInv'
  BY DEF IInv, ReaderInv, TypeOK, ReleaseLock, Goto, Return, deferVars,
     readerVars, streamVars, serverVars, boundVars
<1>5. InboxInv'
  BY DEF IInv, InboxInv, TypeOK, ReleaseLock, Goto, Return, deferVars,
     readerVars, streamVars, serverVars, boundVars
<1>6. OneServer'
  BY DEF IInv, OneServer, TypeOK, ReleaseLock, Goto, Return, deferVars,
     readerVars, streamVars, serverVars, boundVars
<1>7. NoAnswerLost'
  BY DEF IInv, NoAnswerLost, TypeOK, ReleaseLock, Goto, Return, deferVars,
     readerVars, streamVars, serverVars, boundVars
<1> QED BY <1>1, <1>2, <1>3, <1>4, <1>5, <1>6, <1>7 DEF IInv

(* The reader sees that there is a server to read from. *)
LEMMA WaitRunningStep ==
  ASSUME IInv, WaitRunning
  PROVE  IInv'
<1>1. TypeOK'
  BY DEF IInv, TypeOK, Servers, Seqs, WaitRunning, stateVars, deferVars,
     threadVars, streamVars, serverVars, boundVars
<1>2. SeqInv'
  BY DEF IInv, SeqInv, TypeOK, Waiting, WaitRunning, stateVars, deferVars,
     threadVars, streamVars, serverVars, boundVars
<1>3. ServerInv'
  BY DEF IInv, ServerInv, TypeOK, WaitRunning, stateVars, deferVars,
     threadVars, streamVars, serverVars, boundVars
<1>4. ReaderInv'
  BY DEF IInv, ReaderInv, TypeOK, WaitRunning, stateVars, deferVars,
     threadVars, streamVars, serverVars, boundVars
<1>5. InboxInv'
  BY DEF IInv, InboxInv, TypeOK, WaitRunning, stateVars, deferVars,
     threadVars, streamVars, serverVars, boundVars
<1>6. OneServer'
  BY DEF IInv, OneServer, TypeOK, WaitRunning, stateVars, deferVars,
     threadVars, streamVars, serverVars, boundVars
<1>7. NoAnswerLost'
  BY DEF IInv, NoAnswerLost, TypeOK, WaitRunning, stateVars, deferVars,
     threadVars, streamVars, serverVars, boundVars
<1> QED BY <1>1, <1>2, <1>3, <1>4, <1>5, <1>6, <1>7 DEF IInv

(* The reader looks up the server to read from, without the lock. *)
LEMMA BeginReadStep ==
  ASSUME IInv, BeginRead
  PROVE  IInv'
<1>1. TypeOK'
  <2>1. from' \in 0 .. MaxServers /\ message' \in Seqs \cup {Event}
    BY Numbers DEF IInv, TypeOK, BeginRead
  <2>2. reader' \in {"wait", "read", "header", "content", "dispatch", "error",
                    "clear", "dead"}
    BY DEF IInv, TypeOK, BeginRead
  <2> QED BY Numbers, <2>1, <2>2 DEF IInv, TypeOK, Locked, BeginRead,
       stateVars,
       deferVars, threadVars, streamVars, serverVars, boundVars
<1>2. SeqInv'
  BY DEF IInv, SeqInv, TypeOK, Waiting, BeginRead, stateVars, deferVars,
     threadVars, streamVars, serverVars, boundVars
<1>3. ServerInv'
  BY DEF IInv, ServerInv, TypeOK, BeginRead, stateVars, deferVars, threadVars,
     streamVars, serverVars, boundVars
<1>4. ReaderInv'
  BY DEF IInv, ReaderInv, TypeOK, BeginRead, stateVars, deferVars, threadVars,
     streamVars, serverVars, boundVars
<1>5. InboxInv'
  BY DEF IInv, InboxInv, TypeOK, BeginRead, stateVars, deferVars, threadVars,
     streamVars, serverVars, boundVars
<1>6. OneServer'
  BY DEF IInv, OneServer, TypeOK, BeginRead, stateVars, deferVars, threadVars,
     streamVars, serverVars, boundVars
<1>7. NoAnswerLost'
  BY DEF IInv, NoAnswerLost, TypeOK, BeginRead, stateVars, deferVars,
     threadVars, streamVars, serverVars, boundVars
<1> QED BY <1>1, <1>2, <1>3, <1>4, <1>5, <1>6, <1>7 DEF IInv

(* The reader reads the header of a message of the server it looked up. *)
LEMMA ReadHeaderStep ==
  ASSUME IInv, ReadHeader
  PROVE  IInv'
<1>1. TypeOK'
  <2>1. /\ from \in Servers /\ wire[from] \in Seq(Seqs \cup {Event})
        /\ wire[from] # <<>> /\ message' = Head(wire[from])
        /\ wire' = [wire EXCEPT ![from] = Tail(@)]
        /\ wire \in [Servers -> Seq(Seqs \cup {Event})]
    BY Numbers DEF IInv, TypeOK, ReaderInv, ReadHeader
  <2>2. /\ Tail(wire[from]) \in Seq(Seqs \cup {Event})
        /\ message' \in Seqs \cup {Event}
    BY <2>1, Taken
  <2>3. wire' \in [Servers -> Seq(Seqs \cup {Event})]
    BY <2>1, <2>2
  <2> QED BY <2>2, <2>3
          DEF IInv, TypeOK, ReadHeader, stateVars, deferVars, threadVars,
              streamVars
<1>2. SeqInv'
  BY DEF IInv, SeqInv, TypeOK, Waiting, ReadHeader, stateVars, deferVars,
     threadVars, streamVars, boundVars
<1>3. ServerInv'
  BY DEF IInv, ServerInv, TypeOK, ReadHeader, stateVars, deferVars,
     threadVars, streamVars, boundVars
<1>4. ReaderInv'
  BY DEF IInv, ReaderInv, TypeOK, ReadHeader, stateVars, deferVars,
     threadVars, streamVars, boundVars
<1>5. InboxInv'
  BY DEF IInv, InboxInv, TypeOK, ReadHeader, stateVars, deferVars, threadVars,
     streamVars, boundVars
<1>6. OneServer'
  BY DEF IInv, OneServer, TypeOK, ReadHeader, stateVars, deferVars,
     threadVars, streamVars, boundVars
<1>7. NoAnswerLost'
  <2>1. /\ from \in Servers /\ wire[from] \in Seq(Seqs \cup {Event})
        /\ wire[from] # <<>> /\ message' = Head(wire[from])
        /\ wire' = [wire EXCEPT ![from] = Tail(@)]
        /\ wire \in [Servers -> Seq(Seqs \cup {Event})]
    BY Numbers DEF IInv, TypeOK, ReaderInv, ReadHeader
  <2>2. /\ Tail(wire[from]) \in Seq(Seqs \cup {Event})
        /\ message' \in Seqs \cup {Event}
    BY <2>1, Taken
  <2>3. /\ reader = "header" /\ reader' = "content" /\ from' = from
        /\ replied' = replied /\ pending' = pending /\ handle' = handle
        /\ output' = output /\ sentTo' = sentTo
    BY DEF ReadHeader, stateVars, deferVars, streamVars
  <2>4. ASSUME NEW i \in replied' \cap pending',
               handle' = 1 /\ output'[1] /\ sentTo'[i] = 1
        PROVE  \/ \E n \in DOMAIN wire'[1] : wire'[1][n] = i
               \/ message' = i
    <3>1. PICK n \in DOMAIN wire[1] : wire[1][n] = i
      BY <2>3, <2>4 DEF IInv, NoAnswerLost
    <3>2. CASE from = 1
      <4>1. wire'[1] = Tail(wire[1])
        BY <2>1, <3>2
      <4> QED BY <2>1, <3>1, <3>2, <4>1, Taken
    <3>3. CASE from # 1
      BY <2>1, <3>1, <3>3, Numbers
    <3> QED BY <3>2, <3>3
  <2> QED BY <2>3, <2>4 DEF NoAnswerLost
<1> QED BY <1>1, <1>2, <1>3, <1>4, <1>5, <1>6, <1>7 DEF IInv

(* The reader finds the end of the stream instead of a header. *)
LEMMA ReadNoHeaderStep ==
  ASSUME IInv, ReadNoHeader
  PROVE  IInv'
<1>1. TypeOK'
  <2>1. from' \in 0 .. MaxServers /\ message' \in Seqs \cup {Event}
    BY Numbers DEF IInv, TypeOK, ReadNoHeader, Fail
  <2>2. reader' \in {"wait", "read", "header", "content", "dispatch", "error",
                    "clear", "dead"}
    BY DEF IInv, TypeOK, ReadNoHeader, Fail
  <2> QED BY Numbers, <2>1, <2>2 DEF IInv, TypeOK, Locked, ReadNoHeader, Fail,
       stateVars, deferVars, threadVars, streamVars, serverVars, boundVars
<1>2. SeqInv'
  BY DEF IInv, SeqInv, TypeOK, Waiting, ReadNoHeader, Fail, stateVars,
     deferVars, threadVars, streamVars, serverVars, boundVars
<1>3. ServerInv'
  BY DEF IInv, ServerInv, TypeOK, ReadNoHeader, Fail, stateVars, deferVars,
     threadVars, streamVars, serverVars, boundVars
<1>4. ReaderInv'
  <2>1. /\ started' = started
        /\ \/ from' = 0 /\ reader' \in {"wait", "error", "dead"}
           \/ from' = from /\ reader = "content"
    BY DEF ReadNoHeader, Fail, stateVars
  <2> QED BY <2>1, Numbers DEF IInv, ReaderInv
<1>5. InboxInv'
  BY DEF IInv, InboxInv, TypeOK, ReadNoHeader, Fail, stateVars, deferVars,
     threadVars, streamVars, serverVars, boundVars
<1>6. OneServer'
  BY DEF IInv, OneServer, TypeOK, ReadNoHeader, Fail, stateVars, deferVars,
     threadVars, streamVars, serverVars, boundVars
<1>7. NoAnswerLost'
  BY DEF IInv, NoAnswerLost, TypeOK, ReadNoHeader, Fail, stateVars, deferVars,
     threadVars, streamVars, serverVars, boundVars
<1> QED BY <1>1, <1>2, <1>3, <1>4, <1>5, <1>6, <1>7 DEF IInv

(* The reader reads the content from the server it read the header from. *)
LEMMA ReadContentStep ==
  ASSUME IInv, ReadContent
  PROVE  IInv'
<1>1. TypeOK'
  <2>1. from' \in 0 .. MaxServers /\ message' \in Seqs \cup {Event}
    BY Numbers DEF IInv, TypeOK, ReadContent, Fail
  <2>2. reader' \in {"wait", "read", "header", "content", "dispatch", "error",
                    "clear", "dead"}
    BY DEF IInv, TypeOK, ReadContent, Fail
  <2> QED BY Numbers, <2>1, <2>2 DEF IInv, TypeOK, Locked, ReadContent, Fail,
       stateVars, deferVars, threadVars, streamVars, serverVars, boundVars
<1>2. SeqInv'
  BY DEF IInv, SeqInv, TypeOK, Waiting, ReadContent, Fail, stateVars,
     deferVars, threadVars, streamVars, serverVars, boundVars
<1>3. ServerInv'
  BY DEF IInv, ServerInv, TypeOK, ReadContent, Fail, stateVars, deferVars,
     threadVars, streamVars, serverVars, boundVars
<1>4. ReaderInv'
  <2>1. /\ started' = started
        /\ \/ from' = 0 /\ reader' \in {"wait", "error", "dead"}
           \/ from' = from /\ reader = "content"
    BY DEF ReadContent, Fail, stateVars
  <2> QED BY <2>1, Numbers DEF IInv, ReaderInv
<1>5. InboxInv'
  BY DEF IInv, InboxInv, TypeOK, ReadContent, Fail, stateVars, deferVars,
     threadVars, streamVars, serverVars, boundVars
<1>6. OneServer'
  BY DEF IInv, OneServer, TypeOK, ReadContent, Fail, stateVars, deferVars,
     threadVars, streamVars, serverVars, boundVars
<1>7. NoAnswerLost'
  BY DEF IInv, NoAnswerLost, TypeOK, ReadContent, Fail, stateVars, deferVars,
     threadVars, streamVars, serverVars, boundVars
<1> QED BY <1>1, <1>2, <1>3, <1>4, <1>5, <1>6, <1>7 DEF IInv

(* The reader reads the content from another server than the header, which   *)
(* only a restart in between makes possible.                                 *)
LEMMA ReadOtherContentStep ==
  ASSUME IInv, ReadOtherContent
  PROVE  IInv'
<1>1. TypeOK'
  <2>1. from' \in 0 .. MaxServers /\ message' \in Seqs \cup {Event}
    BY Numbers DEF IInv, TypeOK, ReadOtherContent, Fail
  <2>2. reader' \in {"wait", "read", "header", "content", "dispatch", "error",
                    "clear", "dead"}
    BY DEF IInv, TypeOK, ReadOtherContent, Fail
  <2>3. wire' \in [Servers -> Seq(Seqs \cup {Event})]
    <3>1. CASE wire' = wire
      BY <3>1 DEF IInv, TypeOK
    <3>2. CASE /\ handle # 0 /\ wire[handle] # <<>>
               /\ wire' = [wire EXCEPT ![handle] = Tail(@)]
      <4>1. handle \in Servers /\ wire[handle] \in Seq(Seqs \cup {Event})
        BY <3>2, Numbers DEF IInv, TypeOK
      <4>2. Tail(wire[handle]) \in Seq(Seqs \cup {Event})
        BY <3>2, <4>1, Taken
      <4> QED BY <3>2, <4>1, <4>2 DEF IInv, TypeOK
    <3> QED BY <3>1, <3>2 DEF ReadOtherContent
  <2> QED BY Numbers, <2>1, <2>2, <2>3 DEF IInv, TypeOK, Locked,
           ReadOtherContent,
       Fail, stateVars, deferVars, threadVars, streamVars, boundVars
<1>2. SeqInv'
  BY DEF IInv, SeqInv, TypeOK, Waiting, ReadOtherContent, Fail, stateVars,
     deferVars, threadVars, streamVars, boundVars
<1>3. ServerInv'
  BY DEF IInv, ServerInv, TypeOK, ReadOtherContent, Fail, stateVars,
     deferVars, threadVars, streamVars, boundVars
<1>4. ReaderInv'
  <2>1. /\ started' = started
        /\ \/ from' = 0 /\ reader' \in {"wait", "error", "dead"}
           \/ from' = from /\ reader = "content"
    BY DEF ReadOtherContent, Fail, stateVars
  <2> QED BY <2>1, Numbers DEF IInv, ReaderInv
<1>5. InboxInv'
  BY DEF IInv, InboxInv, TypeOK, ReadOtherContent, Fail, stateVars, deferVars,
     threadVars, streamVars, boundVars
<1>6. OneServer'
  BY DEF IInv, OneServer, TypeOK, ReadOtherContent, Fail, stateVars,
     deferVars, threadVars, streamVars, boundVars
<1>7. NoAnswerLost'
  <2>1. from # 0 /\ from \in 0 .. started /\ handle' = handle /\ handle # from
    BY DEF IInv, ReaderInv, ReadOtherContent, stateVars
  <2>2. handle # 1
    BY <2>1, Numbers
  <2> QED BY <2>1, <2>2 DEF NoAnswerLost
<1> QED BY <1>1, <1>2, <1>3, <1>4, <1>5, <1>6, <1>7 DEF IInv

(* After a failure the reader looks whether a server runs, clears the event  *)
(* when none does, and waits for one.                                        *)
LEMMA CheckStep ==
  ASSUME IInv, CheckRunning \/ ClearRunning
  PROVE  IInv'
<1>1. TypeOK'
  BY DEF IInv, TypeOK, Servers, Seqs, CheckRunning, ClearRunning, stateVars,
     deferVars, threadVars, streamVars, serverVars, boundVars
<1>2. SeqInv'
  BY DEF IInv, SeqInv, TypeOK, Waiting, CheckRunning, ClearRunning, stateVars,
     deferVars, threadVars, streamVars, serverVars, boundVars
<1>3. ServerInv'
  <2>1. /\ handle' = handle /\ started' = started /\ pc' = pc
        /\ process' = process /\ input' = input
    BY DEF CheckRunning, ClearRunning, stateVars, threadVars, streamVars,
           serverVars
  <2> QED BY <2>1 DEF IInv, ServerInv
<1>4. ReaderInv'
  BY DEF IInv, ReaderInv, TypeOK, CheckRunning, ClearRunning, stateVars,
     deferVars, threadVars, streamVars, serverVars, boundVars
<1>5. InboxInv'
  BY DEF IInv, InboxInv, TypeOK, CheckRunning, ClearRunning, stateVars,
     deferVars, threadVars, streamVars, serverVars, boundVars
<1>6. OneServer'
  BY DEF IInv, OneServer, TypeOK, CheckRunning, ClearRunning, stateVars,
     deferVars, threadVars, streamVars, serverVars, boundVars
<1>7. NoAnswerLost'
  BY DEF IInv, NoAnswerLost, TypeOK, CheckRunning, ClearRunning, stateVars,
     deferVars, threadVars, streamVars, serverVars, boundVars
<1> QED BY <1>1, <1>2, <1>3, <1>4, <1>5, <1>6, <1>7 DEF IInv

(* An answer is given to the deferred response that waits for it. *)
LEMMA HandleMessageStep ==
  ASSUME IInv, HandleMessage
  PROVE  IInv'
<1>1. TypeOK'
  <2>1. from' \in 0 .. MaxServers /\ message' \in Seqs \cup {Event}
    BY Numbers DEF IInv, TypeOK, HandleMessage
  <2>2. reader' \in {"wait", "read", "header", "content", "dispatch", "error",
                    "clear", "dead"}
    BY DEF IInv, TypeOK, HandleMessage
  <2>3. pending' \subseteq Seqs /\ resolved' \subseteq Seqs
    BY DEF IInv, TypeOK, HandleMessage, Resolve, deferVars
  <2> QED BY Numbers, <2>1, <2>2, <2>3 DEF IInv, TypeOK, Locked, HandleMessage,
       Resolve, stateVars, deferVars, threadVars, streamVars, serverVars,
       boundVars
<1>2. SeqInv'
  BY DEF IInv, SeqInv, TypeOK, Waiting, HandleMessage, Resolve, stateVars,
     deferVars, threadVars, streamVars, serverVars, boundVars
<1>3. ServerInv'
  BY DEF IInv, ServerInv, TypeOK, HandleMessage, Resolve, stateVars,
     deferVars, threadVars, streamVars, serverVars, boundVars
<1>4. ReaderInv'
  <2>1. /\ started' = started
        /\ \/ from' = 0 /\ reader' \in {"wait", "error", "dead"}
           \/ from' = from /\ reader = "content"
    BY DEF HandleMessage, stateVars
  <2> QED BY <2>1, Numbers DEF IInv, ReaderInv
<1>5. InboxInv'
  BY DEF IInv, InboxInv, TypeOK, HandleMessage, Resolve, stateVars, deferVars,
     threadVars, streamVars, serverVars, boundVars
<1>6. OneServer'
  BY DEF IInv, OneServer, TypeOK, HandleMessage, Resolve, stateVars,
     deferVars, threadVars, streamVars, serverVars, boundVars
<1>7. NoAnswerLost'
  BY DEF IInv, NoAnswerLost, TypeOK, HandleMessage, Resolve, stateVars,
     deferVars, threadVars, streamVars, serverVars, boundVars
<1> QED BY <1>1, <1>2, <1>3, <1>4, <1>5, <1>6, <1>7 DEF IInv

(* A server answers a request that was sent to it. *)
LEMMA ReplyStep ==
  ASSUME IInv, NEW s \in Servers, Reply(s)
  PROVE  IInv'
<1>0. PICK i \in inbox[s] :
        /\ inbox' = [inbox EXCEPT ![s] = @ \ {i}]
        /\ wire' = [wire EXCEPT ![s] = Append(@, i)]
        /\ replied' = replied \cup {i}
  BY DEF Reply
<1>i. i \in Seqs
  BY DEF IInv, TypeOK
<1>1. TypeOK'
  <2>1. wire[s] \in Seq(Seqs \cup {Event})
    BY DEF IInv, TypeOK
  <2>2. Append(wire[s], i) \in Seq(Seqs \cup {Event})
    BY <2>1, <1>i, Sent
  <2>3. wire' \in [Servers -> Seq(Seqs \cup {Event})]
    BY <1>0, <2>2 DEF IInv, TypeOK
  <2>4. inbox' \in [Servers -> SUBSET Seqs] /\ replied' \subseteq Seqs
    BY <1>0, <1>i DEF IInv, TypeOK
  <2> QED BY <2>3, <2>4
          DEF IInv, TypeOK, Reply, stateVars, deferVars, threadVars,
              readerVars, streamVars
<1>2. SeqInv'
  BY DEF IInv, SeqInv, TypeOK, Waiting, Reply, stateVars, deferVars,
     threadVars, readerVars, streamVars, boundVars
<1>3. ServerInv'
  BY DEF IInv, ServerInv, TypeOK, Reply, stateVars, deferVars, threadVars,
     readerVars, streamVars, boundVars
<1>4. ReaderInv'
  BY DEF IInv, ReaderInv, TypeOK, Reply, stateVars, deferVars, threadVars,
     readerVars, streamVars, boundVars
<1>5. InboxInv'
  BY DEF IInv, InboxInv, TypeOK, Reply, stateVars, deferVars, threadVars,
     readerVars, streamVars, boundVars
<1>6. OneServer'
  BY DEF IInv, OneServer, TypeOK, Reply, stateVars, deferVars, threadVars,
     readerVars, streamVars, boundVars
<1>7. NoAnswerLost'
  <2>1. wire[s] \in Seq(Seqs \cup {Event})
    BY DEF IInv, TypeOK
  <2>2. \A n \in DOMAIN wire[1] : n \in DOMAIN wire'[1]
                                  /\ wire'[1][n] = wire[1][n]
    <3>1. CASE s = 1
      <4>1. wire'[1] = Append(wire[1], i)
        BY <3>1, <1>0 DEF IInv, TypeOK
      <4> QED BY <2>1, <3>1, <4>1, <1>i, Sent
    <3>2. CASE s # 1
      <4>1. wire'[1] = wire[1]
        BY <3>2, Numbers, <1>0 DEF IInv, TypeOK
      <4> QED BY <4>1
    <3> QED BY <3>1, <3>2
  <2>3. sentTo[i] = 1 => \E n \in DOMAIN wire'[1] : wire'[1][n] = i
    <3>1. sentTo[i] = s
      BY DEF IInv, InboxInv
    <3>2. CASE s = 1
      <4>1. wire'[1] = Append(wire[1], i)
        BY <1>0, <3>2 DEF IInv, TypeOK
      <4> QED BY <2>1, <1>i, <3>2, <4>1, Sent
    <3> QED BY <3>1, <3>2
  <2> QED BY <1>0, <2>2, <2>3
          DEF IInv, NoAnswerLost, Reply, stateVars, deferVars, readerVars,
              streamVars
<1> QED BY <1>1, <1>2, <1>3, <1>4, <1>5, <1>6, <1>7 DEF IInv

(* A server sends an event, which answers nothing. *)
LEMMA SendEventStep ==
  ASSUME IInv, NEW s \in Servers, SendEvent(s)
  PROVE  IInv'
<1>1. TypeOK'
  <2>1. wire[s] \in Seq(Seqs \cup {Event})
    BY DEF IInv, TypeOK
  <2>2. Append(wire[s], Event) \in Seq(Seqs \cup {Event})
    BY <2>1, Sent
  <2>3. wire' \in [Servers -> Seq(Seqs \cup {Event})]
    BY <2>2 DEF IInv, TypeOK, SendEvent
  <2> QED BY <2>3
          DEF IInv, TypeOK, SendEvent, stateVars, deferVars, threadVars,
              readerVars, streamVars
<1>2. SeqInv'
  BY DEF IInv, SeqInv, TypeOK, Waiting, SendEvent, stateVars, deferVars,
     threadVars, readerVars, streamVars
<1>3. ServerInv'
  BY DEF IInv, ServerInv, TypeOK, SendEvent, stateVars, deferVars, threadVars,
     readerVars, streamVars
<1>4. ReaderInv'
  BY DEF IInv, ReaderInv, TypeOK, SendEvent, stateVars, deferVars, threadVars,
     readerVars, streamVars
<1>5. InboxInv'
  BY DEF IInv, InboxInv, TypeOK, SendEvent, stateVars, deferVars, threadVars,
     readerVars, streamVars
<1>6. OneServer'
  BY DEF IInv, OneServer, TypeOK, SendEvent, stateVars, deferVars, threadVars,
     readerVars, streamVars
<1>7. NoAnswerLost'
  <2>1. wire[s] \in Seq(Seqs \cup {Event})
    BY DEF IInv, TypeOK
  <2>2. \A n \in DOMAIN wire[1] : n \in DOMAIN wire'[1]
                                  /\ wire'[1][n] = wire[1][n]
    <3>1. CASE s = 1
      <4>1. wire'[1] = Append(wire[1], Event)
        BY <3>1 DEF IInv, TypeOK, SendEvent
      <4> QED BY <2>1, <3>1, <4>1, Sent
    <3>2. CASE s # 1
      <4>1. wire'[1] = wire[1]
        BY <3>2, Numbers DEF IInv, TypeOK, SendEvent
      <4> QED BY <4>1
    <3> QED BY <3>1, <3>2
  <2> QED BY <2>2
          DEF IInv, NoAnswerLost, SendEvent, stateVars, deferVars, readerVars,
              streamVars
<1> QED BY <1>1, <1>2, <1>3, <1>4, <1>5, <1>6, <1>7 DEF IInv

(* A server exits. *)
LEMMA ExitStep ==
  ASSUME IInv, NEW s \in Servers, Exit(s) \/ Die(s) \/ Gone(s)
  PROVE  IInv'
<1>1. TypeOK'
  BY DEF IInv, TypeOK, Servers, Seqs, Exit, Die, Gone, stateVars, deferVars,
     threadVars, readerVars, streamVars, boundVars
<1>2. SeqInv'
  BY DEF IInv, SeqInv, TypeOK, Waiting, Exit, Die, Gone, stateVars, deferVars,
     threadVars, readerVars, streamVars, boundVars
<1>3. ServerInv'
  <2>1. /\ process[s] # "unborn"
        /\ \A r \in Servers : r # s => process'[r] = process[r]
        /\ handle' = handle /\ started' = started /\ pc' = pc
        /\ input' = input
    BY DEF IInv, TypeOK, Exit, Die, Gone, stateVars, threadVars, streamVars
  <2> QED BY <2>1 DEF IInv, ServerInv
<1>4. ReaderInv'
  BY DEF IInv, ReaderInv, TypeOK, Exit, Die, Gone, stateVars, deferVars,
     threadVars, readerVars, streamVars, boundVars
<1>5. InboxInv'
  BY DEF IInv, InboxInv, TypeOK, Exit, Die, Gone, stateVars, deferVars,
     threadVars, readerVars, streamVars, boundVars
<1>6. OneServer'
  BY DEF IInv, OneServer, TypeOK, Exit, Die, Gone, stateVars, deferVars,
     threadVars, readerVars, streamVars, boundVars
<1>7. NoAnswerLost'
  BY DEF IInv, NoAnswerLost, TypeOK, Exit, Die, Gone, stateVars, deferVars,
     threadVars, readerVars, streamVars, boundVars
<1> QED BY <1>1, <1>2, <1>3, <1>4, <1>5, <1>6, <1>7 DEF IInv

(* The invariant depends on the variables alone. *)
LEMMA StutteringStep ==
  ASSUME IInv, UNCHANGED vars
  PROVE  IInv'
<1>1. TypeOK'
  BY DEF IInv, TypeOK, Servers, Seqs, vars, stateVars, deferVars, threadVars,
     readerVars, streamVars, serverVars, boundVars
<1>2. SeqInv'
  BY DEF IInv, SeqInv, TypeOK, Waiting, vars, stateVars, deferVars,
     threadVars, readerVars, streamVars, serverVars, boundVars
<1>3. ServerInv'
  BY DEF IInv, ServerInv, TypeOK, vars, stateVars, deferVars, threadVars,
     readerVars, streamVars, serverVars, boundVars
<1>4. ReaderInv'
  BY DEF IInv, ReaderInv, TypeOK, vars, stateVars, deferVars, threadVars,
     readerVars, streamVars, serverVars, boundVars
<1>5. InboxInv'
  BY DEF IInv, InboxInv, TypeOK, vars, stateVars, deferVars, threadVars,
     readerVars, streamVars, serverVars, boundVars
<1>6. OneServer'
  BY DEF IInv, OneServer, TypeOK, vars, stateVars, deferVars, threadVars,
     readerVars, streamVars, serverVars, boundVars
<1>7. NoAnswerLost'
  BY DEF IInv, NoAnswerLost, TypeOK, vars, stateVars, deferVars, threadVars,
     readerVars, streamVars, serverVars, boundVars
<1> QED BY <1>1, <1>2, <1>3, <1>4, <1>5, <1>6, <1>7 DEF IInv

(* A completer that has started its server satisfies the invariant.         *)
LEMMA InitInvariant == Init => IInv
<1> SUFFICES ASSUME Init
             PROVE  IInv
  OBVIOUS
<1>1. /\ 1 \in Servers /\ 0 \in 0 .. MaxRequests /\ 1 \in 0 .. 1
      /\ 0 \in 0 .. 0 /\ 0 \in 0 .. 1 /\ 0 \in 0 .. MaxServers
      /\ \A s \in Servers : s > 1 => s # 1
  BY DEF Servers
<1>2. TypeOK
  <2>1. wire \in [Servers -> Seq(Seqs \cup {Event})]
    BY DEF Init
  <2>2. {t \in Threads : pc[t] \in Locked} = {lock} \ {Nobody}
    BY DEF Init, Locked
  <2>3. pc \in [Threads -> Labels]
    BY DEF Init, Labels
  <2> QED BY <1>1, <2>1, <2>2, <2>3 DEF Init, TypeOK
<1>3. SeqInv /\ InboxInv /\ NoAnswerLost
  BY DEF Init, SeqInv, InboxInv, NoAnswerLost, Waiting
<1>4. ServerInv /\ ReaderInv /\ OneServer
  BY <1>1 DEF Init, ServerInv, ReaderInv, OneServer
<1> QED BY <1>2, <1>3, <1>4 DEF IInv

(* Every step preserves the invariant. *)
LEMMA NextInvariant ==
  ASSUME IInv, [Next]_vars
  PROVE  IInv'
<1>1. CASE UNCHANGED vars
  BY <1>1, StutteringStep
<1>2. ASSUME NEW t \in Threads, Begin(t) \/ Work(t)
      PROVE  IInv'
  BY <1>2, BeginStep, BuildRequestStep, RegisterResponseStep,
     WriteRequestStep, WriteRequestFailsStep, AwaitStep, AcquireLockStep,
     StopServerStep, StopServerFailsStep, VisitBufferStep, WaitForExitStep,
     CloseInputStep, CloseOutputStep, ForgetHandleStep,
     StartNothingStep, StartServerStep, SetRunningStep, ReleaseLockStep
  DEF Work
<1>3. CASE ReaderLoop
  BY <1>3, WaitRunningStep, BeginReadStep, ReadHeaderStep, ReadNoHeaderStep,
     ReadContentStep, ReadOtherContentStep, CheckStep, HandleMessageStep
  DEF ReaderLoop
<1>4. ASSUME NEW s \in Servers, Server(s)
      PROVE  IInv'
  BY <1>4, ReplyStep, SendEventStep, ExitStep DEF Server
<1> QED BY <1>1, <1>2, <1>3, <1>4 DEF Next

-----------------------------------------------------------------------------

(* The inductive invariant holds for any number of threads, servers and     *)
(* operations.                                                              *)
THEOREM Invariant == Spec => []IInv
<1>1. IInv /\ [Next]_vars => IInv'
  BY NextInvariant
<1> QED BY <1>1, InitInvariant, PTL DEF Spec

(* Every variable has its type, and exactly the thread that holds           *)
(* _tsserver_lock is in the code that starts or stops the server.           *)
THEOREM TypeCorrect == Spec => []TypeOK
<1>1. IInv => TypeOK
  BY DEF IInv
<1> QED BY <1>1, Invariant, PTL

(* Whoever waits for a deferred result can be given it: the response was    *)
(* registered before the request was written.                               *)
THEOREM DeferredKept == Spec => []NoLostDeferred
<1>1. IInv => NoLostDeferred
  BY DEF IInv, SeqInv, Waiting, NoLostDeferred
<1> QED BY <1>1, Invariant, PTL

(* Until the first server is stopped, no answer of it disappears between    *)
(* its stream and the deferred responses.                                   *)
THEOREM AnswersKept == Spec => []NoAnswerLost
<1>1. IInv => NoAnswerLost
  BY DEF IInv
<1> QED BY <1>1, Invariant, PTL

(* However starts, stops and restarts of several threads overlap, no server *)
(* that was forgotten goes on without having been told to exit, or having   *)
(* lost its input.                                                          *)
THEOREM SingleServer == Spec => []OneServer
<1>1. IInv => OneServer
  BY DEF IInv
<1> QED BY <1>1, Invariant, PTL
=============================================================================
