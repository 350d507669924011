------------------------ MODULE LspConnection_proofs -------------------------
(***************************************************************************)
(* Proofs about LspConnection, for any set of threads, any number of       *)
(* requests and of messages on the way, over standard streams and TCP.     *)
(*                                                                         *)
(* The argument: an id is used by one request, and the server hears of it  *)
(* only after its response is registered (IdInv); so whatever the server   *)
(* has received or sent, unless the pump has come to its end, is still     *)
(* registered (PendingInv), each request is answered by one message        *)
(* (WireInv), and a response leaves the registry exactly when it is        *)
(* completed (ResponseInv).  The pump comes to its end only after nothing  *)
(* can be written any more, or the server broke the protocol (EndInv):     *)
(* that is why nobody registers a response behind its back and waits.      *)
(* There is one lemma for every action, and one step in it for every part  *)
(* of IInv.                                                                *)
(***************************************************************************)
EXTENDS LspConnection, SequenceTheorems, TLAPS

USE LspConnectionAssumption

(* A message is an answer, with its id, or one of the others.               *)
LEMMA MessageTypes ==
  ASSUME NEW m \in Messages
  PROVE  /\ IsResponse(m) => m.id \in Ids /\ m.answer \in {"result", "error"}
         /\ ~ IsResponse(m) =>
              m.type \in Asks \cup {"notification", "malformed", "stray"}
         /\ m # NoMessage
<1>1. CASE m \in [type : {"response"}, id : Ids, answer : {"result", "error"}]
  <2>1. m.type = "response" /\ m.id \in Ids /\ m.answer \in {"result", "error"}
    BY <1>1
  <2>2. NoMessage.type = "none"
    BY DEF NoMessage
  <2> QED BY <2>1, <2>2 DEF IsResponse
<1>2. CASE m \in [type : {"request", "register", "unregister",
                         "notification", "malformed", "stray"}]
  <2>1. m.type \in Asks \cup {"notification", "malformed", "stray"}
    BY <1>2 DEF Asks
  <2>2. NoMessage.type = "none"
    BY DEF NoMessage
  <2> QED BY <2>1, <2>2 DEF IsResponse, Asks
<1> QED BY <1>1, <1>2 DEF Messages

(* Sending a message leaves those on the way alone. *)
LEMMA Sent ==
  ASSUME wire \in Seq(Messages), NEW m \in Messages, wire' = Append(wire, m)
  PROVE  /\ wire' \in Seq(Messages)
         /\ Len(wire) \in Nat
         /\ DOMAIN wire = 1 .. Len(wire)
         /\ DOMAIN wire' = 1 .. Len(wire) + 1
         /\ \A n \in DOMAIN wire : wire'[n] = wire[n]
         /\ wire'[Len(wire) + 1] = m
  OBVIOUS

(* Reading a message leaves the others as they are, one place further on.   *)
LEMMA Taken ==
  ASSUME wire \in Seq(Messages), wire # <<>>, wire' = Tail(wire)
  PROVE  /\ wire' \in Seq(Messages)
         /\ 1 \in DOMAIN wire /\ Head(wire) = wire[1]
         /\ Head(wire) \in Messages
         /\ \A n \in DOMAIN wire' :
              n + 1 \in DOMAIN wire /\ n \in Nat /\ wire'[n] = wire[n + 1]
  OBVIOUS

(* Every id that was issued is one of Ids. *)
LEMMA IssuedIds ==
  ASSUME IInv
  PROVE  /\ Issued \subseteq Ids /\ 0 \in 0 .. MaxRequests
         /\ Ids \subseteq 0 .. MaxRequests
         /\ \A t \in Threads : pc[t] # "idle" => id[t] \in Ids
         /\ lastId < MaxRequests =>
              /\ lastId + 1 \in Ids /\ lastId + 1 \notin Issued
              /\ 1 .. lastId + 1 = Issued \cup {lastId + 1}
<1>1. MaxRequests \in Nat /\ lastId \in 0 .. MaxRequests
  BY DEF IInv, TypeOK
<1>2. Issued \subseteq Ids /\ Ids \subseteq 0 .. MaxRequests
  BY <1>1 DEF Issued, Ids
<1>3. \A t \in Threads : pc[t] # "idle" => id[t] \in Issued
  BY DEF IInv, IdInv
<1> QED BY <1>1, <1>2, <1>3 DEF Issued, Ids

(* What writing does to the messages on the way: over standard streams no   *)
(* two are mixed.                                                           *)
LEMMA Mixed ==
  ASSUME IInv, NEW W \in SUBSET Threads, Mixes(W)
  PROVE  /\ garbled' \in BOOLEAN /\ unflushed' \in BOOLEAN
         /\ garbled => garbled'
         /\ transport = "stdio" => ~ garbled'
<1>1. garbled \in BOOLEAN /\ unflushed \in BOOLEAN
  BY DEF IInv, TypeOK
<1>2. CASE \E t \in W : pc[t] = "writing"
  BY <1>1, <1>2 DEF IInv, EndInv, Mixes
<1>3. CASE ~ \E t \in W : pc[t] = "writing"
  BY <1>1, <1>3 DEF IInv, EndInv, Mixes
<1> QED BY <1>2, <1>3

(* A write that fails mixes nothing. *)
LEMMA Unflushed ==
  ASSUME IInv, LeavesUnflushed
  PROVE  garbled' = garbled /\ unflushed' \in BOOLEAN
BY DEF LeavesUnflushed, IInv, TypeOK

(* GetResponseAsync takes the next id: no other request has it, and the      *)
(* server has not heard of it.                                               *)
LEMMA NextRequestIdStep ==
  ASSUME IInv, NEW t \in Threads, NextRequestId(t)
  PROVE  IInv'
<1>1. TypeOK'
  <2>1. lastId + 1 \in Ids /\ lastId' = lastId + 1
    BY IssuedIds DEF NextRequestId
  <2>2. pc' \in [Threads -> {"idle", "register", "write", "writing", "await"}]
    BY DEF IInv, TypeOK, NextRequestId
  <2>3. id' \in [Threads -> 0 .. MaxRequests]
    BY <2>1, IssuedIds DEF IInv, TypeOK, NextRequestId
  <2>4. lastId' \in 0 .. MaxRequests
    BY <2>1, IssuedIds
  <2> QED BY <2>2, <2>3, <2>4
          DEF IInv, TypeOK, NextRequestId, streamVars, closeVars, writeVars,
             pumpVars, serverVars
<1>2. IdInv'
  <2>1. /\ lastId + 1 \in Ids /\ lastId + 1 \notin Issued
        /\ Issued' = Issued \cup {lastId + 1}
    BY IssuedIds DEF NextRequestId, Issued
  <2>2. /\ lastId + 1 \notin responses /\ answer[lastId + 1] = "none"
        /\ lastId + 1 \notin inbox \cup replied
    BY <2>1 DEF IInv, IdInv
  <2>3. /\ id'[t] = lastId + 1 /\ pc'[t] = "register"
        /\ \A s \in Threads : s # t => id'[s] = id[s] /\ pc'[s] = pc[s]
        /\ responses' = responses /\ answer' = answer
        /\ inbox' = inbox /\ replied' = replied
    BY DEF IInv, TypeOK, NextRequestId, serverVars
  <2>4. \A s \in Threads : pc[s] # "idle" => id[s] # lastId + 1
    BY <2>1 DEF IInv, IdInv
  <2> QED BY <2>1, <2>2, <2>3, <2>4 DEF IInv, IdInv
<1>3. ResponseInv'
  BY DEF IInv, ResponseInv, IdInv, TypeOK, Issued, Ids, NextRequestId,
     streamVars, closeVars, writeVars, pumpVars, serverVars
<1>4. WireInv'
  BY DEF IInv, WireInv, IdInv, NextRequestId, streamVars, closeVars, writeVars,
     pumpVars, serverVars
<1>5. PendingInv'
  BY DEF IInv, PendingInv, WireInv, IdInv, NextRequestId, streamVars,
     closeVars, writeVars, pumpVars, serverVars
<1>6. AnswersAreTrue'
  BY DEF IInv, AnswersAreTrue, TypeOK, IdInv, NextRequestId, streamVars,
     closeVars, writeVars, pumpVars, serverVars
<1>7. EndInv'
  BY DEF IInv, EndInv, CannotWrite, TypeOK, NextRequestId, streamVars,
     closeVars, writeVars, pumpVars, serverVars
<1> QED BY <1>1, <1>2, <1>3, <1>4, <1>5, <1>6, <1>7 DEF IInv

(* The Response is registered, before anything is written. *)
LEMMA RegisterStep ==
  ASSUME IInv, NEW t \in Threads, Register(t)
  PROVE  IInv'
<1>1. TypeOK'
  <2>1. id[t] \in Ids
    BY IssuedIds DEF Register
  <2>2. pc' \in [Threads -> {"idle", "register", "write", "writing", "await"}]
    BY DEF IInv, TypeOK, Register
  <2> QED BY <2>1, <2>2
          DEF IInv, TypeOK, Register, streamVars, closeVars, writeVars,
             pumpVars, serverVars
<1>2. IdInv'
  <2>1. /\ pc[t] = "register" /\ pc'[t] = "write" /\ id[t] \in Issued
        /\ \A s \in Threads : s # t => pc'[s] = pc[s]
        /\ responses' = responses \cup {id[t]} /\ id' = id
        /\ answer' = answer /\ inbox' = inbox /\ replied' = replied
        /\ Issued' = Issued
    BY DEF IInv, TypeOK, IdInv, Issued, Register, serverVars
  <2>2. \A s \in Threads :
          pc[s] # "idle" /\ s # t => id[s] # id[t]
    BY <2>1 DEF IInv, IdInv
  <2> QED BY <2>1, <2>2 DEF IInv, IdInv
<1>3. ResponseInv'
  BY DEF IInv, ResponseInv, IdInv, TypeOK, Issued, Ids, Register, streamVars,
     closeVars, writeVars, pumpVars, serverVars
<1>4. WireInv'
  BY DEF IInv, WireInv, IdInv, Register, streamVars, closeVars, writeVars,
     pumpVars, serverVars
<1>5. PendingInv'
  BY DEF IInv, PendingInv, WireInv, IdInv, Register, streamVars, closeVars,
     writeVars, pumpVars, serverVars
<1>6. AnswersAreTrue'
  BY DEF IInv, AnswersAreTrue, TypeOK, IdInv, Register, streamVars, closeVars,
     writeVars, pumpVars, serverVars
<1>7. EndInv'
  BY DEF IInv, EndInv, CannotWrite, TypeOK, Register, streamVars, closeVars,
     writeVars, pumpVars, serverVars
<1> QED BY <1>1, <1>2, <1>3, <1>4, <1>5, <1>6, <1>7 DEF IInv

(* A part of the request is written. *)
LEMMA BeginWriteStep ==
  ASSUME IInv, NEW t \in Threads, BeginWrite(t)
  PROVE  IInv'
<1>0. /\ garbled' \in BOOLEAN /\ unflushed' \in BOOLEAN
      /\ garbled => garbled'
      /\ transport = "tcp" /\ pc[t] = "write" /\ pc'[t] = "writing"
      /\ \A s \in Threads : s # t => pc'[s] = pc[s]
      /\ pc' \in [Threads -> {"idle", "register", "write", "writing",
                              "await"}]
      /\ UNCHANGED <<lastId, responses, answer, id, closeVars, streamVars,
                     pumpVars, serverVars>>
  <2>1. Threads \ {t} \in SUBSET Threads /\ Mixes(Threads \ {t})
    BY DEF BeginWrite
  <2>2. garbled' \in BOOLEAN /\ unflushed' \in BOOLEAN /\ (garbled => garbled')
    BY <2>1, Mixed
  <2> QED BY <2>2 DEF IInv, TypeOK, BeginWrite
<1>1. TypeOK'
  BY <1>0 DEF IInv, TypeOK, streamVars, closeVars, pumpVars, serverVars
<1>2. IdInv'
  BY <1>0 DEF IInv, IdInv, Issued, serverVars
<1>3. ResponseInv'
  BY <1>0 DEF IInv, ResponseInv
<1>4. WireInv'
  BY <1>0 DEF IInv, WireInv, pumpVars, serverVars
<1>5. PendingInv'
  BY <1>0 DEF IInv, PendingInv, pumpVars, serverVars
<1>6. AnswersAreTrue'
  BY <1>0 DEF IInv, AnswersAreTrue, pumpVars, serverVars
<1>7. EndInv'
  BY <1>0 DEF IInv, EndInv, streamVars, closeVars, pumpVars, serverVars
<1> QED BY <1>1, <1>2, <1>3, <1>4, <1>5, <1>6, <1>7 DEF IInv

(* The request is written: the server may know the id, and its Response is   *)
(* registered or was aborted.                                                *)
LEMMA WriteDataStep ==
  ASSUME IInv, NEW t \in Threads, WriteData(t)
  PROVE  IInv'
<1>0. /\ garbled' \in BOOLEAN /\ unflushed' \in BOOLEAN
      /\ garbled => garbled'
      /\ transport = "stdio" => ~ garbled'
  <2>1. Threads \ {t} \in SUBSET Threads /\ Mixes(Threads \ {t})
    BY DEF WriteData
  <2> QED BY <2>1, Mixed
<1>d. /\ pc[t] \in {"write", "writing"} /\ pc'[t] = "await" /\ CanWrite
      /\ \A s \in Threads : s # t => pc'[s] = pc[s]
      /\ pc' \in [Threads -> {"idle", "register", "write", "writing",
                              "await"}]
      /\ inbox' \subseteq inbox \cup {id[t]}
      /\ UNCHANGED <<lastId, responses, answer, id, closeVars, streamVars,
                     pumpVars, alive, replied, wire, unasked>>
  BY DEF IInv, TypeOK, WriteData
<1>i. id[t] \in Ids /\ id[t] \in Issued
  BY <1>d, IssuedIds DEF IInv, IdInv
<1>1. TypeOK'
  BY <1>0, <1>d, <1>i DEF IInv, TypeOK, streamVars, closeVars, pumpVars
<1>2. IdInv'
  <2>1. \A s \in Threads : pc[s] # "idle" /\ s # t => id[s] # id[t]
    BY <1>d DEF IInv, IdInv
  <2> QED BY <1>d, <1>i, <2>1 DEF IInv, IdInv, Issued
<1>3. ResponseInv'
  BY <1>d DEF IInv, ResponseInv
<1>4. WireInv'
  <2>1. id[t] \notin replied
    BY <1>d DEF IInv, IdInv
  <2> QED BY <1>d, <2>1 DEF IInv, WireInv, pumpVars
<1>5. PendingInv'
  <2>1. answer[id[t]] # "none" \/ id[t] \in responses
    BY <1>d DEF IInv, ResponseInv
  <2>2. id[t] \notin replied /\ answer[id[t]] \in Answers
    BY <1>d, <1>i DEF IInv, IdInv, TypeOK
  <2>3. pump \notin {"cancelling", "closing", "ended"} => id[t] \in responses
    BY <1>i, <2>1, <2>2 DEF IInv, AnswersAreTrue, Answers
  <2> QED BY <1>d, <2>3 DEF IInv, PendingInv, pumpVars
<1>6. AnswersAreTrue'
  BY <1>d DEF IInv, AnswersAreTrue, pumpVars
<1>7. EndInv'
  <2>1. /\ \A n \in DOMAIN wire' :
             wire'[n].type \in {"malformed", "stray"} => faulty' \/ garbled'
        /\ message'.type \in {"malformed", "stray"} => faulty' \/ garbled'
        /\ pump' = "dispatch" <=> message' # NoMessage
    BY <1>0, <1>d DEF IInv, EndInv, streamVars, pumpVars
  <2>2. transport' = "stdio" =>
          /\ ~ garbled' /\ \A s \in Threads : pc'[s] # "writing"
          /\ closer' \in {"output", "join", "closed"} => ~ input'
          /\ ~ output' => ~ input'
    BY <1>0, <1>d DEF IInv, EndInv, streamVars, closeVars
  <2>3. transport' = "stdio" /\ ~ faulty' =>
          pump' \notin {"stopping", "failing", "cancelling", "closing", "ended"}
    BY <1>d DEF IInv, EndInv, CanWrite, CannotWrite, streamVars, pumpVars
  <2> QED BY <2>1, <2>2, <2>3 DEF EndInv
<1> QED BY <1>1, <1>2, <1>3, <1>4, <1>5, <1>6, <1>7 DEF IInv

(* The request cannot be written, and its thread does not wait. *)
LEMMA WriteFailsStep ==
  ASSUME IInv, NEW t \in Threads, WriteFails(t)
  PROVE  IInv'
<1>0. garbled' = garbled /\ unflushed' \in BOOLEAN
  BY Unflushed DEF WriteFails
<1>d. /\ pc[t] # "idle" /\ pc'[t] = "idle"
      /\ \A s \in Threads : s # t => pc'[s] = pc[s] /\ id'[s] = id[s]
      /\ pc' \in [Threads -> {"idle", "register", "write", "writing",
                              "await"}]
      /\ id' \in [Threads -> 0 .. MaxRequests]
      /\ UNCHANGED <<lastId, responses, answer, closeVars, streamVars,
                     pumpVars, serverVars>>
  BY IssuedIds DEF IInv, TypeOK, WriteFails, Return
<1>1. TypeOK'
  BY <1>0, <1>d DEF IInv, TypeOK, streamVars, closeVars, pumpVars, serverVars
<1>2. IdInv'
  BY <1>d DEF IInv, IdInv, Issued, serverVars
<1>3. ResponseInv'
  BY <1>d DEF IInv, ResponseInv
<1>4. WireInv'
  BY <1>d DEF IInv, WireInv, pumpVars, serverVars
<1>5. PendingInv'
  BY <1>d DEF IInv, PendingInv, pumpVars, serverVars
<1>6. AnswersAreTrue'
  BY <1>d DEF IInv, AnswersAreTrue, pumpVars, serverVars
<1>7. EndInv'
  BY <1>0, <1>d
  DEF IInv, EndInv, CannotWrite, streamVars, closeVars, pumpVars, serverVars
<1> QED BY <1>1, <1>2, <1>3, <1>4, <1>5, <1>6, <1>7 DEF IInv

(* AwaitResponse returns with the answer. *)
LEMMA AwaitResponseStep ==
  ASSUME IInv, NEW t \in Threads, AwaitResponse(t)
  PROVE  IInv'
<1>1. TypeOK'
  <2>1. pc' \in [Threads -> {"idle", "register", "write", "writing", "await"}]
    BY DEF IInv, TypeOK, AwaitResponse, Return
  <2>2. id' \in [Threads -> 0 .. MaxRequests]
    BY IssuedIds DEF IInv, TypeOK, AwaitResponse, Return
  <2> QED BY <2>1, <2>2
          DEF IInv, TypeOK, AwaitResponse, streamVars, closeVars, writeVars,
             pumpVars, serverVars
<1>2. IdInv'
  BY DEF IInv, IdInv, TypeOK, Issued, Ids, AwaitResponse, Return, streamVars,
     closeVars, writeVars, pumpVars, serverVars
<1>3. ResponseInv'
  BY DEF IInv, ResponseInv, IdInv, TypeOK, Issued, Ids, AwaitResponse, Return,
     streamVars, closeVars, writeVars, pumpVars, serverVars
<1>4. WireInv'
  BY DEF IInv, WireInv, IdInv, AwaitResponse, Return, streamVars, closeVars,
     writeVars, pumpVars, serverVars
<1>5. PendingInv'
  BY DEF IInv, PendingInv, WireInv, IdInv, AwaitResponse, Return, streamVars,
     closeVars, writeVars, pumpVars, serverVars
<1>6. AnswersAreTrue'
  BY DEF IInv, AnswersAreTrue, TypeOK, IdInv, AwaitResponse, Return,
     streamVars, closeVars, writeVars, pumpVars, serverVars
<1>7. EndInv'
  BY DEF IInv, EndInv, CannotWrite, TypeOK, AwaitResponse, Return, streamVars,
     closeVars, writeVars, pumpVars, serverVars
<1> QED BY <1>1, <1>2, <1>3, <1>4, <1>5, <1>6, <1>7 DEF IInv

(* AwaitResponse gives up; the Response stays registered. *)
LEMMA ResponseTimeoutStep ==
  ASSUME IInv, NEW t \in Threads, ResponseTimeout(t)
  PROVE  IInv'
<1>1. TypeOK'
  <2>1. pc' \in [Threads -> {"idle", "register", "write", "writing", "await"}]
    BY DEF IInv, TypeOK, ResponseTimeout, Return
  <2>2. id' \in [Threads -> 0 .. MaxRequests]
    BY IssuedIds DEF IInv, TypeOK, ResponseTimeout, Return
  <2> QED BY <2>1, <2>2
          DEF IInv, TypeOK, ResponseTimeout, streamVars, closeVars, writeVars,
             pumpVars, serverVars
<1>2. IdInv'
  BY DEF IInv, IdInv, TypeOK, Issued, Ids, ResponseTimeout, Return,
     streamVars, closeVars, writeVars, pumpVars, serverVars
<1>3. ResponseInv'
  BY DEF IInv, ResponseInv, IdInv, TypeOK, Issued, Ids, ResponseTimeout,
     Return, streamVars, closeVars, writeVars, pumpVars, serverVars
<1>4. WireInv'
  BY DEF IInv, WireInv, IdInv, ResponseTimeout, Return, streamVars, closeVars,
     writeVars, pumpVars, serverVars
<1>5. PendingInv'
  BY DEF IInv, PendingInv, WireInv, IdInv, ResponseTimeout, Return,
     streamVars, closeVars, writeVars, pumpVars, serverVars
<1>6. AnswersAreTrue'
  BY DEF IInv, AnswersAreTrue, TypeOK, IdInv, ResponseTimeout, Return,
     streamVars, closeVars, writeVars, pumpVars, serverVars
<1>7. EndInv'
  BY DEF IInv, EndInv, CannotWrite, TypeOK, ResponseTimeout, Return,
     streamVars, closeVars, writeVars, pumpVars, serverVars
<1> QED BY <1>1, <1>2, <1>3, <1>4, <1>5, <1>6, <1>7 DEF IInv

(* The pump is connected or, over TCP, gives up. *)
LEMMA ConnectStep ==
  ASSUME IInv, Connect \/ ConnectFails
  PROVE  IInv'
<1>1. TypeOK'
  <2>1. pump' \in {"ready", "failing"} /\ connected' \in BOOLEAN
    BY DEF IInv, TypeOK, Connect, ConnectFails, streamVars
  <2>2. UNCHANGED <<transport, faulty, input, output, message, observers,
                    clientVars, closeVars, writeVars, serverVars>>
    BY DEF Connect, ConnectFails, streamVars
  <2> QED BY <2>1, <2>2
          DEF IInv, TypeOK, clientVars, closeVars, writeVars, serverVars
<1>2. IdInv'
  BY DEF IInv, IdInv, TypeOK, Issued, Ids, Connect, ConnectFails, clientVars,
     streamVars, closeVars, writeVars, serverVars
<1>3. ResponseInv'
  BY DEF IInv, ResponseInv, IdInv, TypeOK, Issued, Ids, Connect, ConnectFails,
     clientVars, streamVars, closeVars, writeVars, serverVars
<1>4. WireInv'
  BY DEF IInv, WireInv, IdInv, Connect, ConnectFails, clientVars, streamVars,
     closeVars, writeVars, serverVars
<1>5. PendingInv'
  BY DEF IInv, PendingInv, WireInv, IdInv, Connect, ConnectFails, clientVars,
     streamVars, closeVars, writeVars, serverVars
<1>6. AnswersAreTrue'
  BY DEF IInv, AnswersAreTrue, TypeOK, IdInv, Connect, ConnectFails,
     clientVars, streamVars, closeVars, writeVars, serverVars
<1>7. EndInv'
  <2>1. /\ wire' = wire /\ faulty' = faulty /\ message' = message
        /\ transport' = transport /\ closer' = closer
        /\ input' = input /\ output' = output /\ alive' = alive
        /\ pump # "dispatch" /\ pump' # "dispatch"
        /\ transport = "stdio" =>
             pump' \notin {"stopping", "failing", "cancelling", "closing",
                           "ended"}
        /\ pump' \notin {"cancelling", "closing", "ended"}
        /\ garbled' = garbled /\ pc' = pc
    BY DEF Connect, ConnectFails, clientVars, streamVars, closeVars, writeVars,
       serverVars
  <2> QED BY <2>1 DEF IInv, EndInv
<1> QED BY <1>1, <1>2, <1>3, <1>4, <1>5, <1>6, <1>7 DEF IInv

(* The pump reads on, or finds that its stream has been closed. *)
LEMMA BeginReadStep ==
  ASSUME IInv, BeginRead
  PROVE  IInv'
<1>1. TypeOK'
  BY DEF IInv, TypeOK, BeginRead, NoData, clientVars, streamVars, closeVars,
     writeVars, serverVars
<1>2. IdInv'
  BY DEF IInv, IdInv, TypeOK, Issued, Ids, BeginRead, NoData, clientVars,
     streamVars, closeVars, writeVars, serverVars
<1>3. ResponseInv'
  BY DEF IInv, ResponseInv, IdInv, TypeOK, Issued, Ids, BeginRead, NoData,
     clientVars, streamVars, closeVars, writeVars, serverVars
<1>4. WireInv'
  BY DEF IInv, WireInv, IdInv, BeginRead, NoData, clientVars, streamVars,
     closeVars, writeVars, serverVars
<1>5. PendingInv'
  BY DEF IInv, PendingInv, WireInv, IdInv, BeginRead, NoData, clientVars,
     streamVars, closeVars, writeVars, serverVars
<1>6. AnswersAreTrue'
  BY DEF IInv, AnswersAreTrue, TypeOK, IdInv, BeginRead, NoData, clientVars,
     streamVars, closeVars, writeVars, serverVars
<1>7. EndInv'
  BY DEF IInv, EndInv, CannotWrite, TypeOK, BeginRead, NoData, clientVars,
     streamVars, closeVars, writeVars, serverVars
<1> QED BY <1>1, <1>2, <1>3, <1>4, <1>5, <1>6, <1>7 DEF IInv

(* The pump takes the first message of the stream. *)
LEMMA ReadStep ==
  ASSUME IInv, Read
  PROVE  IInv'
<1>1. TypeOK'
  <2>1. wire \in Seq(Messages) /\ wire # <<>> /\ wire' = Tail(wire)
    BY DEF IInv, TypeOK, Read
  <2>2. wire' \in Seq(Messages) /\ message' \in Messages
    BY <2>1, Taken DEF Read
  <2> QED BY <2>2 DEF IInv, TypeOK, Read, clientVars, streamVars, closeVars,
     writeVars
<1>2. IdInv'
  BY DEF IInv, IdInv, TypeOK, Issued, Ids, Read, clientVars, streamVars,
     closeVars, writeVars
<1>3. ResponseInv'
  BY DEF IInv, ResponseInv, IdInv, TypeOK, Issued, Ids, Read, clientVars,
     streamVars, closeVars, writeVars
<1>4. WireInv'
  BY DEF IInv, WireInv, IdInv, Read, clientVars, streamVars, closeVars,
     writeVars
<1>5. PendingInv'
  <2>1. wire \in Seq(Messages) /\ wire # <<>> /\ wire' = Tail(wire)
    BY DEF IInv, TypeOK, Read
  <2>2. /\ pump = "reading" /\ message' = Head(wire)
        /\ inbox' = inbox /\ responses' = responses
    BY DEF Read, clientVars
  <2> QED BY <2>1, <2>2, Taken DEF IInv, PendingInv
<1>6. AnswersAreTrue'
  BY DEF IInv, AnswersAreTrue, TypeOK, IdInv, Read, clientVars, streamVars,
     closeVars, writeVars
<1>7. EndInv'
  <2>1. wire \in Seq(Messages) /\ wire # <<>> /\ wire' = Tail(wire)
    BY DEF IInv, TypeOK, Read
  <2>2. /\ pump' = "dispatch" /\ message' = Head(wire)
        /\ faulty' = faulty /\ transport' = transport /\ closer' = closer
        /\ input' = input /\ output' = output /\ garbled' = garbled
        /\ pc' = pc
    BY DEF Read, clientVars, streamVars, closeVars, writeVars
  <2>3. message' # NoMessage
    BY <2>1, <2>2, Taken, MessageTypes
  <2> QED BY <2>1, <2>2, <2>3, Taken DEF IInv, EndInv
<1> QED BY <1>1, <1>2, <1>3, <1>4, <1>5, <1>6, <1>7 DEF IInv

(* The pump sees the end of the stream. *)
LEMMA ReadEndOfFileStep ==
  ASSUME IInv, ReadEndOfFile
  PROVE  IInv'
<1>1. TypeOK'
  BY DEF IInv, TypeOK, ReadEndOfFile, NoData, clientVars, streamVars,
     closeVars, writeVars, serverVars
<1>2. IdInv'
  BY DEF IInv, IdInv, TypeOK, Issued, Ids, ReadEndOfFile, NoData, clientVars,
     streamVars, closeVars, writeVars, serverVars
<1>3. ResponseInv'
  BY DEF IInv, ResponseInv, IdInv, TypeOK, Issued, Ids, ReadEndOfFile, NoData,
     clientVars, streamVars, closeVars, writeVars, serverVars
<1>4. WireInv'
  BY DEF IInv, WireInv, IdInv, ReadEndOfFile, NoData, clientVars, streamVars,
     closeVars, writeVars, serverVars
<1>5. PendingInv'
  BY DEF IInv, PendingInv, WireInv, IdInv, ReadEndOfFile, NoData, clientVars,
     streamVars, closeVars, writeVars, serverVars
<1>6. AnswersAreTrue'
  BY DEF IInv, AnswersAreTrue, TypeOK, IdInv, ReadEndOfFile, NoData,
     clientVars, streamVars, closeVars, writeVars, serverVars
<1>7. EndInv'
  BY DEF IInv, EndInv, CannotWrite, TypeOK, ReadEndOfFile, NoData, clientVars,
     streamVars, closeVars, writeVars, serverVars
<1> QED BY <1>1, <1>2, <1>3, <1>4, <1>5, <1>6, <1>7 DEF IInv

(* An answer completes the Response of its id, which it finds registered. *)
LEMMA DispatchResponseStep ==
  ASSUME IInv, DispatchResponse
  PROVE  IInv'
<1> DEFINE i == message.id
<1>0. /\ i \in responses /\ i \in Ids /\ i \in replied
      /\ message \in Messages /\ IsResponse(message)
      /\ message.answer \in {"result", "error"}
      /\ responses' = responses \ {i} /\ answer'[i] = message.answer
      /\ \A j \in Ids \ {i} : answer'[j] = answer[j]
      /\ pump = "dispatch" /\ pump' = "ready" /\ message' = NoMessage
      /\ inbox' = inbox /\ replied' = replied /\ wire' = wire
      /\ pc' = pc /\ id' = id /\ lastId' = lastId
      /\ ~ IsResponse(NoMessage)
  <2>1. /\ IsResponse(message) /\ ~ IsResponse(NoMessage)
        /\ message # NoMessage
    BY DEF DispatchResponse, IsResponse, NoMessage
  <2>3. message \in Messages
    BY <2>1 DEF IInv, TypeOK
  <2>2. i \in Ids /\ message.answer \in {"result", "error"}
    BY <2>1, <2>3, MessageTypes
  <2> QED BY <2>1, <2>2, <2>3
          DEF IInv, TypeOK, WireInv, DispatchResponse, ResponseReceived,
              serverVars
<1> HIDE DEF i
<1>1. TypeOK'
  BY <1>0
  DEF IInv, TypeOK, DispatchResponse, ResponseReceived, Answers, streamVars,
     closeVars, writeVars, serverVars, i
<1>2. IdInv'
  BY <1>0, IssuedIds DEF IInv, IdInv, Issued
<1>3. ResponseInv'
  <2>1. \A j \in responses' : answer'[j] = "none"
    <3>1. responses \subseteq Ids
      BY DEF IInv, TypeOK
    <3> QED BY <1>0, <3>1 DEF IInv, ResponseInv
  <2>2. \A s \in Threads : pc'[s] \in {"write", "writing", "await"} =>
          answer'[id'[s]] # "none" \/ id'[s] \in responses'
    <3>1. \A s \in Threads : pc[s] # "idle" => id[s] \in Ids
      BY IssuedIds
    <3> QED BY <1>0, <3>1 DEF IInv, ResponseInv
  <2> QED BY <2>1, <2>2 DEF ResponseInv
<1>4. WireInv'
  BY <1>0 DEF IInv, WireInv
<1>5. PendingInv'
  <2>1. /\ \A n \in DOMAIN wire : IsResponse(wire[n]) => wire[n].id # i
        /\ i \notin inbox
    BY <1>0 DEF IInv, WireInv, i
  <2> QED BY <1>0, <2>1 DEF IInv, PendingInv
<1>6. AnswersAreTrue'
  BY <1>0 DEF IInv, AnswersAreTrue
<1>7. EndInv'
  <2>1. /\ faulty' = faulty /\ transport' = transport /\ closer' = closer
        /\ input' = input /\ output' = output /\ garbled' = garbled
    BY DEF DispatchResponse, streamVars, closeVars, writeVars
  <2>2. NoMessage.type = "none"
    BY DEF NoMessage
  <2> QED BY <1>0, <2>1, <2>2 DEF IInv, EndInv
<1> QED BY <1>1, <1>2, <1>3, <1>4, <1>5, <1>6, <1>7 DEF IInv

(* A notification or a request of the server completes no Response. *)
LEMMA DispatchOtherStep ==
  ASSUME IInv, DispatchOther
  PROVE  IInv'
<1>0. /\ message' = NoMessage /\ NoMessage.type = "none"
      /\ ~ IsResponse(NoMessage)
      /\ pump = "dispatch" /\ pump' = "ready" /\ wire' = wire
      /\ UNCHANGED <<clientVars, closeVars, streamVars, serverVars>>
  BY DEF DispatchOther, NoMessage, IsResponse, clientVars, streamVars,
       closeVars, serverVars
<1>w. /\ garbled' \in BOOLEAN /\ unflushed' \in BOOLEAN
      /\ garbled => garbled'
      /\ transport = "stdio" => ~ garbled'
  <2>1. CASE UNCHANGED writeVars
    BY <2>1 DEF IInv, TypeOK, EndInv, writeVars
  <2>2. CASE Mixes(Threads)
    BY <2>2, Mixed
  <2> QED BY <2>1, <2>2 DEF DispatchOther
<1>o. observers' \in Nat
  BY DEF IInv, TypeOK, DispatchOther, HandleRegistrations
<1>1. TypeOK'
  BY <1>0, <1>w, <1>o DEF IInv, TypeOK, clientVars, streamVars, closeVars,
     writeVars, serverVars
<1>2. IdInv'
  BY <1>0 DEF IInv, IdInv, Issued, clientVars, serverVars
<1>3. ResponseInv'
  BY <1>0 DEF IInv, ResponseInv, clientVars
<1>4. WireInv'
  BY <1>0 DEF IInv, WireInv, serverVars
<1>5. PendingInv'
  <2>1. /\ inbox' = inbox /\ replied' = replied /\ responses' = responses
    BY <1>0 DEF clientVars, serverVars
  <2> QED BY <1>0, <2>1 DEF IInv, PendingInv
<1>6. AnswersAreTrue'
  BY <1>0 DEF IInv, AnswersAreTrue, clientVars, serverVars
<1>7. EndInv'
  BY <1>0, <1>w
  DEF IInv, EndInv, CannotWrite, clientVars, streamVars, closeVars, serverVars
<1> QED BY <1>1, <1>2, <1>3, <1>4, <1>5, <1>6, <1>7 DEF IInv

(* A message that breaks the protocol ends the pump: only then is faulty     *)
(* needed to say why.                                                        *)
LEMMA DispatchFailsStep ==
  ASSUME IInv, DispatchFails
  PROVE  IInv'
<1>0. /\ message' = NoMessage /\ NoMessage.type = "none"
      /\ ~ IsResponse(NoMessage)
      /\ pump = "dispatch" /\ pump' = "failing" /\ wire' = wire
      /\ UNCHANGED <<clientVars, closeVars, streamVars, serverVars>>
  BY DEF DispatchFails, NoMessage, IsResponse, clientVars, streamVars,
       closeVars, serverVars
<1>w. garbled' = garbled /\ unflushed' \in BOOLEAN
  <2>1. CASE UNCHANGED writeVars
    BY <2>1 DEF IInv, TypeOK, writeVars
  <2>2. CASE LeavesUnflushed
    BY <2>2, Unflushed
  <2> QED BY <2>1, <2>2 DEF DispatchFails
<1>o. observers' \in Nat
  BY DEF IInv, TypeOK, DispatchFails, HandleRegistrations
<1>1. TypeOK'
  BY <1>0, <1>w, <1>o DEF IInv, TypeOK, clientVars, streamVars, closeVars,
     writeVars, serverVars
<1>2. IdInv'
  BY <1>0 DEF IInv, IdInv, Issued, clientVars, serverVars
<1>3. ResponseInv'
  BY <1>0 DEF IInv, ResponseInv, clientVars
<1>4. WireInv'
  BY <1>0 DEF IInv, WireInv, serverVars
<1>5. PendingInv'
  <2>1. /\ inbox' = inbox /\ replied' = replied /\ responses' = responses
    BY <1>0 DEF clientVars, serverVars
  <2> QED BY <1>0, <2>1 DEF IInv, PendingInv
<1>6. AnswersAreTrue'
  BY <1>0 DEF IInv, AnswersAreTrue, clientVars, serverVars
<1>7. EndInv'
  <2>1. /\ faulty' = faulty /\ transport' = transport /\ closer' = closer
        /\ input' = input /\ output' = output /\ alive' = alive
    BY <1>0 DEF streamVars, closeVars, writeVars, serverVars
  <2>2. transport = "stdio" /\ ~ faulty => CannotWrite
    BY <1>0 DEF IInv, EndInv, PendingInv, DispatchFails, IsResponse
  <2>3. pc' = pc /\ id' = id /\ answer' = answer
    BY <1>0 DEF clientVars
  <2> QED BY <1>0, <1>w, <2>1, <2>2, <2>3 DEF IInv, EndInv, CannotWrite
<1> QED BY <1>1, <1>2, <1>3, <1>4, <1>5, <1>6, <1>7 DEF IInv

(* The pump aborts whatever is registered and clears the registry. *)
LEMMA AbortResponsesStep ==
  ASSUME IInv, AbortResponses
  PROVE  IInv'
<1>1. TypeOK'
  <2>1. answer' \in [Ids -> Answers]
    BY DEF IInv, TypeOK, AbortResponses, Answers
  <2> QED BY <2>1
          DEF IInv, TypeOK, AbortResponses, streamVars, closeVars, writeVars,
             serverVars
<1>2. IdInv'
  <2>1. /\ responses' = {} /\ pc' = pc /\ id' = id /\ lastId' = lastId
        /\ inbox' = inbox /\ replied' = replied
        /\ \A i \in Ids : i \notin responses => answer'[i] = answer[i]
    BY DEF AbortResponses, serverVars
  <2>2. Issued \subseteq Ids
    BY IssuedIds
  <2> QED BY <2>1, <2>2 DEF IInv, IdInv, Issued
<1>3. ResponseInv'
  <2>1. /\ responses' = {} /\ pc' = pc /\ id' = id
        /\ \A i \in Ids :
             answer'[i] = IF i \in responses THEN "abort" ELSE answer[i]
    BY DEF AbortResponses
  <2>2. \A s \in Threads : pc[s] # "idle" => id[s] \in Ids
    BY IssuedIds
  <2> QED BY <2>1, <2>2 DEF IInv, ResponseInv
<1>4. WireInv'
  BY DEF IInv, WireInv, IdInv, AbortResponses, streamVars, closeVars,
     writeVars, serverVars
<1>5. PendingInv'
  BY DEF IInv, PendingInv, WireInv, IdInv, AbortResponses, streamVars,
     closeVars, writeVars, serverVars
<1>6. AnswersAreTrue'
  BY DEF IInv, AnswersAreTrue, TypeOK, IdInv, AbortResponses, streamVars,
     closeVars, writeVars, serverVars
<1>7. EndInv'
  <2>1. /\ wire' = wire /\ faulty' = faulty /\ message' = message
        /\ transport' = transport /\ closer' = closer
        /\ input' = input /\ output' = output /\ alive' = alive
        /\ pump \in {"stopping", "failing"}
        /\ pump' \in {"cancelling", "ended"}
        /\ pc' = pc /\ id' = id /\ garbled' = garbled
    BY DEF AbortResponses, streamVars, closeVars, writeVars, serverVars
  <2>2. \A s \in Threads : pc[s] = "await" => answer'[id[s]] # "none"
    <3>1. \A s \in Threads : pc[s] = "await" => id[s] \in Ids
      BY IssuedIds
    <3> QED BY <3>1 DEF IInv, ResponseInv, AbortResponses
  <2> QED BY <2>1, <2>2 DEF IInv, EndInv, CannotWrite
<1> QED BY <1>1, <1>2, <1>3, <1>4, <1>5, <1>6, <1>7 DEF IInv

(* The pump closes the streams, or tolerates that they are closed. *)
LEMMA PumpShutdownStep ==
  ASSUME IInv, PumpCancelsWatchdogs \/ PumpShutdown
  PROVE  IInv'
<1>0. /\ UNCHANGED <<transport, faulty, connected, message, clientVars,
                      closeVars, writeVars, serverVars>>
      /\ pump \in {"cancelling", "closing"}
      /\ pump' \in {"closing", "ended"}
  BY DEF PumpCancelsWatchdogs, PumpShutdown, streamVars
<1>s. /\ input' \in BOOLEAN /\ output' \in BOOLEAN /\ observers' \in Nat
      /\ input' => input
      /\ transport = "stdio" /\ ~ output' => ~ input'
  <2>1. CASE PumpCancelsWatchdogs
    BY <2>1 DEF IInv, TypeOK, EndInv, PumpCancelsWatchdogs,
                CancelWatchdogThreads, streamVars
  <2>2. CASE PumpShutdown
    BY <2>2 DEF IInv, TypeOK, PumpShutdown, NoSocket
  <2> QED BY <2>1, <2>2
<1>1. TypeOK'
  BY <1>0, <1>s
  DEF IInv, TypeOK, clientVars, closeVars, writeVars, serverVars
<1>2. IdInv'
  BY <1>0 DEF IInv, IdInv, Issued, clientVars, serverVars
<1>3. ResponseInv'
  BY <1>0 DEF IInv, ResponseInv, clientVars
<1>4. WireInv'
  BY <1>0 DEF IInv, WireInv, serverVars
<1>5. PendingInv'
  BY <1>0 DEF IInv, PendingInv
<1>6. AnswersAreTrue'
  BY <1>0 DEF IInv, AnswersAreTrue, clientVars, serverVars
<1>7. EndInv'
  <2>1. pump' # "dispatch" /\ message = NoMessage
    BY <1>0 DEF IInv, EndInv
  <2>2. transport = "stdio" /\ ~ faulty =>
          /\ CannotWrite'
          /\ \A t \in Threads : pc[t] = "await" => answer[id[t]] # "none"
    BY <1>0, <1>s DEF IInv, EndInv, CannotWrite, serverVars
  <2> QED BY <1>0, <1>s, <2>1, <2>2
          DEF IInv, EndInv, clientVars, closeVars, writeVars, serverVars
<1> QED BY <1>1, <1>2, <1>3, <1>4, <1>5, <1>6, <1>7 DEF IInv

(* The steps of stopping and closing the connection. *)
LEMMA CloseStep ==
  ASSUME IInv, Stop \/ Close
  PROVE  IInv'
<1>0. /\ UNCHANGED <<transport, faulty, connected, pump, message, clientVars,
                      writeVars, serverVars>>
      /\ stopped' \in BOOLEAN /\ input' \in BOOLEAN /\ output' \in BOOLEAN
      /\ closer' \in {"running", "cancel", "close", "output", "join",
                      "closed", "failed", "skipped"}
      /\ observers' \in Nat
      /\ input' => input
  <2>t. /\ connected \in BOOLEAN /\ stopped \in BOOLEAN /\ observers \in Nat
        /\ input \in BOOLEAN /\ output \in BOOLEAN
    BY DEF IInv, TypeOK
  <2>1. CASE Stop
    BY <2>t, <2>1 DEF Stop, streamVars, pumpVars
  <2>2. CASE NotClosed \/ Join
    BY <2>t, <2>2 DEF NotClosed, Join, streamVars, pumpVars
  <2>3. CASE CloserCancelsWatchdogs
    BY <2>t, <2>3
    DEF CloserCancelsWatchdogs, CancelWatchdogThreads, streamVars
  <2>4. CASE CloseInput
    BY <2>t, <2>4 DEF CloseInput, AfterInput, NoSocket, pumpVars
  <2>5. CASE CloseOutput
    BY <2>t, <2>5 DEF CloseOutput, pumpVars
  <2> QED BY <2>1, <2>2, <2>3, <2>4, <2>5 DEF Close
<1>1. TypeOK'
  BY <1>0 DEF IInv, TypeOK, clientVars, writeVars, serverVars
<1>2. IdInv'
  BY <1>0 DEF IInv, IdInv, Issued, clientVars, serverVars
<1>3. ResponseInv'
  BY <1>0 DEF IInv, ResponseInv, clientVars
<1>4. WireInv'
  BY <1>0 DEF IInv, WireInv, serverVars
<1>5. PendingInv'
  BY <1>0 DEF IInv, PendingInv, clientVars, serverVars
<1>6. AnswersAreTrue'
  BY <1>0 DEF IInv, AnswersAreTrue, clientVars, serverVars
<1>7. EndInv'
  <2>1. CannotWrite => CannotWrite'
    BY <1>0 DEF CannotWrite, serverVars
  <2>2. transport = "stdio" =>
          /\ closer' \in {"output", "join", "closed"} => ~ input'
          /\ ~ output' => ~ input'
    BY DEF IInv, EndInv, Stop, Close, NotClosed, CloserCancelsWatchdogs,
       CloseInput, CloseOutput, Join, AfterInput, NoSocket, streamVars
  <2> QED BY <1>0, <2>1, <2>2
          DEF IInv, EndInv, clientVars, writeVars, serverVars
<1> QED BY <1>1, <1>2, <1>3, <1>4, <1>5, <1>6, <1>7 DEF IInv

(* An observer writes a notification, which nobody answers. *)
LEMMA ObserveStep ==
  ASSUME IInv, Observe
  PROVE  IInv'
<1>0. UNCHANGED <<pump, message, clientVars, closeVars, streamVars, serverVars>>
  BY DEF Observe
<1>w. /\ garbled' \in BOOLEAN /\ unflushed' \in BOOLEAN
      /\ garbled => garbled'
      /\ transport = "stdio" => ~ garbled'
  <2>1. CASE Mixes(Threads)
    BY <2>1, Mixed
  <2>2. CASE LeavesUnflushed
    BY <2>2, Unflushed DEF IInv, TypeOK, EndInv
  <2> QED BY <2>1, <2>2 DEF Observe
<1>o. observers' \in Nat
  BY DEF IInv, TypeOK, Observe
<1>1. TypeOK'
  BY <1>0, <1>w, <1>o
  DEF IInv, TypeOK, clientVars, closeVars, streamVars, serverVars
<1>2. IdInv'
  BY <1>0 DEF IInv, IdInv, Issued, clientVars, serverVars
<1>3. ResponseInv'
  BY <1>0 DEF IInv, ResponseInv, clientVars
<1>4. WireInv'
  BY <1>0 DEF IInv, WireInv, serverVars
<1>5. PendingInv'
  BY <1>0 DEF IInv, PendingInv, clientVars, serverVars
<1>6. AnswersAreTrue'
  BY <1>0 DEF IInv, AnswersAreTrue, clientVars, serverVars
<1>7. EndInv'
  BY <1>0, <1>w
  DEF IInv, EndInv, CannotWrite, clientVars, closeVars, streamVars, serverVars
<1> QED BY <1>1, <1>2, <1>3, <1>4, <1>5, <1>6, <1>7 DEF IInv

(* The server answers a request it has received, once. *)
LEMMA ReplyStep ==
  ASSUME IInv, Reply
  PROVE  IInv'
<1>0. PICK i \in inbox, m \in Messages :
        /\ IsResponse(m) /\ m.id = i /\ wire' = Append(wire, m)
        /\ inbox' = inbox \ {i} /\ replied' = replied \cup {i} /\ alive
        /\ UNCHANGED <<alive, unasked, clientVars, closeVars, streamVars,
                       writeVars, pumpVars>>
  <2>1. PICK i \in inbox, a \in {"result", "error"} :
          /\ wire' = Append(wire,
                            [type |-> "response", id |-> i, answer |-> a])
          /\ inbox' = inbox \ {i} /\ replied' = replied \cup {i}
    BY DEF Reply
  <2> DEFINE m == [type |-> "response", id |-> i, answer |-> a]
  <2>2. m \in Messages /\ IsResponse(m) /\ m.id = i
    BY DEF IInv, TypeOK, Messages, IsResponse
  <2> HIDE DEF m
  <2> QED BY <2>1, <2>2 DEF Reply, m
<1>s. wire \in Seq(Messages)
  BY DEF IInv, TypeOK
<1>t. /\ i \in Ids /\ i \notin replied /\ m.type = "response"
  <2>1. inbox \subseteq Ids /\ inbox \cap replied = {}
    BY DEF IInv, TypeOK, WireInv
  <2> QED BY <1>0, <2>1 DEF IsResponse
<1>u. /\ DOMAIN wire \subseteq DOMAIN wire'
      /\ \A n \in DOMAIN wire : wire'[n] = wire[n]
      /\ \A n \in DOMAIN wire' \ DOMAIN wire : wire'[n] = m
  <2>1. wire' = Append(wire, m)
    BY <1>0
  <2> QED BY <2>1, <1>s, Sent
<1>1. TypeOK'
  <2>1. wire' \in Seq(Messages)
    BY <1>0, <1>s, Sent
  <2> QED BY <1>0, <2>1 DEF IInv, TypeOK, clientVars, streamVars, closeVars,
     writeVars, pumpVars
<1>2. IdInv'
  BY <1>0, <1>t DEF IInv, IdInv, Issued, clientVars
<1>3. ResponseInv'
  BY <1>0 DEF IInv, ResponseInv, clientVars
<1>4. WireInv'
  BY <1>0, <1>s, <1>t, Sent DEF IInv, WireInv, pumpVars
<1>5. PendingInv'
  BY <1>0, <1>s, Sent DEF IInv, PendingInv, clientVars, pumpVars
<1>6. AnswersAreTrue'
  BY <1>0 DEF IInv, AnswersAreTrue, clientVars, pumpVars
<1>7. EndInv'
  <2>1. /\ faulty' = faulty /\ message' = message /\ pump' = pump
        /\ transport' = transport /\ closer' = closer
        /\ input' = input /\ output' = output /\ alive' = alive
        /\ pc' = pc /\ id' = id /\ answer' = answer /\ garbled' = garbled
    BY <1>0 DEF clientVars, streamVars, closeVars, writeVars, pumpVars
  <2>2. \A n \in DOMAIN wire' :
          wire'[n].type \in {"malformed", "stray"} => faulty' \/ garbled'
    BY <1>0, <1>t, <1>u, <2>1 DEF IInv, EndInv
  <2> QED BY <2>1, <2>2 DEF IInv, EndInv, CannotWrite
<1> QED BY <1>1, <1>2, <1>3, <1>4, <1>5, <1>6, <1>7 DEF IInv

(* The server sends what is no answer: no Response depends on it. *)
LEMMA SendUnaskedStep ==
  ASSUME IInv, SendUnasked
  PROVE  IInv'
<1>0. PICK m \in Messages :
        /\ ~ IsResponse(m) /\ wire' = Append(wire, m)
        /\ m.type \in {"malformed", "stray"} => faulty \/ garbled
        /\ unasked' = unasked + 1
        /\ UNCHANGED <<alive, inbox, replied, clientVars, closeVars, streamVars,
                       writeVars, pumpVars>>
  <2>1. PICK type \in Unasked : wire' = Append(wire, [type |-> type])
    BY DEF SendUnasked
  <2> DEFINE m == [type |-> type]
  <2>2. /\ m \in Messages /\ ~ IsResponse(m)
        /\ m.type \in {"malformed", "stray"} => faulty \/ garbled
    BY DEF Messages, IsResponse, Unasked, Asks
  <2> HIDE DEF m
  <2> QED BY <2>1, <2>2 DEF SendUnasked, m
<1>s. wire \in Seq(Messages)
  BY DEF IInv, TypeOK
<1>u. /\ DOMAIN wire \subseteq DOMAIN wire'
      /\ \A n \in DOMAIN wire : wire'[n] = wire[n]
      /\ \A n \in DOMAIN wire' \ DOMAIN wire : wire'[n] = m
  <2>1. wire' = Append(wire, m)
    BY <1>0
  <2> QED BY <2>1, <1>s, Sent
<1>1. TypeOK'
  <2>1. wire' \in Seq(Messages)
    BY <1>0, <1>s, Sent
  <2>2. unasked' \in Nat
    <3>1. unasked \in Nat
      BY DEF IInv, TypeOK
    <3>2. unasked' = unasked + 1
      BY <1>0
    <3> QED BY <3>1, <3>2
  <2> QED BY <1>0, <2>1, <2>2
          DEF IInv, TypeOK, clientVars, streamVars, closeVars, writeVars,
             pumpVars
<1>2. IdInv'
  BY <1>0 DEF IInv, IdInv, Issued, clientVars
<1>3. ResponseInv'
  BY <1>0 DEF IInv, ResponseInv, clientVars
<1>4. WireInv'
  <2>1. \A n \in DOMAIN wire' : IsResponse(wire'[n]) =>
          n \in DOMAIN wire /\ wire'[n] = wire[n]
    BY <1>0, <1>u
  <2> QED BY <1>0, <1>u, <2>1 DEF IInv, WireInv, pumpVars
<1>5. PendingInv'
  <2>1. \A n \in DOMAIN wire' : IsResponse(wire'[n]) =>
          n \in DOMAIN wire /\ wire'[n] = wire[n]
    BY <1>0, <1>u
  <2> QED BY <1>0, <1>u, <2>1 DEF IInv, PendingInv, clientVars, pumpVars
<1>6. AnswersAreTrue'
  BY <1>0 DEF IInv, AnswersAreTrue, clientVars, pumpVars
<1>7. EndInv'
  <2>1. /\ faulty' = faulty /\ message' = message /\ pump' = pump
        /\ transport' = transport /\ closer' = closer
        /\ input' = input /\ output' = output /\ alive' = alive
        /\ pc' = pc /\ id' = id /\ answer' = answer /\ garbled' = garbled
    BY <1>0 DEF clientVars, streamVars, closeVars, writeVars, pumpVars
  <2>2. \A n \in DOMAIN wire' :
          wire'[n].type \in {"malformed", "stray"} => faulty' \/ garbled'
    BY <1>0, <1>u, <2>1 DEF IInv, EndInv
  <2> QED BY <2>1, <2>2 DEF IInv, EndInv, CannotWrite
<1> QED BY <1>1, <1>2, <1>3, <1>4, <1>5, <1>6, <1>7 DEF IInv

(* The server dies; what it has sent can still be read. *)
LEMMA DieStep ==
  ASSUME IInv, Die
  PROVE  IInv'
<1>1. TypeOK'
  <2>1. /\ alive' \in BOOLEAN
        /\ UNCHANGED <<inbox, replied, wire, unasked, clientVars, closeVars,
                       streamVars, writeVars, pumpVars>>
    BY DEF Die
  <2> QED BY <2>1
          DEF IInv, TypeOK, clientVars, closeVars, streamVars, writeVars,
              pumpVars
<1>2. IdInv'
  BY DEF IInv, IdInv, TypeOK, Issued, Ids, Die, clientVars, streamVars,
     closeVars, writeVars, pumpVars
<1>3. ResponseInv'
  BY DEF IInv, ResponseInv, IdInv, TypeOK, Issued, Ids, Die, clientVars,
     streamVars, closeVars, writeVars, pumpVars
<1>4. WireInv'
  BY DEF IInv, WireInv, IdInv, Die, clientVars, streamVars, closeVars,
     writeVars, pumpVars
<1>5. PendingInv'
  BY DEF IInv, PendingInv, WireInv, IdInv, Die, clientVars, streamVars,
     closeVars, writeVars, pumpVars
<1>6. AnswersAreTrue'
  BY DEF IInv, AnswersAreTrue, TypeOK, IdInv, Die, clientVars, streamVars,
     closeVars, writeVars, pumpVars
<1>7. EndInv'
  BY DEF IInv, EndInv, CannotWrite, TypeOK, Die, clientVars, streamVars,
     closeVars, writeVars, pumpVars
<1> QED BY <1>1, <1>2, <1>3, <1>4, <1>5, <1>6, <1>7 DEF IInv

(* The invariant depends on the variables alone. *)
LEMMA StutteringStep ==
  ASSUME IInv, UNCHANGED vars
  PROVE  IInv'
<1>1. TypeOK'
  BY DEF IInv, TypeOK, vars, clientVars, streamVars, closeVars, writeVars,
     pumpVars, serverVars
<1>2. IdInv'
  BY DEF IInv, IdInv, TypeOK, Issued, Ids, vars, clientVars, streamVars,
     closeVars, writeVars, pumpVars, serverVars
<1>3. ResponseInv'
  BY DEF IInv, ResponseInv, IdInv, TypeOK, Issued, Ids, vars, clientVars,
     streamVars, closeVars, writeVars, pumpVars, serverVars
<1>4. WireInv'
  BY DEF IInv, WireInv, IdInv, vars, clientVars, streamVars, closeVars,
     writeVars, pumpVars, serverVars
<1>5. PendingInv'
  BY DEF IInv, PendingInv, WireInv, IdInv, vars, clientVars, streamVars,
     closeVars, writeVars, pumpVars, serverVars
<1>6. AnswersAreTrue'
  BY DEF IInv, AnswersAreTrue, TypeOK, IdInv, vars, clientVars, streamVars,
     closeVars, writeVars, pumpVars, serverVars
<1>7. EndInv'
  BY DEF IInv, EndInv, CannotWrite, TypeOK, vars, clientVars, streamVars,
     closeVars, writeVars, pumpVars, serverVars
<1> QED BY <1>1, <1>2, <1>3, <1>4, <1>5, <1>6, <1>7 DEF IInv

(* A new connection satisfies the invariant. *)
LEMMA InitInvariant == Init => IInv
<1> SUFFICES ASSUME Init
             PROVE  IInv
  OBVIOUS
<1>1. TypeOK
  <2>1. 0 \in 0 .. MaxRequests
    OBVIOUS
  <2>2. wire \in Seq(Messages)
    BY DEF Init
  <2> QED BY <2>1, <2>2 DEF Init, TypeOK, Answers
<1>2. Issued = {}
  BY DEF Init, Issued
<1>3. IdInv /\ ResponseInv /\ AnswersAreTrue
  BY <1>2 DEF Init, IdInv, ResponseInv, AnswersAreTrue
<1>4. WireInv /\ PendingInv /\ EndInv
  <2>1. NoMessage.type = "none" /\ DOMAIN wire = {}
    BY DEF NoMessage, Init
  <2> QED BY <2>1 DEF Init, WireInv, PendingInv, EndInv, IsResponse
<1> QED BY <1>1, <1>3, <1>4 DEF IInv

(* Every step preserves the invariant. *)
LEMMA NextInvariant ==
  ASSUME IInv, [Next]_vars
  PROVE  IInv'
<1>1. CASE UNCHANGED vars
  BY <1>1, StutteringStep
<1>2. ASSUME NEW t \in Threads, Request(t)
      PROVE  IInv'
  BY <1>2, NextRequestIdStep, RegisterStep, BeginWriteStep, WriteDataStep,
     WriteFailsStep, AwaitResponseStep, ResponseTimeoutStep DEF Request
<1>3. CASE Pump
  BY <1>3, ConnectStep, BeginReadStep, ReadStep, ReadEndOfFileStep,
     DispatchResponseStep, DispatchOtherStep, DispatchFailsStep,
     AbortResponsesStep, PumpShutdownStep DEF Pump
<1>4. CASE Stop \/ Close
  BY <1>4, CloseStep
<1>5. CASE Observe
  BY <1>5, ObserveStep
<1>6. CASE Server
  BY <1>6, ReplyStep, SendUnaskedStep, DieStep DEF Server
<1> QED BY <1>1, <1>2, <1>3, <1>4, <1>5, <1>6 DEF Next

-----------------------------------------------------------------------------

(* The inductive invariant holds for any number of threads, requests and    *)
(* messages, over both transports, and whatever the server sends.           *)
THEOREM Invariant == Spec => []IInv
<1>1. IInv /\ [Next]_vars => IInv'
  BY NextInvariant
<1> QED BY <1>1, InitInvariant, PTL DEF Spec

(* Every variable has its type. *)
THEOREM TypeCorrect == Spec => []TypeOK
<1>1. IInv => TypeOK
  BY DEF IInv
<1> QED BY <1>1, Invariant, PTL

(* A thread that waits in AwaitResponse is never forgotten: its Response has *)
(* been completed, or is registered, where the pump will find it.           *)
THEOREM ResponsesKept == Spec => []NoLostResponse
<1>1. IInv => NoLostResponse
  BY DEF IInv, ResponseInv, NoLostResponse
<1> QED BY <1>1, Invariant, PTL

(* Over standard streams, when the pump has ended nobody waits for it to    *)
(* complete a response.                                                     *)
THEOREM NoWaitAfterEnd == Spec => []NobodyLeftWaiting
<1>1. IInv => NobodyLeftWaiting
  BY DEF IInv, EndInv, NobodyLeftWaiting
<1> QED BY <1>1, Invariant, PTL

(* The answer a request gets is one the server gave to that request, and it *)
(* is aborted only when the pump ends.                                      *)
THEOREM TrueAnswers == Spec => []AnswersAreTrue
<1>1. IInv => AnswersAreTrue
  BY DEF IInv
<1> QED BY <1>1, Invariant, PTL

(* A Response is completed once: no late answer and no abort overwrites     *)
(* what its thread was told.                                                *)
THEOREM SingleAnswer == Spec => AnsweredOnce
<1>1. ASSUME IInv, [Next]_vars, NEW i \in Ids, answer[i] # "none"
      PROVE  answer'[i] = answer[i]
  <2>1. answer \in [Ids -> Answers] /\ i \notin responses
    BY <1>1 DEF IInv, TypeOK, ResponseInv
  <2>2. CASE DispatchResponse
    BY <2>1, <2>2 DEF DispatchResponse, ResponseReceived
  <2>3. CASE AbortResponses
    BY <2>1, <2>3 DEF AbortResponses
  <2>4. CASE ~ DispatchResponse /\ ~ AbortResponses
    <3>1. answer' = answer
      BY <1>1, <2>4
      DEF Next, Request, NextRequestId, Register, BeginWrite, WriteData,
          WriteFails, AwaitResponse, ResponseTimeout, Pump, Connect,
          ConnectFails, BeginRead, Read, ReadEndOfFile, DispatchOther,
          DispatchFails, PumpCancelsWatchdogs, PumpShutdown, Stop, Close,
          NotClosed, CloserCancelsWatchdogs, CloseInput, CloseOutput, Join,
          Observe, Server, Reply, SendUnasked, Die, clientVars, vars
    <3> QED BY <3>1
  <2> QED BY <2>2, <2>3, <2>4
<1>2. IInv /\ [Next]_vars =>
        [\A i \in Ids : answer[i] # "none" => answer'[i] = answer[i]]_vars
  BY <1>1
<1> QED BY <1>2, Invariant, PTL DEF Spec, AnsweredOnce
=============================================================================
