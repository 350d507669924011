------------------------------ MODULE MessagePump ------------------------------
(***************************************************************************)
(* From the bytes of a language server to the editor: the message pump     *)
(* reads messages (MessageReader) and adds each of them, a notification    *)
(* here, to the queue that polls empty (NotificationQueue).  The pump      *)
(* reads on when the message is in the queue, and ends before the server   *)
(* is reset.                                                               *)
(***************************************************************************)
EXTENDS MessageReader, NotificationQueue

pumpAndQueueVars == <<vars, queueVars>>

(* _DispatchMessage of a notification. *)
DispatchNotification ==
  /\ DispatchMessage
  /\ AddNotification(Len(dispatched'))

Read ==
  /\ connection = "open" /\ incoming = 0
  /\ \/ DispatchNotification
     \/ ReadMessage /\ UNCHANGED queueVars

Enqueue == (PutNowait \/ DiscardOldest) /\ UNCHANGED vars

Server == (StartServer \/ InitializeComplete \/ Reset) /\ UNCHANGED vars

PumpInit == Init /\ QueueInit

PumpNext ==
  \/ Read \/ Enqueue \/ Server
  \/ \E p \in Pollers : Poll(p) /\ UNCHANGED vars

PumpSpec == PumpInit /\ [][PumpNext]_pumpAndQueueVars

(* The pump runs while there is something to read; waits have timeouts, and *)
(* an editor that was not told to stop asks "again immediately"             *)
(* (docs/openapi.yml:699); the server is started and initialised.           *)
FairPumpSpec ==
  /\ PumpSpec
  /\ WF_pumpAndQueueVars(Read \/ Enqueue)
  /\ \A p \in Pollers : WF_pumpAndQueueVars(Poll(p) /\ UNCHANGED vars)
  /\ WF_pumpAndQueueVars((StartServer \/ InitializeComplete) /\ UNCHANGED vars)
-----------------------------------------------------------------------------
Increasing(s) == \A i \in 1..Len(s) - 1 : s[i] < s[i + 1]

Newer(m) == {n \in 1..Len(dispatched) : n > m}

(* "A list of messages in the sequence they should be handled"              *)
(* (docs/openapi.yml:709): no notification is returned twice, or after a    *)
(* newer one; what is still in the queue is newer than all that was taken   *)
(* or discarded.  One is missing only if the server was reset, or the queue *)
(* was full: then as many newer ones came after it, unless a poll took some *)
(* while the pump discarded it ("discard the oldest message").              *)
NotificationsKept ==
  /\ \A p \in Pollers : Increasing(returned[p] \o messages[p])
  /\ Increasing(notifications)
  /\ LET taken == lost \cup dropped \cup
                    UNION {ToSet(returned[p] \o messages[p]) : p \in Pollers}
     IN  /\ \A i \in DOMAIN notifications, m \in taken : m < notifications[i]
         /\ 1..Len(dispatched) \subseteq
              taken \cup ToSet(notifications) \cup {incoming} \cup Ignored
  /\ lost # {} => connection = "closed"
  /\ raced \/ \A m \in dropped : Cardinality(Newer(m)) >= QueueSize

(* Unless the server is reset, and while the editor may ask, every message  *)
(* of a server that can be read reaches the editor, or had to make room for *)
(* newer ones.                                                              *)
MessagesReachTheEditor ==
  \A m \in 1..Len(Contents) :
    <>(\/ reads = "any" \/ m \notin Complete \/ m \in Ignored
       \/ m \in dropped \/ \E p \in Pollers : m \in ToSet(returned[p])
       \/ connection = "closed" \/ polling = {})
-----------------------------------------------------------------------------
(* The parts of an inductive invariant.                                     *)

(* How many notifications have left the queue, at its head.                 *)
Gone ==
  Len(dispatched) - Len(notifications) - (IF incoming = 0 THEN 0 ELSE 1)

(* What the editor has been given by a thread, or is about to be.           *)
Polled(p) == returned[p] \o messages[p]

QueueTypeOK ==
  /\ dispatched \in Seq(ToSet(dispatched))
  /\ notifications \in Seq(Nat) /\ incoming \in {0, Len(dispatched)}
  /\ full \in BOOLEAN /\ raced \in BOOLEAN
  /\ connection \in {"none", "open", "closed"}
  /\ poll \in [Pollers -> {"idle", "pending", "get", "await", "event",
                           "connection", "queue", "wait", "return"}]
  /\ messages \in [Pollers -> Seq(Nat)] /\ returned \in [Pollers -> Seq(Nat)]

(* The queue holds the newest notifications that were added, without a gap. *)
QueueInv ==
  /\ Gone \in Nat
  /\ \A i \in DOMAIN notifications : notifications[i] = Gone + i
  /\ Len(notifications) <= QueueSize
  /\ full => incoming # 0 /\ (raced \/ Len(notifications) = QueueSize)

(* What has left it is all accounted for.                                   *)
GoneInv ==
  /\ lost \subseteq 1 .. Gone /\ dropped \subseteq 1 .. Gone
  /\ \A p \in Pollers :
       Increasing(Polled(p)) /\ ToSet(Polled(p)) \subseteq 1 .. Gone
  /\ \A m \in 1 .. Gone :
       \/ m \in lost \/ m \in dropped \/ m \in Ignored
       \/ \E p \in Pollers : m \in ToSet(Polled(p))

(* What was discarded in time had become too old for the queue.             *)
DroppedInv == raced \/ \A m \in dropped : m + QueueSize <= Len(dispatched)

(* A poll that does not go through the queue has taken nothing; a poll      *)
(* loses something only through a reset.                                    *)
PollInv ==
  /\ \A p \in Pollers :
       messages[p] # <<>> => poll[p] \in {"pending", "get", "return"}
  /\ connection = "none" => dispatched = <<>>
  /\ lost # {} => connection = "closed"

IInv == QueueTypeOK /\ QueueInv /\ GoneInv /\ DroppedInv /\ PollInv
=============================================================================
