--------------------------- MODULE NotificationQueue ---------------------------
(***************************************************************************)
(* The notifications of a language server on their way to the editor       *)
(* (completers/language_server/language_server_completer.py).  The message *)
(* pump adds them to a ring buffer, the _notifications of the connection;  *)
(* requests for messages, each a long poll in a thread of its own, take    *)
(* them.  A poll looks the connection and _initialize_event up again and   *)
(* again, without a lock, while other threads start, initialise and shut   *)
(* down the server (what those do in detail is in LspLifecycle).           *)
(***************************************************************************)
EXTENDS Naturals, Sequences, SequencesExt, FiniteSets

CONSTANTS
  Pollers,    \* the threads that handle requests for messages
  QueueSize,  \* MAX_QUEUED_MESSAGES
  Ignored     \* the notifications that ConvertNotificationToMessage ignores

ASSUME NotificationQueueAssumption == QueueSize \in Nat \ {0}

VARIABLES
  notifications, \* the queue: the numbers of notifications
  incoming,      \* the notification the pump adds, or 0
  full,          \* it has found the queue full
  started,       \* _server_started
  connection,    \* "none", "open" while GetConnection() returns it, "closed"
  event,         \* whether _initialize_event is set
  poll,          \* what each poll does next
  messages,      \* what it has taken from the queue
  returned,      \* what the polls of each thread have returned, in order
  polling,       \* the threads that were not told to stop
  dropped,       \* history: what the pump discarded
  lost,          \* history: what polls took and did not return
  raced          \* history: a poll took something while the pump made room

pumpVars == <<notifications, incoming, full, dropped>>
serverVars == <<started, connection, event>>
pollVars == <<poll, messages, returned, polling, lost, raced>>
queueVars == <<pumpVars, serverVars, pollVars>>

-----------------------------------------------------------------------------
(* _AddNotificationToQueue, in the message pump thread.                     *)

AddNotification(m) ==
  /\ incoming = 0 /\ incoming' = m
  /\ UNCHANGED <<notifications, full, dropped, serverVars, pollVars>>

PutNowait ==
  /\ incoming # 0 /\ ~ full
  /\ IF Len(notifications) < QueueSize
     THEN /\ notifications' = Append(notifications, incoming)
          /\ incoming' = 0 /\ UNCHANGED full
     ELSE full' = TRUE /\ UNCHANGED <<notifications, incoming>>
  /\ UNCHANGED <<dropped, serverVars, pollVars>>

(* Mutant: the newest message makes room. *)
DiscardOldest_Newest ==
  /\ full /\ full' = FALSE
  /\ IF notifications = <<>>
     THEN UNCHANGED <<notifications, dropped>>
     ELSE /\ notifications' = Front(notifications)
          /\ dropped' = dropped \cup {Last(notifications)}
  /\ UNCHANGED <<incoming, serverVars, pollVars>>

(* Mutant: the new message is dropped. *)
DiscardOldest_GivesUp ==
  /\ full /\ full' = FALSE
  /\ incoming' = 0
  /\ UNCHANGED <<notifications, dropped, serverVars, pollVars>>

(* A poll may have emptied the queue meanwhile. *)
DiscardOldest ==
  /\ full /\ full' = FALSE
  /\ IF notifications = <<>>
     THEN UNCHANGED <<notifications, dropped>>
     ELSE /\ notifications' = Tail(notifications)
          /\ dropped' = dropped \cup {Head(notifications)}
  /\ UNCHANGED <<incoming, serverVars, pollVars>>

-----------------------------------------------------------------------------
(* PollForMessagesInner.                                                    *)

Goto(p, step) == poll' = [poll EXCEPT ![p] = step]

(* The editor asks. _GetPendingMessages is over at once before the server   *)
(* is initialised.                                                          *)
PollForMessages(p) ==
  /\ poll[p] = "idle" /\ p \in polling
  /\ Goto(p, IF event THEN "pending" ELSE "await")
  /\ UNCHANGED <<pumpVars, serverVars, messages, returned, polling, lost,
                 raced>>

(* What was taken and is not in the answer is gone.  An editor that is      *)
(* answered False, or with an error, does not ask again.                    *)
Return(p, answer, again) ==
  /\ Goto(p, "idle")
  /\ returned' = [returned EXCEPT ![p] = @ \o answer]
  /\ lost' = lost \cup (ToSet(messages[p]) \ ToSet(answer))
  /\ messages' = [messages EXCEPT ![p] = <<>>]
  /\ polling' = IF again THEN polling ELSE polling \ {p}
  /\ UNCHANGED <<pumpVars, serverVars, raced>>

(* The head of the queue is taken, and kept unless it is to be ignored.     *)
TakeNotification(p) ==
  /\ notifications # <<>>
  /\ notifications' = Tail(notifications)
  /\ messages' = [messages EXCEPT ![p] =
       IF Head(notifications) \in Ignored THEN @
       ELSE Append(@, Head(notifications))]
  /\ raced' = (raced \/ full)
  /\ UNCHANGED <<incoming, full, dropped, serverVars, returned, polling, lost>>

(* "if not self.GetConnection()": _GetPendingMessages returns False, which  *)
(* is no list of messages, and the poll goes on.                            *)
CheckConnection(p) ==
  /\ poll[p] = "pending"
  /\ IF connection = "open"
     THEN Goto(p, "get") /\ UNCHANGED <<messages, lost>>
     ELSE /\ Goto(p, "await")
          /\ messages' = [messages EXCEPT ![p] = <<>>]
          /\ lost' = lost \cup ToSet(messages[p])
  /\ UNCHANGED <<pumpVars, serverVars, returned, polling, raced>>

(* GetConnection() is called again: if there is none, AttributeError.       *)
GetNowait(p) ==
  /\ poll[p] = "get"
  /\ \/ connection = "open" /\ TakeNotification(p) /\ Goto(p, "pending")
     \/ /\ connection = "open" /\ notifications = <<>> /\ messages[p] # <<>>
        /\ Return(p, messages[p], TRUE)
     \/ /\ connection = "open" /\ notifications = <<>> /\ messages[p] = <<>>
        /\ Goto(p, "await")
        /\ UNCHANGED <<pumpVars, serverVars, messages, returned, polling, lost,
                       raced>>
     \/ connection # "open" /\ Return(p, <<>>, FALSE)

(* _AwaitServerMessages, each turn of the loop. *)
AwaitServerMessages(p) ==
  /\ poll[p] = "await"
  /\ Goto(p, IF event THEN "connection" ELSE "event")
  /\ UNCHANGED <<pumpVars, serverVars, messages, returned, polling, lost,
                 raced>>

(* The event was set, or the wait has timed out.  The event may have been   *)
(* replaced meanwhile; what counts is whether the present one is set.       *)
AwaitInitialized(p) ==
  /\ poll[p] = "event"
  /\ Return(p, <<>>, ~ started \/ event)

AwaitConnection(p) ==
  /\ poll[p] = "connection"
  /\ IF connection = "open"
     THEN /\ Goto(p, "queue")
          /\ UNCHANGED <<pumpVars, serverVars, messages, returned, polling,
                         lost, raced>>
     ELSE Return(p, <<>>, FALSE)

(* The queue is looked up, with a second call of GetConnection().           *)
FindQueue(p) ==
  /\ poll[p] = "queue"
  /\ IF connection = "open"
     THEN /\ Goto(p, "wait")
          /\ UNCHANGED <<pumpVars, serverVars, messages, returned, polling,
                         lost, raced>>
     ELSE Return(p, <<>>, FALSE)

AwaitNotification(p) ==
  /\ poll[p] = "wait" /\ TakeNotification(p)
  /\ Goto(p, IF messages'[p] = <<>> THEN "await" ELSE "return")

(* queue.Empty, after the timeout *)
AwaitTimeout(p) == poll[p] = "wait" /\ Return(p, <<>>, TRUE)

ReturnMessage(p) == poll[p] = "return" /\ Return(p, messages[p], TRUE)

Poll(p) ==
  \/ PollForMessages(p) \/ CheckConnection(p) \/ GetNowait(p)
  \/ AwaitServerMessages(p) \/ AwaitInitialized(p) \/ AwaitConnection(p)
  \/ FindQueue(p) \/ AwaitNotification(p) \/ AwaitTimeout(p)
  \/ ReturnMessage(p)

-----------------------------------------------------------------------------
(* What other threads do to the server: one session of it.                  *)

StartServer ==
  /\ connection = "none"
  /\ IF started THEN connection' = "open" /\ UNCHANGED started
                ELSE started' = TRUE /\ UNCHANGED connection
  /\ UNCHANGED <<event, pumpVars, pollVars>>

InitializeComplete ==
  /\ connection = "open" /\ event' = TRUE
  /\ UNCHANGED <<started, connection, pumpVars, pollVars>>

(* _Reset and ServerReset, after the pump has ended: a new event. *)
Reset ==
  /\ connection = "open" /\ incoming = 0
  /\ connection' = "closed" /\ event' = FALSE
  /\ UNCHANGED <<started, pumpVars, pollVars>>

QueueInit ==
  /\ notifications = <<>> /\ incoming = 0 /\ full = FALSE
  /\ started = FALSE /\ connection = "none" /\ event = FALSE
  /\ poll = [p \in Pollers |-> "idle"]
  /\ messages = [p \in Pollers |-> <<>>]
  /\ returned = [p \in Pollers |-> <<>>]
  /\ polling = Pollers
  /\ dropped = {} /\ lost = {} /\ raced = FALSE
=============================================================================
