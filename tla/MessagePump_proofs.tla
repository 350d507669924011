-------------------------- MODULE MessagePump_proofs --------------------------
(***************************************************************************)
(* Proofs about MessagePump, for any number of polls at a time, any size   *)
(* of the queue, whatever the server sends and however it is read.         *)
(*                                                                         *)
(* The argument: the queue is always the newest notifications that were    *)
(* added to it, without a gap (QueueInv).  So its place in the order of    *)
(* dispatch is known from its length (Gone), what a poll takes is newer    *)
(* than all that was taken before, and what a full queue discards is older *)
(* than QueueSize others.  What has left the queue was returned, is about  *)
(* to be, was discarded, ignored, or lost to a reset (GoneInv).            *)
(*                                                                         *)
(* The reader: whatever the pump has read is a slice of what the server    *)
(* sent, and its place in the message it is reading is known: the data     *)
(* begin at a line of the headers, the length is in those it has parsed,   *)
(* and the content follows them (ReaderInv).  Where a message begins in    *)
(* the stream is a recursive function, so facts about it are by induction  *)
(* (Smallest, Induction).                                                  *)
(***************************************************************************)
EXTENDS MessagePump, SequenceTheorems, FiniteSetTheorems,
        WellFoundedInduction, TLAPS

USE NotificationQueueAssumption

(* A sequence that increases up to k increases when k + 1 is appended.     *)
LEMMA AppendNext ==
  ASSUME NEW q \in Seq(Nat), NEW k \in Nat,
         Increasing(q), ToSet(q) \subseteq 1 .. k
  PROVE  /\ Append(q, k + 1) \in Seq(Nat)
         /\ Increasing(Append(q, k + 1))
         /\ ToSet(Append(q, k + 1)) = ToSet(q) \cup {k + 1}
<1> DEFINE a == Append(q, k + 1)
<1>1. /\ a \in Seq(Nat) /\ Len(a) = Len(q) + 1 /\ Len(q) \in Nat
      /\ DOMAIN a = 1 .. Len(q) + 1 /\ DOMAIN q = 1 .. Len(q)
      /\ \A i \in 1 .. Len(q) : a[i] = q[i]
      /\ a[Len(q) + 1] = k + 1
  BY AppendProperties, LenProperties
<1> HIDE DEF a
<1>2. \A i \in 1 .. Len(q) : q[i] \in 1 .. k
  BY <1>1 DEF ToSet
<1>3. Increasing(a)
  <2>1. SUFFICES ASSUME NEW i \in 1 .. Len(q) PROVE a[i] < a[i + 1]
    BY <1>1 DEF Increasing
  <2>2. CASE i = Len(q)
    BY <1>1, <1>2, <2>2
  <2>3. CASE i # Len(q)
    <3>1. Len(q) \in Nat
      BY <1>1
    <3> i \in 1 .. Len(q) - 1 /\ i + 1 \in 1 .. Len(q)
      BY <3>1, <2>3
    <3>2. q[i] < q[i + 1]
      BY DEF Increasing
    <3> QED BY <1>1, <3>2
  <2> QED BY <2>2, <2>3
<1>4. ToSet(a) = ToSet(q) \cup {k + 1}
  <2>1. ToSet(q) \subseteq ToSet(a)
    BY <1>1 DEF ToSet
  <2>2. k + 1 \in ToSet(a)
    BY <1>1 DEF ToSet
  <2>3. Len(q) \in Nat
    BY <1>1
  <2>4. \A i \in 1 .. Len(q) + 1 : i = Len(q) + 1 \/ i \in 1 .. Len(q)
    BY <2>3
  <2>5. ToSet(a) \subseteq ToSet(q) \cup {k + 1}
    BY <1>1, <2>4 DEF ToSet
  <2> QED BY <2>1, <2>2, <2>5
<1> QED BY <1>1, <1>3, <1>4 DEF a

(* Appending to the second part of a sequence is appending to it.          *)
LEMMA AppendToConcat ==
  ASSUME NEW r \in Seq(Nat), NEW m \in Seq(Nat), NEW x \in Nat
  PROVE  r \o Append(m, x) = Append(r \o m, x)
<1>1. <<x>> \in Seq(Nat) /\ r \o m \in Seq(Nat)
  BY ConcatProperties
<1>2. Append(m, x) = m \o <<x>>
  BY AppendIsConcat
<1>3. Append(r \o m, x) = (r \o m) \o <<x>>
  BY <1>1, AppendIsConcat
<1>4. \A u \in Seq(Nat) : (r \o m) \o u = r \o (m \o u)
  BY ConcatAssociative, SMTT(30)
<1> QED BY <1>1, <1>2, <1>3, <1>4

(* Whatever is appended to a sequence, it is a sequence.                   *)
LEMMA AppendAnything ==
  ASSUME NEW q, q \in Seq(ToSet(q)), NEW x
  PROVE  /\ Append(q, x) \in Seq(ToSet(Append(q, x)))
         /\ Len(Append(q, x)) = Len(q) + 1
<1> DEFINE S == ToSet(q) \cup {x}
           a == Append(q, x)
<1>1. q \in Seq(S)
  BY SeqMonotonic
<1>2. /\ a \in Seq(S) /\ Len(a) = Len(q) + 1
      /\ DOMAIN a = 1 .. Len(a) /\ Len(a) \in Nat
  BY <1>1, AppendProperties, LenProperties
<1> HIDE DEF a
<1>3. \A i \in 1 .. Len(a) : a[i] \in ToSet(a)
  BY <1>2 DEF ToSet
<1>4. a \in [1 .. Len(a) -> ToSet(a)]
  BY <1>2, <1>3, LenProperties
<1>5. a \in Seq(ToSet(a))
  BY <1>2, <1>4, SeqDef
<1> QED BY <1>2, <1>5 DEF a

(* The first part of a sequence that increases does so, too.               *)
LEMMA FirstPart ==
  ASSUME NEW r \in Seq(Nat), NEW m \in Seq(Nat)
  PROVE  /\ Increasing(r \o m) => Increasing(r)
         /\ ToSet(r \o m) = ToSet(r) \cup ToSet(m)
<1> DEFINE c == r \o m
<1>1. /\ c \in Seq(Nat) /\ Len(c) = Len(r) + Len(m)
      /\ Len(r) \in Nat /\ Len(m) \in Nat
      /\ DOMAIN c = 1 .. Len(r) + Len(m)
      /\ DOMAIN r = 1 .. Len(r) /\ DOMAIN m = 1 .. Len(m)
      /\ \A i \in 1 .. Len(r) + Len(m) :
           c[i] = IF i <= Len(r) THEN r[i] ELSE m[i - Len(r)]
  BY ConcatProperties, LenProperties
<1>2. Increasing(c) => Increasing(r)
  <2>1. SUFFICES ASSUME Increasing(c), NEW i \in 1 .. Len(r) - 1
                 PROVE  r[i] < r[i + 1]
    BY DEF Increasing
  <2>2. i \in 1 .. Len(c) - 1 /\ c[i] = r[i] /\ c[i + 1] = r[i + 1]
    BY <1>1
  <2> QED BY <2>1, <2>2 DEF Increasing
<1>3. ToSet(c) = ToSet(r) \cup ToSet(m)
  <2>1. \A i \in 1 .. Len(r) : i \in DOMAIN c /\ c[i] = r[i]
    BY <1>1
  <2>2. \A j \in 1 .. Len(m) :
          j + Len(r) \in DOMAIN c /\ c[j + Len(r)] = m[j]
    BY <1>1
  <2>3. \A i \in DOMAIN c : \/ i \in 1 .. Len(r) /\ c[i] = r[i]
                            \/ /\ i - Len(r) \in 1 .. Len(m)
                               /\ c[i] = m[i - Len(r)]
    BY <1>1
  <2>4. ToSet(c) \subseteq ToSet(r) \cup ToSet(m)
    BY <1>1, <2>3 DEF ToSet
  <2>5. ToSet(r) \subseteq ToSet(c)
    BY <1>1, <2>1 DEF ToSet
  <2>6. ToSet(m) \subseteq ToSet(c)
    BY <1>1, <2>2 DEF ToSet
  <2> QED BY <2>4, <2>5, <2>6
<1> QED BY <1>2, <1>3

(* Lengths are numbers, and Gone is one.                                   *)
LEMMA Numbers ==
  ASSUME QueueTypeOK
  PROVE  /\ Len(dispatched) \in Nat /\ Len(notifications) \in Nat
         /\ DOMAIN notifications = 1 .. Len(notifications)
         /\ incoming \in Nat /\ Gone \in Int
         /\ incoming = 0 =>
              Gone = Len(dispatched) - Len(notifications)
         /\ incoming # 0 =>
              /\ Gone = Len(dispatched) - Len(notifications) - 1
              /\ incoming = Len(dispatched)
<1>1. Len(dispatched) \in Nat /\ Len(notifications) \in Nat
      /\ DOMAIN notifications = 1 .. Len(notifications)
  BY LenProperties DEF QueueTypeOK
<1>2. incoming \in {0, Len(dispatched)}
  BY DEF QueueTypeOK
<1> QED BY <1>1, <1>2 DEF Gone

(* A step that moves notifications neither into the queue nor out of it,   *)
(* and no poll's.                                                          *)
LEMMA QuietStep ==
  ASSUME IInv,
         UNCHANGED <<dispatched, notifications, incoming, full, dropped,
                     messages, returned, lost, raced>>,
         poll' \in [Pollers -> {"idle", "pending", "get", "await", "event",
                                "connection", "queue", "wait", "return"}],
         connection' \in {"none", "open", "closed"}, PollInv'
  PROVE  IInv'
<1>1. QueueTypeOK'
  BY DEF IInv, QueueTypeOK
<1>2. Gone' = Gone
  BY DEF Gone
<1>3. QueueInv'
  BY <1>2 DEF IInv, QueueInv
<1>4. \A p \in Pollers : Polled(p)' = Polled(p)
  BY DEF Polled
<1>5. GoneInv'
  BY <1>2, <1>4 DEF IInv, GoneInv
<1>6. DroppedInv'
  BY DEF IInv, DroppedInv
<1> QED BY <1>1, <1>3, <1>5, <1>6 DEF IInv

(* A thread's poll returns nothing and loses what it has taken.            *)
LEMMA Forgotten ==
  ASSUME IInv, NEW p \in Pollers,
         messages' = [messages EXCEPT ![p] = <<>>], returned' = returned,
         lost' = lost \cup ToSet(messages[p]),
         UNCHANGED <<dispatched, notifications, incoming, dropped>>
  PROVE  GoneInv'
<1>1. /\ returned[p] \in Seq(Nat) /\ messages[p] \in Seq(Nat)
      /\ messages \in [Pollers -> Seq(Nat)]
  BY DEF IInv, QueueTypeOK
<1>2. Gone' = Gone
  BY DEF Gone
<1>3. \A q \in Pollers \ {p} : Polled(q)' = Polled(q)
  BY <1>1 DEF Polled
<1>4. Polled(p)' = returned[p]
  BY <1>1, ConcatEmptySeq DEF Polled
<1>5. /\ Increasing(Polled(p)) => Increasing(returned[p])
      /\ ToSet(Polled(p)) = ToSet(returned[p]) \cup ToSet(messages[p])
  BY <1>1, FirstPart DEF Polled
<1> QED BY <1>2, <1>3, <1>4, <1>5 DEF IInv, GoneInv

(* A poll returns all that it has taken.                                   *)
LEMMA Delivered ==
  ASSUME IInv, NEW p \in Pollers,
         messages' = [messages EXCEPT ![p] = <<>>],
         returned' = [returned EXCEPT ![p] = @ \o messages[p]],
         UNCHANGED <<dispatched, notifications, incoming, dropped, lost>>
  PROVE  GoneInv'
<1>1. /\ returned[p] \in Seq(Nat) /\ messages[p] \in Seq(Nat)
      /\ messages \in [Pollers -> Seq(Nat)]
      /\ returned \in [Pollers -> Seq(Nat)]
  BY DEF IInv, QueueTypeOK
<1>2. Gone' = Gone
  BY DEF Gone
<1>3. \A q \in Pollers \ {p} : Polled(q)' = Polled(q)
  BY <1>1 DEF Polled
<1>4. Polled(p)' = Polled(p)
  BY <1>1, ConcatProperties, ConcatEmptySeq DEF Polled
<1>5. \A q \in Pollers : Polled(q)' = Polled(q)
  BY <1>3, <1>4
<1> QED BY <1>2, <1>5 DEF IInv, GoneInv

(* A poll ends.  It drops what it has taken only without a connection.     *)
LEMMA ReturnStep ==
  ASSUME IInv, NEW p \in Pollers, NEW answer \in {<<>>, messages[p]},
         NEW again, Return(p, answer, again), UNCHANGED dispatched,
         answer # messages[p] => connection = "closed"
  PROVE  IInv'
<1>1. /\ returned[p] \in Seq(Nat) /\ messages[p] \in Seq(Nat)
      /\ messages \in [Pollers -> Seq(Nat)]
      /\ returned \in [Pollers -> Seq(Nat)]
  BY DEF IInv, QueueTypeOK
<1>2. ToSet(<<>>) = {}
  BY DEF ToSet
<1>3. QueueTypeOK'
  <2>1. answer \in Seq(Nat) /\ returned[p] \o answer \in Seq(Nat)
    BY <1>1, ConcatProperties, EmptySeq
  <2> QED BY <1>1, <2>1
          DEF IInv, QueueTypeOK, Return, Goto, pumpVars, serverVars
<1>4. QueueInv'
  <2>1. Gone' = Gone
    BY DEF Gone, Return, pumpVars
  <2> QED BY <2>1 DEF IInv, QueueInv, Return, pumpVars, serverVars
<1>5. GoneInv'
  <2>1. CASE answer = messages[p]
    <3>1. lost' = lost
      BY <2>1 DEF Return
    <3> QED BY <2>1, <3>1, Delivered DEF Return, pumpVars
  <2>2. CASE answer = <<>>
    <3>1. lost' = lost \cup ToSet(messages[p])
      BY <1>2, <2>2 DEF Return
    <3>2. returned' = returned
      BY <1>1, <2>2, ConcatEmptySeq DEF Return
    <3> QED BY <3>1, <3>2, Forgotten DEF Return, pumpVars
  <2> QED BY <2>1, <2>2
<1>6. DroppedInv'
  BY DEF IInv, DroppedInv, Return, pumpVars
<1>7. PollInv'
  <2>1. \A q \in Pollers :
          messages'[q] # <<>> => poll'[q] \in {"pending", "get", "return"}
    BY <1>1 DEF IInv, PollInv, QueueTypeOK, Return, Goto
  <2>2. lost' # lost => answer # messages[p]
    BY DEF Return
  <2> QED BY <2>1, <2>2 DEF IInv, PollInv, Return, pumpVars, serverVars
<1> QED BY <1>3, <1>4, <1>5, <1>6, <1>7 DEF IInv

(* A poll takes the head of the queue: the notification that comes next    *)
(* after all that have left it.                                            *)
LEMMA TakeStep ==
  ASSUME IInv, NEW p \in Pollers, TakeNotification(p), UNCHANGED dispatched,
         NEW step \in {"pending", "await", "return"}, Goto(p, step),
         messages'[p] # <<>> => step \in {"pending", "return"},
         UNCHANGED connection
  PROVE  IInv'
<1>1. /\ notifications \in Seq(Nat) /\ notifications # <<>>
      /\ returned[p] \in Seq(Nat) /\ messages[p] \in Seq(Nat)
      /\ messages \in [Pollers -> Seq(Nat)]
  BY DEF IInv, QueueTypeOK, TakeNotification
<1>2. /\ Tail(notifications) \in Seq(Nat) /\ Head(notifications) \in Nat
      /\ Len(Tail(notifications)) = Len(notifications) - 1
      /\ DOMAIN Tail(notifications) = 1 .. Len(notifications) - 1
      /\ \A i \in 1 .. Len(notifications) - 1 :
           Tail(notifications)[i] = notifications[i + 1]
      /\ 1 \in DOMAIN notifications
      /\ Head(notifications) = notifications[1]
  BY <1>1, HeadTailProperties, LenProperties
<1>3. Gone \in Nat /\ Head(notifications) = Gone + 1
  BY <1>2 DEF IInv, QueueInv
<1>4. Gone' = Gone + 1
  BY <1>2, <1>3, Numbers DEF IInv, Gone, TakeNotification
<1>5. \/ messages' = messages /\ Gone + 1 \in Ignored
      \/ messages' = [messages EXCEPT ![p] = Append(@, Gone + 1)]
  BY <1>1, <1>3 DEF TakeNotification
<1>6. QueueTypeOK'
  <2>1. messages' \in [Pollers -> Seq(Nat)]
    <3>1. Append(messages[p], Gone + 1) \in Seq(Nat)
      BY <1>1, <1>3, AppendProperties
    <3> QED BY <1>1, <1>5, <3>1
  <2>2. raced' \in BOOLEAN
    BY DEF IInv, QueueTypeOK, TakeNotification
  <2> QED BY <1>2, <2>1, <2>2
          DEF IInv, QueueTypeOK, TakeNotification, Goto, serverVars
<1>7. QueueInv'
  <2>1. Gone' \in Nat
    BY <1>3, <1>4
  <2>2. \A i \in DOMAIN notifications' : notifications'[i] = Gone' + i
    <3>1. SUFFICES ASSUME NEW i \in 1 .. Len(notifications) - 1
                   PROVE  notifications[i + 1] = Gone + 1 + i
      BY <1>2, <1>4 DEF TakeNotification
    <3>2. i + 1 \in DOMAIN notifications /\ i \in Nat
      BY Numbers DEF IInv
    <3> QED BY <1>3, <3>2 DEF IInv, QueueInv
  <2>3. Len(notifications') <= QueueSize
    BY <1>2, Numbers DEF IInv, QueueInv, TakeNotification
  <2>4. full' => incoming' # 0 /\ raced'
    BY DEF IInv, QueueInv, TakeNotification
  <2> QED BY <2>1, <2>2, <2>3, <2>4 DEF QueueInv
<1>8. GoneInv'
  <2>1. /\ lost' = lost /\ dropped' = dropped /\ returned' = returned
        /\ \A q \in Pollers \ {p} : Polled(q)' = Polled(q)
    BY <1>1, <1>5 DEF TakeNotification, Polled
  <2>2. CASE messages' = messages /\ Gone + 1 \in Ignored
    <3>1. \A q \in Pollers : Polled(q)' = Polled(q)
      BY <2>1, <2>2 DEF Polled
    <3>2. 1 .. Gone' = 1 .. Gone \cup {Gone + 1}
      BY <1>3, <1>4
    <3> QED BY <2>1, <2>2, <3>1, <3>2 DEF IInv, GoneInv
  <2>3. CASE messages' = [messages EXCEPT ![p] = Append(@, Gone + 1)]
    <3>1. Polled(p)' = Append(Polled(p), Gone + 1)
      <4>1. messages'[p] = Append(messages[p], Gone + 1)
        BY <1>1, <2>3
      <4>2. Gone + 1 \in Nat
        BY <1>3
      <4>3. returned[p] \o Append(messages[p], Gone + 1)
              = Append(returned[p] \o messages[p], Gone + 1)
        BY <1>1, <4>2, AppendToConcat
      <4> QED BY <2>1, <4>1, <4>3 DEF Polled
    <3>2. Polled(p) \in Seq(Nat)
      BY <1>1, ConcatProperties DEF Polled
    <3>3. /\ Increasing(Polled(p)')
          /\ ToSet(Polled(p)') = ToSet(Polled(p)) \cup {Gone + 1}
      BY <1>3, <3>1, <3>2, AppendNext DEF IInv, GoneInv
    <3>4. 1 .. Gone' = 1 .. Gone \cup {Gone + 1}
      BY <1>3, <1>4
    <3> QED BY <2>1, <3>3, <3>4 DEF IInv, GoneInv
  <2> QED BY <1>5, <2>2, <2>3
<1>9. DroppedInv'
  BY DEF IInv, DroppedInv, TakeNotification
<1>10. PollInv'
  <2>1. \A q \in Pollers \ {p} :
          messages'[q] = messages[q] /\ poll'[q] = poll[q]
    BY <1>5 DEF IInv, QueueTypeOK, Goto
  <2>2. poll'[p] = step
    BY DEF IInv, QueueTypeOK, Goto
  <2> QED BY <2>1, <2>2 DEF IInv, PollInv, TakeNotification, serverVars
<1> QED BY <1>6, <1>7, <1>8, <1>9, <1>10 DEF IInv

(* A poll goes on to another step without taking or returning anything.    *)
LEMMA GotoStep ==
  ASSUME IInv, NEW p \in Pollers,
         NEW step \in {"pending", "get", "await", "event", "connection",
                       "queue", "wait"},
         Goto(p, step),
         messages[p] # <<>> => step \in {"pending", "get"},
         UNCHANGED <<dispatched, pumpVars, serverVars, messages, returned,
                     polling, lost, raced>>
  PROVE  IInv'
<1>1. \A q \in Pollers : poll'[q] = IF q = p THEN step ELSE poll[q]
  BY DEF IInv, QueueTypeOK, Goto
<1>2. PollInv'
  BY <1>1 DEF IInv, PollInv, serverVars
<1>3. poll' \in [Pollers -> {"idle", "pending", "get", "await", "event",
                             "connection", "queue", "wait", "return"}]
  BY DEF IInv, QueueTypeOK, Goto
<1>4. connection' \in {"none", "open", "closed"}
  BY DEF IInv, QueueTypeOK, serverVars
<1> QED BY <1>2, <1>3, <1>4, QuietStep DEF pumpVars, serverVars

(* Nothing can have been taken before there was a connection.              *)
LEMMA NothingTaken ==
  ASSUME IInv, NEW p \in Pollers, connection = "none"
  PROVE  messages[p] = <<>>
<1>1. dispatched = <<>> /\ returned[p] \in Seq(Nat) /\ messages[p] \in Seq(Nat)
  BY DEF IInv, PollInv, QueueTypeOK
<1>2. Gone = 0
  <2>1. Len(dispatched) = 0
    BY <1>1
  <2>2. Gone \in Nat
    BY DEF IInv, QueueInv
  <2> QED BY <2>1, <2>2, Numbers DEF IInv
<1>3. ToSet(messages[p]) \subseteq 1 .. Gone
  BY <1>1, FirstPart DEF IInv, GoneInv, Polled
<1>4. ToSet(messages[p]) = {}
  BY <1>2, <1>3
<1>5. 1 \notin DOMAIN messages[p]
  BY <1>4 DEF ToSet
<1> QED BY <1>1, <1>5, LenProperties, EmptySeq

(* PollForMessages is entered.                                             *)
LEMMA PollForMessagesStep ==
  ASSUME IInv, NEW p \in Pollers, PollForMessages(p), UNCHANGED vars
  PROVE  IInv'
<1>1. messages[p] = <<>> /\ UNCHANGED dispatched
  BY DEF IInv, PollInv, PollForMessages, vars
<1>2. CASE event
  BY <1>1, <1>2, GotoStep DEF PollForMessages
<1>3. CASE ~ event
  BY <1>1, <1>3, GotoStep DEF PollForMessages
<1> QED BY <1>2, <1>3

(* _GetPendingMessages goes on, or gives up what it has taken, for want of *)
(* a connection.                                                           *)
LEMMA CheckConnectionStep ==
  ASSUME IInv, NEW p \in Pollers, CheckConnection(p), UNCHANGED vars
  PROVE  IInv'
<1>1. UNCHANGED dispatched
  BY DEF vars
<1>2. CASE connection = "open"
  BY <1>1, <1>2, GotoStep DEF CheckConnection
<1>3. CASE connection # "open"
  <2>1. /\ messages' = [messages EXCEPT ![p] = <<>>]
        /\ lost' = lost \cup ToSet(messages[p])
        /\ Goto(p, "await") /\ returned' = returned
        /\ UNCHANGED <<pumpVars, serverVars, raced>>
    BY <1>3 DEF CheckConnection
  <2>2. QueueTypeOK'
    BY <1>1, <2>1, EmptySeq
       DEF IInv, QueueTypeOK, Goto, pumpVars, serverVars
  <2>3. QueueInv'
    <3>1. Gone' = Gone
      BY <1>1, <2>1 DEF Gone, pumpVars
    <3> QED BY <2>1, <3>1 DEF IInv, QueueInv, pumpVars
  <2>4. GoneInv'
    BY <1>1, <2>1, Forgotten DEF pumpVars
  <2>5. DroppedInv'
    BY <1>1, <2>1 DEF IInv, DroppedInv, pumpVars
  <2>6. PollInv'
    <3>1. \A q \in Pollers :
            messages'[q] # <<>> => poll'[q] \in {"pending", "get", "return"}
      BY <2>1 DEF IInv, PollInv, QueueTypeOK, Goto
    <3>2. connection = "none" => messages[p] = <<>>
      BY NothingTaken
    <3>3. lost' # {} => connection = "closed"
      BY <1>3, <2>1, <3>2 DEF IInv, PollInv, QueueTypeOK, ToSet
    <3> QED BY <1>1, <2>1, <3>1, <3>3 DEF IInv, PollInv, serverVars
  <2> QED BY <2>2, <2>3, <2>4, <2>5, <2>6 DEF IInv
<1> QED BY <1>2, <1>3

(* _GetPendingMessages takes the next message, returns what it has taken   *)
(* or, if the connection has disappeared, raises.                          *)
LEMMA GetNowaitStep ==
  ASSUME IInv, NEW p \in Pollers, GetNowait(p), UNCHANGED vars
  PROVE  IInv'
<1>1. UNCHANGED dispatched
  BY DEF vars
<1>2. CASE TakeNotification(p) /\ Goto(p, "pending")
  BY <1>1, <1>2, TakeStep DEF TakeNotification, serverVars
<1>3. CASE Return(p, messages[p], TRUE)
  BY <1>1, <1>3, ReturnStep
<1>4. CASE /\ messages[p] = <<>> /\ Goto(p, "await")
           /\ UNCHANGED <<pumpVars, serverVars, messages, returned, polling,
                          lost, raced>>
  BY <1>1, <1>4, GotoStep
<1>5. CASE connection # "open" /\ Return(p, <<>>, FALSE)
  <2>1. <<>> # messages[p] => connection = "closed"
    BY <1>5, NothingTaken DEF IInv, QueueTypeOK
  <2> QED BY <1>1, <1>5, <2>1, ReturnStep
<1> QED BY <1>2, <1>3, <1>4, <1>5 DEF GetNowait

(* A poll that has taken nothing goes on to wait, or returns no message.   *)
LEMMA AwaitStep ==
  ASSUME IInv, NEW p \in Pollers, UNCHANGED vars,
         \/ AwaitServerMessages(p) \/ AwaitInitialized(p)
         \/ AwaitConnection(p) \/ FindQueue(p) \/ AwaitTimeout(p)
  PROVE  IInv'
<1>1. UNCHANGED dispatched
  BY DEF vars
<1>2. messages[p] = <<>>
  BY DEF IInv, PollInv, AwaitServerMessages, AwaitInitialized,
         AwaitConnection, FindQueue, AwaitTimeout
<1>3. CASE \E again : Return(p, <<>>, again)
  BY <1>1, <1>2, <1>3, ReturnStep
<1>4. CASE \E step \in {"connection", "event", "queue", "wait"} :
             /\ Goto(p, step)
             /\ UNCHANGED <<pumpVars, serverVars, messages, returned,
                            polling, lost, raced>>
  BY <1>1, <1>2, <1>4, GotoStep
<1>5. CASE AwaitServerMessages(p)
  BY <1>4, <1>5 DEF AwaitServerMessages
<1>6. CASE AwaitInitialized(p)
  BY <1>3, <1>6 DEF AwaitInitialized
<1>7. CASE AwaitConnection(p)
  BY <1>3, <1>4, <1>7 DEF AwaitConnection
<1>8. CASE FindQueue(p)
  BY <1>3, <1>4, <1>8 DEF FindQueue
<1>9. CASE AwaitTimeout(p)
  BY <1>3, <1>9 DEF AwaitTimeout
<1> QED BY <1>5, <1>6, <1>7, <1>8, <1>9

(* A message arrives while the poll waits, and is ignored or returned.     *)
LEMMA AwaitNotificationStep ==
  ASSUME IInv, NEW p \in Pollers, UNCHANGED vars,
         AwaitNotification(p) \/ ReturnMessage(p)
  PROVE  IInv'
<1>1. UNCHANGED dispatched
  BY DEF vars
<1>2. CASE AwaitNotification(p)
  <2>1. UNCHANGED connection
    BY <1>2 DEF AwaitNotification, TakeNotification, serverVars
  <2>2. CASE messages'[p] = <<>>
    BY <1>1, <1>2, <2>1, <2>2, TakeStep DEF AwaitNotification
  <2>3. CASE messages'[p] # <<>>
    BY <1>1, <1>2, <2>1, <2>3, TakeStep DEF AwaitNotification
  <2> QED BY <2>2, <2>3
<1>3. CASE ReturnMessage(p)
  BY <1>1, <1>3, ReturnStep DEF ReturnMessage
<1> QED BY <1>2, <1>3

(* The pump reads on, or dispatches a notification and begins to add it.   *)
LEMMA ReadStep ==
  ASSUME IInv, Read
  PROVE  IInv'
<1>1. incoming = 0 /\ connection = "open"
  BY DEF Read
<1>2. CASE ReadMessage /\ UNCHANGED queueVars
  <2>1. UNCHANGED dispatched
    BY <1>2 DEF ReadMessage, ReadHeaderData, ReadHeaderEnd, ScanByte,
         ScanHeader, HeadersComplete, ScanFails, ScanDone, UseRemainder,
         ReadContent, ReadContentEnd, EndOfFile, Raise
  <2>2. UNCHANGED <<notifications, incoming, full, dropped, messages,
                    returned, lost, raced, poll, connection>>
    BY <1>2 DEF queueVars, pumpVars, serverVars, pollVars
  <2>3. PollInv'
    BY <2>1, <2>2 DEF IInv, PollInv
  <2> QED BY <2>1, <2>2, <2>3, QuietStep DEF IInv, QueueTypeOK
<1>3. CASE DispatchNotification
  <2>1. /\ dispatched' = Append(dispatched, content)
        /\ incoming' = Len(dispatched')
        /\ UNCHANGED <<notifications, full, dropped, messages, returned,
                       lost, raced, poll, connection>>
    BY <1>3 DEF DispatchNotification, DispatchMessage, AddNotification,
         serverVars, pollVars
  <2>2. /\ dispatched' \in Seq(ToSet(dispatched'))
        /\ Len(dispatched') = Len(dispatched) + 1
    BY <2>1, AppendAnything DEF IInv, QueueTypeOK
  <2>3. Gone' = Gone /\ incoming' # 0
    BY <1>1, <2>1, <2>2, Numbers DEF IInv, Gone
  <2>4. QueueTypeOK'
    BY <2>1, <2>2 DEF IInv, QueueTypeOK
  <2>5. QueueInv'
    BY <1>1, <2>1, <2>3 DEF IInv, QueueInv
  <2>6. \A p \in Pollers : Polled(p)' = Polled(p)
    BY <2>1 DEF Polled
  <2>7. GoneInv'
    BY <2>1, <2>3, <2>6 DEF IInv, GoneInv
  <2>8. DroppedInv'
    <3>1. SUFFICES ASSUME ~ raced, NEW m \in dropped
                   PROVE  m + QueueSize <= Len(dispatched')
      BY <2>1 DEF DroppedInv
    <3>2. m \in Nat /\ m + QueueSize <= Len(dispatched)
      BY <3>1 DEF IInv, DroppedInv, GoneInv
    <3> QED BY <2>2, <3>2, Numbers DEF IInv
  <2>9. PollInv'
    BY <1>1, <2>1 DEF IInv, PollInv
  <2> QED BY <2>4, <2>5, <2>7, <2>8, <2>9 DEF IInv
<1> QED BY <1>2, <1>3 DEF Read

(* _AddNotificationToQueue adds the notification, or finds no room.        *)
LEMMA PutNowaitStep ==
  ASSUME IInv, PutNowait, UNCHANGED vars
  PROVE  IInv'
<1>1. /\ UNCHANGED <<dispatched, dropped, messages, returned, lost, raced,
                     poll, connection>>
      /\ incoming # 0 /\ ~ full
  BY DEF PutNowait, vars, serverVars, pollVars
<1>2. PollInv'
  BY <1>1 DEF IInv, PollInv
<1>3. DroppedInv'
  BY <1>1 DEF IInv, DroppedInv
<1>4. \A p \in Pollers : Polled(p)' = Polled(p)
  BY <1>1 DEF Polled
<1>5. CASE Len(notifications) < QueueSize
  <2>1. /\ notifications' = Append(notifications, incoming)
        /\ incoming' = 0 /\ full' = full
    BY <1>5 DEF PutNowait
  <2>2. notifications \in Seq(Nat) /\ incoming \in Nat
    BY Numbers DEF IInv, QueueTypeOK
  <2>3. /\ notifications' \in Seq(Nat)
        /\ Len(notifications') = Len(notifications) + 1
        /\ DOMAIN notifications' = 1 .. Len(notifications) + 1
        /\ \A i \in 1 .. Len(notifications) :
             notifications'[i] = notifications[i]
        /\ notifications'[Len(notifications) + 1] = incoming
    BY <2>1, <2>2, AppendProperties, LenProperties
  <2>4. Gone' = Gone
    BY <1>1, <2>1, <2>3, Numbers DEF IInv, Gone
  <2>5. QueueTypeOK'
    BY <1>1, <2>1, <2>3 DEF IInv, QueueTypeOK
  <2>6. QueueInv'
    <3>1. incoming = Gone + Len(notifications) + 1
      BY <1>1, Numbers DEF IInv
    <3>2. \A i \in 1 .. Len(notifications) : notifications[i] = Gone + i
      BY Numbers DEF IInv, QueueInv
    <3>3. \A i \in 1 .. Len(notifications) + 1 :
            i \in 1 .. Len(notifications) \/ i = Len(notifications) + 1
      BY Numbers DEF IInv
    <3>4. \A i \in DOMAIN notifications' : notifications'[i] = Gone + i
      <4>1. SUFFICES ASSUME NEW i \in 1 .. Len(notifications) + 1
                     PROVE  notifications'[i] = Gone + i
        BY <2>3
      <4>2. CASE i \in 1 .. Len(notifications)
        BY <2>3, <3>2, <4>2
      <4>3. CASE i = Len(notifications) + 1
        BY <2>3, <3>1, <4>3, Numbers DEF IInv
      <4> QED BY <3>3, <4>2, <4>3
    <3>5. Len(notifications') <= QueueSize
      BY <1>5, <2>3, Numbers DEF IInv
    <3> QED BY <1>1, <2>1, <2>4, <3>4, <3>5 DEF IInv, QueueInv
  <2>7. GoneInv'
    BY <1>1, <1>4, <2>4 DEF IInv, GoneInv
  <2> QED BY <1>2, <1>3, <2>5, <2>6, <2>7 DEF IInv
<1>6. CASE ~ Len(notifications) < QueueSize
  <2>1. UNCHANGED <<notifications, incoming>> /\ full' = TRUE
    BY <1>6 DEF PutNowait
  <2>2. Gone' = Gone
    BY <1>1, <2>1 DEF Gone
  <2>3. QueueTypeOK'
    BY <1>1, <2>1 DEF IInv, QueueTypeOK
  <2>4. Len(notifications) = QueueSize
    <3>1. Len(notifications) <= QueueSize
      BY DEF IInv, QueueInv
    <3>2. Len(notifications) \in Nat
      BY Numbers DEF IInv
    <3> QED BY <1>6, <3>1, <3>2
  <2>5. QueueInv'
    BY <1>1, <2>1, <2>2, <2>4 DEF IInv, QueueInv
  <2>6. GoneInv'
    BY <1>1, <1>4, <2>2 DEF IInv, GoneInv
  <2> QED BY <1>2, <1>3, <2>3, <2>5, <2>6 DEF IInv
<1> QED BY <1>5, <1>6

(* It discards the oldest, unless a poll has emptied the queue meanwhile.  *)
LEMMA DiscardOldestStep ==
  ASSUME IInv, DiscardOldest, UNCHANGED vars
  PROVE  IInv'
<1>1. /\ UNCHANGED <<dispatched, incoming, messages, returned, lost, raced,
                     poll, connection>>
      /\ full /\ full' = FALSE
  BY DEF DiscardOldest, vars, serverVars, pollVars
<1>2. PollInv'
  BY <1>1 DEF IInv, PollInv
<1>3. \A p \in Pollers : Polled(p)' = Polled(p)
  BY <1>1 DEF Polled
<1>4. CASE notifications = <<>>
  <2>1. UNCHANGED <<notifications, dropped>>
    BY <1>4 DEF DiscardOldest
  <2>2. Gone' = Gone
    BY <1>1, <2>1 DEF Gone
  <2>3. QueueTypeOK'
    BY <1>1, <2>1 DEF IInv, QueueTypeOK
  <2>4. QueueInv'
    BY <1>1, <2>1, <2>2 DEF IInv, QueueInv
  <2>5. GoneInv'
    BY <1>1, <1>3, <2>1, <2>2 DEF IInv, GoneInv
  <2>6. DroppedInv'
    BY <1>1, <2>1 DEF IInv, DroppedInv
  <2> QED BY <1>2, <2>3, <2>4, <2>5, <2>6 DEF IInv
<1>5. CASE notifications # <<>>
  <2>1. /\ notifications' = Tail(notifications)
        /\ dropped' = dropped \cup {Head(notifications)}
    BY <1>5 DEF DiscardOldest
  <2>2. notifications \in Seq(Nat)
    BY DEF IInv, QueueTypeOK
  <2>3. /\ notifications' \in Seq(Nat)
        /\ Len(notifications') = Len(notifications) - 1
        /\ DOMAIN notifications' = 1 .. Len(notifications) - 1
        /\ \A i \in 1 .. Len(notifications) - 1 :
             notifications'[i] = notifications[i + 1]
        /\ 1 \in DOMAIN notifications
        /\ Head(notifications) = notifications[1]
    BY <1>5, <2>1, <2>2, HeadTailProperties, LenProperties
  <2>4. Gone \in Nat /\ Head(notifications) = Gone + 1
    BY <2>3 DEF IInv, QueueInv
  <2>5. Gone' = Gone + 1
    BY <1>1, <2>3, <2>4, Numbers DEF IInv, Gone
  <2>6. QueueTypeOK'
    BY <1>1, <2>3 DEF IInv, QueueTypeOK
  <2>7. QueueInv'
    <3>1. \A i \in DOMAIN notifications' : notifications'[i] = Gone' + i
      <4>1. SUFFICES ASSUME NEW i \in 1 .. Len(notifications) - 1
                     PROVE  notifications[i + 1] = Gone + 1 + i
        BY <2>3, <2>5
      <4>2. i + 1 \in DOMAIN notifications /\ i \in Nat
        BY Numbers DEF IInv
      <4> QED BY <2>4, <4>2 DEF IInv, QueueInv
    <3>2. Gone' \in Nat
      BY <2>4, <2>5
    <3>3. Len(notifications') <= QueueSize
      BY <2>3, Numbers DEF IInv, QueueInv
    <3> QED BY <1>1, <3>1, <3>2, <3>3 DEF QueueInv
  <2>8. GoneInv'
    <3>1. 1 .. Gone' = 1 .. Gone \cup {Gone + 1}
      BY <2>4, <2>5
    <3> QED BY <1>1, <1>3, <2>1, <2>4, <3>1 DEF IInv, GoneInv
  <2>9. DroppedInv'
    <3>1. SUFFICES ASSUME ~ raced, NEW m \in dropped'
                   PROVE  m + QueueSize <= Len(dispatched)
      BY <1>1 DEF DroppedInv
    <3>2. CASE m \in dropped
      BY <3>1, <3>2 DEF IInv, DroppedInv
    <3>3. CASE m = Gone + 1
      <4>1. Len(notifications) = QueueSize /\ incoming # 0
        BY <1>1, <3>1 DEF IInv, QueueInv
      <4> QED BY <3>3, <4>1, Numbers DEF IInv
    <3> QED BY <2>1, <2>4, <3>2, <3>3
  <2> QED BY <1>2, <2>6, <2>7, <2>8, <2>9 DEF IInv
<1> QED BY <1>4, <1>5

(* The server is started, initialised, or reset.                           *)
LEMMA ServerStep ==
  ASSUME IInv, Server
  PROVE  IInv'
<1>1. UNCHANGED <<dispatched, notifications, incoming, full, dropped,
                  messages, returned, lost, raced, poll>>
  BY DEF Server, StartServer, InitializeComplete, Reset, pumpVars, pollVars,
         vars
<1>2. /\ connection' \in {"none", "open", "closed"}
      /\ connection' = "none" => connection = "none"
      /\ connection = "closed" => connection' = "closed"
  BY DEF Server, StartServer, InitializeComplete, Reset, IInv, QueueTypeOK
<1>3. PollInv'
  BY <1>1, <1>2 DEF IInv, PollInv
<1> QED BY <1>1, <1>2, <1>3, QuietStep DEF IInv, QueueTypeOK

(* The invariant depends on these variables alone.                         *)
LEMMA StutteringStep ==
  ASSUME IInv, UNCHANGED pumpAndQueueVars
  PROVE  IInv'
<1>1. UNCHANGED <<dispatched, notifications, incoming, full, dropped,
                  messages, returned, lost, raced, poll, connection>>
  BY DEF pumpAndQueueVars, vars, queueVars, pumpVars, serverVars, pollVars
<1>2. PollInv'
  BY <1>1 DEF IInv, PollInv
<1> QED BY <1>1, <1>2, QuietStep DEF IInv, QueueTypeOK

(* The pump and the queue begin empty.                                     *)
LEMMA InitInvariant == PumpInit => IInv
<1> SUFFICES ASSUME PumpInit PROVE IInv
  OBVIOUS
<1>1. /\ dispatched = <<>> /\ notifications = <<>> /\ incoming = 0
      /\ full = FALSE /\ raced = FALSE /\ connection = "none"
      /\ poll = [p \in Pollers |-> "idle"]
      /\ messages = [p \in Pollers |-> <<>>]
      /\ returned = [p \in Pollers |-> <<>>]
      /\ dropped = {} /\ lost = {}
  BY DEF PumpInit, Init, QueueInit
<1>2. Gone = 0
  BY <1>1 DEF Gone
<1>3. QueueTypeOK
  BY <1>1, EmptySeq DEF QueueTypeOK
<1>4. QueueInv
  BY <1>1, <1>2 DEF QueueInv
<1>5. GoneInv
  <2>1. \A p \in Pollers : Polled(p) = <<>>
    BY <1>1 DEF Polled
  <2> QED BY <1>1, <1>2, <2>1 DEF GoneInv, Increasing, ToSet
<1>6. DroppedInv
  BY <1>1 DEF DroppedInv
<1>7. PollInv
  BY <1>1 DEF PollInv
<1> QED BY <1>3, <1>4, <1>5, <1>6, <1>7 DEF IInv

(* Every step preserves the invariant.                                     *)
LEMMA NextInvariant ==
  ASSUME IInv, [PumpNext]_pumpAndQueueVars
  PROVE  IInv'
<1>1. CASE Read
  BY <1>1, ReadStep
<1>2. CASE Enqueue
  BY <1>2, PutNowaitStep, DiscardOldestStep DEF Enqueue
<1>3. CASE Server
  BY <1>3, ServerStep
<1>4. ASSUME NEW p \in Pollers, Poll(p), UNCHANGED vars
      PROVE  IInv'
  BY <1>4, PollForMessagesStep, CheckConnectionStep, GetNowaitStep,
     AwaitStep, AwaitNotificationStep DEF Poll
<1>5. CASE UNCHANGED pumpAndQueueVars
  BY <1>5, StutteringStep
<1> QED BY <1>1, <1>2, <1>3, <1>4, <1>5 DEF PumpNext
-----------------------------------------------------------------------------

(* The inductive invariant holds, for any number of polls at a time, any   *)
(* size of the queue, and whatever the server sends.                       *)
THEOREM Invariant == PumpSpec => []IInv
<1>1. IInv /\ [PumpNext]_pumpAndQueueVars => IInv'
  BY NextInvariant
<1> QED BY <1>1, InitInvariant, PTL DEF PumpSpec

(* How many notifications there are after the m-th.                        *)
LEMMA NewerThan ==
  ASSUME QueueTypeOK, NEW m \in Nat, m <= Len(dispatched)
  PROVE  Cardinality(Newer(m)) = Len(dispatched) - m
<1>1. Len(dispatched) \in Nat
  BY Numbers
<1>2. Newer(m) = m + 1 .. Len(dispatched)
  BY <1>1 DEF Newer
<1>3. Cardinality(m + 1 .. Len(dispatched))
        = IF m + 1 > Len(dispatched) THEN 0 ELSE Len(dispatched) - (m + 1) + 1
  <2>1. m + 1 \in Int /\ Len(dispatched) \in Int
    BY <1>1
  <2> QED BY <2>1, FS_Interval
<1> QED BY <1>1, <1>2, <1>3

(* The editor gets the notifications in order and once; one is missing     *)
(* only if the server was reset, or QueueSize newer ones came after it.    *)
THEOREM NotificationOrder == PumpSpec => []NotificationsKept
<1>1. ASSUME IInv
      PROVE  NotificationsKept
  <2> DEFINE polled == UNION {ToSet(returned[p] \o messages[p]) : p \in Pollers}
             taken  == lost \cup dropped \cup polled
  <2>1. \A p \in Pollers : Increasing(returned[p] \o messages[p])
    BY <1>1 DEF IInv, GoneInv, Polled
  <2>2. Increasing(notifications)
    <3>1. SUFFICES ASSUME NEW i \in 1 .. Len(notifications) - 1
                   PROVE  notifications[i] < notifications[i + 1]
      BY DEF Increasing
    <3>2. i \in DOMAIN notifications /\ i + 1 \in DOMAIN notifications
          /\ i \in Nat
      BY <1>1, Numbers DEF IInv
    <3>3. Gone \in Nat /\ notifications[i] = Gone + i
          /\ notifications[i + 1] = Gone + (i + 1)
      BY <1>1, <3>2 DEF IInv, QueueInv
    <3> QED BY <3>2, <3>3
  <2>3. taken \subseteq 1 .. Gone
    BY <1>1 DEF IInv, GoneInv, Polled
  <2>4. \A i \in DOMAIN notifications, m \in taken : m < notifications[i]
    <3>1. SUFFICES ASSUME NEW i \in DOMAIN notifications, NEW m \in taken
                   PROVE  m < notifications[i]
      OBVIOUS
    <3>2. i \in Nat \ {0}
      BY <1>1, Numbers DEF IInv
    <3>3. Gone \in Nat /\ notifications[i] = Gone + i
      BY <1>1 DEF IInv, QueueInv
    <3>4. m \in 1 .. Gone
      BY <2>3
    <3> QED BY <3>2, <3>3, <3>4
  <2>5. 1 .. Len(dispatched)
          \subseteq taken \cup ToSet(notifications) \cup {incoming} \cup Ignored
    <3>1. SUFFICES ASSUME NEW m \in 1 .. Len(dispatched)
                   PROVE  m \in taken \cup ToSet(notifications)
                                  \cup {incoming} \cup Ignored
      OBVIOUS
    <3>2. CASE m \in 1 .. Gone
      BY <1>1, <3>2 DEF IInv, GoneInv, Polled
    <3>3. CASE m \in Gone + 1 .. Gone + Len(notifications)
      <4>1. Gone \in Nat
        BY <1>1 DEF IInv, QueueInv
      <4>2. m - Gone \in DOMAIN notifications /\ Gone + (m - Gone) = m
        BY <1>1, <3>3, <4>1, Numbers DEF IInv
      <4>3. notifications[m - Gone] = m
        BY <1>1, <4>2 DEF IInv, QueueInv
      <4> QED BY <4>2, <4>3 DEF ToSet
    <3>4. CASE m > Gone + Len(notifications)
      BY <1>1, <3>4, Numbers DEF IInv
    <3>5. Gone \in Nat /\ Len(notifications) \in Nat
      BY <1>1, Numbers DEF IInv, QueueInv
    <3>6. m \in 1 .. Gone \/ m \in Gone + 1 .. Gone + Len(notifications)
            \/ m > Gone + Len(notifications)
      BY <3>5
    <3> QED BY <3>2, <3>3, <3>4, <3>6
  <2>6. raced \/ \A m \in dropped : Cardinality(Newer(m)) >= QueueSize
    <3>1. SUFFICES ASSUME ~ raced, NEW m \in dropped
                   PROVE  Cardinality(Newer(m)) >= QueueSize
      OBVIOUS
    <3>2. m \in Nat /\ m + QueueSize <= Len(dispatched)
      BY <1>1, <3>1 DEF IInv, DroppedInv, GoneInv
    <3>3. m <= Len(dispatched) /\ Len(dispatched) \in Nat
      BY <1>1, <3>2, Numbers DEF IInv
    <3>4. Cardinality(Newer(m)) = Len(dispatched) - m
      BY <1>1, <3>2, <3>3, NewerThan DEF IInv
    <3> QED BY <3>2, <3>3, <3>4
  <2>7. lost # {} => connection = "closed"
    BY <1>1 DEF IInv, PollInv
  <2> QED BY <2>1, <2>2, <2>4, <2>5, <2>6, <2>7 DEF NotificationsKept
<1> QED BY <1>1, Invariant, PTL

-----------------------------------------------------------------------------
(* The reader.                                                             *)

(* A set of natural numbers that is not empty has a smallest.              *)
LEMMA Smallest ==
  ASSUME NEW S \in SUBSET Nat, S # {}
  PROVE  \E n \in S : \A m \in S : n <= m
<1> DEFINE R == OpToRel(<, Nat)
<1>1. IsWellFoundedOn(R, Nat)
  BY NatLessThanWellFounded
<1>2. \A x, y \in Nat : x < y => <<x, y>> \in R
  BY DEF OpToRel
<1> HIDE DEF R
<1>3. PICK n \in S : \A m \in S : ~ (<<m, n>> \in R)
  BY <1>1, WFMin
<1>4. \A m \in S : ~ (m < n)
  BY <1>2, <1>3
<1> QED BY <1>4

(* Induction over the natural numbers.                                     *)
LEMMA Induction ==
  ASSUME NEW S, 0 \in S, \A n \in Nat : n \in S => n + 1 \in S
  PROVE  Nat \subseteq S
<1>1. SUFFICES ASSUME Nat \ S # {} PROVE FALSE
  OBVIOUS
<1>2. PICK n \in Nat \ S : \A m \in Nat \ S : n <= m
  BY <1>1, Smallest
<1>3. n # 0 /\ n - 1 \in Nat /\ n - 1 \notin Nat \ S
  BY <1>2
<1>4. n - 1 + 1 \in S
  BY <1>3
<1> QED BY <1>2, <1>4

(* The parts of a concatenation.                                           *)
LEMMA Joined ==
  ASSUME NEW S, NEW a \in Seq(S), NEW b \in Seq(S)
  PROVE  /\ a \o b \in Seq(S) /\ Len(a \o b) = Len(a) + Len(b)
         /\ Len(a) \in Nat /\ Len(b) \in Nat
         /\ \A i \in 1 .. Len(a) : (a \o b)[i] = a[i]
         /\ \A i \in 1 .. Len(b) : (a \o b)[Len(a) + i] = b[i]
<1>1. /\ a \o b \in Seq(S) /\ Len(a \o b) = Len(a) + Len(b)
      /\ \A i \in 1 .. Len(a) + Len(b) :
           (a \o b)[i] = IF i <= Len(a) THEN a[i] ELSE b[i - Len(a)]
  BY ConcatProperties
<1>2. Len(a) \in Nat /\ Len(b) \in Nat
  BY LenProperties
<1>3. ASSUME NEW i \in 1 .. Len(a) PROVE (a \o b)[i] = a[i]
  <2>1. i \in 1 .. Len(a) + Len(b) /\ i <= Len(a)
    BY <1>2
  <2> QED BY <1>1, <2>1
<1>4. ASSUME NEW i \in 1 .. Len(b) PROVE (a \o b)[Len(a) + i] = b[i]
  <2>1. /\ Len(a) + i \in 1 .. Len(a) + Len(b) /\ ~ (Len(a) + i <= Len(a))
        /\ Len(a) + i - Len(a) = i
    BY <1>2
  <2> QED BY <1>1, <2>1
<1> QED BY <1>1, <1>2, <1>3, <1>4

(* What a message is made of.                                              *)
Pieces ==
  {Name, ContentType, NewLine} \cup {Number(n) : n \in Nat}
    \cup [type : {"byte", "lead"}, of : Nat \X Nat]

(* The contents that the server sends.                                     *)
LEMMA ContentsTyped ==
  /\ Len(Contents) \in Nat
  /\ \A m \in 1 .. Len(Contents) :
       /\ Len(Contents[m]) \in Nat
       /\ \A i \in 1 .. Len(Contents[m]) : Contents[m][i] \in {"byte", "lead"}
       /\ Contents[m] # <<>> <=> Len(Contents[m]) # 0
       /\ Content(m) \in Seq(Pieces) /\ Len(Content(m)) = Len(Contents[m])
<1>1. Contents \in Seq(Seq({"byte", "lead"}))
  BY MessageReaderAssumption
<1>2. Len(Contents) \in Nat
  BY <1>1, LenProperties
<1>3. ASSUME NEW m \in 1 .. Len(Contents)
      PROVE  /\ Len(Contents[m]) \in Nat
             /\ \A i \in 1 .. Len(Contents[m]) :
                  Contents[m][i] \in {"byte", "lead"}
             /\ Contents[m] # <<>> <=> Len(Contents[m]) # 0
             /\ Content(m) \in Seq(Pieces) /\ Len(Content(m)) = Len(Contents[m])
  <2>1. Contents[m] \in Seq({"byte", "lead"})
    BY <1>1, ElementOfSeq
  <2>2. /\ Len(Contents[m]) \in Nat
        /\ \A i \in 1 .. Len(Contents[m]) : Contents[m][i] \in {"byte", "lead"}
    BY <2>1, LenProperties, ElementOfSeq
  <2>3. Contents[m] # <<>> <=> Len(Contents[m]) # 0
    BY <2>1, EmptySeq
  <2>4. \A i \in 1 .. Len(Contents[m]) :
          [type |-> Contents[m][i], of |-> <<m, i>>] \in Pieces
    BY <1>2, <2>2 DEF Pieces
  <2>5. Content(m) \in [1 .. Len(Contents[m]) -> Pieces]
    BY <2>4 DEF Content
  <2>6. Content(m) \in Seq(Pieces)
    BY <2>2, <2>5, IsASeq
  <2>7. Len(Content(m)) = Len(Contents[m])
    BY <2>2, <2>5, <2>6, LenProperties
  <2> QED BY <2>2, <2>3, <2>6, <2>7
<1> QED BY <1>2, <1>3

(* A message is its header lines, an empty line and its content.           *)
LEMMA EncodeLayout ==
  ASSUME NEW m \in 1 .. Len(Contents)
  PROVE  /\ Encode(m) \in Seq(Pieces)
         /\ Len(Encode(m)) = Header(m) + Len(Contents[m])
         /\ Before(m) = 2 => Encode(m)[1] = ContentType
            /\ Encode(m)[2] = NewLine
         /\ Encode(m)[Before(m) + 1] = Name
         /\ Encode(m)[Before(m) + 2] = Number(Len(Contents[m]))
         /\ Encode(m)[Before(m) + 3] = NewLine
         /\ Encode(m)[Before(m) + 4] = NewLine
         /\ \A i \in 1 .. Len(Contents[m]) :
              Encode(m)[Header(m) + i] = Content(m)[i]
<1> DEFINE a == IF m \in Typed THEN <<ContentType, NewLine>> ELSE <<>>
           b == <<Name, Number(Len(Contents[m])), NewLine, NewLine>>
           c == Content(m)
<1>1. /\ Len(Contents[m]) \in Nat
      /\ c \in Seq(Pieces) /\ Len(c) = Len(Contents[m])
  BY ContentsTyped
<1>2. /\ a \in Seq(Pieces) /\ Len(a) = Before(m)
      /\ Before(m) = 2 => a[1] = ContentType /\ a[2] = NewLine
      /\ Before(m) \in {0, 2}
  <2>1. CASE m \in Typed
    <3>1. ContentType \in Pieces /\ NewLine \in Pieces
      BY DEF Pieces
    <3>2. <<ContentType, NewLine>> \in Seq(Pieces)
          /\ a = <<ContentType, NewLine>>
      BY <2>1, <3>1
    <3> QED BY <2>1, <3>2 DEF Before
  <2>2. CASE m \notin Typed
    <3>1. a = <<>> /\ <<>> \in Seq(Pieces) /\ Len(<<>>) = 0
      BY <2>2
    <3> QED BY <2>2, <3>1 DEF Before
  <2> QED BY <2>1, <2>2
<1>3. /\ b \in Seq(Pieces) /\ Len(b) = 4 /\ b[1] = Name
      /\ b[2] = Number(Len(Contents[m])) /\ b[3] = NewLine /\ b[4] = NewLine
  <2>1. Name \in Pieces /\ NewLine \in Pieces
        /\ Number(Len(Contents[m])) \in Pieces
    BY <1>1 DEF Pieces
  <2> QED BY <2>1
<1>4. Encode(m) = a \o b \o c
  BY DEF Encode
<1> HIDE DEF a, b, c
<1>5. /\ a \o b \in Seq(Pieces) /\ Len(a \o b) = Before(m) + 4
      /\ \A i \in 1 .. Before(m) : (a \o b)[i] = a[i]
      /\ \A i \in 1 .. 4 : (a \o b)[Before(m) + i] = b[i]
  <2>1. /\ a \o b \in Seq(Pieces) /\ Len(a \o b) = Len(a) + Len(b)
        /\ \A i \in 1 .. Len(a) : (a \o b)[i] = a[i]
        /\ \A i \in 1 .. Len(b) : (a \o b)[Len(a) + i] = b[i]
    <3>1. a \in Seq(Pieces) /\ b \in Seq(Pieces)
      BY <1>2, <1>3
    <3> QED BY ONLY <3>1, Joined
  <2> QED BY <1>2, <1>3, <2>1
<1>6. /\ Encode(m) \in Seq(Pieces) /\ Len(Encode(m)) = Before(m) + 4 + Len(c)
      /\ \A i \in 1 .. Before(m) + 4 : Encode(m)[i] = (a \o b)[i]
      /\ \A i \in 1 .. Len(c) : Encode(m)[Before(m) + 4 + i] = c[i]
  <2>1. /\ (a \o b) \o c \in Seq(Pieces)
        /\ Len((a \o b) \o c) = Len(a \o b) + Len(c)
        /\ \A i \in 1 .. Len(a \o b) : ((a \o b) \o c)[i] = (a \o b)[i]
        /\ \A i \in 1 .. Len(c) : ((a \o b) \o c)[Len(a \o b) + i] = c[i]
    <3>1. (a \o b) \in Seq(Pieces) /\ c \in Seq(Pieces)
      BY <1>1, <1>5
    <3> QED BY ONLY <3>1, Joined
  <2> QED BY <1>4, <1>5, <2>1
<1>7. /\ Before(m) = 2 => Encode(m)[1] = ContentType /\ Encode(m)[2] = NewLine
      /\ Encode(m)[Before(m) + 1] = Name
      /\ Encode(m)[Before(m) + 2] = Number(Len(Contents[m]))
      /\ Encode(m)[Before(m) + 3] = NewLine
      /\ Encode(m)[Before(m) + 4] = NewLine
  <2>1. ASSUME NEW i \in 1 .. 4 PROVE Encode(m)[Before(m) + i] = b[i]
    <3>1. Before(m) + i \in 1 .. Before(m) + 4
      BY <1>2
    <3> QED BY <1>5, <1>6, <3>1
  <2>2. \A i \in 1 .. Before(m) : Encode(m)[i] = a[i]
    <3>1. \A i \in 1 .. Before(m) : i \in 1 .. Before(m) + 4
      BY <1>2
    <3> QED BY <1>5, <1>6, <3>1
  <2>3. Before(m) = 2 => 1 \in 1 .. Before(m) /\ 2 \in 1 .. Before(m)
    OBVIOUS
  <2> QED BY <1>2, <1>3, <2>1, <2>2, <2>3
<1> QED BY <1>1, <1>6, <1>7 DEF Header, c

(* The recursive definition of Encoded has a solution.                     *)
LEMMA EncodedUnfolds ==
  Encoded = [m \in 0 .. Len(Contents) |->
               IF m = 0 THEN <<>> ELSE Encoded[m - 1] \o Encode(m)]
<1> DEFINE Solves(g, n) ==
             g = [m \in 0 .. n |->
                    IF m = 0 THEN <<>> ELSE g[m - 1] \o Encode(m)]
           S == {n \in Nat : \E g : Solves(g, n)}
<1>1. 0 \in S
  <2> DEFINE g == [m \in 0 .. 0 |-> <<>>]
  <2>1. Solves(g, 0)
    OBVIOUS
  <2> QED BY <2>1
<1>2. ASSUME NEW n \in Nat, n \in S PROVE n + 1 \in S
  <2>1. PICK g : Solves(g, n)
    BY <1>2
  <2> DEFINE f == [m \in 0 .. n + 1 |-> IF m <= n THEN g[m]
                                        ELSE g[n] \o Encode(n + 1)]
  <2>2. \A m \in 0 .. n + 1 :
          f[m] = IF m = 0 THEN <<>> ELSE f[m - 1] \o Encode(m)
    <3>1. SUFFICES ASSUME NEW m \in 0 .. n + 1
                   PROVE  f[m] = IF m = 0 THEN <<>> ELSE f[m - 1] \o Encode(m)
      OBVIOUS
    <3>2. CASE m <= n
      <4>1. m \in 0 .. n /\ (m # 0 => m - 1 \in 0 .. n + 1 /\ m - 1 <= n)
        BY <3>2
      <4>2. g[m] = IF m = 0 THEN <<>> ELSE g[m - 1] \o Encode(m)
        BY <2>1, <4>1
      <4> QED BY <3>2, <4>1, <4>2
    <3>3. CASE m = n + 1
      BY <2>1, <3>3
    <3> QED BY <3>2, <3>3
  <2>3. f = [m \in 0 .. n + 1 |-> f[m]]
    OBVIOUS
  <2> HIDE DEF f
  <2>4. f = [m \in 0 .. n + 1 |-> IF m = 0 THEN <<>>
                                  ELSE f[m - 1] \o Encode(m)]
    BY <2>2, <2>3
  <2>5. n + 1 \in Nat
    OBVIOUS
  <2>6. Solves(f, n + 1)
    BY <2>4
  <2> HIDE DEF Solves
  <2> QED BY <2>5, <2>6
<1> HIDE DEF S
<1>3. Nat \subseteq S
  BY <1>1, <1>2, Induction
<1>4. PICK g : Solves(g, Len(Contents))
  BY <1>3, ContentsTyped DEF S
<1> QED BY <1>4 DEF Encoded

(* Each message comes after the ones before.                               *)
LEMMA EncodedTyped ==
  ASSUME NEW m \in 0 .. Len(Contents)
  PROVE  Encoded[m] \in Seq(Pieces)
<1> DEFINE S == {n \in Nat : n <= Len(Contents) => Encoded[n] \in Seq(Pieces)}
<1>1. \A n \in 0 .. Len(Contents) :
        Encoded[n] = IF n = 0 THEN <<>> ELSE Encoded[n - 1] \o Encode(n)
  BY EncodedUnfolds
<1>2. 0 \in S
  <2>1. 0 \in 0 .. Len(Contents)
    BY ContentsTyped
  <2> QED BY <1>1, <2>1, EmptySeq
<1>3. ASSUME NEW n \in Nat, n \in S PROVE n + 1 \in S
  <2>1. CASE n + 1 <= Len(Contents)
    <3>1. n <= Len(Contents) /\ n + 1 \in 1 .. Len(Contents) /\ n + 1 - 1 = n
      BY <2>1, ContentsTyped
    <3>2. Encoded[n] \in Seq(Pieces) /\ Encode(n + 1) \in Seq(Pieces)
      BY <1>3, <3>1, EncodeLayout
    <3>3. Encoded[n] \o Encode(n + 1) \in Seq(Pieces)
      BY <3>2, ConcatProperties
    <3>4. Encoded[n + 1] = Encoded[n] \o Encode(n + 1)
      <4> DEFINE c == n + 1
      <4>1. c \in 0 .. Len(Contents) /\ c # 0 /\ c - 1 = n
        BY <3>1
      <4> HIDE DEF c
      <4>2. Encoded[c] = Encoded[c - 1] \o Encode(c)
        BY <1>1, <4>1
      <4> QED BY <4>1, <4>2 DEF c
    <3>5. Encoded[n + 1] \in Seq(Pieces)
      BY <3>3, <3>4
    <3> QED BY <3>5
  <2>2. CASE ~ (n + 1 <= Len(Contents))
    BY <2>2
  <2> QED BY <2>1, <2>2
<1> HIDE DEF S
<1>4. m \in S
  BY <1>2, <1>3, Induction, ContentsTyped, SMTT(30)
<1> QED BY <1>4, ContentsTyped DEF S

(* A message comes behind what was sent before.                            *)
LEMMA EncodedGrows ==
  ASSUME NEW m \in 1 .. Len(Contents)
  PROVE  /\ m - 1 \in 0 .. Len(Contents) /\ m \in 0 .. Len(Contents)
         /\ Len(Encoded[m - 1]) \in Nat /\ Len(Encode(m)) \in Nat
         /\ Len(Encoded[m]) = Len(Encoded[m - 1]) + Len(Encode(m))
         /\ \A i \in 1 .. Len(Encoded[m - 1]) :
              Encoded[m][i] = Encoded[m - 1][i]
         /\ \A j \in 1 .. Len(Encode(m)) :
              Encoded[m][Len(Encoded[m - 1]) + j] = Encode(m)[j]
<1>1. m - 1 \in 0 .. Len(Contents) /\ m \in 0 .. Len(Contents) /\ m # 0
  BY ContentsTyped
<1>2. Encoded[m - 1] \in Seq(Pieces) /\ Encode(m) \in Seq(Pieces)
  BY <1>1, EncodedTyped, EncodeLayout
<1>3. Encoded[m] = Encoded[m - 1] \o Encode(m)
  BY <1>1, EncodedUnfolds
<1> DEFINE a == Encoded[m - 1]
           b == Encode(m)
<1>4. a \in Seq(Pieces) /\ b \in Seq(Pieces) /\ Encoded[m] = a \o b
  BY <1>2, <1>3
<1> HIDE DEF a, b
<1>5. /\ Len(a \o b) = Len(a) + Len(b)
      /\ Len(a) \in Nat /\ Len(b) \in Nat
      /\ \A i \in 1 .. Len(a) : (a \o b)[i] = a[i]
      /\ \A i \in 1 .. Len(b) : (a \o b)[Len(a) + i] = b[i]
  BY ONLY <1>4, Joined
<1> QED BY <1>1, <1>4, <1>5 DEF a, b

(* What was sent begins with the first messages.                           *)
LEMMA EncodedPrefix ==
  ASSUME NEW n \in 0 .. Len(Contents), NEW m \in 0 .. n
  PROVE  /\ Len(Encoded[m]) <= Len(Encoded[n])
         /\ \A i \in 1 .. Len(Encoded[m]) : Encoded[n][i] = Encoded[m][i]
<1> DEFINE Begins(a, b) == /\ Len(Encoded[a]) <= Len(Encoded[b])
                           /\ \A i \in 1 .. Len(Encoded[a]) :
                                Encoded[b][i] = Encoded[a][i]
           S == {k \in Nat : k <= Len(Contents) =>
                               \A a \in 0 .. k : Begins(a, k)}
<1>1. \A k \in 0 .. Len(Contents) : Len(Encoded[k]) \in Nat
  BY EncodedTyped, LenProperties
<1>2. 0 \in S
  <2>1. 0 \in 0 .. Len(Contents) /\ \A a \in 0 .. 0 : a = 0
    BY ContentsTyped
  <2>2. Begins(0, 0)
    BY <1>1, <2>1
  <2> HIDE DEF Begins
  <2> QED BY <2>1, <2>2
<1>3. ASSUME NEW k \in Nat, k \in S PROVE k + 1 \in S
  <2>1. CASE k + 1 <= Len(Contents)
    <3>1. k <= Len(Contents) /\ k + 1 \in 1 .. Len(Contents) /\ k + 1 - 1 = k
      BY <2>1, ContentsTyped
    <3>2. /\ Len(Encoded[k]) \in Nat /\ Len(Encode(k + 1)) \in Nat
          /\ Len(Encoded[k + 1]) = Len(Encoded[k]) + Len(Encode(k + 1))
          /\ \A i \in 1 .. Len(Encoded[k]) : Encoded[k + 1][i] = Encoded[k][i]
      <4> DEFINE c == k + 1
      <4>1. c \in 1 .. Len(Contents) /\ c - 1 = k
        BY <3>1
      <4> HIDE DEF c
      <4>2. /\ Len(Encoded[c - 1]) \in Nat /\ Len(Encode(c)) \in Nat
            /\ Len(Encoded[c]) = Len(Encoded[c - 1]) + Len(Encode(c))
            /\ \A i \in 1 .. Len(Encoded[c - 1]) :
                 Encoded[c][i] = Encoded[c - 1][i]
        BY <4>1, EncodedGrows
      <4> QED BY <4>1, <4>2 DEF c
    <3>3. \A a \in 0 .. k : Begins(a, k)
      BY <1>3, <3>1
    <3>4. ASSUME NEW a \in 0 .. k PROVE Begins(a, k + 1)
      <4>1. /\ Len(Encoded[a]) <= Len(Encoded[k])
            /\ \A i \in 1 .. Len(Encoded[a]) : Encoded[k][i] = Encoded[a][i]
        BY <3>3
      <4>2. a \in 0 .. Len(Contents)
        BY <3>1, ContentsTyped
      <4>3. Len(Encoded[a]) \in Nat
        BY <1>1, <4>2
      <4>4. \A i \in 1 .. Len(Encoded[a]) : i \in 1 .. Len(Encoded[k])
        BY <3>2, <4>1, <4>3
      <4>5. Len(Encoded[a]) <= Len(Encoded[k + 1])
        <5>1. \A x, y, z \in Nat : x <= y => x <= y + z
          OBVIOUS
        <5> QED BY <3>2, <4>1, <4>3, <5>1
      <4> QED BY <3>2, <4>1, <4>4, <4>5
    <3>5. Begins(k + 1, k + 1)
      <4>1. k + 1 \in 0 .. Len(Contents)
        BY <3>1
      <4>2. Len(Encoded[k + 1]) \in Nat
        BY <1>1, <4>1
      <4> QED BY <4>2
    <3>6. \A a \in 0 .. k + 1 : a \in 0 .. k \/ a = k + 1
      OBVIOUS
    <3> HIDE DEF Begins
    <3> QED BY <3>4, <3>5, <3>6
  <2>2. CASE ~ (k + 1 <= Len(Contents))
    BY <2>2
  <2> QED BY <2>1, <2>2
<1>4. Nat \subseteq S
  <2> HIDE DEF S
  <2> QED BY <1>2, <1>3, Induction
<1>5. n \in Nat /\ n <= Len(Contents)
  BY ContentsTyped
<1>6. Begins(m, n)
  <2> HIDE DEF Begins
  <2> QED BY <1>4, <1>5
<1> QED BY <1>6

(* What the server sends, piece by piece.                                  *)
LEMMA SentLayout ==
  ASSUME NEW m \in 1 .. Len(Contents)
  PROVE  /\ Len(Encoded[m - 1]) \in Nat /\ Before(m) \in {0, 2}
         /\ Len(Encoded[m]) = Len(Encoded[m - 1]) + Header(m) + Len(Contents[m])
         /\ Len(Encoded[m]) <= Len(Sent)
         /\ Before(m) = 2 => /\ Sent[Len(Encoded[m - 1]) + 1] = ContentType
                             /\ Sent[Len(Encoded[m - 1]) + 2] = NewLine
         /\ Sent[Len(Encoded[m - 1]) + Before(m) + 1] = Name
         /\ Sent[Len(Encoded[m - 1]) + Before(m) + 2] = Number(Len(Contents[m]))
         /\ Sent[Len(Encoded[m - 1]) + Before(m) + 3] = NewLine
         /\ Sent[Len(Encoded[m - 1]) + Before(m) + 4] = NewLine
         /\ \A i \in 1 .. Len(Contents[m]) :
              Sent[Len(Encoded[m - 1]) + Header(m) + i] = Content(m)[i]
<1> DEFINE B == Len(Encoded[m - 1])
           L == Len(Encode(m))
<1>1. /\ B \in Nat /\ L \in Nat /\ Len(Encoded[m]) = B + L
      /\ \A j \in 1 .. L : Encoded[m][B + j] = Encode(m)[j]
  BY EncodedGrows
<1>2. /\ Len(Encoded[m]) <= Len(Sent)
      /\ \A i \in 1 .. Len(Encoded[m]) : Sent[i] = Encoded[m][i]
  <2>1. Len(Contents) \in 0 .. Len(Contents) /\ m \in 0 .. Len(Contents)
    BY ContentsTyped
  <2> QED BY <2>1, EncodedPrefix DEF Sent
<1>3. /\ L = Header(m) + Len(Contents[m]) /\ Len(Contents[m]) \in Nat
      /\ Before(m) \in {0, 2} /\ Header(m) = Before(m) + 4
  BY EncodeLayout, ContentsTyped DEF Before, Header
<1> HIDE DEF B, L
<1>4. \A j \in 1 .. L : Sent[B + j] = Encode(m)[j]
  <2>1. \A j \in 1 .. L : B + j \in 1 .. Len(Encoded[m])
    BY <1>1
  <2> QED BY <1>1, <1>2, <2>1
<1>5. /\ Before(m) = 2 => 1 \in 1 .. L /\ 2 \in 1 .. L
      /\ Before(m) + 1 \in 1 .. L /\ Before(m) + 2 \in 1 .. L
      /\ Before(m) + 3 \in 1 .. L /\ Before(m) + 4 \in 1 .. L
      /\ \A i \in 1 .. Len(Contents[m]) : Header(m) + i \in 1 .. L
  <2> DEFINE l == Len(Contents[m])
             h == Header(m)
  <2>1. L = h + l /\ l \in Nat /\ Before(m) \in {0, 2} /\ h = Before(m) + 4
    BY <1>3
  <2> HIDE DEF l, h
  <2>2. \A i \in 1 .. l : h + i \in 1 .. L
    BY <2>1
  <2>3. /\ Before(m) = 2 => 1 \in 1 .. L /\ 2 \in 1 .. L
        /\ Before(m) + 1 \in 1 .. L /\ Before(m) + 2 \in 1 .. L
        /\ Before(m) + 3 \in 1 .. L /\ Before(m) + 4 \in 1 .. L
    BY <2>1
  <2> QED BY <2>2, <2>3 DEF l, h
<1>6. /\ Before(m) = 2 => Sent[B + 1] = ContentType /\ Sent[B + 2] = NewLine
      /\ Sent[B + (Before(m) + 1)] = Name
      /\ Sent[B + (Before(m) + 2)] = Number(Len(Contents[m]))
      /\ Sent[B + (Before(m) + 3)] = NewLine
      /\ Sent[B + (Before(m) + 4)] = NewLine
      /\ \A i \in 1 .. Len(Contents[m]) :
           Sent[B + (Header(m) + i)] = Content(m)[i]
  BY <1>4, <1>5, EncodeLayout
<1>7. /\ \A k \in 1 .. 4 : B + (Before(m) + k) = B + Before(m) + k
      /\ \A i \in 1 .. Len(Contents[m]) :
           B + (Header(m) + i) = B + Header(m) + i
      /\ B + L = B + Header(m) + Len(Contents[m])
  <2> DEFINE l == Len(Contents[m])
             h == Header(m)
  <2>1. L = h + l /\ l \in Nat /\ Before(m) \in {0, 2} /\ h = Before(m) + 4
    BY <1>3
  <2> HIDE DEF l, h
  <2>2. B + L = B + h + l /\ \A i \in 1 .. l : B + (h + i) = B + h + i
    <3>1. B \in Nat /\ h \in Nat /\ l \in Nat
      BY ONLY <1>1, <2>1
    <3>2. \A x, y, z \in Nat : x + (y + z) = x + y + z
      OBVIOUS
    <3> QED BY <2>1, <3>1, <3>2
  <2>3. \A k \in 1 .. 4 : B + (Before(m) + k) = B + Before(m) + k
    BY <1>1, <2>1, SMTT(30)
  <2> QED BY <2>2, <2>3 DEF l, h
<1>8. /\ Sent[B + Before(m) + 1] = Name
      /\ Sent[B + Before(m) + 2] = Number(Len(Contents[m]))
      /\ Sent[B + Before(m) + 3] = NewLine
      /\ Sent[B + Before(m) + 4] = NewLine
      /\ \A i \in 1 .. Len(Contents[m]) :
           Sent[B + Header(m) + i] = Content(m)[i]
  BY <1>6, <1>7
<1> QED BY <1>1, <1>2, <1>3, <1>6, <1>7, <1>8 DEF B

(* The pieces of a header are told apart.                                  *)
LEMMA PiecesDiffer ==
  /\ Name # NewLine /\ ContentType # NewLine /\ Name # ContentType
  /\ \A n \in Nat : /\ Number(n) # NewLine /\ Number(n) # ContentType
                    /\ Number(n) # Name
                    /\ \A k \in Nat : Number(n) = Number(k) => n = k
  /\ Name.type # "lead" /\ ContentType.type # "lead" /\ NewLine.type # "lead"
  /\ \A n \in Nat : Number(n).type # "lead"
BY DEF Name, ContentType, NewLine, Number

(* Message m, from B on: its header, and that what is sent does not end    *)
(* inside a character.                                                     *)
LEMMA SentEnd ==
  ASSUME Len(Sent) # 0
  PROVE  Sent[Len(Sent)].type # "lead"
<1>1. /\ Len(Contents) \in Nat /\ Sent = Encoded[Len(Contents)]
      /\ Len(Contents) \in 0 .. Len(Contents)
  BY ContentsTyped DEF Sent
<1>2. Len(Contents) # 0
  <2>1. SUFFICES ASSUME Len(Contents) = 0 PROVE FALSE
    OBVIOUS
  <2>2. Encoded[Len(Contents)] = <<>>
    BY <1>1, <2>1, EncodedUnfolds
  <2> QED BY <1>1, <2>2
<1> DEFINE m == Len(Contents)
           l == Len(Contents[m])
<1>3. m \in 1 .. Len(Contents)
  BY <1>1, <1>2
<1>4. /\ Len(Sent) = Len(Encoded[m - 1]) + Header(m) + l
      /\ Len(Encoded[m - 1]) \in Nat /\ Before(m) \in {0, 2} /\ l \in Nat
      /\ Sent[Len(Encoded[m - 1]) + Before(m) + 4] = NewLine
      /\ \A i \in 1 .. l :
           Sent[Len(Encoded[m - 1]) + Header(m) + i] = Content(m)[i]
  BY <1>1, <1>3, SentLayout, ContentsTyped
<1>5. CASE l = 0
  <2>1. Sent[Len(Sent)] = NewLine
    <3>1. Len(Sent) = Len(Encoded[m - 1]) + Before(m) + 4
      <4> DEFINE B == Len(Encoded[m - 1])
      <4>1. B \in Nat /\ Before(m) \in Nat /\ Len(Sent) = B + Header(m) + 0
        BY <1>4, <1>5
      <4> HIDE DEF B
      <4>2. Len(Sent) = B + Before(m) + 4
        BY <4>1 DEF Header
      <4> QED BY <4>2 DEF B
    <3> QED BY <1>4, <3>1
  <2> QED BY <2>1, PiecesDiffer
<1>6. CASE l # 0
  <2>1. l \in 1 .. l
    BY <1>4, <1>6
  <2>2. Sent[Len(Sent)] = Content(m)[l]
    BY <1>4, <2>1
  <2>3. Content(m)[l].type = Contents[m][l]
    BY <2>1 DEF Content
  <2>4. Contents[m][l] # "lead"
    <3>1. Contents[m] # <<>>
      BY <1>3, <1>6, ContentsTyped
    <3>2. Last(Contents[m]) # "lead"
      BY <1>3, <3>1, MessageReaderAssumption
    <3> QED BY <3>2 DEF Last
  <2> QED BY <2>2, <2>3, <2>4
<1> QED BY <1>5, <1>6

(* A slice of what was sent.                                               *)
LEMMA SliceElements ==
  ASSUME NEW T, sent \in Seq(T), NEW a \in Nat, NEW b \in Nat,
         a <= b, b <= Len(sent)
  PROVE  /\ Slice(a, b) \in Seq(T) /\ Len(Slice(a, b)) = b - a
         /\ \A i \in 1 .. b - a : Slice(a, b)[i] = sent[a + i]
         /\ DOMAIN Slice(a, b) = 1 .. b - a
         /\ Slice(a, b) = <<>> <=> a = b
<1>1. Len(sent) \in Nat /\ \A i \in 1 .. Len(sent) : sent[i] \in T
  BY LenProperties, ElementOfSeq
<1>2. \A i \in a + 1 .. b : sent[i] \in T
  BY <1>1
<1>3. a + 1 \in Int /\ b \in Int
  OBVIOUS
<1>4. /\ SubSeq(sent, a + 1, b) \in Seq(T)
      /\ Len(SubSeq(sent, a + 1, b)) = IF a + 1 <= b THEN b - (a + 1) + 1 ELSE 0
      /\ \A i \in 1 .. b - (a + 1) + 1 :
           SubSeq(sent, a + 1, b)[i] = sent[a + 1 + i - 1]
  BY <1>2, <1>3, SubSeqProperties
<1>5. /\ b - (a + 1) + 1 = b - a /\ (~ (a + 1 <= b) => b - a = 0)
      /\ \A i \in 1 .. b - a : a + 1 + i - 1 = a + i
  OBVIOUS
<1>6. /\ Slice(a, b) \in Seq(T) /\ Len(Slice(a, b)) = b - a
      /\ \A i \in 1 .. b - a : Slice(a, b)[i] = sent[a + i]
  <2>1. \A i \in 1 .. b - a : SubSeq(sent, a + 1, b)[i] = sent[a + i]
    BY <1>4, <1>5
  <2> QED BY <1>4, <1>5, <2>1 DEF Slice
<1>7. DOMAIN Slice(a, b) = 1 .. b - a
  BY <1>6, LenProperties
<1>8. Slice(a, b) = <<>> <=> a = b
  BY <1>6, EmptySeq
<1> QED BY <1>6, <1>7, <1>8

(* A slice of a slice, and two slices that meet.                           *)
LEMMA SliceOfSlice ==
  ASSUME NEW T, sent \in Seq(T), NEW a \in Nat, NEW b \in Nat,
         a <= b, b <= Len(sent),
         NEW i \in 0 .. b - a, NEW k \in i .. b - a
  PROVE  SubSeq(Slice(a, b), i + 1, k) = Slice(a + i, a + k)
<1> DEFINE s == Slice(a, b)
           r == Slice(a + i, a + k)
<1>1. /\ s \in Seq(T) /\ Len(s) = b - a
      /\ \A x \in 1 .. b - a : s[x] = sent[a + x]
  BY SliceElements
<1>2. /\ a + i \in Nat /\ a + k \in Nat /\ a + i <= a + k /\ a + k <= Len(sent)
      /\ a + k - (a + i) = k - i
  <2>1. Len(sent) \in Nat
    BY LenProperties
  <2> QED BY <2>1
<1>3. /\ r \in Seq(T) /\ Len(r) = k - i
      /\ \A x \in 1 .. k - i : r[x] = sent[a + i + x]
  <2> DEFINE from == a + i
             to == a + k
  <2>1. from \in Nat /\ to \in Nat /\ from <= to /\ to <= Len(sent)
    BY <1>2
  <2> HIDE DEF from, to
  <2>2. /\ Slice(from, to) \in Seq(T) /\ Len(Slice(from, to)) = to - from
        /\ \A x \in 1 .. to - from : Slice(from, to)[x] = sent[from + x]
    BY <2>1, SliceElements
  <2> QED BY <1>2, <2>2 DEF from, to
<1> HIDE DEF s, r
<1>4. \A x \in 1 .. Len(s) : s[x] \in T
  BY <1>1, ElementOfSeq
<1>5. \A x \in i + 1 .. k : s[x] \in T
  BY <1>1, <1>4
<1>6. /\ SubSeq(s, i + 1, k) \in Seq(T)
      /\ Len(SubSeq(s, i + 1, k)) = IF i + 1 <= k THEN k - (i + 1) + 1 ELSE 0
      /\ \A x \in 1 .. k - (i + 1) + 1 :
           SubSeq(s, i + 1, k)[x] = s[i + 1 + x - 1]
  <2>1. i + 1 \in Int /\ k \in Int
    OBVIOUS
  <2> QED BY <1>5, <2>1, SubSeqProperties
<1>7. /\ Len(SubSeq(s, i + 1, k)) = k - i
      /\ k - (i + 1) + 1 = k - i
  BY <1>6
<1>8. ASSUME NEW x \in 1 .. k - i PROVE SubSeq(s, i + 1, k)[x] = r[x]
  <2>1. i + 1 + x - 1 = i + x /\ i + x \in 1 .. b - a /\ a + (i + x) = a + i + x
    OBVIOUS
  <2>2. SubSeq(s, i + 1, k)[x] = s[i + x]
    BY <1>6, <1>7, <2>1
  <2> QED BY <1>1, <1>3, <2>1, <2>2
<1>9. SubSeq(s, i + 1, k) = r
  BY <1>3, <1>6, <1>7, <1>8, SeqEqual
<1> QED BY <1>9 DEF s, r

(* Two slices that meet.                                                   *)
LEMMA SlicesMeet ==
  ASSUME NEW T, sent \in Seq(T), NEW a \in Nat, NEW b \in Nat, NEW c \in Nat,
         a <= b, b <= c, c <= Len(sent)
  PROVE  Slice(a, b) \o Slice(b, c) = Slice(a, c)
<1>1. Len(sent) \in Nat
  BY LenProperties
<1>2. /\ a + 1 \in 1 .. Len(sent) + 1 /\ b \in a + 1 - 1 .. Len(sent)
      /\ c \in b .. Len(sent)
  BY <1>1
<1>3. SubSeq(sent, a + 1, b) \o SubSeq(sent, b + 1, c) = SubSeq(sent, a + 1, c)
  BY <1>2, ConcatAdjacentSubSeq
<1> QED BY <1>3 DEF Slice

(* What the reader holds.                                                  *)
LEMMA Held ==
  ASSUME SliceInv
  PROVE  /\ Len(sent) \in Nat /\ Len(Sent) \in Nat
         /\ Arrived \in Nat /\ Base \in Nat /\ Base <= Arrived
         /\ Arrived <= Len(sent)
         /\ stream \in Seq(ToSet(Sent)) /\ Len(stream) = Len(sent) - Arrived
         /\ \A i \in 1 .. Len(stream) : stream[i] = sent[Arrived + i]
         /\ stream = <<>> <=> Arrived = Len(sent)
         /\ data \in Seq(ToSet(Sent)) /\ Len(data) = Arrived - Base
         /\ \A i \in 1 .. Len(data) : data[i] = sent[Base + i]
         /\ data = <<>> <=> Base = Arrived
         /\ DOMAIN stream = 1 .. Len(stream) /\ DOMAIN data = 1 .. Len(data)
<1> DEFINE A == Arrived
           B == Base
           L == Len(sent)
<1>1. /\ sent \in Seq(ToSet(Sent)) /\ L <= Len(Sent)
      /\ A \in 0 .. L /\ stream = Slice(A, L)
      /\ B \in 0 .. A /\ data = Slice(B, A)
  BY DEF SliceInv
<1>2. L \in Nat
  BY <1>1, LenProperties
<1>3. Len(Sent) \in Nat
  <2>1. Len(Contents) \in 0 .. Len(Contents)
    BY ContentsTyped
  <2>2. Sent \in Seq(Pieces)
    BY <2>1, EncodedTyped DEF Sent
  <2> QED BY <2>2, LenProperties
<1> HIDE DEF A, B
<1>4. /\ Slice(A, L) \in Seq(ToSet(Sent)) /\ Len(Slice(A, L)) = L - A
      /\ \A i \in 1 .. L - A : Slice(A, L)[i] = sent[A + i]
      /\ DOMAIN Slice(A, L) = 1 .. L - A
      /\ Slice(A, L) = <<>> <=> A = L
  <2>1. /\ A \in Nat /\ L \in Nat /\ A <= L /\ L <= Len(sent)
        /\ sent \in Seq(ToSet(Sent))
    BY <1>1, <1>2
  <2> QED BY ONLY <2>1, SliceElements
<1>5. /\ Slice(B, A) \in Seq(ToSet(Sent)) /\ Len(Slice(B, A)) = A - B
      /\ \A i \in 1 .. A - B : Slice(B, A)[i] = sent[B + i]
      /\ DOMAIN Slice(B, A) = 1 .. A - B
      /\ Slice(B, A) = <<>> <=> B = A
  <2>1. /\ B \in Nat /\ A \in Nat /\ B <= A /\ A <= Len(sent)
        /\ sent \in Seq(ToSet(Sent))
    BY <1>1, <1>2
  <2> QED BY ONLY <2>1, SliceElements
<1> HIDE DEF L
<1>6. A \in Nat /\ B \in Nat /\ B <= A /\ A <= L
  BY <1>1, <1>2
<1>7. /\ stream \in Seq(ToSet(Sent)) /\ Len(stream) = L - A
      /\ \A i \in 1 .. Len(stream) : stream[i] = sent[A + i]
      /\ stream = <<>> <=> A = L
      /\ DOMAIN stream = 1 .. Len(stream)
  BY <1>1, <1>4
<1>8. /\ data \in Seq(ToSet(Sent)) /\ Len(data) = A - B
      /\ \A i \in 1 .. Len(data) : data[i] = sent[B + i]
      /\ data = <<>> <=> B = A
      /\ DOMAIN data = 1 .. Len(data)
  BY <1>1, <1>5
<1> QED BY <1>2, <1>3, <1>6, <1>7, <1>8 DEF A, B, L

(* A step after which the stream begins at a, and data at b.               *)
LEMMA SliceStep ==
  ASSUME SliceInv, UNCHANGED inputVars,
         NEW a \in 0 .. Len(sent), NEW b \in 0 .. a,
         stream' = Slice(a, Len(sent)), data' = Slice(b, a),
         length' \in Nat \cup {-1}, readBytes' \in Nat, contentRead' \in Nat
  PROVE  /\ SliceInv' /\ Arrived' = a /\ Base' = b
         /\ Len(data') = a - b /\ Len(stream') = Len(sent) - a
         /\ Len(sent) \in Nat /\ data' \in Seq(ToSet(Sent))
         /\ stream' = <<>> <=> a = Len(sent)
         /\ data' = <<>> <=> b = a
         /\ \A i \in 1 .. a - b : data'[i] = sent[b + i]
<1>1. sent' = sent /\ reads' = reads
  BY DEF inputVars
<1>2. sent \in Seq(ToSet(Sent)) /\ Len(sent) \in Nat
  BY LenProperties DEF SliceInv
<1>3. /\ Len(stream') = Len(sent) - a /\ Len(data') = a - b
      /\ data' \in Seq(ToSet(Sent))
      /\ stream' = <<>> <=> a = Len(sent)
      /\ data' = <<>> <=> b = a
      /\ \A i \in 1 .. a - b : data'[i] = sent[b + i]
  <2>1. /\ a \in Nat /\ b \in Nat /\ a <= Len(sent) /\ b <= a
        /\ sent \in Seq(ToSet(Sent)) /\ Len(sent) \in Nat
        /\ Len(sent) <= Len(sent)
    BY <1>2
  <2>2. /\ Len(Slice(a, Len(sent))) = Len(sent) - a
        /\ Slice(a, Len(sent)) = <<>> <=> a = Len(sent)
    BY ONLY <2>1, SliceElements
  <2>3. /\ Len(Slice(b, a)) = a - b /\ Slice(b, a) \in Seq(ToSet(Sent))
        /\ Slice(b, a) = <<>> <=> b = a
        /\ \A i \in 1 .. a - b : Slice(b, a)[i] = sent[b + i]
    BY ONLY <2>1, SliceElements
  <2> QED BY <2>2, <2>3
<1>4. Arrived' = a
  BY <1>1, <1>2, <1>3 DEF Arrived
<1>5. Base' = b
  BY <1>2, <1>3, <1>4 DEF Base
<1>6. SliceInv'
  <2>1. /\ stream' = Slice(Arrived, Len(sent))'
        /\ data' = Slice(Base, Arrived)'
    BY <1>1, <1>4, <1>5 DEF Slice
  <2> QED BY <1>1, <1>4, <1>5, <2>1 DEF SliceInv
<1> QED BY <1>2, <1>3, <1>4, <1>5, <1>6

(* A step that neither reads nor forgets.                                  *)
LEMMA StillHeld ==
  ASSUME SliceInv, UNCHANGED <<inputVars, stream, data>>,
         length' \in Nat \cup {-1}, readBytes' \in Nat, contentRead' \in Nat
  PROVE  /\ SliceInv' /\ Arrived' = Arrived /\ Base' = Base
<1>1. UNCHANGED <<reads, sent, stream, data>>
  BY DEF inputVars
<1>2. Arrived' = Arrived /\ Base' = Base
  BY <1>1 DEF Arrived, Base
<1> QED BY <1>1, <1>2 DEF SliceInv, Slice

(* A read of n pieces.                                                     *)
LEMMA TakeRead ==
  ASSUME SliceInv, UNCHANGED inputVars, NEW n \in 0 .. Len(stream), Take(n),
         length' \in Nat \cup {-1}, readBytes' \in Nat, contentRead' \in Nat
  PROVE  /\ SliceInv' /\ Base' = Arrived /\ Arrived' = Arrived + n
         /\ Len(data') = n /\ Len(stream') = Len(stream) - n
         /\ SubSeq(stream, 1, n) = Slice(Arrived, Arrived + n)
         /\ data' \in Seq(ToSet(Sent)) /\ (data' = <<>> <=> n = 0)
         /\ stream' = <<>> <=> n = Len(stream)
         /\ \A i \in 1 .. n : data'[i] = sent[Arrived + i]
<1> DEFINE A == Arrived
           L == Len(sent)
           a == A + n
<1>1. /\ A \in Nat /\ A <= L /\ L \in Nat /\ Len(stream) = L - A
      /\ stream = Slice(A, L) /\ sent \in Seq(ToSet(Sent))
  BY Held DEF SliceInv
<1>2. n \in 0 .. L - A /\ L - A \in n .. L - A /\ 0 \in 0 .. L - A
  BY <1>1
<1> HIDE DEF A, L
<1>3. SubSeq(stream, 1, n) = Slice(A, a)
  <2>1. 0 \in 0 .. L - A /\ n \in 0 .. L - A /\ A + 0 = A /\ 0 + 1 = 1
    BY <1>1, <1>2
  <2>2. SubSeq(Slice(A, L), 0 + 1, n) = Slice(A + 0, A + n)
    <3>1. /\ A \in Nat /\ L \in Nat /\ A <= L /\ L <= Len(sent)
          /\ sent \in Seq(ToSet(Sent)) /\ n \in 0 .. L - A
      BY <1>1, <1>2 DEF L
    <3>2. 0 \in 0 .. L - A /\ n \in 0 .. L - A
      BY <1>2
    <3> QED BY ONLY <3>1, <3>2, SliceOfSlice
  <2> QED BY <1>1, <2>1, <2>2
<1>4. SubSeq(stream, n + 1, Len(stream)) = Slice(a, L)
  <2>1. n \in 0 .. L - A /\ L - A \in n .. L - A /\ A + (L - A) = L
    BY <1>1, <1>2
  <2>2. SubSeq(Slice(A, L), n + 1, L - A) = Slice(A + n, A + (L - A))
    <3>1. /\ A \in Nat /\ L \in Nat /\ A <= L /\ L <= Len(sent)
          /\ sent \in Seq(ToSet(Sent)) /\ n \in 0 .. L - A
          /\ L - A \in n .. L - A
      BY <1>1, <1>2 DEF L
    <3> QED BY ONLY <3>1, SliceOfSlice
  <2> QED BY <1>1, <2>1, <2>2
<1>5. a \in 0 .. L /\ A \in 0 .. a /\ a - A = n /\ L - a = L - A - n
  BY <1>1, <1>2
<1>6. stream' = Slice(a, L) /\ data' = Slice(A, a)
  BY <1>3, <1>4 DEF Take
<1> HIDE DEF a
<1>7. /\ SliceInv' /\ Arrived' = a /\ Base' = A
      /\ Len(data') = a - A /\ Len(stream') = L - a
      /\ data' \in Seq(ToSet(Sent)) /\ (data' = <<>> <=> A = a)
      /\ stream' = <<>> <=> a = L
      /\ \A i \in 1 .. a - A : data'[i] = sent[A + i]
  BY <1>5, <1>6, SliceStep DEF L
<1>8. (A = a <=> n = 0) /\ (a = L <=> n = Len(stream))
  BY <1>1, <1>2 DEF a
<1> QED BY <1>1, <1>3, <1>5, <1>7, <1>8 DEF a, A, L

(* What is left of data from readBytes on.                                 *)
LEMMA RestOfData ==
  ASSUME SliceInv, readBytes <= Len(data)
  PROVE  /\ SubSeq(data, readBytes + 1, Len(data)) = Slice(Position, Arrived)
         /\ Position \in 0 .. Arrived /\ Position \in Nat
         /\ Position = Base + readBytes
         /\ Len(SubSeq(data, readBytes + 1, Len(data))) = Len(data) - readBytes
<1> DEFINE A == Arrived
           B == Base
<1>1. /\ A \in Nat /\ A <= Len(sent) /\ Len(sent) \in Nat /\ B \in Nat /\ B <= A
      /\ Len(data) = A - B /\ data = Slice(B, A) /\ sent \in Seq(ToSet(Sent))
      /\ readBytes \in Nat
  BY Held DEF SliceInv
<1> HIDE DEF A, B
<1>2. readBytes \in 0 .. A - B /\ A - B \in readBytes .. A - B
      /\ B + (A - B) = A
  BY <1>1
<1>3. SubSeq(Slice(B, A), readBytes + 1, A - B)
        = Slice(B + readBytes, B + (A - B))
  BY <1>1, <1>2, SliceOfSlice
<1>4. Position = B + readBytes
  BY DEF Position, B
<1>5. Position \in 0 .. A /\ Position \in Nat
      /\ A - Position = Len(data) - readBytes
  BY <1>1, <1>2, <1>4
<1>6. SubSeq(data, readBytes + 1, Len(data)) = Slice(Position, A)
  BY <1>1, <1>2, <1>3, <1>4
<1>7. Len(Slice(Position, A)) = A - Position
  BY <1>1, <1>5, SliceElements
<1> QED BY <1>4, <1>5, <1>6, <1>7 DEF A, B

(* The message that is read.                                               *)
LEMMA CurrentMessage ==
  ASSUME SliceInv, dispatched \in Seq(ToSet(dispatched)), Framing
  PROVE  /\ Len(dispatched) \in 0 .. Len(Contents) /\ Len(Contents) \in Nat
         /\ Current = Len(dispatched) + 1 /\ Current - 1 = Len(dispatched)
         /\ Start \in Nat /\ Start <= Len(Sent)
         /\ Current <= Len(Contents) => Current \in 1 .. Len(Contents)
         /\ ~ (Current <= Len(Contents)) => Start = Len(Sent)
<1>1. /\ Len(dispatched) \in Nat /\ Len(dispatched) <= Len(Contents)
      /\ Len(Contents) \in Nat
  BY LenProperties, ContentsTyped DEF Framing
<1> DEFINE d == Len(dispatched)
<1>2. d \in 0 .. Len(Contents) /\ Len(Contents) \in 0 .. Len(Contents)
  BY <1>1
<1>3. Len(Encoded[d]) \in Nat /\ Len(Encoded[d]) <= Len(Encoded[Len(Contents)])
  <2>1. d \in 0 .. Len(Contents)
    BY <1>2
  <2>2. Encoded[d] \in Seq(Pieces)
    BY <2>1, EncodedTyped
  <2> HIDE DEF d
  <2> QED BY <1>2, <2>1, <2>2, EncodedPrefix, LenProperties
<1>4. ~ (d + 1 <= Len(Contents)) => d = Len(Contents)
  BY <1>1
<1> QED BY <1>1, <1>2, <1>3, <1>4 DEF Current, Start, Sent

(* Its header, as far as it was sent.                                      *)
LEMMA CurrentHeader ==
  ASSUME SliceInv, dispatched \in Seq(ToSet(dispatched)), Framing,
         Current <= Len(Contents)
  PROVE  /\ Before(Current) \in {0, 2} /\ Len(Contents[Current]) \in Nat
         /\ Start \in Nat
         /\ Header(Current) = Before(Current) + 4
         /\ Len(Encoded[Current])
              = Start + Header(Current) + Len(Contents[Current])
         /\ Start + Header(Current) + Len(Contents[Current]) <= Len(Sent)
         /\ \A j \in 0 .. Before(Current) + 3 : Start + j < Len(sent) =>
              sent[Start + j + 1] =
                IF j < Before(Current)
                THEN IF j = 0 THEN ContentType ELSE NewLine
                ELSE IF j = Before(Current) THEN Name
                ELSE IF j = Before(Current) + 1
                THEN Number(Len(Contents[Current]))
                ELSE NewLine
<1> DEFINE m == Current
           B == Start
           h == Before(m)
           l == Len(Contents[m])
<1>1. m \in 1 .. Len(Contents) /\ B = Len(Encoded[m - 1])
  BY CurrentMessage DEF Start
<1>2. /\ B \in Nat /\ h \in {0, 2} /\ l \in Nat
      /\ Len(Encoded[m]) = B + Header(m) + l /\ Len(Encoded[m]) <= Len(Sent)
      /\ h = 2 => Sent[B + 1] = ContentType /\ Sent[B + 2] = NewLine
      /\ Sent[B + h + 1] = Name /\ Sent[B + h + 2] = Number(l)
      /\ Sent[B + h + 3] = NewLine /\ Sent[B + h + 4] = NewLine
  <2>1. m \in 1 .. Len(Contents)
    BY <1>1
  <2> HIDE DEF m
  <2> QED BY <1>1, <2>1, SentLayout, ContentsTyped
<1>3. Header(m) = h + 4
  BY DEF Header
<1> HIDE DEF m, B, h, l
<1>4. Len(sent) \in Nat /\ \A i \in 1 .. Len(sent) : sent[i] = Sent[i]
  BY Held DEF SliceInv
<1>5. ASSUME NEW j \in 0 .. h + 3, B + j < Len(sent)
      PROVE  sent[B + j + 1] =
               IF j < h THEN IF j = 0 THEN ContentType ELSE NewLine
               ELSE IF j = h THEN Name ELSE IF j = h + 1 THEN Number(l)
               ELSE NewLine
  <2>1. B + j + 1 \in 1 .. Len(sent)
    <3>1. B \in Nat /\ h \in Nat /\ Len(sent) \in Nat
      BY ONLY <1>2, <1>4
    <3> QED BY <1>5, <3>1
  <2>2. sent[B + j + 1] = Sent[B + j + 1]
    BY <1>4, <2>1
  <2>3. CASE h = 2 /\ j = 0
    <3>1. B + j + 1 = B + 1 /\ j < h
      BY <1>2, <2>3
    <3> QED BY <1>2, <2>2, <2>3, <3>1
  <2>4. CASE h = 2 /\ j = 1
    <3>1. B + j + 1 = B + 2 /\ j < h /\ j # 0
      BY <1>2, <2>4
    <3> QED BY <1>2, <2>2, <2>4, <3>1
  <2>5. CASE j = h
    <3>1. B + j + 1 = B + h + 1 /\ ~ (j < h)
      BY <1>2, <2>5
    <3> QED BY <1>2, <2>2, <2>5, <3>1
  <2>6. CASE j = h + 1
    <3>1. B + j + 1 = B + h + 2 /\ ~ (j < h) /\ j # h
      BY <1>2, <2>6
    <3> QED BY <1>2, <2>2, <2>6, <3>1
  <2>7. CASE j = h + 2
    <3>1. B + j + 1 = B + h + 3 /\ ~ (j < h) /\ j # h /\ j # h + 1
      BY <1>2, <2>7
    <3> QED BY <1>2, <2>2, <3>1
  <2>8. CASE j = h + 3
    <3>1. B + j + 1 = B + h + 4 /\ ~ (j < h) /\ j # h /\ j # h + 1
      BY <1>2, <2>8
    <3> QED BY <1>2, <2>2, <3>1
  <2>9. \/ h = 2 /\ j = 0
        \/ h = 2 /\ j = 1
        \/ j \in {h, h + 1, h + 2, h + 3}
    <3>1. h \in {0, 2}
      BY <1>2
    <3> QED BY <3>1
  <2> QED BY <2>3, <2>4, <2>5, <2>6, <2>7, <2>8, <2>9
<1>6. B + Header(m) + l <= Len(Sent)
  BY <1>2
<1> QED BY <1>2, <1>3, <1>5, <1>6 DEF m, B, h, l

(* Where the newlines of the header are.                                   *)
LEMMA HeaderNewLines ==
  ASSUME SliceInv, dispatched \in Seq(ToSet(dispatched)), Framing,
         Current <= Len(Contents),
         NEW j \in 0 .. Before(Current) + 3, Start + j < Len(sent)
  PROVE  /\ sent[Start + j + 1] = NewLine <=>
              \/ Before(Current) = 2 /\ j = 1
              \/ j = Before(Current) + 2 \/ j = Before(Current) + 3
         /\ sent[Start + j + 1].type # "lead"
<1> DEFINE h == Before(Current)
           l == Len(Contents[Current])
           x == sent[Start + j + 1]
<1>1. /\ h \in {0, 2} /\ l \in Nat
      /\ x = IF j < h THEN IF j = 0 THEN ContentType ELSE NewLine
             ELSE IF j = h THEN Name ELSE IF j = h + 1 THEN Number(l)
             ELSE NewLine
  BY CurrentHeader
<1> HIDE DEF h, l, x
<1>2. /\ Name # NewLine /\ ContentType # NewLine /\ Number(l) # NewLine
      /\ Name.type # "lead" /\ ContentType.type # "lead"
      /\ NewLine.type # "lead"
      /\ Number(l).type # "lead"
  BY <1>1, PiecesDiffer
<1> DEFINE ends == (h = 2 /\ j = 1) \/ j = h + 2 \/ j = h + 3
<1>3. CASE ends
  <2>1. x = NewLine
    BY <1>1, <1>3
  <2> QED BY <1>2, <1>3, <2>1 DEF h, x
<1>4. CASE ~ ends
  <2>1. x \in {ContentType, Name, Number(l)}
    <3>1. j \in 0 .. h + 3
      BY DEF h
    <3>2. CASE j < h
      <4>1. j = 0
        BY <1>1, <1>4, <3>1, <3>2
      <4> QED BY <1>1, <3>2, <4>1
    <3>3. CASE ~ (j < h)
      <4>1. j = h \/ j = h + 1
        BY <1>1, <1>4, <3>1, <3>3
      <4> QED BY <1>1, <3>3, <4>1
    <3> QED BY <3>2, <3>3
  <2>2. x # NewLine /\ x.type # "lead"
    BY <1>2, <2>1
  <2> QED BY <1>4, <2>2 DEF h, x
<1> QED BY <1>3, <1>4

(* Short slices.                                                           *)
LEMMA ShortSlices ==
  ASSUME NEW T, sent \in Seq(T), NEW a \in Nat, NEW n \in 0 .. 3,
         a + n <= Len(sent)
  PROVE  Slice(a, a + n) =
           IF n = 0 THEN <<>> ELSE IF n = 1 THEN <<sent[a + 1]>>
           ELSE IF n = 2 THEN <<sent[a + 1], sent[a + 2]>>
           ELSE <<sent[a + 1], sent[a + 2], sent[a + 3]>>
<1> DEFINE b == a + n
           s == Slice(a, b)
<1>1. a \in Nat /\ b \in Nat /\ a <= b /\ b <= Len(sent) /\ b - a = n
  OBVIOUS
<1> HIDE DEF b
<1>2. /\ s \in Seq(T) /\ Len(s) = n /\ \A i \in 1 .. n : s[i] = sent[a + i]
      /\ s = <<>> <=> a = b
  BY <1>1, SliceElements, ZenonT(60)
<1> HIDE DEF s
<1>3. CASE n = 0
  BY <1>1, <1>2, <1>3 DEF s, b
<1>4. CASE n = 1
  <2>1. s[1] = sent[a + 1] /\ Len(s) = 1
    BY <1>2, <1>4
  <2>2. s = <<s[1]>>
    BY <1>2, <2>1
  <2> QED BY <1>4, <2>1, <2>2 DEF s, b
<1>5. CASE n = 2
  <2>1. s[1] = sent[a + 1] /\ s[2] = sent[a + 2] /\ Len(s) = 2
    BY <1>2, <1>5
  <2>2. s = <<s[1], s[2]>>
    BY <1>2, <2>1
  <2> QED BY <1>5, <2>1, <2>2 DEF s, b
<1>6. CASE n = 3
  <2>1. /\ s[1] = sent[a + 1] /\ s[2] = sent[a + 2] /\ s[3] = sent[a + 3]
        /\ Len(s) = 3
    BY <1>2, <1>6
  <2>2. s = <<s[1], s[2], s[3]>>
    BY <1>2, <2>1
  <2> QED BY <1>6, <2>1, <2>2 DEF s, b
<1>7. n = 0 \/ n = 1 \/ n = 2 \/ n = 3
  OBVIOUS
<1> QED BY <1>3, <1>4, <1>5, <1>6, <1>7

(* The end of the line before is stripped.                                 *)
LEMMA ShortLines ==
  ASSUME NEW x, NEW y, NEW z
  PROVE  /\ <<x>> # <<>> /\ Head(<<x>>) = x /\ Tail(<<x>>) = <<>>
         /\ <<x, y>> # <<>> /\ Head(<<x, y>>) = x
         /\ <<x, y, z>> # <<>> /\ Head(<<x, y, z>>) = x
         /\ Tail(<<x, y, z>>) = <<y, z>>
OBVIOUS

(* The pump is at a newline of the header: the line that it reads.         *)
LEMMA LineRead ==
  ASSUME SliceInv, dispatched \in Seq(ToSet(dispatched)), Framing,
         Current <= Len(Contents),
         NEW p \in Nat, NEW q \in Nat, HeaderInv(p, q), p < Len(sent),
         sent[p + 1] = NewLine,
         NEW line, line = IF Slice(q, p) # <<>> /\ Head(Slice(q, p)) = NewLine
                          THEN Tail(Slice(q, p)) ELSE Slice(q, p)
  PROVE  \/ /\ p = Start + 1 /\ Before(Current) = 2 /\ length = -1
            /\ line \in {<<ContentType>>, <<>>}
            /\ reads # "any" => line = <<ContentType>>
         \/ /\ p = Start + Before(Current) + 2 /\ length = -1
            /\ line \in {<<Name, Number(Len(Contents[Current]))>>,
                         <<Number(Len(Contents[Current]))>>, <<>>}
            /\ reads # "any" => line = <<Name, Number(Len(Contents[Current]))>>
         \/ /\ p = Start + Before(Current) + 3
            /\ length = Len(Contents[Current]) /\ line = <<>>
<1> DEFINE m == Current
           B == Start
           h == Before(m)
           l == Len(Contents[m])
           j == p - B
           k == p - q
           s == Slice(q, p)
<1>1. /\ h \in {0, 2} /\ l \in Nat /\ B \in Nat
      /\ \A i \in 0 .. h + 3 : B + i < Len(sent) =>
           sent[B + i + 1] =
             IF i < h THEN IF i = 0 THEN ContentType ELSE NewLine
             ELSE IF i = h THEN Name ELSE IF i = h + 1 THEN Number(l)
             ELSE NewLine
  BY CurrentHeader
<1>2. /\ j \in 0 .. h + 3 /\ q <= p
      /\ q >= B + LineStart(m, j)
      /\ length = IF j = h + 3 THEN l ELSE -1
      /\ reads # "any" /\ j < h + 3 => q <= B + (IF j < h THEN 0 ELSE h)
      /\ LineStart(m, j) = IF j = h + 3 THEN h + 2
                           ELSE IF j >= 2 /\ h = 2 THEN 1 ELSE 0
  <2>1. /\ j \in 0 .. h + 3 /\ q \in B + LineStart(m, j) .. p
        /\ length = IF j = h + 3 THEN l ELSE -1
        /\ reads # "any" /\ j < h + 3 => q <= B + (IF j < h THEN 0 ELSE h)
    BY DEF HeaderInv
  <2>2. LineStart(m, j) = IF j = h + 3 THEN h + 2
                          ELSE IF j >= 2 /\ h = 2 THEN 1 ELSE 0
    BY DEF LineStart
  <2>3. B + LineStart(m, j) \in Int
    BY <1>1, <2>2
  <2> QED BY <2>1, <2>2, <2>3
<1>3. Len(sent) \in Nat /\ sent \in Seq(ToSet(Sent))
  BY Held DEF SliceInv
<1>4. p = B + j
  BY <1>1
<1>5. j = h + 2 \/ j = h + 3 \/ (h = 2 /\ j = 1)
  <2>1. \A i \in 0 .. Before(Current) + 3 :
          Start + i < Len(sent) /\ sent[Start + i + 1] = NewLine =>
            \/ Before(Current) = 2 /\ i = 1
            \/ i = Before(Current) + 2 \/ i = Before(Current) + 3
    BY HeaderNewLines
  <2>2. j \in 0 .. h + 3 /\ B + j < Len(sent) /\ sent[B + j + 1] = NewLine
    BY <1>2, <1>4
  <2> HIDE DEF j
  <2> QED BY <2>1, <2>2
<1> HIDE DEF m, B, h, l, j, k, s
<1>6. /\ Name # NewLine /\ ContentType # NewLine /\ Number(l) # NewLine
  BY <1>1, PiecesDiffer
<1>7. /\ k \in Nat /\ q + k = p /\ q + k <= Len(sent)
      /\ p \in Nat /\ j \in 0 .. h + 3
  BY <1>2, <1>3 DEF k
<1>8. k \in 0 .. 3 => s = IF k = 0 THEN <<>> ELSE IF k = 1 THEN <<sent[q + 1]>>
                          ELSE IF k = 2 THEN <<sent[q + 1], sent[q + 2]>>
                          ELSE <<sent[q + 1], sent[q + 2], sent[q + 3]>>
  BY <1>3, <1>7, ShortSlices DEF s
<1>9. line = IF s # <<>> /\ Head(s) = NewLine THEN Tail(s) ELSE s
  BY DEF s
<1>10. CASE h = 2 /\ j = 1
  <2>1. p = B + 1 /\ k \in {0, 1} /\ length = -1 /\ (k = 1 => q = B)
        /\ (reads # "any" => k = 1)
    BY <1>1, <1>2, <1>4, <1>7, <1>10 DEF k
  <2>2. CASE k = 0
    <3>1. line = <<>>
      BY <1>8, <1>9, <2>2
    <3> QED BY <1>10, <2>1, <2>2, <3>1 DEF B, h, m
  <2>3. CASE k = 1
    <3>1. sent[B + 1] = ContentType
      <4>1. 0 \in 0 .. h + 3 /\ B + 0 < Len(sent) /\ 0 < h /\ B + 0 + 1 = B + 1
        BY <1>1, <1>10, <2>1
      <4> QED BY <1>1, <4>1
    <3>2. s = <<ContentType>>
      BY <1>8, <2>1, <2>3, <3>1
    <3>3. line = <<ContentType>>
      BY <1>6, <1>9, <3>2, ShortLines
    <3> QED BY <1>10, <2>1, <3>3 DEF B, h, m
  <2> QED BY <2>1, <2>2, <2>3
<1>11. CASE j = h + 2
  <2>1. /\ p = B + h + 2 /\ length = -1
        /\ k \in {0, 1, 2} \/ (h = 2 /\ k = 3)
        /\ q = B + (h + 2 - k)
        /\ reads # "any" => k >= 2
    <3>1. p = B + h + 2 /\ length = -1 /\ j < h + 3 /\ ~ (j < h)
      BY <1>1, <1>2, <1>4, <1>11
    <3>2. reads # "any" => q <= B + h
      BY <1>2, <3>1
    <3>3. q >= B + (IF h = 2 THEN 1 ELSE 0)
      BY <1>1, <1>2, <1>11
    <3>4. q \in Nat /\ k \in Nat /\ q + k = p /\ B \in Nat /\ h \in {0, 2}
      BY <1>1, <1>7
    <3>5. q = B + (h + 2 - k) /\ (reads # "any" => k >= 2)
      BY ONLY <3>1, <3>2, <3>4
    <3>6. k \in {0, 1, 2} \/ (h = 2 /\ k = 3)
      BY ONLY <3>1, <3>3, <3>4
    <3> QED BY <3>1, <3>5, <3>6
  <2>2. k >= 1 => sent[B + h + 2] = Number(l)
    <3>1. h + 1 \in 0 .. h + 3 /\ B + (h + 1) < Len(sent) /\ ~ (h + 1 < h)
          /\ h + 1 # h /\ B + (h + 1) + 1 = B + h + 2
      BY <1>1, <1>3, <2>1
    <3> QED BY <1>1, <3>1
  <2>3. sent[B + h + 1] = Name
    <3>1. h \in 0 .. h + 3 /\ B + h < Len(sent) /\ ~ (h < h)
      BY <1>1, <1>3, <2>1
    <3> QED BY <1>1, <3>1
  <2>4. h = 2 => sent[B + 2] = NewLine
    <3>1. 1 \in 0 .. h + 3 /\ B + 1 < Len(sent) /\ (h = 2 => 1 < h)
          /\ B + 1 + 1 = B + 2
      BY <1>1, <1>3, <2>1
    <3> QED BY <1>1, <3>1
  <2>5. CASE k = 0
    <3>1. line = <<>>
      BY <1>8, <1>9, <2>5
    <3> QED BY <2>1, <2>5, <3>1 DEF B, h, m, l
  <2>6. CASE k = 1
    <3>1. q + 1 = B + h + 2
      BY <1>1, <2>1, <2>6
    <3>2. s = <<Number(l)>>
      BY <1>8, <2>2, <2>6, <3>1
    <3>3. line = <<Number(l)>>
      BY <1>6, <1>9, <3>2, ShortLines
    <3>4. reads = "any" /\ p = B + h + 2 /\ length = -1
      BY <2>1, <2>6
    <3> QED BY <3>3, <3>4 DEF B, h, m, l
  <2>7. CASE k = 2
    <3>1. q + 1 = B + h + 1 /\ q + 2 = B + h + 2
      BY <1>1, <2>1, <2>7
    <3>2. s = <<Name, Number(l)>>
      BY <1>8, <2>2, <2>3, <2>7, <3>1
    <3>3. line = <<Name, Number(l)>>
      <4>1. s # <<>> /\ Head(s) = Name
        BY <3>2, ShortLines
      <4> QED BY <1>6, <1>9, <3>2, <4>1
    <3> QED BY <2>1, <3>3 DEF B, h, m, l
  <2>8. CASE h = 2 /\ k = 3
    <3>1. q + 1 = B + 2 /\ q + 2 = B + h + 1 /\ q + 3 = B + h + 2
      BY <1>1, <2>1, <2>8
    <3>2. s = <<NewLine, Name, Number(l)>>
      BY <1>8, <2>2, <2>3, <2>4, <2>8, <3>1
    <3>3. line = <<Name, Number(l)>>
      <4>1. s # <<>> /\ Head(s) = NewLine /\ Tail(s) = <<Name, Number(l)>>
        BY <3>2, ShortLines
      <4> QED BY <1>9, <4>1
    <3> QED BY <2>1, <3>3 DEF B, h, m, l
  <2> QED BY <2>1, <2>5, <2>6, <2>7, <2>8
<1>12. CASE j = h + 3
  <2>1. /\ p = B + h + 3 /\ length = l /\ k \in {0, 1}
        /\ k = 1 => q + 1 = B + h + 3
    BY <1>1, <1>2, <1>4, <1>7, <1>12 DEF k
  <2>2. k = 1 => sent[q + 1] = NewLine
    <3>1. h + 2 \in 0 .. h + 3 /\ B + (h + 2) < Len(sent) /\ ~ (h + 2 < h)
          /\ h + 2 # h /\ h + 2 # h + 1 /\ B + (h + 2) + 1 = B + h + 3
      BY <1>1, <1>3, <2>1
    <3> QED BY <1>1, <2>1, <3>1
  <2>3. line = <<>>
    <3>1. CASE k = 0
      BY <1>8, <1>9, <3>1
    <3>2. CASE k = 1
      <4>1. s = <<NewLine>>
        BY <1>8, <2>2, <3>2
      <4> QED BY <1>9, <4>1
    <3> QED BY <2>1, <3>1, <3>2
  <2> QED BY <2>1, <2>3 DEF B, h, m, l
<1> QED BY <1>5, <1>10, <1>11, <1>12

(* What a step leaves alone that dispatches nothing.                       *)
LEMMA SameMessage ==
  ASSUME ReaderInv, UNCHANGED <<inputVars, dispatched>>
  PROVE  /\ reads' = reads /\ sent' = sent /\ dispatched' = dispatched
         /\ Current' = Current /\ Start' = Start /\ Complete' = Complete
         /\ dispatched' \in Seq(ToSet(dispatched')) /\ Framing'
         /\ Before(Current)' = Before(Current)
         /\ Header(Current)' = Header(Current)
BY DEF ReaderInv, inputVars, Current, Start, Complete, Framing, Before, Header

(* The line that is scanned, as far as it was read.                        *)
LEMMA ScannedLine ==
  ASSUME SliceInv, ScanInv, phase = "scan", Framing,
         dispatched \in Seq(ToSet(dispatched))
  PROVE  /\ Position \in Nat /\ Position <= Arrived
         /\ Position = Base + readBytes
         /\ Base + lastLine - Len(prefix) \in Nat
         /\ Base + lastLine - Len(prefix) <= Position
         /\ Base + lastLine - Len(prefix) >= Start
         /\ lastLine \in Nat /\ Len(prefix) \in Nat /\ Len(prefix) <= Base
         /\ prefix \o SubSeq(data, lastLine + 1, readBytes)
              = Slice(Base + lastLine - Len(prefix), Position)
         /\ readBytes < Len(data) => /\ Position < Len(sent)
                                     /\ data[readBytes + 1] = sent[Position + 1]
<1> DEFINE A == Arrived
           B == Base
           p == Position
           q == B + lastLine - Len(prefix)
           k == Len(prefix)
<1>1. /\ A \in Nat /\ A <= Len(sent) /\ Len(sent) \in Nat /\ B \in Nat /\ B <= A
      /\ Len(data) = A - B /\ data = Slice(B, A) /\ sent \in Seq(ToSet(Sent))
      /\ readBytes \in Nat /\ \A i \in 1 .. Len(data) : data[i] = sent[B + i]
  BY Held DEF SliceInv
<1>2. /\ k \in 0 .. B /\ prefix = Slice(B - k, B)
      /\ readBytes <= Len(data) /\ lastLine \in 0 .. readBytes
      /\ prefix # <<>> => lastLine = 0
      /\ Current <= Len(Contents)
  BY DEF ScanInv
<1>3. q \in Start + LineStart(Current, p - Start) .. p
  BY DEF ScanInv, HeaderInv
<1>4. p = B + readBytes
  BY DEF Position
<1>5. Start \in Nat /\ LineStart(Current, p - Start) \in Nat
  <2>1. Start \in Nat /\ Before(Current) \in Nat
    BY CurrentHeader, <1>2
  <2> QED BY <2>1 DEF LineStart
<1> DEFINE from == Start
           ls == LineStart(Current, p - Start)
<1>6. from \in Nat /\ ls \in Nat /\ q \in from + ls .. p
  BY <1>3, <1>5
<1>7. k = 0 => prefix = <<>>
  <2>1. B - 0 = B /\ B <= Len(sent)
    BY <1>1
  <2>2. Slice(B, B) = <<>>
    BY <1>1, <2>1, SliceElements
  <2> QED BY <1>2, <2>1, <2>2
<1> HIDE DEF A, B, p, k, from, ls
<1>8. p \in Nat /\ p <= A /\ q \in Nat /\ q <= p /\ q >= from
  <2>1. p \in Nat /\ p <= A
    BY <1>1, <1>2, <1>4
  <2>2. q \in Int
    BY <1>1, <1>2 DEF k
  <2> QED BY <1>6, <2>1, <2>2
<1>9. SubSeq(data, lastLine + 1, readBytes) = Slice(B + lastLine, p)
  <2>1. lastLine \in 0 .. A - B /\ readBytes \in lastLine .. A - B
    BY <1>1, <1>2
  <2>2. /\ B \in Nat /\ A \in Nat /\ B <= A /\ A <= Len(sent)
        /\ sent \in Seq(ToSet(Sent))
    BY <1>1
  <2>3. SubSeq(Slice(B, A), lastLine + 1, readBytes)
          = Slice(B + lastLine, B + readBytes)
    BY ONLY <2>1, <2>2, SliceOfSlice
  <2> QED BY <1>1, <1>4, <2>3
<1>10. prefix \o SubSeq(data, lastLine + 1, readBytes) = Slice(q, p)
  <2>1. CASE prefix = <<>>
    <3>1. k = 0
      BY <2>1 DEF k
    <3>2. q = B + lastLine
      BY <1>1, <1>2, <3>1 DEF k
    <3>3. B + lastLine \in Nat /\ B + lastLine <= p /\ p <= Len(sent)
      BY <1>1, <1>2, <1>8, <3>2
    <3>4. Slice(B + lastLine, p) \in Seq(ToSet(Sent))
      BY <1>1, <1>8, <3>3, SliceElements
    <3>5. <<>> \o Slice(B + lastLine, p) = Slice(B + lastLine, p)
      BY <3>4, ConcatEmptySeq
    <3> QED BY <1>9, <2>1, <3>2, <3>5
  <2>2. CASE prefix # <<>>
    <3>1. lastLine = 0 /\ B + lastLine = B /\ q = B - k
      BY <1>1, <1>2, <2>2 DEF k
    <3>2. /\ B - k \in Nat /\ B \in Nat /\ p \in Nat /\ B - k <= B /\ B <= p
          /\ p <= Len(sent) /\ sent \in Seq(ToSet(Sent))
      BY <1>1, <1>2, <1>4, <1>8
    <3>3. Slice(B - k, B) \o Slice(B, p) = Slice(B - k, p)
      BY ONLY <3>2, SlicesMeet
    <3> QED BY <1>2, <1>9, <3>1, <3>3
  <2> QED BY <2>1, <2>2
<1>11. readBytes < Len(data) => /\ p < Len(sent)
                                /\ data[readBytes + 1] = sent[p + 1]
  <2>1. SUFFICES ASSUME readBytes < Len(data)
                 PROVE  p < Len(sent) /\ data[readBytes + 1] = sent[p + 1]
    OBVIOUS
  <2>2. p < Len(sent) /\ readBytes + 1 \in 1 .. Len(data)
    BY <1>1, <1>4, <2>1
  <2>3. B + (readBytes + 1) = p + 1
    BY <1>1, <1>4
  <2> QED BY <1>1, <2>2, <2>3
<1>12. lastLine \in Nat /\ k \in Nat /\ k <= B
  BY <1>1, <1>2
<1> HIDE DEF q
<1> QED BY <1>4, <1>8, <1>10, <1>11, <1>12 DEF A, B, p, q, k, from

(* A scanning step leaves the header where it is: what remains to be shown *)
(* is the place it goes to.                                                *)
LEMMA ScanStep ==
  ASSUME ReaderInv, phase = "scan", readBytes < Len(data), phase' = "scan",
         UNCHANGED <<inputVars, stream, data, content, contentRead,
                     dispatched>>,
         readBytes' = readBytes + 1, length' \in Nat \cup {-1},
         NEW j, j = Position + 1 - Start,
         j \in 0 .. Before(Current) + 3,
         NEW q, q \in Start + LineStart(Current, j) .. Position + 1,
         q = Base + lastLine' - Len(prefix'),
         length' = IF j = Before(Current) + 3
                   THEN Len(Contents[Current]) ELSE -1,
         reads # "any" /\ j < Before(Current) + 3 =>
           q <= Start + (IF j < Before(Current) THEN 0 ELSE Before(Current)),
         prefix' = prefix \/ prefix' = <<>>, lastLine' \in 0 .. readBytes',
         prefix' # <<>> => lastLine' = 0
  PROVE  ReaderInv'
<1>1. /\ SliceInv /\ ScanInv /\ Framing /\ NothingLost
      /\ dispatched \in Seq(ToSet(dispatched))
  BY DEF ReaderInv
<1>2. /\ reads' = reads /\ sent' = sent /\ dispatched' = dispatched
      /\ Current' = Current /\ Start' = Start
      /\ dispatched' \in Seq(ToSet(dispatched')) /\ Framing'
      /\ data' = data /\ stream' = stream /\ content' = content
      /\ contentRead' = contentRead
  BY SameMessage
<1>3. readBytes \in Nat /\ contentRead \in Nat
  BY <1>1 DEF SliceInv
<1>4. SliceInv' /\ Arrived' = Arrived /\ Base' = Base
  BY <1>1, <1>2, <1>3, StillHeld
<1>5. Position' = Position + 1
  <2>1. Base \in Nat
    BY <1>1, Held
  <2> QED BY <1>3, <1>4, <2>1 DEF Position
<1>6. HeaderInv(Position, Base + lastLine - Len(prefix))'
  <2>1. Base' + lastLine' - Len(prefix') = q
    BY <1>4
  <2>2. Position' - Start' = j
    <3>1. Position' = Position + 1 /\ Start' = Start /\ j = Position + 1 - Start
      BY <1>2, <1>5
    <3>2. Position \in Nat /\ Start \in Nat
      BY <1>1, ScannedLine, CurrentMessage
    <3> QED BY ONLY <3>1, <3>2
  <2>3. content' = <<>> /\ contentRead' = 0 /\ Current' <= Len(Contents)
    BY <1>1, <1>2 DEF ScanInv, HeaderInv
  <2> QED BY <1>2, <1>5, <2>1, <2>2, <2>3 DEF HeaderInv, LineStart, Before
<1>7. Len(prefix') \in 0 .. Base /\ prefix' = Slice(Base - Len(prefix'), Base)
  <2>1. CASE prefix' = prefix
    BY <1>1, <2>1 DEF ScanInv
  <2>2. CASE prefix' = <<>>
    <3>1. Base \in Nat /\ Base <= Len(sent) /\ sent \in Seq(ToSet(Sent))
      <4>1. /\ Base \in Nat /\ Arrived \in Nat /\ Len(sent) \in Nat
            /\ Base <= Arrived /\ Arrived <= Len(sent)
        BY <1>1, Held
      <4> QED BY <1>1, <4>1 DEF SliceInv
    <3>2. Slice(Base, Base) = <<>>
      BY <3>1, SliceElements
    <3>3. Len(prefix') = 0 /\ Base - 0 = Base
      BY <2>2, <3>1
    <3> QED BY <2>2, <3>1, <3>2, <3>3
  <2> QED BY <2>1, <2>2
<1>8. ScanInv'
  <2>1. readBytes' <= Len(data')
    <3>1. Len(data) \in Nat
      BY <1>1, Held
    <3> QED BY <1>2, <1>3, <3>1
  <2>2. Len(prefix') \in 0 .. Base'
        /\ prefix' = Slice(Base - Len(prefix), Base)'
    BY <1>2, <1>4, <1>7 DEF Slice
  <2>3. /\ data' # <<>> /\ Current' <= Len(Contents)
        /\ reads' # "any" => Decodable(data')
        /\ reads' = "coarse" =>
             Base' = Start' \/ Len(data') >= 2 \/ stream' = <<>>
        /\ reads' = "lines" =>
             /\ Arrived' <= Start' + Header(Current')
             /\ Base' = Start' \/ sent'[Base'] = NewLine
             /\ sent'[Arrived'] = NewLine \/ stream' = <<>>
    BY <1>1, <1>2, <1>4 DEF ScanInv
  <2> QED BY <1>6, <2>1, <2>2, <2>3 DEF ScanInv, Header, Before, Decodable
<1>9. HeadersInv' /\ ContentInv' /\ NothingLost'
  BY DEF HeadersInv, ContentInv, NothingLost
<1> QED BY <1>2, <1>4, <1>8, <1>9 DEF ReaderInv

(* The place of the pump in a header.                                      *)
LEMMA ScanPlace ==
  ASSUME ReaderInv, phase = "scan", readBytes < Len(data)
  PROVE  /\ SliceInv /\ ScanInv /\ Framing
         /\ dispatched \in Seq(ToSet(dispatched)) /\ Current <= Len(Contents)
         /\ Start \in Nat /\ Before(Current) \in {0, 2}
         /\ Len(Contents[Current]) \in Nat
         /\ Position - Start \in 0 .. Before(Current) + 3
         /\ Position \in Nat /\ Position < Len(sent) /\ Len(sent) \in Nat
         /\ Position = Base + readBytes /\ Base \in Nat /\ readBytes \in Nat
         /\ data[readBytes + 1] = sent[Position + 1]
         /\ HeaderInv(Position, Base + lastLine - Len(prefix))
         /\ Base + lastLine - Len(prefix) \in Nat
         /\ Base + lastLine - Len(prefix) <= Position
         /\ lastLine \in 0 .. readBytes /\ Len(prefix) \in Nat
         /\ length \in Nat \cup {-1}
         /\ prefix \o SubSeq(data, lastLine + 1, readBytes)
              = Slice(Base + lastLine - Len(prefix), Position)
<1>1. /\ SliceInv /\ ScanInv /\ Framing
      /\ dispatched \in Seq(ToSet(dispatched))
  BY DEF ReaderInv
<1>2. /\ Current <= Len(Contents) /\ lastLine \in 0 .. readBytes
      /\ HeaderInv(Position, Base + lastLine - Len(prefix))
  BY <1>1 DEF ScanInv
<1>3. Position - Start \in 0 .. Before(Current) + 3
  BY <1>2 DEF HeaderInv
<1>4. /\ Start \in Nat /\ Before(Current) \in {0, 2}
      /\ Len(Contents[Current]) \in Nat
  BY <1>1, <1>2, CurrentHeader
<1>5. /\ Len(sent) \in Nat /\ Base \in Nat /\ readBytes \in Nat
      /\ length \in Nat \cup {-1}
  BY <1>1, Held DEF SliceInv
<1> QED BY <1>1, <1>2, <1>3, <1>4, <1>5, ScannedLine

(* Within a line the pump goes on.                                         *)
LEMMA ScanByteStep ==
  ASSUME ReaderInv, ScanByte
  PROVE  ReaderInv'
<1>1. /\ phase = "scan" /\ readBytes < Len(data) /\ phase' = "scan"
      /\ UNCHANGED <<inputVars, stream, data, content, contentRead, dispatched>>
      /\ UNCHANGED <<lastLine, prefix, length>>
      /\ readBytes' = readBytes + 1 /\ data[readBytes + 1] # NewLine
  BY DEF ScanByte, AtNewLine
<1> DEFINE h == Before(Current)
           B == Start
           p == Position
           i == p - B
           j == p + 1 - B
           q == Base + lastLine - Len(prefix)
<1>2. /\ SliceInv /\ ScanInv /\ Framing
      /\ dispatched \in Seq(ToSet(dispatched)) /\ Current <= Len(Contents)
      /\ B \in Nat /\ h \in {0, 2} /\ i \in 0 .. h + 3 /\ p \in Nat
      /\ p < Len(sent) /\ sent[p + 1] # NewLine /\ q \in Nat /\ q <= p
      /\ lastLine \in 0 .. readBytes /\ readBytes \in Nat
      /\ length \in Nat \cup {-1}
  BY <1>1, ScanPlace
<1>3. /\ q \in B + LineStart(Current, i) .. p
      /\ length = IF i = h + 3 THEN Len(Contents[Current]) ELSE -1
      /\ reads # "any" /\ i < h + 3 => q <= B + (IF i < h THEN 0 ELSE h)
      /\ prefix # <<>> => lastLine = 0
  BY <1>1, <1>2 DEF ScanInv, HeaderInv
<1>4. (h = 2 /\ i = 0) \/ i = h \/ i = h + 1
  <2>1. \A k \in 0 .. Before(Current) + 3 :
          Start + k < Len(sent) /\ sent[Start + k + 1] # NewLine =>
            ~ \/ Before(Current) = 2 /\ k = 1
              \/ k = Before(Current) + 2 \/ k = Before(Current) + 3
    BY <1>2, HeaderNewLines
  <2>2. i \in 0 .. h + 3 /\ B + i = p
    BY <1>2
  <2>3. ~ \/ h = 2 /\ i = 1
          \/ i = h + 2 \/ i = h + 3
    BY <1>2, <2>1, <2>2
  <2>4. h \in {0, 2}
    BY <1>2
  <2> HIDE DEF i, h
  <2> QED BY <2>2, <2>3, <2>4
<1>5. /\ LineStart(Current, i) = IF i >= 2 /\ h = 2 THEN 1 ELSE 0
      /\ LineStart(Current, j) = IF j >= 2 /\ h = 2 THEN 1 ELSE 0
      /\ j = i + 1
  <2>1. i # h + 3 /\ j # h + 3 /\ j = i + 1
    BY <1>2, <1>4
  <2> QED BY <2>1 DEF LineStart
<1>6. /\ j \in 0 .. h + 3 /\ j # h + 3 /\ i < h + 3 /\ i # h + 3
      /\ q \in B + LineStart(Current, j) .. p + 1
      /\ (IF j < h THEN 0 ELSE h) = (IF i < h THEN 0 ELSE h)
  <2>1. /\ B \in Nat /\ h \in {0, 2} /\ i \in 0 .. h + 3 /\ p \in Nat
        /\ j = i + 1 /\ q \in Nat
    BY <1>2, <1>5
  <2> DEFINE s == LineStart(Current, i)
             t == LineStart(Current, j)
  <2>2. /\ s = IF i >= 2 /\ h = 2 THEN 1 ELSE 0
        /\ t = IF j >= 2 /\ h = 2 THEN 1 ELSE 0
        /\ q \in B + s .. p
    BY <1>3, <1>5
  <2> HIDE DEF h, B, p, i, j, q, s, t
  <2>3. /\ j \in 0 .. h + 3 /\ j # h + 3 /\ i < h + 3 /\ i # h + 3
        /\ (IF j < h THEN 0 ELSE h) = (IF i < h THEN 0 ELSE h)
    BY <1>4, <2>1
  <2>4. s = t
    BY <1>4, <2>1, <2>2
  <2>5. q \in B + t .. p + 1
    <3>1. s \in Nat /\ t \in Nat
      BY <2>2
    <3> QED BY <2>1, <2>2, <2>4, <3>1
  <2> QED BY <2>3, <2>5 DEF t
<1>7. q = Base + lastLine' - Len(prefix')
  BY <1>1
<1>8. length' = IF j = h + 3 THEN Len(Contents[Current]) ELSE -1
  BY <1>1, <1>3, <1>6
<1>9. reads # "any" /\ j < h + 3 => q <= B + (IF j < h THEN 0 ELSE h)
  BY <1>3, <1>6
<1>10. lastLine' \in 0 .. readBytes'
  BY <1>1, <1>2
<1>11. /\ length' \in Nat \cup {-1} /\ prefix' = prefix
       /\ prefix' # <<>> => lastLine' = 0
       /\ j = Position + 1 - Start
       /\ j \in 0 .. Before(Current) + 3
       /\ q \in Start + LineStart(Current, j) .. Position + 1
  BY <1>1, <1>2, <1>3, <1>6
<1> HIDE DEF j, q
<1> QED BY <1>1, <1>7, <1>8, <1>9, <1>10, <1>11, ScanStep

(* The end of a header line.                                               *)
LEMMA ScanHeaderStep ==
  ASSUME ReaderInv, ScanHeader
  PROVE  ReaderInv'
<1> DEFINE m == Current
           h == Before(m)
           l == Len(Contents[m])
           B == Start
           p == Position
           q == Base + lastLine - Len(prefix)
           j == p + 1 - B
<1>1. /\ phase = "scan" /\ readBytes < Len(data) /\ phase' = "scan"
      /\ UNCHANGED <<inputVars, stream, data, content, contentRead, dispatched>>
      /\ prefix' = <<>> /\ lastLine' = readBytes
      /\ readBytes' = readBytes + 1 /\ data[readBytes + 1] = NewLine
      /\ \/ Line = <<ContentType>> /\ length' = length
         \/ \E n \in 0 .. Len(Sent) : Line = <<Name, Number(n)>> /\ length' = n
  BY DEF ScanHeader, AtNewLine
<1>2. /\ SliceInv /\ ScanInv /\ Framing
      /\ dispatched \in Seq(ToSet(dispatched)) /\ m <= Len(Contents)
      /\ B \in Nat /\ h \in {0, 2} /\ l \in Nat /\ p \in Nat
      /\ p < Len(sent) /\ sent[p + 1] = NewLine /\ q \in Nat /\ q <= p
      /\ p = Base + readBytes /\ Base \in Nat /\ readBytes \in Nat
      /\ HeaderInv(p, q) /\ length \in Nat \cup {-1}
      /\ prefix \o SubSeq(data, lastLine + 1, readBytes) = Slice(q, p)
  BY <1>1, ScanPlace
<1>3. Line = IF Slice(q, p) # <<>> /\ Head(Slice(q, p)) = NewLine
             THEN Tail(Slice(q, p)) ELSE Slice(q, p)
  BY <1>2 DEF Line
<1> HIDE DEF p, q
<1>4. \/ /\ p = B + 1 /\ h = 2 /\ length = -1
         /\ Line \in {<<ContentType>>, <<>>}
      \/ /\ p = B + h + 2
         /\ Line \in {<<Name, Number(l)>>, <<Number(l)>>, <<>>}
      \/ p = B + h + 3 /\ Line = <<>>
  BY <1>2, <1>3, LineRead
<1>5. \/ p = B + 1 /\ h = 2 /\ length' = -1
      \/ p = B + h + 2 /\ length' = l
  <2>1. /\ <<>> # <<ContentType>> /\ \A n \in 0 .. Len(Sent) :
             /\ <<>> # <<Name, Number(n)>>
             /\ <<ContentType>> # <<Name, Number(n)>>
             /\ <<Number(l)>> # <<Name, Number(n)>>
        /\ <<Name, Number(l)>> # <<ContentType>>
    <3>1. \A x, y, z : <<>> # <<x>> /\ <<>> # <<x, y>> /\ <<z>> # <<x, y>>
      OBVIOUS
    <3> QED BY <3>1
  <2>2. Number(l) # ContentType
    BY <1>2, PiecesDiffer
  <2>3. <<Number(l)>> # <<ContentType>>
    BY <2>2
  <2>4. \A n \in 0 .. Len(Sent) :
          <<Name, Number(l)>> = <<Name, Number(n)>> => n = l
    <3>1. Len(Sent) \in Nat
      BY <1>2, Held
    <3>2. \A n \in 0 .. Len(Sent) : Number(l) = Number(n) => n = l
      <4>1. \A n \in 0 .. Len(Sent) : n \in Nat
        BY <3>1
      <4> QED BY <1>2, <4>1, PiecesDiffer
    <3>3. \A x, y, z : <<x, y>> = <<x, z>> => y = z
      OBVIOUS
    <3> QED BY <3>2, <3>3
  <2>5. CASE p = B + 1 /\ h = 2 /\ length = -1
             /\ Line \in {<<ContentType>>, <<>>}
    <3>1. Line = <<ContentType>> /\ length' = length
      BY <1>1, <2>1, <2>5
    <3> QED BY <2>5, <3>1
  <2>6. CASE /\ p = B + h + 2
             /\ Line \in {<<Name, Number(l)>>, <<Number(l)>>, <<>>}
    <3>1. length' = l
      BY <1>1, <2>1, <2>3, <2>4, <2>6
    <3> QED BY <2>6, <3>1
  <2>7. CASE p = B + h + 3 /\ Line = <<>>
    BY <1>1, <2>1, <2>7
  <2> QED BY <1>4, <2>5, <2>6, <2>7
<1>6. /\ j = p + 1 - B /\ j \in 0 .. h + 3
      /\ length' = IF j = h + 3 THEN l ELSE -1
      /\ LineStart(m, j) = IF j = h + 3 THEN h + 2
                           ELSE IF j >= 2 /\ h = 2 THEN 1 ELSE 0
      /\ p \in B + LineStart(m, j) .. p + 1
      /\ j < h + 3 => p <= B + (IF j < h THEN 0 ELSE h)
      /\ length' \in Nat \cup {-1}
  <2>1. LineStart(m, j) = IF j = h + 3 THEN h + 2
                          ELSE IF j >= 2 /\ h = 2 THEN 1 ELSE 0
    BY DEF LineStart
  <2>2. B \in Nat /\ h \in {0, 2} /\ l \in Nat /\ p \in Nat
    BY <1>2
  <2> DEFINE s == LineStart(m, j)
  <2>3. s = IF j = h + 3 THEN h + 2 ELSE IF j >= 2 /\ h = 2 THEN 1 ELSE 0
    BY <2>1
  <2> HIDE DEF s, m, h, l, B
  <2>4. CASE p = B + 1 /\ h = 2 /\ length' = -1
    <3>1. j = 2
      BY <2>2, <2>4
    <3>2. s = 1
      BY <2>3, <2>4, <3>1
    <3> HIDE DEF j
    <3> QED BY <2>1, <2>2, <2>4, <3>1, <3>2 DEF s, j
  <2>5. CASE p = B + h + 2 /\ length' = l
    <3>1. j = h + 3
      BY <2>2, <2>5
    <3>2. s = h + 2
      BY <2>3, <3>1
    <3>3. p \in B + s .. p + 1
      BY <2>2, <2>5, <3>2
    <3>4. j \in 0 .. h + 3 /\ ~ (j < h + 3)
      BY <2>2, <3>1
    <3> HIDE DEF j
    <3> QED BY <2>1, <2>2, <2>5, <3>1, <3>3, <3>4 DEF s, j
  <2> QED BY <1>5, <2>4, <2>5
<1>7. /\ p = Base + lastLine' - Len(prefix')
      /\ lastLine' \in 0 .. readBytes' /\ prefix' = <<>>
  <2>1. /\ prefix' = <<>> /\ Len(<<>>) = 0 /\ lastLine' = readBytes
        /\ readBytes' = readBytes + 1
    BY <1>1
  <2>2. p = Base + readBytes /\ Base \in Nat /\ readBytes \in Nat
    BY <1>2
  <2> QED BY ONLY <2>1, <2>2
<1>8. /\ j = Position + 1 - Start /\ j \in 0 .. Before(Current) + 3
      /\ p \in Start + LineStart(Current, j) .. Position + 1
      /\ length' = IF j = Before(Current) + 3
                   THEN Len(Contents[Current]) ELSE -1
      /\ reads # "any" /\ j < Before(Current) + 3 =>
           p <= Start + (IF j < Before(Current) THEN 0 ELSE Before(Current))
  BY <1>6 DEF p
<1> HIDE DEF j
<1> QED BY <1>1, <1>6, <1>7, <1>8, ScanStep

(* The end of the header.                                                  *)
LEMMA HeadersCompleteStep ==
  ASSUME ReaderInv, HeadersComplete
  PROVE  ReaderInv'
<1> DEFINE m == Current
           h == Before(m)
           l == Len(Contents[m])
           B == Start
           p == Position
           q == Base + lastLine - Len(prefix)
<1>1. /\ phase = "scan" /\ readBytes < Len(data) /\ phase' = "headers complete"
      /\ UNCHANGED <<inputVars, stream, data, length, content, contentRead,
                     dispatched>>
      /\ readBytes' = readBytes + 1 /\ data[readBytes + 1] = NewLine
      /\ Line = <<>> /\ length # -1 /\ Decodable(data)
  BY DEF HeadersComplete, AtNewLine
<1>2. /\ SliceInv /\ ScanInv /\ Framing
      /\ dispatched \in Seq(ToSet(dispatched)) /\ m <= Len(Contents)
      /\ B \in Nat /\ h \in {0, 2} /\ l \in Nat /\ p \in Nat
      /\ p < Len(sent) /\ sent[p + 1] = NewLine /\ q \in Nat
      /\ p = Base + readBytes /\ Base \in Nat /\ readBytes \in Nat
      /\ HeaderInv(p, q) /\ length \in Nat \cup {-1}
      /\ prefix \o SubSeq(data, lastLine + 1, readBytes) = Slice(q, p)
      /\ Len(sent) \in Nat
  BY <1>1, ScanPlace
<1>3. Line = IF Slice(q, p) # <<>> /\ Head(Slice(q, p)) = NewLine
             THEN Tail(Slice(q, p)) ELSE Slice(q, p)
  BY <1>2 DEF Line
<1> HIDE DEF p, q
<1>4. p = B + h + 3 /\ length = l
  <2>1. \/ length = -1
        \/ p = B + h + 3 /\ length = l
    BY <1>2, <1>3, LineRead
  <2> QED BY <1>1, <2>1
<1>5. /\ reads' = reads /\ sent' = sent /\ dispatched' = dispatched
      /\ Current' = m /\ Start' = B
      /\ dispatched' \in Seq(ToSet(dispatched')) /\ Framing'
      /\ Header(Current)' = Header(m)
      /\ data' = data /\ length' = length /\ stream' = stream
  BY <1>1, SameMessage
<1>6. contentRead' = 0 /\ content' = <<>> /\ contentRead' \in Nat
  BY <1>1, <1>2 DEF HeaderInv
<1>7. SliceInv' /\ Arrived' = Arrived /\ Base' = Base
  <2>1. readBytes' \in Nat /\ length' \in Nat \cup {-1}
    <3>1. readBytes' = readBytes + 1 /\ readBytes \in Nat /\ length' = length
      BY <1>1, <1>2
    <3> QED BY <1>2, <3>1
  <2> QED BY <1>1, <1>2, <1>6, <2>1, StillHeld
<1>8. Position' = B + Header(m)
  <2>1. Position' = Base + (readBytes + 1)
    BY <1>1, <1>7 DEF Position
  <2>2. /\ p = Base + readBytes /\ Base \in Nat /\ readBytes \in Nat
        /\ p = B + h + 3 /\ B \in Nat /\ h \in {0, 2} /\ Header(m) = h + 4
    BY <1>2, <1>4 DEF Header
  <2> HIDE DEF B, h, m
  <2>3. Base + (readBytes + 1) = B + Header(m)
    BY ONLY <2>2
  <2> QED BY <2>1, <2>3
<1>9. readBytes' <= Len(data') /\ (reads = "lines" => readBytes' = Len(data'))
  <2>1. /\ Arrived \in Nat /\ Len(data) = Arrived - Base
    BY <1>2, Held
  <2>2. reads = "lines" => Arrived <= B + Header(m)
    BY <1>1, <1>2 DEF ScanInv
  <2>3. Header(m) = h + 4
    BY DEF Header
  <2>6. /\ readBytes \in Nat /\ Base \in Nat /\ B \in Nat /\ h \in {0, 2}
        /\ readBytes < Len(data) /\ p = B + h + 3 /\ p = Base + readBytes
    BY <1>1, <1>2, <1>4
  <2> HIDE DEF B, h, m
  <2>4. readBytes + 1 <= Len(data)
    BY ONLY <2>1, <2>6
  <2>5. reads = "lines" => readBytes + 1 = Len(data)
    BY ONLY <2>1, <2>2, <2>3, <2>4, <2>6
  <2> QED BY <1>1, <1>5, <2>4, <2>5
<1>10. ContentInv'
  <2>1. Len(content') = 0 /\ Start' + Header(Current') + 0 = Position'
    <3>1. B \in Nat /\ Header(m) \in Nat
      BY <1>2, SMTT(30) DEF Header
    <3>2. Header(Current') = Header(m)
      BY <1>5
    <3> QED BY <1>5, <1>6, <1>8, <3>1, <3>2
  <2>2. content' = Slice(Start + Header(Current), Position)'
    <3>1. Slice(Start + Header(Current), Position)'
            = SubSeq(sent, Position' + 1, Position')
      BY <1>5, <1>8 DEF Slice, Header, Before
    <3>2. Position' \in Nat
      <4>1. B \in Nat /\ Header(m) \in Nat
        BY <1>2, SMTT(30) DEF Header
      <4> QED BY <1>8, <4>1
    <3>3. SubSeq(sent, Position' + 1, Position') = <<>>
      <4>1. Position' + 1 \in Int /\ Position' \in Int
            /\ Position' < Position' + 1
        <5>1. \A x \in Nat : x + 1 \in Int /\ x \in Int /\ x < x + 1
          OBVIOUS
        <5> QED BY <3>2, <5>1
      <4> QED BY <4>1, SubSeqEmpty
    <3> QED BY <1>6, <3>1, <3>3
  <2>3. /\ Current' <= Len(Contents) /\ length' = Len(Contents[Current'])
        /\ 0 <= length'
    BY <1>2, <1>4, <1>5
  <2>4. Decodable(data)'
    BY <1>1, <1>5 DEF Decodable
  <2> QED BY <1>1, <1>5, <1>6, <1>9, <2>1, <2>2, <2>3, <2>4
           DEF ContentInv, Header, Before
<1>11. HeadersInv' /\ ScanInv' /\ NothingLost'
  BY <1>1 DEF HeadersInv, ScanInv, NothingLost
<1> QED BY <1>5, <1>7, <1>10, <1>11 DEF ReaderInv

(* A scan does not fail, unless a line or a character was cut.             *)
LEMMA ScanFailsStep ==
  ASSUME ReaderInv, ScanFails
  PROVE  ReaderInv'
<1> DEFINE m == Current
           l == Len(Contents[m])
           p == Position
           q == Base + lastLine - Len(prefix)
<1>1. /\ phase = "scan" /\ readBytes < Len(data) /\ phase' = "failed"
      /\ UNCHANGED <<inputVars, stream, data, readBytes, length, content,
                     contentRead, dispatched>>
      /\ \/ ~ Decodable(data)
         \/ data[readBytes + 1] = NewLine /\ Line = <<>> /\ length = -1
         \/ /\ data[readBytes + 1] = NewLine
            /\ Line \notin {<<>>, <<ContentType>>}
            /\ \A n \in 0 .. Len(Sent) : Line # <<Name, Number(n)>>
  BY DEF ScanFails, Raise, AtNewLine
<1>2. /\ SliceInv /\ ScanInv /\ Framing
      /\ dispatched \in Seq(ToSet(dispatched)) /\ m <= Len(Contents)
      /\ l \in Nat /\ p \in Nat /\ data[readBytes + 1] = sent[p + 1]
      /\ p < Len(sent) /\ q \in Nat /\ HeaderInv(p, q)
      /\ prefix \o SubSeq(data, lastLine + 1, readBytes) = Slice(q, p)
  BY <1>1, ScanPlace
<1>3. Line = IF Slice(q, p) # <<>> /\ Head(Slice(q, p)) = NewLine
             THEN Tail(Slice(q, p)) ELSE Slice(q, p)
  BY <1>2 DEF Line
<1> HIDE DEF p, q
<1>4. reads = "any"
  <2>1. SUFFICES ASSUME reads # "any" PROVE FALSE
    OBVIOUS
  <2>2. sent[p + 1] = NewLine
    BY <1>1, <1>2, <2>1 DEF ScanInv
  <2>3. \/ Line = <<ContentType>>
        \/ Line = <<Name, Number(l)>>
        \/ Line = <<>> /\ length = l
    BY <1>2, <1>3, <2>1, <2>2, LineRead
  <2>4. <<>> # <<ContentType>> /\ <<>> # <<Name, Number(l)>>
    <3>1. \A x, y : <<>> # <<x>> /\ <<>> # <<x, y>>
      OBVIOUS
    <3> QED BY <3>1
  <2>5. l # -1 /\ l \in 0 .. Len(Sent)
    <3>1. /\ Start \in Nat /\ Header(m) \in Nat
          /\ Start + Header(m) + l <= Len(Sent)
      <4>1. /\ Before(m) \in {0, 2} /\ Start \in Nat
            /\ Header(m) = Before(m) + 4
            /\ Start + Header(m) + l <= Len(Sent)
        BY <1>2, CurrentHeader
      <4> QED BY <4>1
    <3>2. Len(Sent) \in Nat
      BY <1>2, Held
    <3> QED BY <1>2, <3>1, <3>2
  <2>6. Decodable(data)
    BY <1>1, <1>2, <2>1 DEF ScanInv
  <2> QED BY <1>1, <2>3, <2>4, <2>5, <2>6
<1>5. SliceInv'
  <2>1. length' \in Nat \cup {-1} /\ readBytes' \in Nat /\ contentRead' \in Nat
    BY <1>1, <1>2 DEF SliceInv
  <2> QED BY <1>1, <1>2, <2>1, StillHeld
<1>6. dispatched' \in Seq(ToSet(dispatched')) /\ Framing' /\ reads' = reads
  BY <1>1, SameMessage
<1>7. HeadersInv' /\ ScanInv' /\ ContentInv' /\ NothingLost'
  BY <1>1, <1>4, <1>6 DEF HeadersInv, ScanInv, ContentInv, NothingLost
<1> QED BY <1>5, <1>6, <1>7 DEF ReaderInv

(* All that was read is scanned: the pump keeps the beginning of a line.   *)
LEMMA ScanDoneStep ==
  ASSUME ReaderInv, ScanDone
  PROVE  ReaderInv'
<1> DEFINE m == Current
           h == Before(m)
           B == Start
           A == Arrived
           p == Position
           k == Len(prefix)
           q == Base + lastLine - k
           r == Base + lastLine
           j == p - B
<1>1. /\ phase = "scan" /\ readBytes = Len(data) /\ phase' = "headers"
      /\ prefix' = SubSeq(data, lastLine + 1, Len(data)) /\ data' = <<>>
      /\ UNCHANGED <<inputVars, stream, readBytes, lastLine, length, content,
                     contentRead, dispatched>>
  BY DEF ScanDone
<1>2. /\ SliceInv /\ ScanInv /\ Framing
      /\ dispatched \in Seq(ToSet(dispatched)) /\ m <= Len(Contents)
      /\ HeaderInv(p, q)
  BY <1>1 DEF ReaderInv, ScanInv
<1>3. /\ A \in Nat /\ Base \in Nat /\ Base <= A /\ A <= Len(sent)
      /\ Len(sent) \in Nat /\ Len(Sent) \in Nat
      /\ Len(data) = A - Base /\ data = Slice(Base, A)
      /\ sent \in Seq(ToSet(Sent))
      /\ stream = Slice(A, Len(sent)) /\ (stream = <<>> <=> A = Len(sent))
  BY <1>2, Held DEF SliceInv
<1>4. /\ p = Base + readBytes /\ q \in Nat /\ q <= p /\ q >= B
      /\ lastLine \in Nat /\ k \in Nat /\ k <= Base
      /\ prefix \o SubSeq(data, lastLine + 1, readBytes) = Slice(q, p)
  BY <1>1, <1>2, ScannedLine
<1>5. /\ h \in {0, 2} /\ B \in Nat /\ Len(Contents[m]) \in Nat
      /\ B + Header(m) + Len(Contents[m]) <= Len(Sent) /\ Header(m) = h + 4
  BY <1>2, CurrentHeader
<1>6. /\ j \in 0 .. h + 3 /\ q \in B + LineStart(m, j) .. p
      /\ length = IF j = h + 3 THEN Len(Contents[m]) ELSE -1
      /\ reads # "any" /\ j < h + 3 => q <= B + (IF j < h THEN 0 ELSE h)
      /\ content = <<>> /\ contentRead = 0
  BY <1>2 DEF HeaderInv
<1>7. lastLine \in 0 .. readBytes /\ (prefix # <<>> => lastLine = 0)
  BY <1>1, <1>2 DEF ScanInv
<1>8. LineStart(m, j) \in Nat
  BY <1>5 DEF LineStart
<1> DEFINE ls == LineStart(m, j)
<1>9. /\ ls \in Nat /\ q \in B + ls .. p
  BY <1>6, <1>8
<1>10. k = 0 \/ lastLine = 0
  <2>1. <<>> = prefix => k = 0
    <3>1. Len(<<>>) = 0
      OBVIOUS
    <3> QED BY <3>1
  <2> QED BY <1>7, <2>1
<1>11. /\ reads = "coarse" => Base = B \/ Len(data) >= 2 \/ stream = <<>>
       /\ reads = "lines" =>
            /\ Base = B \/ sent[Base] = NewLine
            /\ sent[A] = NewLine \/ stream = <<>>
       /\ reads \in {"lines", "coarse", "any"}
       /\ reads # "lines" => Len(sent) = Len(Sent)
  BY <1>1, <1>2 DEF ScanInv, SliceInv
<1>12. sent[Base] = NewLine /\ Base > B /\ Base <= p /\ j < h + 3 =>
         h = 2 /\ Base = B + 2
  <2>1. SUFFICES ASSUME sent[Base] = NewLine, Base > B, Base <= p, j < h + 3
                 PROVE  h = 2 /\ Base = B + 2
    OBVIOUS
  <2>2. \A i \in 0 .. Before(Current) + 3 :
          Start + i < Len(sent) /\ sent[Start + i + 1] = NewLine =>
            \/ Before(Current) = 2 /\ i = 1
            \/ i = Before(Current) + 2 \/ i = Before(Current) + 3
    BY <1>2, HeaderNewLines
  <2> DEFINE i == Base - B - 1
  <2>3. /\ i \in 0 .. h + 3 /\ B + i < Len(sent) /\ B + i + 1 = Base
        /\ i < h + 2
    <3>1. /\ B \in Nat /\ Base \in Nat /\ p \in Nat /\ h \in {0, 2}
          /\ j = p - B /\ j \in 0 .. h + 3 /\ Len(sent) \in Nat /\ A \in Nat
          /\ Base <= A /\ A <= Len(sent)
      BY <1>3, <1>4, <1>5, <1>6, <2>1, SMTT(30)
    <3> HIDE DEF B, p, h, j, A
    <3> QED BY <2>1, <3>1
  <2>4. \/ h = 2 /\ i = 1
        \/ i = h + 2 \/ i = h + 3
    BY <2>1, <2>2, <2>3
  <2>5. B \in Nat /\ Base \in Nat /\ h \in {0, 2}
    BY <1>3, <1>5
  <2> HIDE DEF B, h
  <2> QED BY <2>3, <2>4, <2>5
<1> HIDE DEF m, h, B, A, p, k, q, j, ls
<1>13. p = A /\ r = q + k /\ r \in Nat /\ r <= p /\ r >= q /\ p = B + j
  <2>1. p = A
    BY <1>1, <1>3, <1>4
  <2>2. r = q + k
    BY <1>3, <1>4 DEF q
  <2>3. r <= p
    <3>1. /\ p = Base + readBytes /\ lastLine \in 0 .. readBytes
          /\ Base \in Nat /\ lastLine \in Nat
      BY <1>3, <1>4, <1>7
    <3>2. readBytes \in Nat
      BY <1>2 DEF SliceInv
    <3> QED BY ONLY <3>1, <3>2
  <2>4. p = B + j
    BY <1>3, <1>5, <2>1 DEF j
  <2> QED BY <1>3, <1>4, <2>1, <2>2, <2>3, <2>4
<1>14. prefix' = Slice(r, A) /\ Len(prefix') = A - r /\ A - (A - r) = r
  <2>1. /\ lastLine \in 0 .. A - Base /\ A - Base \in lastLine .. A - Base
        /\ Base + (A - Base) = A
    BY <1>1, <1>3, <1>7
  <2>2. /\ Base \in Nat /\ A \in Nat /\ Base <= A /\ A <= Len(sent)
        /\ sent \in Seq(ToSet(Sent))
    BY <1>3
  <2>3. SubSeq(Slice(Base, A), lastLine + 1, A - Base)
          = Slice(Base + lastLine, Base + (A - Base))
    BY ONLY <2>1, <2>2, SliceOfSlice
  <2>4. prefix' = Slice(r, A)
    BY <1>1, <1>3, <2>1, <2>3
  <2>5. r \in Nat /\ r <= A
    BY <1>13
  <2> HIDE DEF r
  <2>6. Len(Slice(r, A)) = A - r
    BY ONLY <2>2, <2>5, SliceElements
  <2> QED BY <2>2, <2>4, <2>5, <2>6
<1>15. /\ reads' = reads /\ sent' = sent /\ dispatched' = dispatched
       /\ Current' = m /\ Start' = B /\ stream' = stream
       /\ dispatched' \in Seq(ToSet(dispatched')) /\ Framing'
  BY <1>1, SameMessage DEF m, B
<1>16. SliceInv' /\ Base' = A /\ Arrived' = A
  <2>1. /\ length' \in Nat \cup {-1} /\ readBytes' \in Nat
        /\ contentRead' \in Nat
    BY <1>1, <1>2 DEF SliceInv
  <2>2. Slice(A, A) = <<>>
    BY <1>3, SliceElements
  <2>3. A \in 0 .. Len(sent) /\ A \in 0 .. A
    BY <1>3
  <2>4. stream' = Slice(A, Len(sent)) /\ data' = Slice(A, A)
    BY <1>1, <1>3, <2>2
  <2> QED BY <1>1, <1>2, <2>1, <2>3, <2>4, SliceStep
<1>17. reads # "any" /\ j < h + 3 => r <= B + (IF j < h THEN 0 ELSE h)
  <2>1. SUFFICES ASSUME reads # "any", j < h + 3
                 PROVE  r <= B + (IF j < h THEN 0 ELSE h)
    OBVIOUS
  <2>2. q <= B + (IF j < h THEN 0 ELSE h)
    BY <1>6, <2>1
  <2>3. CASE k = 0
    <3>1. r = q
      BY <1>4, <1>13, <2>3
    <3> QED BY <2>2, <3>1
  <2>4. CASE k # 0
    <3>1. lastLine = 0 /\ r = Base /\ Base >= B
      BY <1>3, <1>4, <1>5, <1>10, <1>13, <2>4
    <3>2. CASE Base = B
      BY <1>5, <3>1, <3>2
    <3>3. CASE Base # B /\ reads = "coarse"
      <4>1. stream # <<>>
        <5>1. SUFFICES ASSUME A = Len(Sent) PROVE FALSE
          BY <1>3, <1>11, <3>3
        <5> DEFINE l == Len(Contents[m])
        <5>2. /\ B + Header(m) + l <= Len(Sent) /\ Header(m) = h + 4
              /\ l \in Nat
          BY <1>5
        <5> HIDE DEF l
        <5>3. B + j = Len(Sent) /\ B \in Nat /\ h \in {0, 2} /\ j < h + 3
          BY <1>5, <1>13, <2>1, <5>1
        <5> QED BY <1>6, <5>2, <5>3
      <4>2. Len(data) >= 2
        BY <1>11, <3>3, <4>1
      <4>3. Base <= p - 2
        BY <1>3, <1>13, <4>2
      <4>4. /\ B \in Nat /\ Base \in Nat /\ p = B + j /\ h \in {0, 2}
            /\ j \in 0 .. h + 3 /\ j < h + 3
        BY <1>3, <1>5, <1>6, <1>13, <2>1
      <4>5. j >= 2
        BY ONLY <3>1, <4>3, <4>4
      <4>6. ~ (j < h) /\ Base <= B + h
        BY ONLY <4>3, <4>4, <4>5
      <4> QED BY <3>1, <4>6
    <3>4. CASE Base # B /\ reads = "lines"
      <4>1. Base > B /\ Base <= p
        BY <1>3, <1>5, <1>13, <3>1, <3>4
      <4>2. h = 2 /\ Base = B + 2
        BY <1>11, <1>12, <2>1, <3>4, <4>1
      <4>3. ~ (j < h)
        BY <1>5, <1>6, <1>13, <4>1, <4>2
      <4> QED BY <3>1, <4>2, <4>3
    <3> QED BY <1>11, <2>1, <3>2, <3>3, <3>4
  <2> QED BY <2>3, <2>4
<1>18. HeaderInv(Base, Base - Len(prefix))'
  <2>1. Base' - Len(prefix') = r /\ Base' - Start' = j /\ Base' = p
    BY <1>13, <1>14, <1>15, <1>16 DEF j
  <2>2. r \in B + ls .. p
    BY <1>5, <1>9, <1>13
  <2>3. Current' <= Len(Contents)
    BY <1>2, <1>15
  <2> QED BY <1>1, <1>6, <1>15, <1>17, <2>1, <2>2, <2>3
           DEF HeaderInv, LineStart, Before, ls, h, m
<1>19. HeadersInv'
  <2>1. Len(prefix') \in 0 .. Base'
    <3>1. r \in Nat /\ r <= A /\ A \in Nat
      BY <1>3, <1>13
    <3> HIDE DEF r
    <3>2. A - r \in 0 .. A
      BY ONLY <3>1
    <3> QED BY <1>14, <1>16, <3>2
  <2>2. prefix' = Slice(Base - Len(prefix), Base)'
    BY <1>14, <1>15, <1>16 DEF Slice
  <2>3. Decodable(data)'
    BY <1>1 DEF Decodable
  <2>4. reads' = "lines" =>
          data' = <<>> /\ (sent'[Base'] = NewLine \/ stream' = <<>>)
    BY <1>1, <1>11, <1>15, <1>16
  <2> QED BY <1>1, <1>18, <2>1, <2>2, <2>3, <2>4 DEF HeadersInv
<1>20. ScanInv' /\ ContentInv' /\ NothingLost'
  BY <1>1 DEF ScanInv, ContentInv, NothingLost
<1> QED BY <1>15, <1>16, <1>19, <1>20 DEF ReaderInv

(* What is read ends with a character.                                     *)
LEMMA LastOfData ==
  ASSUME NEW d, d \in Seq(ToSet(Sent)), d # <<>>, d[Len(d)].type # "lead"
  PROVE  Decodable(d)
BY DEF Decodable, Last

(* The pump waits for the end of a header, and there is more of it.        *)
LEMMA HeadersPlace ==
  ASSUME ReaderInv, phase = "headers"
  PROVE  /\ SliceInv /\ Framing /\ dispatched \in Seq(ToSet(dispatched))
         /\ Start \in Nat /\ Base \in Nat /\ Arrived \in Nat
         /\ Len(sent) \in Nat
         /\ Base <= Arrived /\ Arrived <= Len(sent)
         /\ Base - Start \in 0 .. Before(Current) + 3
         /\ Before(Current) \in {0, 2}
         /\ Base < Len(sent) => Current <= Len(Contents)
         /\ Len(prefix) \in 0 .. Base
         /\ prefix = Slice(Base - Len(prefix), Base)
<1>1. /\ SliceInv /\ HeadersInv /\ Framing
      /\ dispatched \in Seq(ToSet(dispatched))
  BY DEF ReaderInv
<1>2. /\ HeaderInv(Base, Base - Len(prefix)) /\ Len(prefix) \in 0 .. Base
      /\ prefix = Slice(Base - Len(prefix), Base)
  BY <1>1 DEF HeadersInv
<1>3. /\ Start \in Nat /\ Base \in Nat /\ Arrived \in Nat /\ Len(sent) \in Nat
      /\ Base <= Arrived /\ Arrived <= Len(sent) /\ Len(Sent) \in Nat
      /\ Len(sent) <= Len(Sent)
  BY <1>1, CurrentMessage, Held DEF SliceInv
<1>4. /\ Base - Start \in 0 .. Before(Current) + 3
      /\ Base - Start # 0 => Current <= Len(Contents)
  BY <1>2 DEF HeaderInv
<1>5. Before(Current) \in {0, 2}
  BY DEF Before
<1>6. ASSUME Base < Len(sent), ~ (Current <= Len(Contents)) PROVE FALSE
  <2>1. Start = Len(Sent)
    BY <1>1, <1>6, CurrentMessage
  <2>2. Base - Start = 0
    BY <1>4, <1>6
  <2> QED BY <1>3, <1>6, <2>1, <2>2
<1> QED BY <1>1, <1>2, <1>3, <1>4, <1>5, <1>6

(* A scan begins with data that is not empty.                              *)
LEMMA ScanBegins ==
  ASSUME ReaderInv, phase = "headers", phase' = "scan", SliceInv',
         UNCHANGED <<inputVars, prefix, length, content, contentRead,
                     dispatched>>,
         readBytes' = 0, lastLine' = 0, Base' = Base,
         data' # <<>>, Len(data') \in Nat,
         Base < Len(sent),
         reads # "any" => Decodable(data'),
         reads = "coarse" => Base = Start \/ Len(data') >= 2 \/ stream' = <<>>,
         reads = "lines" => /\ Arrived' <= Start + Header(Current)
                            /\ Base = Start \/ sent[Base] = NewLine
                            /\ sent[Arrived'] = NewLine \/ stream' = <<>>
  PROVE  ReaderInv'
<1>1. /\ HeadersInv /\ Framing /\ dispatched \in Seq(ToSet(dispatched))
      /\ Current <= Len(Contents) /\ Base \in Nat
  BY HeadersPlace DEF ReaderInv
<1>2. /\ reads' = reads /\ sent' = sent /\ dispatched' = dispatched
      /\ Current' = Current /\ Start' = Start
      /\ dispatched' \in Seq(ToSet(dispatched')) /\ Framing'
  BY SameMessage
<1>3. Position' = Base /\ Len(prefix) \in 0 .. Base
  BY <1>1, HeadersPlace DEF Position
<1>4. HeaderInv(Position, Base + lastLine - Len(prefix))'
  <2>1. Base' + lastLine' - Len(prefix') = Base - Len(prefix)
    BY <1>1, <1>3
  <2>2. HeaderInv(Base, Base - Len(prefix))
    BY <1>1 DEF HeadersInv
  <2> QED BY <1>2, <1>3, <2>1, <2>2 DEF HeaderInv, LineStart, Before
<1>5. ScanInv'
  <2>1. Len(prefix') \in 0 .. Base'
        /\ prefix' = Slice(Base - Len(prefix), Base)'
    BY <1>2, <1>3, HeadersPlace DEF Slice
  <2>2. Len(data') \in Nat
    OBVIOUS
  <2>3. /\ readBytes' <= Len(data') /\ lastLine' \in 0 .. readBytes'
        /\ prefix' # <<>> => lastLine' = 0
    <3>1. \A x \in Nat : 0 <= x
      OBVIOUS
    <3> QED BY <2>2, <3>1
  <2>4. /\ reads' # "any" => Decodable(data')
        /\ reads' = "coarse" =>
             Base' = Start' \/ Len(data') >= 2 \/ stream' = <<>>
        /\ reads' = "lines" => /\ Arrived' <= Start' + Header(Current')
                               /\ Base' = Start' \/ sent'[Base'] = NewLine
                               /\ sent'[Arrived'] = NewLine \/ stream' = <<>>
    BY <1>2
  <2> QED BY <1>1, <1>2, <1>4, <2>1, <2>3, <2>4
           DEF ScanInv, Header, Before, Decodable
<1>6. HeadersInv' /\ ContentInv' /\ NothingLost'
  BY DEF HeadersInv, ContentInv, NothingLost
<1> QED BY <1>2, <1>5, <1>6 DEF ReaderInv

(* The pump reads, or has some data left.                                  *)
LEMMA ReadHeaderDataStep ==
  ASSUME ReaderInv, ReadHeaderData
  PROVE  ReaderInv'
<1> DEFINE A == Arrived
           B == Start
           h == Before(Current)
<1>1. /\ phase = "headers" /\ phase' = "scan" /\ readBytes' = 0 /\ lastLine' = 0
      /\ UNCHANGED <<inputVars, prefix, length, content, contentRead,
                     dispatched>>
      /\ IF data # <<>> THEN UNCHANGED <<stream, data>>
                        ELSE \E n \in AnyRead : Take(n)
  BY DEF ReadHeaderData, StartOfData
<1>2. /\ SliceInv /\ HeadersInv /\ Framing
      /\ dispatched \in Seq(ToSet(dispatched))
      /\ B \in Nat /\ Base \in Nat /\ A \in Nat /\ Len(sent) \in Nat
      /\ Base <= A /\ A <= Len(sent)
      /\ Base - B \in 0 .. h + 3 /\ h \in {0, 2}
      /\ Base < Len(sent) => Current <= Len(Contents)
  BY <1>1, HeadersPlace DEF ReaderInv
<1>3. length' \in Nat \cup {-1} /\ readBytes' \in Nat /\ contentRead' \in Nat
  BY <1>1, <1>2 DEF SliceInv
<1>4. CASE data # <<>>
  <2>1. UNCHANGED <<stream, data>>
    BY <1>1, <1>4
  <2>2. SliceInv' /\ Base' = Base /\ Arrived' = A
    BY <1>1, <1>2, <1>3, <2>1, StillHeld
  <2>3. Base = B /\ reads # "lines" /\ (reads # "any" => Decodable(data))
    BY <1>1, <1>2, <1>4 DEF HeadersInv
  <2>4. Base < Len(sent)
    <3>1. Base # A
      BY <1>2, <1>4, Held
    <3> QED BY <1>2, <3>1
  <2>5. Decodable(data)' = Decodable(data)
    BY <2>1 DEF Decodable
  <2>6. reads # "any" => Decodable(data')
    BY <2>1, <2>3
  <2>7. data' # <<>> /\ Len(data') \in Nat
    BY <1>2, <1>4, <2>1, Held
  <2> QED BY <1>1, <2>2, <2>3, <2>4, <2>6, <2>7, ScanBegins
<1>5. CASE data = <<>>
  <2>1. PICK n \in AnyRead : Take(n)
    BY <1>1, <1>5
  <2>2. /\ Len(stream) = Len(sent) - A /\ A = Base
        /\ \A i \in 1 .. Len(stream) : stream[i] = sent[A + i]
    BY <1>2, <1>5, Held
  <2>3. /\ n \in 1 .. Len(stream)
        /\ reads = "lines" => /\ stream[n] = NewLine \/ n = Len(stream)
                              /\ \A i \in 1 .. n - 1 : stream[i] # NewLine
        /\ reads = "coarse" => \/ n > 1 /\ stream[n].type # "lead"
                               \/ n = Len(stream)
    <3>1. reads \in {"lines", "coarse", "any"}
      BY <1>2 DEF SliceInv
    <3>2. CASE reads = "lines"
      <4>1. AnyRead = {k \in 1 .. Len(stream) :
                         /\ stream[k] = NewLine \/ k = Len(stream)
                         /\ \A i \in 1 .. k - 1 : stream[i] # NewLine}
        BY <3>2 DEF AnyRead
      <4>2. n \in {k \in 1 .. Len(stream) :
                         /\ stream[k] = NewLine \/ k = Len(stream)
                         /\ \A i \in 1 .. k - 1 : stream[i] # NewLine}
        BY <4>1
      <4> QED BY <3>2, <4>2
    <3>3. CASE reads = "coarse"
      <4>1. AnyRead = {k \in 1 .. Len(stream) :
                         \/ k > 1 /\ stream[k].type # "lead"
                         \/ k = Len(stream)}
        BY <3>3 DEF AnyRead
      <4>2. n \in {k \in 1 .. Len(stream) :
                         \/ k > 1 /\ stream[k].type # "lead"
                         \/ k = Len(stream)}
        BY <4>1
      <4> QED BY <3>3, <4>2
    <3>4. CASE reads = "any"
      <4>1. AnyRead = 1 .. Len(stream)
        BY <3>4 DEF AnyRead
      <4> QED BY <3>4, <4>1
    <3> QED BY <3>1, <3>2, <3>3, <3>4
  <2>4. n \in 0 .. Len(stream) /\ n \in Nat /\ n >= 1
    BY <1>2, <2>2, <2>3
  <2>5. /\ SliceInv' /\ Base' = A /\ Arrived' = A + n
        /\ Len(data') = n /\ Len(stream') = Len(stream) - n
        /\ data' \in Seq(ToSet(Sent)) /\ (data' = <<>> <=> n = 0)
        /\ stream' = <<>> <=> n = Len(stream)
        /\ \A i \in 1 .. n : data'[i] = sent[A + i]
    BY <1>1, <1>2, <1>3, <2>1, <2>4, TakeRead
  <2>6. /\ Base < Len(sent) /\ A + n <= Len(sent) /\ A + n \in Nat
        /\ n = Len(stream) => A + n = Len(sent)
    BY <1>2, <2>2, <2>3
  <2>7. /\ data' # <<>> /\ Len(data') \in Nat /\ Base' = Base
        /\ n \in 1 .. Len(stream) /\ data'[Len(data')] = sent[A + n]
        /\ stream[n] = sent[A + n]
    <3>1. n \in 1 .. n
      BY <2>4
    <3> QED BY <2>2, <2>3, <2>4, <2>5, <3>1
  <2>8. Current <= Len(Contents)
    BY <1>2, <2>6
  <2>9. reads = "lines" => A + n <= B + Header(Current)
    <3>1. SUFFICES ASSUME reads = "lines", ~ (A + n <= B + Header(Current))
                   PROVE  FALSE
      OBVIOUS
    <3> DEFINE i == B + h + 4 - A
    <3>2. Header(Current) = h + 4
      BY DEF Header
    <3> HIDE DEF A, B, h
    <3>3. i \in 1 .. n - 1 /\ A + i = B + h + 4
      BY <1>2, <2>2, <2>4, <3>1, <3>2
    <3>4. h + 3 \in 0 .. h + 3 /\ B + (h + 3) < Len(sent) /\ ~ (h + 3 < h)
          /\ h + 3 # h /\ h + 3 # h + 1 /\ B + (h + 3) + 1 = B + h + 4
      BY <1>2, <2>6, <3>1, <3>2
    <3>5. sent[B + (h + 3) + 1] = NewLine
      BY <1>2, <2>8, <3>4, HeaderNewLines DEF B, h
    <3> HIDE DEF i
    <3>6. i \in 1 .. Len(stream)
      BY <1>2, <2>2, <2>3, <3>3
    <3>7. stream[i] = NewLine
      BY <2>2, <3>3, <3>4, <3>5, <3>6 DEF A
    <3> QED BY <2>3, <3>1, <3>3, <3>7
  <2>10. reads # "any" => data'[Len(data')].type # "lead"
    <3>1. CASE reads = "coarse" /\ n = Len(stream)
      <4>1. A + n = Len(Sent) /\ Len(Sent) # 0
        <5>1. reads # "lines" => Len(sent) = Len(Sent)
          BY <1>2 DEF SliceInv
        <5>2. A + n # 0
          BY <1>2, <2>4
        <5> QED BY <2>6, <3>1, <5>1, <5>2
      <4>2. sent[A + n] = Sent[A + n]
        <5>1. A + n \in 1 .. Len(sent)
          BY <1>2, <2>4, <2>6
        <5> QED BY <1>2, <5>1 DEF SliceInv
      <4> QED BY <2>7, <4>1, <4>2, SentEnd
    <3>2. CASE reads = "coarse" /\ n # Len(stream)
      BY <2>3, <2>7, <3>2
    <3>3. CASE reads = "lines"
      <4> DEFINE i == A + n - B - 1
      <4>1. i \in 0 .. h + 3 /\ B + i < Len(sent) /\ B + i + 1 = A + n
        <5>1. Header(Current) = h + 4
          BY DEF Header
        <5>2. A + n <= B + h + 4
          BY <2>9, <3>3, <5>1, <1>2
        <5> HIDE DEF A, B, h
        <5> QED BY <1>2, <2>2, <2>4, <2>6, <5>2
      <4> HIDE DEF i
      <4>2. sent[B + i + 1].type # "lead"
        BY <1>2, <2>8, <4>1, HeaderNewLines
      <4> QED BY <2>7, <4>1, <4>2
    <3>4. reads \in {"lines", "coarse", "any"}
      BY <1>2 DEF SliceInv
    <3> QED BY <3>1, <3>2, <3>3, <3>4
  <2>11. reads # "any" => Decodable(data')
    <3>1. SUFFICES ASSUME reads # "any" PROVE Decodable(data')
      OBVIOUS
    <3>2. data'[Len(data')].type # "lead"
      BY <2>10, <3>1
    <3> DEFINE d == data'
    <3>3. d \in Seq(ToSet(Sent)) /\ d # <<>> /\ d[Len(d)].type # "lead"
      BY <2>5, <2>7, <3>2
    <3> HIDE DEF d
    <3>4. Decodable(d)
      BY <3>3, LastOfData
    <3> QED BY <3>4 DEF d
  <2>12. reads = "coarse" => Base = Start \/ Len(data') >= 2 \/ stream' = <<>>
    BY <2>3, <2>4, <2>5
  <2>13. reads = "lines" => /\ Arrived' <= Start + Header(Current)
                            /\ Base = Start \/ sent[Base] = NewLine
                            /\ sent[Arrived'] = NewLine \/ stream' = <<>>
    <3>1. SUFFICES ASSUME reads = "lines"
                   PROVE  /\ Base = Start \/ sent[Base] = NewLine
                          /\ sent[Arrived'] = NewLine \/ stream' = <<>>
      BY <2>5, <2>9
    <3>2. stream # <<>>
      BY <1>2, <2>2, <2>6, Held
    <3> QED BY <1>1, <1>2, <2>3, <2>5, <2>7, <3>1, <3>2 DEF HeadersInv
  <2> QED BY <1>1, <2>5, <2>6, <2>7, <2>11, <2>12, <2>13, ScanBegins
<1> QED BY <1>4, <1>5

(* The server died before the end of the message.                          *)
LEMMA EndStep ==
  ASSUME ReaderInv, Raise, stream = <<>>,
         Current <= Len(Contents) => Len(sent) < Len(Encoded[Current])
  PROVE  ReaderInv'
<1>1. /\ phase' = "failed"
      /\ UNCHANGED <<inputVars, stream, data, readBytes, length, contentRead,
                     dispatched>>
  BY DEF Raise
<1>2. /\ SliceInv /\ Framing /\ dispatched \in Seq(ToSet(dispatched))
  BY DEF ReaderInv
<1>3. SliceInv'
  <2>1. length' \in Nat \cup {-1} /\ readBytes' \in Nat /\ contentRead' \in Nat
    BY <1>1, <1>2 DEF SliceInv
  <2> QED BY <1>1, <1>2, <2>1, StillHeld
<1>4. /\ dispatched' \in Seq(ToSet(dispatched')) /\ Framing'
      /\ Complete' = Complete
      /\ dispatched' = dispatched
  BY <1>1, SameMessage
<1>5. Complete \subseteq 1 .. Len(dispatched)
  <2>1. SUFFICES ASSUME NEW n \in Complete PROVE n \in 1 .. Len(dispatched)
    OBVIOUS
  <2>2. n \in 1 .. Len(Contents) /\ Len(Encoded[n]) <= Len(sent)
    BY DEF Complete
  <2>3. /\ Len(dispatched) \in 0 .. Len(Contents) /\ Len(Contents) \in Nat
        /\ Current = Len(dispatched) + 1
    BY <1>2, CurrentMessage
  <2>4. SUFFICES ASSUME Current <= n PROVE FALSE
    BY <2>2, <2>3
  <2>5. Current <= Len(Contents) /\ n \in 0 .. Len(Contents)
        /\ Current \in 0 .. n
    BY <2>2, <2>3, <2>4
  <2> DEFINE m == Current
  <2>6. m \in 0 .. n /\ n \in 0 .. Len(Contents) /\ m \in 0 .. Len(Contents)
    BY <2>3, <2>5
  <2> HIDE DEF m
  <2>7. Len(Encoded[m]) <= Len(Encoded[n])
    BY ONLY <2>6, EncodedPrefix
  <2>8. Len(Encoded[m]) \in Nat /\ Len(Encoded[n]) \in Nat /\ Len(sent) \in Nat
    BY <1>2, <2>6, EncodedTyped, LenProperties, Held
  <2>9. Len(sent) < Len(Encoded[m])
    BY <2>5 DEF m
  <2> QED BY <2>2, <2>7, <2>8, <2>9
<1>6. NothingLost'
  BY <1>1, <1>4, <1>5 DEF NothingLost
<1>7. HeadersInv' /\ ScanInv' /\ ContentInv'
  BY <1>1 DEF HeadersInv, ScanInv, ContentInv
<1> QED BY <1>3, <1>4, <1>6, <1>7 DEF ReaderInv

(* Standard output ends within a header.                                   *)
LEMMA ReadHeaderEndStep ==
  ASSUME ReaderInv, ReadHeaderEnd
  PROVE  ReaderInv'
<1>1. phase = "headers" /\ data = <<>> /\ stream = <<>> /\ Raise
  BY DEF ReadHeaderEnd, EndOfFile
<1>2. Current <= Len(Contents) => Len(sent) < Len(Encoded[Current])
  <2>1. SUFFICES ASSUME Current <= Len(Contents)
                 PROVE  Len(sent) < Len(Encoded[Current])
    OBVIOUS
  <2> DEFINE B == Start
             h == Before(Current)
             l == Len(Contents[Current])
  <2>2. /\ SliceInv /\ Framing /\ dispatched \in Seq(ToSet(dispatched))
        /\ B \in Nat /\ Base \in Nat /\ Base - B \in 0 .. h + 3 /\ h \in {0, 2}
    BY <1>1, HeadersPlace
  <2>3. /\ l \in Nat /\ Header(Current) = h + 4
        /\ Len(Encoded[Current]) = B + Header(Current) + l
    BY <2>1, <2>2, CurrentHeader
  <2>4. Base = Len(sent)
    BY <1>1, <2>2, Held
  <2> HIDE DEF B, h, l
  <2> QED BY <2>2, <2>3, <2>4
<1> QED BY <1>1, <1>2, EndStep

(* The length of a header.                                                 *)
LEMMA HeaderLength ==
  ASSUME NEW m
  PROVE  /\ Before(m) \in {0, 2} /\ Header(m) = Before(m) + 4
         /\ Header(m) \in Nat
<1>1. Before(m) \in {0, 2} /\ Header(m) = Before(m) + 4
  BY DEF Before, Header
<1> QED BY <1>1

(* The pump has read the content to some place.                            *)
LEMMA ContentPlace ==
  ASSUME ReaderInv, phase \in {"headers complete", "content"}
  PROVE  /\ SliceInv /\ ContentInv /\ Framing
         /\ dispatched \in Seq(ToSet(dispatched))
         /\ Current <= Len(Contents) /\ length = Len(Contents[Current])
         /\ length \in Nat /\ contentRead \in Nat /\ readBytes \in Nat
         /\ Start \in Nat /\ Header(Current) \in Nat
         /\ Position \in Nat /\ Position <= Arrived
         /\ Position = Base + readBytes
         /\ Arrived \in Nat /\ Arrived <= Len(sent) /\ Len(sent) \in Nat
         /\ Base \in Nat
         /\ Position = Start + Header(Current) + Len(content)
         /\ content = Slice(Start + Header(Current), Position)
         /\ content \in Seq(ToSet(Sent)) /\ Len(content) \in Nat
         /\ Len(content) <= length
         /\ readBytes <= Len(data) /\ Len(data) = Arrived - Base
         /\ Len(Encoded[Current]) = Start + Header(Current) + length
         /\ Len(Encoded[Current]) <= Len(Sent)
         /\ sent \in Seq(ToSet(Sent))
<1>1. /\ SliceInv /\ ContentInv /\ Framing
      /\ dispatched \in Seq(ToSet(dispatched))
  BY DEF ReaderInv
<1>2. /\ Current <= Len(Contents) /\ length = Len(Contents[Current])
      /\ readBytes <= Len(data) /\ Len(content) <= length
      /\ Position = Start + Header(Current) + Len(content)
      /\ content = Slice(Start + Header(Current), Position)
  BY <1>1 DEF ContentInv
<1>3. /\ Start \in Nat /\ Before(Current) \in {0, 2} /\ length \in Nat
      /\ Header(Current) = Before(Current) + 4
      /\ Len(Encoded[Current]) = Start + Header(Current) + length
      /\ Start + Header(Current) + length <= Len(Sent)
  BY <1>1, <1>2, CurrentHeader
<1>4. /\ Position \in Nat /\ Position \in 0 .. Arrived
      /\ Position = Base + readBytes
  BY <1>1, <1>2, RestOfData
<1>5. /\ Arrived \in Nat /\ Arrived <= Len(sent) /\ Len(sent) \in Nat
      /\ Base \in Nat /\ Len(data) = Arrived - Base
      /\ contentRead \in Nat /\ readBytes \in Nat /\ sent \in Seq(ToSet(Sent))
  BY <1>1, Held DEF SliceInv
<1>6. content \in Seq(ToSet(Sent)) /\ Len(content) \in Nat
  <2> DEFINE a == Start + Header(Current)
             b == Position
  <2>1. content = SubSeq(sent, a + 1, b)
    BY <1>2 DEF Slice
  <2>5. Header(Current) \in Nat /\ Start \in Nat
    BY <1>3, HeaderLength
  <2>6. a \in Nat
    BY ONLY <2>5
  <2>7. b \in Nat /\ b <= Arrived /\ Arrived <= Len(sent) /\ Arrived \in Nat
        /\ Len(sent) \in Nat
    <3>1. /\ Position \in 0 .. Arrived /\ Arrived \in Nat
          /\ Arrived <= Len(sent)
          /\ Len(sent) \in Nat
      BY <1>4, <1>5
    <3> QED BY ONLY <3>1
  <2> HIDE DEF a, b
  <2>2. a + 1 \in Int /\ b \in Int /\ a \in Nat /\ b <= Len(sent)
    BY ONLY <2>6, <2>7
  <2>3. \A i \in a + 1 .. b : sent[i] \in ToSet(Sent)
    <3>1. \A i \in a + 1 .. b : i \in 1 .. Len(sent)
      BY ONLY <2>2, <2>7
    <3> QED BY <1>5, <3>1, ElementOfSeq
  <2>4. content \in Seq(ToSet(Sent))
    BY <2>1, <2>2, <2>3, SubSeqProperties
  <2> QED BY <2>4, LenProperties
<1>7. Header(Current) \in Nat /\ Position <= Arrived
  <2>1. Position \in 0 .. Arrived /\ Arrived \in Nat
    BY <1>4, <1>5
  <2>2. Position <= Arrived
    BY ONLY <2>1
  <2> QED BY <2>2, HeaderLength
<1>8. Len(Encoded[Current]) <= Len(Sent)
  BY <1>3
<1> QED BY <1>1, <1>2, <1>3, <1>4, <1>5, <1>6, <1>7, <1>8

(* Reading content, the pump goes on to some place.                        *)
LEMMA ContentStep ==
  ASSUME ReaderInv, phase \in {"headers complete", "content"},
         phase' = "content", UNCHANGED <<inputVars, length, dispatched>>,
         SliceInv', readBytes' <= Len(data'),
         Position' = Start + Header(Current) + Len(content'),
         content' = Slice(Start + Header(Current), Position'),
         Len(content') <= length,
         reads # "any" /\ readBytes' < Len(data') => Decodable(data'),
         reads = "lines" => readBytes' = Len(data'),
         IF contentRead' < length
         THEN /\ contentRead' = Len(content') /\ readBytes' = Len(data')
              /\ reads = "lines" /\ content' # <<>> => stream' = <<>>
         ELSE Len(content') = length
  PROVE  ReaderInv'
<1>1. /\ reads' = reads /\ sent' = sent /\ dispatched' = dispatched
      /\ Current' = Current /\ Start' = Start
      /\ dispatched' \in Seq(ToSet(dispatched')) /\ Framing'
      /\ length' = length
  BY SameMessage
<1>2. Current <= Len(Contents) /\ length = Len(Contents[Current])
  BY ContentPlace
<1>3. ContentInv'
  <2>1. content' = Slice(Start + Header(Current), Position)'
    BY <1>1 DEF Slice, Header, Before
  <2>2. /\ Position' = Start' + Header(Current') + Len(content')
        /\ Current' <= Len(Contents) /\ length' = Len(Contents[Current'])
        /\ Len(content') <= length'
    BY <1>1, <1>2
  <2>3. reads' # "any" /\ readBytes' < Len(data') => Decodable(data)'
    BY <1>1 DEF Decodable
  <2>4. /\ reads' = "lines" => readBytes' = Len(data')
        /\ IF contentRead' < length'
           THEN /\ contentRead' = Len(content') /\ readBytes' = Len(data')
                /\ reads' = "lines" /\ content' # <<>> => stream' = <<>>
           ELSE Len(content') = length'
    BY <1>1
  <2> QED BY <2>1, <2>2, <2>3, <2>4 DEF ContentInv, Header, Before
<1>4. HeadersInv' /\ ScanInv' /\ NothingLost'
  BY DEF HeadersInv, ScanInv, NothingLost
<1> QED BY <1>1, <1>3, <1>4 DEF ReaderInv

(* The content begins with what is left of the data of the header.         *)
LEMMA UseRemainderStep ==
  ASSUME ReaderInv, UseRemainder
  PROVE  ReaderInv'
<1> DEFINE rest == SubSeq(data, readBytes + 1, Len(data))
           n == ContentToRead(Len(rest))
           p == Position
           A == Arrived
           C == Start + Header(Current)
<1>1. /\ phase = "headers complete" /\ phase' = "content"
      /\ UNCHANGED <<inputVars, stream, length, dispatched>>
      /\ IF rest = <<>>
         THEN UNCHANGED <<data, readBytes, content, contentRead>>
         ELSE /\ data' = rest /\ content' = SubSeq(rest, 1, n)
              /\ contentRead' = n /\ readBytes' = n
  BY DEF UseRemainder
<1>2. /\ SliceInv /\ length \in Nat /\ contentRead \in Nat /\ readBytes \in Nat
      /\ C \in Nat /\ p \in Nat /\ p <= A /\ A \in Nat /\ A <= Len(sent)
      /\ Len(sent) \in Nat /\ p = Base + readBytes /\ Base \in Nat
      /\ p = C + Len(content) /\ content = Slice(C, p)
      /\ readBytes <= Len(data) /\ Len(data) = A - Base
      /\ sent \in Seq(ToSet(Sent))
  <2>1. Start \in Nat /\ Header(Current) \in Nat
    BY <1>1, ContentPlace
  <2>2. C \in Nat
    BY <2>1
  <2> QED BY <1>1, <2>2, ContentPlace
<1>3. /\ content = <<>> /\ contentRead = 0 /\ Len(content) = 0
      /\ reads # "any" /\ readBytes < Len(data) => Decodable(data)
      /\ reads = "lines" => readBytes = Len(data)
  <2>1. content = <<>>
    BY <1>1, ContentPlace DEF ContentInv
  <2>2. Len(content) = 0
    BY <2>1
  <2> QED BY <1>1, <2>1, <2>2, ContentPlace DEF ContentInv
<1>4. rest = Slice(p, A) /\ Len(rest) = A - p /\ (rest = <<>> <=> p = A)
  <2>1. rest = Slice(p, A)
    BY <1>2, RestOfData
  <2>2. /\ p \in Nat /\ A \in Nat /\ p <= A /\ A <= Len(sent)
        /\ sent \in Seq(ToSet(Sent))
    BY <1>2
  <2> HIDE DEF p, A
  <2>3. Len(Slice(p, A)) = A - p /\ (Slice(p, A) = <<>> <=> p = A)
    BY ONLY <2>2, SliceElements
  <2> QED BY <2>1, <2>3
<1>5. p = C
  <2> HIDE DEF p, C
  <2> QED BY <1>2, <1>3
<1>6. p = A <=> readBytes = Len(data)
  <2> HIDE DEF p, A
  <2> QED BY <1>2
<1> HIDE DEF rest, n
<1>7. CASE rest = <<>>
  <2>1. UNCHANGED <<data, readBytes, content, contentRead>>
    BY <1>1, <1>7
  <2>2. SliceInv' /\ Base' = Base
    BY <1>1, <1>2, <2>1, StillHeld
  <2>3. Position' = p
    BY <2>1, <2>2 DEF Position
  <2>4. readBytes = Len(data)
    BY <1>4, <1>6, <1>7
  <2>5. /\ ~ (0 < length) => length = 0
        /\ 0 <= length
        /\ ~ (Len(data) < Len(data)) /\ Len(data) <= Len(data)
    BY <1>2
  <2> QED BY <1>1, <1>2, <1>3, <2>1, <2>2, <2>3, <2>4, <2>5, ContentStep
<1>8. CASE rest # <<>>
  <2>1. /\ data' = rest /\ content' = SubSeq(rest, 1, n)
        /\ contentRead' = n /\ readBytes' = n
    BY <1>1, <1>8
  <2>2. n = IF length < Len(rest) THEN length ELSE Len(rest)
    <3>1. length - contentRead = length
      BY <1>2, <1>3
    <3> QED BY <3>1 DEF n, ContentToRead
  <2>3. /\ n \in 0 .. A - p /\ n \in Nat /\ n <= length /\ n <= Len(rest)
        /\ n < length => n = Len(rest)
        /\ ~ (n < length) => n = length
    <3> HIDE DEF A, p, C
    <3>1. /\ A \in Nat /\ p \in Nat /\ p <= A /\ Len(rest) = A - p
          /\ length \in Nat
      BY <1>2, <1>4
    <3> HIDE DEF rest, n
    <3> QED BY ONLY <2>2, <3>1
  <2>4. reads # "lines"
    BY <1>3, <1>4, <1>6, <1>8
  <2>5. /\ p \in 0 .. A /\ A \in 0 .. Len(sent) /\ stream' = Slice(A, Len(sent))
        /\ data' = Slice(p, A) /\ readBytes' \in Nat /\ contentRead' \in Nat
        /\ length' \in Nat \cup {-1}
    <3>1. p \in 0 .. A /\ A \in 0 .. Len(sent)
      <4> HIDE DEF p, A
      <4> QED BY <1>2
    <3>2. stream = Slice(A, Len(sent)) /\ length \in Nat \cup {-1}
      BY <1>2 DEF SliceInv
    <3> HIDE DEF p, A
    <3> QED BY <1>1, <1>4, <2>1, <2>3, <3>1, <3>2
  <2>6. /\ SliceInv' /\ Base' = p /\ data' \in Seq(ToSet(Sent))
        /\ Len(data') = A - p /\ \A i \in 1 .. A - p : data'[i] = sent[p + i]
    BY <1>1, <1>2, <2>5, SliceStep
  <2>7. Position' = p + n
    BY <2>1, <2>6 DEF Position
  <2>8. content' = Slice(p, p + n) /\ Len(content') = n
    <3>1. /\ p \in Nat /\ A \in Nat /\ p <= A /\ A <= Len(sent)
          /\ sent \in Seq(ToSet(Sent)) /\ 0 \in 0 .. A - p /\ n \in 0 .. A - p
      BY <1>2, <2>3
    <3> HIDE DEF p, A
    <3>2. SubSeq(Slice(p, A), 0 + 1, n) = Slice(p + 0, p + n)
      BY ONLY <3>1, SliceOfSlice
    <3>3. 0 + 1 = 1 /\ p + 0 = p
      BY <3>1
    <3> DEFINE e == p + n
    <3>4. p \in Nat /\ e \in Nat /\ p <= e /\ e <= Len(sent) /\ e - p = n
          /\ sent \in Seq(ToSet(Sent))
      BY <1>2, <3>1
    <3> HIDE DEF e
    <3>5. Len(Slice(p, e)) = e - p
      BY ONLY <3>4, SliceElements
    <3> QED BY <1>4, <2>1, <3>2, <3>3, <3>4, <3>5 DEF e
  <2>9. reads # "any" => Decodable(data')
    <3>1. SUFFICES ASSUME reads # "any" PROVE Decodable(data')
      OBVIOUS
    <3>2. readBytes < Len(data) /\ Len(data) - readBytes = A - p
      <4>1. readBytes # Len(data)
        BY <1>4, <1>6, <1>8
      <4> HIDE DEF p, A
      <4> QED BY <1>2, <4>1
    <3>3. Decodable(data) /\ data # <<>>
      <4>1. Len(data) # 0
        BY <1>2, <3>2
      <4> QED BY <1>3, <3>1, <3>2, <4>1
    <3>4. data[Len(data)].type # "lead"
      BY <3>3 DEF Decodable, Last
    <3>5. data[Len(data)] = sent[A]
      <4>1. /\ \A i \in 1 .. Len(data) : data[i] = sent[Base + i]
            /\ Len(data) \in 1 .. Len(data) /\ Base + Len(data) = A
        <5>1. \A i \in 1 .. Len(data) : data[i] = sent[Base + i]
          BY <1>2, Held
        <5>2. /\ A \in Nat /\ Base \in Nat /\ readBytes \in Nat
              /\ readBytes < Len(data) /\ Len(data) = A - Base
          BY <1>2, <3>2
        <5> HIDE DEF A
        <5>3. Len(data) \in 1 .. Len(data) /\ Base + Len(data) = A
          BY ONLY <5>2
        <5> QED BY <5>1, <5>3
      <4> QED BY <4>1
    <3> DEFINE d == data'
    <3>6. d \in Seq(ToSet(Sent)) /\ d # <<>> /\ d[Len(d)] = sent[A]
      <4>1. A - p \in 1 .. A - p /\ p + (A - p) = A
        <5>1. p # A
          BY <1>4, <1>8
        <5> HIDE DEF p, A
        <5> QED BY <1>2, <5>1
      <4>2. d[Len(d)] = sent[A]
        BY <2>6, <4>1
      <4> QED BY <1>8, <2>1, <2>6, <4>2
    <3> HIDE DEF d
    <3>7. Decodable(d)
      BY <3>4, <3>5, <3>6, LastOfData
    <3> QED BY <3>7 DEF d
  <2>10. /\ readBytes' <= Len(data') /\ readBytes' = n
         /\ Position' = C + Len(content') /\ content' = Slice(C, Position')
         /\ Len(content') <= length
         /\ IF contentRead' < length
            THEN contentRead' = Len(content') /\ readBytes' = Len(data')
            ELSE Len(content') = length
    <3>1. /\ contentRead' = n /\ Len(content') = n /\ readBytes' = n
          /\ Len(data') = Len(rest)
      BY <2>1, <2>8
    <3> HIDE DEF p, C
    <3> QED BY <1>5, <2>3, <2>7, <2>8, <3>1
  <2> QED BY <1>1, <2>4, <2>6, <2>9, <2>10, ContentStep
<1> QED BY <1>7, <1>8

(* More of the content is read.                                            *)
LEMMA ReadContentStep ==
  ASSUME ReaderInv, ReadContent
  PROVE  ReaderInv'
<1> DEFINE n == SizedRead(length - contentRead)
           p == Position
           A == Arrived
           C == Start + Header(Current)
<1>1. /\ phase = "content" /\ phase' = "content"
      /\ contentRead < length /\ stream # <<>>
      /\ Take(n) /\ content' = content \o SubSeq(stream, 1, n)
      /\ contentRead' = contentRead + Len(content) + n /\ readBytes' = n
      /\ UNCHANGED <<inputVars, length, dispatched>>
  BY DEF ReadContent
<1>2. /\ SliceInv /\ length \in Nat /\ contentRead \in Nat /\ readBytes \in Nat
      /\ Start \in Nat /\ Header(Current) \in Nat
      /\ p \in Nat /\ p <= A /\ A \in Nat /\ A <= Len(sent)
      /\ Len(sent) \in Nat /\ p = Base + readBytes /\ Base \in Nat
      /\ p = C + Len(content) /\ content = Slice(C, p) /\ Len(content) \in Nat
      /\ Len(data) = A - Base /\ Len(content) <= length
      /\ sent \in Seq(ToSet(Sent)) /\ Current <= Len(Contents)
      /\ C + length <= Len(Sent)
  BY <1>1, ContentPlace
<1>3. C \in Nat
  BY <1>2, SMTT(30)
<1>4. /\ contentRead = Len(content) /\ readBytes = Len(data)
      /\ reads = "lines" /\ content # <<>> => stream = <<>>
  BY <1>1, ContentPlace DEF ContentInv
<1>5. Len(stream) = Len(sent) - A /\ (stream = <<>> <=> A = Len(sent))
  BY <1>2, Held
<1>6. n = IF length - contentRead < Len(stream) THEN length - contentRead
          ELSE Len(stream)
  BY DEF SizedRead
<1>7. reads # "lines" => Len(sent) = Len(Sent)
  BY <1>2 DEF SliceInv
<1>8. content = <<>> <=> Len(content) = 0
  <2>1. content \in Seq(ToSet(Sent))
    BY <1>1, ContentPlace
  <2> QED BY <2>1, EmptySeq
<1> HIDE DEF n, p, A, C
<1>9. p = A
  BY <1>2, <1>4
<1>10. /\ n \in 0 .. Len(stream) /\ n \in Nat /\ n >= 1
       /\ Len(content) + n <= length /\ A + n \in Nat /\ A + n <= Len(sent)
       /\ contentRead < length /\ Len(content) + n < length => n = Len(stream)
  <2>1. length - contentRead \in Nat /\ length - contentRead >= 1
    BY <1>1, <1>2
  <2>2. Len(stream) \in Nat /\ Len(stream) >= 1
    BY <1>1, <1>2, <1>5
  <2>3. /\ A \in Nat /\ Len(sent) \in Nat /\ A <= Len(sent)
        /\ length \in Nat /\ contentRead \in Nat /\ contentRead = Len(content)
        /\ Len(stream) = Len(sent) - A
    BY <1>2, <1>4, <1>5
  <2> QED BY ONLY <1>6, <2>1, <2>2, <2>3
<1>11. contentRead' \in Nat /\ length' \in Nat \cup {-1} /\ readBytes' \in Nat
  BY <1>1, <1>2, <1>10, SMTT(30)
<1>12. /\ SliceInv' /\ Base' = A /\ Len(data') = n
       /\ SubSeq(stream, 1, n) = Slice(A, A + n)
       /\ stream' = <<>> <=> n = Len(stream)
  BY <1>1, <1>2, <1>10, <1>11, TakeRead DEF A
<1>13. Position' = A + n
  BY <1>1, <1>12 DEF Position
<1>14. content' = Slice(C, A + n) /\ Len(content') = Len(content) + n
  <2> DEFINE e == A + n
  <2>1. /\ C \in Nat /\ A \in Nat /\ e \in Nat /\ C <= A /\ A <= e
        /\ e <= Len(sent) /\ sent \in Seq(ToSet(Sent)) /\ C <= e
        /\ e - C = Len(content) + n
    <3>1. /\ C \in Nat /\ A \in Nat /\ A = C + Len(content)
          /\ Len(content) \in Nat /\ n \in Nat /\ A + n <= Len(sent)
          /\ Len(sent) \in Nat
      BY <1>2, <1>3, <1>9, <1>10
    <3>2. /\ e \in Nat /\ C <= A /\ A <= e /\ e <= Len(sent) /\ C <= e
          /\ e - C = Len(content) + n
      BY ONLY <3>1
    <3> QED BY <1>2, <3>1, <3>2
  <2> HIDE DEF e
  <2>2. Slice(C, A) \o Slice(A, e) = Slice(C, e)
    BY ONLY <2>1, SlicesMeet
  <2>3. Len(Slice(C, e)) = e - C
    BY ONLY <2>1, SliceElements
  <2>4. content' = Slice(C, A) \o Slice(A, e)
    BY <1>1, <1>2, <1>9, <1>12 DEF e
  <2> QED BY <2>1, <2>2, <2>3, <2>4 DEF e
<1>15. contentRead' < length =>
         contentRead' = Len(content') /\ (reads = "lines" => stream' = <<>>)
  <2>1. SUFFICES ASSUME contentRead' < length
                 PROVE  /\ contentRead' = Len(content')
                        /\ reads = "lines" => stream' = <<>>
    OBVIOUS
  <2>2. Len(content) + n < length
    <3>1. contentRead + Len(content) + n < length
      BY <1>1, <2>1
    <3> QED BY ONLY <1>2, <1>10, <3>1
  <2>3. n = Len(stream) /\ stream' = <<>>
    BY <1>1, <1>10, <1>12, <2>2
  <2>4. reads = "lines"
    <3>1. SUFFICES ASSUME Len(sent) = Len(Sent) PROVE FALSE
      BY <1>7
    <3> QED BY <1>2, <1>3, <1>5, <1>9, <2>2, <2>3, <3>1
  <2>5. Len(content) = 0
    BY <1>1, <1>4, <1>8, <2>4
  <2>6. contentRead' = n /\ Len(content') = n
    <3>1. contentRead' = contentRead + Len(content) + n
      BY <1>1
    <3>2. contentRead = 0
      BY <1>4, <2>5
    <3> QED BY <1>10, <1>14, <2>5, <3>1, <3>2
  <2> QED BY <2>3, <2>6
<1>16. ~ (contentRead' < length) => Len(content') = length
  <2>1. SUFFICES ASSUME ~ (contentRead' < length), Len(content) + n < length
                 PROVE  FALSE
    BY <1>2, <1>10, <1>14, SMTT(30)
  <2>2. n = Len(stream)
    BY <1>1, <1>10, <2>1
  <2>3. reads = "lines"
    <3>1. SUFFICES ASSUME Len(sent) = Len(Sent) PROVE FALSE
      BY <1>7
    <3> QED BY <1>2, <1>3, <1>5, <1>9, <2>1, <2>2, <3>1
  <2>4. Len(content) = 0 /\ contentRead = 0
    BY <1>1, <1>4, <1>8, <2>3
  <2>5. contentRead' = contentRead + Len(content) + n
    BY <1>1
  <2> QED BY <1>2, <1>10, <1>11, <2>1, <2>4, <2>5, SMTT(30)
<1>17. /\ readBytes' = Len(data') /\ readBytes' <= Len(data')
       /\ ~ (readBytes' < Len(data'))
  BY <1>1, <1>10, <1>12
<1>18. /\ Position' = C + Len(content') /\ content' = Slice(C, Position')
       /\ Len(content') <= length
  <2>1. /\ C \in Nat /\ A \in Nat /\ A = C + Len(content)
        /\ Len(content) \in Nat /\ n \in Nat
    BY <1>2, <1>3, <1>9, <1>10
  <2>2. A + n = C + (Len(content) + n)
    BY ONLY <2>1
  <2> QED BY <1>10, <1>13, <1>14, <2>2
<1> QED BY <1>1, <1>12, <1>15, <1>16, <1>17, <1>18, ContentStep DEF C

(* Standard output ends within the content.                                *)
LEMMA ReadContentEndStep ==
  ASSUME ReaderInv, ReadContentEnd
  PROVE  ReaderInv'
<1>1. /\ phase = "content" /\ contentRead < length /\ stream = <<>> /\ Raise
  BY DEF ReadContentEnd, EndOfFile
<1>2. Len(sent) < Len(Encoded[Current])
  <2> DEFINE C == Start + Header(Current)
  <2>1. /\ SliceInv /\ Start \in Nat /\ Header(Current) \in Nat
        /\ Position = C + Len(content) /\ Position = Base + readBytes
        /\ Len(data) = Arrived - Base /\ Base \in Nat /\ Arrived \in Nat
        /\ length \in Nat /\ Len(content) \in Nat /\ contentRead \in Nat
        /\ Len(Encoded[Current]) = C + length
    BY <1>1, ContentPlace
  <2>2. contentRead = Len(content) /\ readBytes = Len(data)
    BY <1>1, ContentPlace DEF ContentInv
  <2>3. Arrived = Len(sent)
    BY <1>1, <2>1, Held
  <2>4. C \in Nat
    BY <2>1
  <2> HIDE DEF C
  <2> QED BY <1>1, <2>1, <2>2, <2>3, <2>4
<1> QED BY <1>1, <1>2, EndStep

(* The whole content was read: the pump dispatches the message.            *)
LEMMA DispatchedContent ==
  ASSUME ReaderInv, phase = "content", contentRead >= length
  PROVE  content = Content(Current) /\ Position = Len(Encoded[Current])
<1> DEFINE m == Current
           C == Start + Header(Current)
<1>1. /\ SliceInv /\ dispatched \in Seq(ToSet(dispatched)) /\ Framing
      /\ m <= Len(Contents) /\ length = Len(Contents[m])
      /\ length \in Nat /\ contentRead \in Nat
      /\ Start \in Nat /\ Header(Current) \in Nat
      /\ Position = C + Len(content) /\ content = Slice(C, Position)
      /\ content \in Seq(ToSet(Sent)) /\ Position <= Arrived /\ Position \in Nat
      /\ Arrived \in Nat /\ Arrived <= Len(sent) /\ Len(sent) \in Nat
      /\ Len(Encoded[m]) = C + length /\ sent \in Seq(ToSet(Sent))
  BY ContentPlace
<1>2. Len(content) = length
  BY <1>1, SMTT(30) DEF ReaderInv, ContentInv
<1>3. C \in Nat
  BY <1>1, SMTT(30)
<1>4. m \in 1 .. Len(Contents) /\ m - 1 = Len(dispatched)
  BY <1>1, CurrentMessage
<1>5. /\ \A i \in 1 .. Len(Contents[m]) :
           Sent[Len(Encoded[m - 1]) + Header(m) + i] = Content(m)[i]
      /\ Content(m) \in Seq(Pieces) /\ Len(Content(m)) = length
  <2> HIDE DEF m
  <2> QED BY <1>1, <1>4, SentLayout, ContentsTyped
<1>6. C = Len(Encoded[m - 1]) + Header(m)
  BY <1>4 DEF Start
<1>7. \A i \in 1 .. length : Sent[C + i] = Content(m)[i]
  BY <1>1, <1>5, <1>6
<1> HIDE DEF C, m
<1>8. \A i \in 1 .. length : content[i] = sent[C + i]
  <2> DEFINE b == Position
  <2>1. /\ C \in Nat /\ b \in Nat /\ C <= b /\ b <= Len(sent)
        /\ b - C = length /\ sent \in Seq(ToSet(Sent))
    <3>1. /\ Position = C + length /\ length \in Nat /\ C \in Nat
          /\ Position <= Arrived /\ Arrived <= Len(sent) /\ Arrived \in Nat
          /\ Position \in Nat /\ Len(sent) \in Nat
      BY <1>1, <1>2, <1>3
    <3>2. C <= b /\ b <= Len(sent) /\ b - C = length
      BY ONLY <3>1
    <3> QED BY <1>1, <3>1, <3>2
  <2> HIDE DEF b
  <2>2. \A i \in 1 .. b - C : Slice(C, b)[i] = sent[C + i]
    BY ONLY <2>1, SliceElements
  <2> QED BY <1>1, <2>1, <2>2 DEF b
<1>9. \A i \in 1 .. length : sent[C + i] = Sent[C + i]
  <2>1. \A i \in 1 .. length : C + i \in 1 .. Len(sent)
    <3>1. /\ C + length <= Len(sent) /\ C \in Nat /\ length \in Nat
          /\ Len(sent) \in Nat
      BY <1>1, <1>2, <1>3
    <3> QED BY ONLY <3>1
  <2> QED BY <1>1, <2>1 DEF SliceInv
<1>10. content = Content(m)
  <2> DEFINE T == Pieces \cup ToSet(Sent)
             c == Content(m)
  <2>1. content \in Seq(T) /\ c \in Seq(T)
    BY <1>1, <1>5, SeqMonotonic
  <2>2. Len(content) = Len(c) /\ \A i \in 1 .. Len(content) : content[i] = c[i]
    BY <1>2, <1>5, <1>7, <1>8, <1>9
  <2> HIDE DEF T, c
  <2>3. content = c
    BY ONLY <2>1, <2>2, SeqEqual
  <2> QED BY <2>3 DEF c
<1>11. Position = Len(Encoded[m])
  BY <1>1, <1>2
<1> QED BY <1>10, <1>11 DEF m

(* The message is dispatched, the rest of the data belongs to the next.    *)
LEMMA DispatchMessageStep ==
  ASSUME ReaderInv, DispatchMessage
  PROVE  ReaderInv'
<1> DEFINE p == Position
           A == Arrived
<1>1. /\ phase = "content" /\ contentRead >= length /\ phase' = "headers"
      /\ dispatched' = Append(dispatched, content)
      /\ data' = SubSeq(data, readBytes + 1, Len(data))
      /\ prefix' = <<>> /\ length' = -1 /\ content' = <<>> /\ contentRead' = 0
      /\ UNCHANGED <<inputVars, stream, readBytes>>
  BY DEF DispatchMessage, NextMessage, Remainder
<1>2. reads' = reads /\ sent' = sent /\ stream' = stream
      /\ readBytes' = readBytes
  BY <1>1 DEF inputVars
<1>3. /\ SliceInv /\ ContentInv /\ Framing
      /\ dispatched \in Seq(ToSet(dispatched))
      /\ Current <= Len(Contents)
      /\ p \in Nat /\ p <= A /\ A \in Nat /\ A <= Len(sent) /\ Len(sent) \in Nat
      /\ readBytes \in Nat /\ readBytes <= Len(data) /\ Len(data) = A - Base
      /\ Base \in Nat /\ p = Base + readBytes
  BY <1>1, ContentPlace
<1>4. content = Content(Current) /\ p = Len(Encoded[Current])
  BY <1>1, DispatchedContent
<1>5. /\ dispatched' \in Seq(ToSet(dispatched'))
      /\ Len(dispatched') = Current /\ Len(dispatched) \in Nat
      /\ \A i \in 1 .. Len(dispatched) : dispatched'[i] = dispatched[i]
      /\ dispatched'[Current] = content
  <2>1. Append(dispatched, content) \in Seq(ToSet(Append(dispatched, content)))
    BY <1>3, AppendAnything
  <2> DEFINE S == ToSet(dispatched) \cup {content}
  <2>2. dispatched \in Seq(S) /\ content \in S
    BY <1>3, SeqMonotonic
  <2> HIDE DEF S
  <2>3. /\ Len(Append(dispatched, content)) = Len(dispatched) + 1
        /\ \A i \in 1 .. Len(dispatched) :
             Append(dispatched, content)[i] = dispatched[i]
        /\ Append(dispatched, content)[Len(dispatched) + 1] = content
    BY ONLY <2>2, AppendProperties
  <2>4. Len(dispatched) \in Nat
    BY <2>2, LenProperties
  <2> QED BY <1>1, <2>1, <2>3, <2>4 DEF Current
<1>6. Framing'
  <2>1. Current = Len(dispatched) + 1
    BY DEF Current
  <2>2. ASSUME NEW i \in 1 .. Current PROVE dispatched'[i] = Content(i)
    <3>1. CASE i = Current
      BY <1>4, <1>5, <3>1
    <3>2. CASE i # Current
      <4>1. i \in 1 .. Len(dispatched)
        BY <1>5, <2>1, <3>2
      <4> QED BY <1>3, <1>5, <4>1 DEF Framing
    <3> QED BY <3>1, <3>2
  <2> QED BY <1>3, <1>5, <2>2 DEF Framing
<1>7. data' = Slice(p, A)
  BY <1>1, <1>3, RestOfData
<1>8. SliceInv' /\ Base' = p /\ Arrived' = A
  <2>1. /\ p \in 0 .. A /\ A \in 0 .. Len(sent)
    <3> HIDE DEF p, A
    <3> QED BY <1>3
  <2>2. /\ stream' = Slice(A, Len(sent)) /\ length' \in Nat \cup {-1}
        /\ readBytes' \in Nat /\ contentRead' \in Nat
    BY <1>1, <1>2, <1>3 DEF SliceInv
  <2> QED BY <1>1, <1>3, <1>7, <2>1, <2>2, SliceStep
<1>9. Start' = p
  BY <1>4, <1>5 DEF Start
<1>10. HeaderInv(Base, Base - Len(prefix))'
  <2>1. Len(prefix') = 0
    BY <1>1
  <2>2. Base' - Start' = 0 /\ Base' - Len(prefix') = Base'
    BY <1>3, <1>8, <1>9, <2>1
  <2>3. \A m : /\ 0 # Before(m) + 3 /\ LineStart(m, 0) = 0
               /\ 0 \in 0 .. Before(m) + 3
               /\ 0 <= (IF 0 < Before(m) THEN 0 ELSE Before(m))
    BY DEF Before, LineStart
  <2>4. Base' \in Start' + 0 .. Base'
    BY <1>3, <1>8, <1>9
  <2>5. Base' <= Start' + (IF 0 < Before(Current') THEN 0 ELSE Before(Current'))
    <3>1. (IF 0 < Before(Current') THEN 0 ELSE Before(Current')) = 0
      BY DEF Before
    <3>2. Base' <= Start' + 0
      BY <1>3, <1>8, <1>9
    <3> QED BY <3>1, <3>2
  <2> QED BY <1>1, <2>2, <2>3, <2>4, <2>5 DEF HeaderInv, LineStart, Before
<1>11. HeadersInv'
  <2>1. Len(prefix') \in 0 .. Base'
    BY <1>1, <1>3, <1>8
  <2>2. prefix' = Slice(Base - Len(prefix), Base)'
    <3>1. Base' - Len(prefix') = Base'
      BY <1>1, <1>3, <1>8
    <3>2. \A x \in Nat : SubSeq(sent, x + 1, x) = <<>>
      <4>1. \A x \in Nat : x + 1 \in Int /\ x \in Int /\ x < x + 1
        OBVIOUS
      <4> QED BY <4>1, SubSeqEmpty
    <3> QED BY <1>1, <1>2, <1>3, <1>8, <3>1, <3>2 DEF Slice
  <2>3. reads' # "any" => Decodable(data)'
    <3>1. SUFFICES ASSUME reads # "any" PROVE Decodable(data')
      BY <1>2 DEF Decodable
    <3>2. CASE readBytes < Len(data)
      <4>1. Decodable(data) /\ data # <<>>
        <5>1. data # <<>>
          <6>1. Len(data) # 0
            BY <1>3, <3>2
          <6> QED BY <6>1
        <5> QED BY <1>1, <1>3, <3>1, <3>2, <5>1 DEF ContentInv
      <4>2. data[Len(data)].type # "lead"
        BY <4>1 DEF Decodable, Last
      <4>3. data[Len(data)] = sent[A]
        <5>1. \A i \in 1 .. Len(data) : data[i] = sent[Base + i]
          BY <1>3, Held
        <5>2. Len(data) \in 1 .. Len(data) /\ Base + Len(data) = A
          <6>1. /\ A \in Nat /\ Base \in Nat /\ readBytes \in Nat
                /\ readBytes < Len(data) /\ Len(data) = A - Base
            BY <1>3, <3>2
          <6> QED BY ONLY <6>1
        <5> QED BY <5>1, <5>2
      <4>4. p < A
        <5> HIDE DEF p, A
        <5> QED BY <1>3, <3>2
      <4> DEFINE d == Slice(p, A)
      <4>5. d \in Seq(ToSet(Sent)) /\ d # <<>> /\ d[Len(d)] = sent[A]
        <5>1. /\ p \in Nat /\ A \in Nat /\ p <= A /\ A <= Len(sent) /\ p # A
              /\ sent \in Seq(ToSet(Sent))
              /\ A - p \in 1 .. A - p /\ p + (A - p) = A
          <6>1. sent \in Seq(ToSet(Sent))
            BY <1>3 DEF SliceInv
          <6> HIDE DEF p, A
          <6> QED BY <1>3, <4>4, <6>1
        <5> HIDE DEF p, A
        <5>2. /\ Slice(p, A) \in Seq(ToSet(Sent)) /\ Len(Slice(p, A)) = A - p
              /\ \A i \in 1 .. A - p : Slice(p, A)[i] = sent[p + i]
              /\ Slice(p, A) = <<>> <=> p = A
          BY ONLY <5>1, SliceElements
        <5> QED BY <5>1, <5>2
      <4> HIDE DEF d
      <4>6. Decodable(d)
        BY <4>2, <4>3, <4>5, LastOfData
      <4> QED BY <1>7, <4>6 DEF d
    <3>3. CASE ~ (readBytes < Len(data))
      <4>1. p = A
        <5> HIDE DEF p, A
        <5> QED BY <1>3, <3>3
      <4>2. data' = <<>>
        <5>1. /\ A \in Nat /\ A <= A /\ A <= Len(sent)
              /\ sent \in Seq(ToSet(Sent))
          BY <1>3 DEF SliceInv
        <5> HIDE DEF p, A
        <5>2. Slice(A, A) = <<>>
          BY ONLY <5>1, SliceElements
        <5> QED BY <1>7, <4>1, <5>2
      <4> QED BY <4>2 DEF Decodable
    <3> QED BY <3>2, <3>3
  <2>4. reads' = "lines" => data' = <<>>
    <3>1. SUFFICES ASSUME reads = "lines" PROVE data' = <<>>
      BY <1>2
    <3>2. readBytes = Len(data)
      BY <1>1, <1>3, <3>1 DEF ContentInv
    <3>3. SubSeq(data, readBytes + 1, Len(data)) = <<>>
      <4>1. Len(data) + 1 \in Int /\ Len(data) \in Int
            /\ Len(data) < Len(data) + 1
        BY <1>3, <3>2
      <4> QED BY <3>2, <4>1, SubSeqEmpty
    <3> QED BY <1>1, <3>3
  <2> QED BY <1>1, <1>8, <1>9, <1>10, <2>1, <2>2, <2>3, <2>4 DEF HeadersInv
<1>12. ScanInv' /\ ContentInv' /\ NothingLost'
  BY <1>1 DEF ScanInv, ContentInv, NothingLost
<1> QED BY <1>5, <1>6, <1>8, <1>11, <1>12 DEF ReaderInv

(* The invariant holds before anything is read.                            *)
LEMMA InitReader ==
  ASSUME Init
  PROVE  ReaderInv
<1>1. /\ reads \in Reads /\ stream = sent /\ phase = "headers"
      /\ data = <<>> /\ readBytes = 0 /\ prefix = <<>> /\ length = -1
      /\ content = <<>> /\ contentRead = 0 /\ dispatched = <<>>
      /\ sent \in IF reads = "lines"
                  THEN {SubSeq(Sent, 1, n) : n \in 0 .. Len(Sent)}
                  ELSE {Sent}
  BY DEF Init
<1>2. /\ Sent \in Seq(Pieces) /\ Len(Sent) \in Nat /\ Len(Contents) \in Nat
      /\ \A i \in 1 .. Len(Sent) : Sent[i] \in ToSet(Sent)
      /\ Sent \in Seq(ToSet(Sent))
  <2>1. Len(Contents) \in Nat /\ Len(Contents) \in 0 .. Len(Contents)
    BY ContentsTyped
  <2>2. Sent \in Seq(Pieces)
    BY <2>1, EncodedTyped DEF Sent
  <2>3. Len(Sent) \in Nat /\ DOMAIN Sent = 1 .. Len(Sent)
    BY <2>2, LenProperties
  <2>4. \A i \in 1 .. Len(Sent) : Sent[i] \in ToSet(Sent)
    BY <2>3 DEF ToSet
  <2>5. Sent \in [1 .. Len(Sent) -> ToSet(Sent)]
    BY <2>2, <2>3, <2>4, LenProperties
  <2>6. Sent \in Seq(ToSet(Sent))
    BY <2>3, <2>5, IsASeq
  <2> QED BY <2>1, <2>2, <2>3, <2>4, <2>6
<1>3. /\ sent \in Seq(ToSet(Sent)) /\ Len(sent) <= Len(Sent)
      /\ \A i \in 1 .. Len(sent) : sent[i] = Sent[i]
      /\ reads # "lines" => Len(sent) = Len(Sent)
      /\ Len(sent) \in Nat
  <2>1. CASE reads = "lines"
    <3>1. PICK n \in 0 .. Len(Sent) : sent = SubSeq(Sent, 1, n)
      BY <1>1, <2>1
    <3>2. /\ 1 \in Int /\ n \in Int /\ n \in Nat /\ n <= Len(Sent)
          /\ \A i \in 1 .. n : Sent[i] \in ToSet(Sent)
      <4>1. n \in Nat /\ n <= Len(Sent)
            /\ \A i \in 1 .. n : i \in 1 .. Len(Sent)
        BY <1>2
      <4> QED BY <1>2, <4>1
    <3>3. /\ SubSeq(Sent, 1, n) \in Seq(ToSet(Sent))
          /\ Len(SubSeq(Sent, 1, n)) = IF 1 <= n THEN n - 1 + 1 ELSE 0
          /\ \A i \in 1 .. n - 1 + 1 : SubSeq(Sent, 1, n)[i] = Sent[1 + i - 1]
      BY ONLY <3>2, SubSeqProperties
    <3>4. /\ (IF 1 <= n THEN n - 1 + 1 ELSE 0) = n /\ n - 1 + 1 = n
          /\ \A i \in 1 .. n : 1 + i - 1 = i
      BY <3>2
    <3> QED BY <2>1, <3>1, <3>2, <3>3, <3>4
  <2>2. CASE reads # "lines"
    <3>1. sent = Sent
      BY <1>1, <2>2
    <3> QED BY <1>2, <3>1
  <2> QED BY <2>1, <2>2
<1>4. Arrived = 0 /\ Base = 0
  <2>1. Len(data) = 0 /\ Len(stream) = Len(sent)
    BY <1>1
  <2> QED BY <1>3, <2>1 DEF Arrived, Base
<1>5. \A a, b \in Nat : a = b => Slice(a, b) = <<>>
  <2>1. \A x \in Nat : x + 1 \in Int /\ x \in Int /\ x < x + 1
    OBVIOUS
  <2>2. \A x \in Nat : SubSeq(sent, x + 1, x) = <<>>
    BY <2>1, SubSeqEmpty
  <2> QED BY <2>2 DEF Slice
<1>6. Slice(0, Len(sent)) = sent
  <2>1. SubSeq(sent, 1, Len(sent)) = sent
    BY <1>3, SubSeqFull
  <2> QED BY <2>1 DEF Slice
<1>7. SliceInv
  <2>1. Reads \subseteq {"lines", "coarse", "any"}
    BY MessageReaderAssumption
  <2>2. 0 \in 0 .. Len(sent) /\ 0 \in 0 .. 0
    BY <1>3
  <2>3. Slice(0, 0) = <<>>
    BY <1>5
  <2> QED BY <1>1, <1>3, <1>4, <1>6, <2>1, <2>2, <2>3 DEF SliceInv
<1>8. dispatched \in Seq(ToSet(dispatched)) /\ Framing /\ Len(dispatched) = 0
  <2>1. Len(dispatched) = 0 /\ dispatched \in Seq(ToSet(dispatched))
    BY <1>1, EmptySeq
  <2> QED BY <1>2, <2>1 DEF Framing
<1>9. Start = 0
  <2>1. 0 \in 0 .. Len(Contents)
    BY <1>2
  <2>2. Encoded[0] = <<>>
    BY <2>1, EncodedUnfolds
  <2> QED BY <1>8, <2>2 DEF Start
<1>10. HeaderInv(Base, Base - Len(prefix))
  <2>1. Base - Start = 0 /\ Base - Len(prefix) = 0
    <3>1. Len(prefix) = 0
      BY <1>1
    <3> QED BY <1>4, <1>9, <3>1
  <2>2. \A m : /\ 0 # Before(m) + 3 /\ LineStart(m, 0) = 0
               /\ 0 \in 0 .. Before(m) + 3
               /\ (IF 0 < Before(m) THEN 0 ELSE Before(m)) = 0
    BY DEF Before, LineStart
  <2>3. 0 \in 0 + 0 .. 0 /\ 0 <= 0 + 0
    OBVIOUS
  <2> QED BY <1>1, <1>4, <1>9, <2>1, <2>2, <2>3 DEF HeaderInv
<1>11. HeadersInv
  <2>1. Len(prefix) = 0 /\ Decodable(data)
    BY <1>1 DEF Decodable
  <2>2. Slice(0, 0) = <<>> /\ 0 \in 0 .. 0 /\ 0 - 0 = 0
    BY <1>5
  <2> QED BY <1>1, <1>4, <1>9, <1>10, <2>1, <2>2 DEF HeadersInv
<1>12. ScanInv /\ ContentInv /\ NothingLost
  BY <1>1 DEF ScanInv, ContentInv, NothingLost
<1> QED BY <1>7, <1>8, <1>11, <1>12 DEF ReaderInv

(* Every step of the reader keeps the invariant.                           *)
LEMMA NextReader ==
  ASSUME ReaderInv, [Next]_vars
  PROVE  ReaderInv'
<1>1. CASE ReadHeaderData
  BY <1>1, ReadHeaderDataStep
<1>2. CASE ReadHeaderEnd
  BY <1>2, ReadHeaderEndStep
<1>3. CASE ScanByte
  BY <1>3, ScanByteStep
<1>4. CASE ScanHeader
  BY <1>4, ScanHeaderStep
<1>5. CASE HeadersComplete
  BY <1>5, HeadersCompleteStep
<1>6. CASE ScanFails
  BY <1>6, ScanFailsStep
<1>7. CASE ScanDone
  BY <1>7, ScanDoneStep
<1>8. CASE UseRemainder
  BY <1>8, UseRemainderStep
<1>9. CASE ReadContent
  BY <1>9, ReadContentStep
<1>10. CASE ReadContentEnd
  BY <1>10, ReadContentEndStep
<1>11. CASE DispatchMessage
  BY <1>11, DispatchMessageStep
<1>12. CASE UNCHANGED vars
  <2>1. UNCHANGED <<reads, sent, stream, phase, data, readBytes, lastLine,
                    prefix, length, content, contentRead, dispatched>>
    BY <1>12 DEF vars, inputVars
  <2>2. /\ Framing' /\ dispatched' \in Seq(ToSet(dispatched'))
        /\ Complete' = Complete /\ Current' = Current /\ Start' = Start
    BY <2>1, SameMessage DEF inputVars
  <2>3. SliceInv' /\ Arrived' = Arrived /\ Base' = Base
    <3>1. /\ length' \in Nat \cup {-1} /\ readBytes' \in Nat
          /\ contentRead' \in Nat /\ SliceInv
      BY <2>1 DEF ReaderInv, SliceInv
    <3> QED BY <2>1, <3>1, StillHeld DEF inputVars
  <2>4. Position' = Position
    BY <2>1, <2>3 DEF Position
  <2>5. HeadersInv /\ ScanInv /\ ContentInv /\ NothingLost
    BY DEF ReaderInv
  <2>6. HeadersInv'
    BY <2>1, <2>2, <2>3, <2>5
       DEF HeadersInv, HeaderInv, LineStart, Before, Slice, Decodable
  <2>7. ScanInv'
    BY <2>1, <2>2, <2>3, <2>4, <2>5
       DEF ScanInv, HeaderInv, LineStart, Before, Header, Slice, Decodable
  <2>8. ContentInv'
    BY <2>1, <2>2, <2>3, <2>4, <2>5
       DEF ContentInv, Before, Header, Slice, Decodable
  <2>9. NothingLost'
    BY <2>1, <2>2, <2>5 DEF NothingLost
  <2> QED BY <2>2, <2>3, <2>6, <2>7, <2>8, <2>9 DEF ReaderInv
<1> QED BY <1>1, <1>2, <1>3, <1>4, <1>5, <1>6, <1>7, <1>8, <1>9, <1>10, <1>11,
           <1>12 DEF Next, ReadMessage

(* Whatever the reads return, the reader alone keeps its place in the      *)
(* stream: _ReadMessages with any queue, or none.                          *)
THEOREM ReaderInvariant == Spec => []ReaderInv
<1>1. Init => ReaderInv
  BY InitReader
<1>2. ReaderInv /\ [Next]_vars => ReaderInv'
  BY NextReader
<1> QED BY <1>1, <1>2, PTL DEF Spec

(* A step of the pump is a step of the reader, or leaves it alone.         *)
LEMMA PumpStep ==
  ASSUME [PumpNext]_pumpAndQueueVars
  PROVE  [Next]_vars
<1>1. CASE Read
  BY <1>1 DEF Read, DispatchNotification, Next
<1>2. CASE Enqueue \/ Server \/ \E p \in Pollers : Poll(p) /\ UNCHANGED vars
  BY <1>2 DEF Enqueue, Server
<1>3. CASE UNCHANGED pumpAndQueueVars
  BY <1>3 DEF pumpAndQueueVars
<1> QED BY <1>1, <1>2, <1>3 DEF PumpNext

(* The message pump refines the reader.                                    *)
THEOREM PumpReads == PumpSpec => Spec
<1>1. PumpInit => Init
  BY DEF PumpInit
<1>2. [PumpNext]_pumpAndQueueVars => [Next]_vars
  BY PumpStep
<1> QED BY <1>1, <1>2, PTL DEF PumpSpec, Spec

(* What is dispatched are the contents that were sent, in order, whatever  *)
(* the reads return.                                                       *)
THEOREM MessagesAreFramed == PumpSpec => []Framing
<1>1. ReaderInv => Framing
  BY DEF ReaderInv
<1> QED BY <1>1, ReaderInvariant, PumpReads, PTL

(* Reading lines, or pieces that are not too small, the pump fails only    *)
(* when the server died, and has then dispatched all that was sent in full.*)
THEOREM MessagesAreNotLost == PumpSpec => []NothingLost
<1>1. ReaderInv => NothingLost
  BY DEF ReaderInv
<1> QED BY <1>1, ReaderInvariant, PumpReads, PTL
=============================================================================
