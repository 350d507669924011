---------------------------- MODULE MessageReader ----------------------------
(***************************************************************************)
(* Cutting the byte stream of a language server into messages:             *)
(* _ReadMessages, _ReadHeaders and the two ReadData of                     *)
(* completers/language_server/language_server_completer.py.                *)
(*                                                                         *)
(* A message is a few header lines, an empty line, and as many bytes of    *)
(* content as Content-Length says.  A piece of the stream is what the      *)
(* reader can tell apart: the name in a header line, the number after it,  *)
(* the newline, a byte of content that is a character, and one that only   *)
(* begins a character of several bytes.                                    *)
(***************************************************************************)
EXTENDS Integers, Sequences, SequencesExt

CONSTANTS
  Contents,   \* the contents of the messages the server sends
  Typed,      \* the messages that also have a Content-Type header
  Reads       \* how the stream may be cut into reads: "lines" is readline of
              \* standard output; "any" and "coarse" are recv of a socket,
              \* which returns something, or at least two pieces and no part
              \* of a character

(* A content is JSON in UTF-8: it does not end inside a character. *)
ASSUME MessageReaderAssumption ==
  /\ Contents \in Seq(Seq({"byte", "lead"}))
  /\ \A m \in 1 .. Len(Contents) :
       Contents[m] # <<>> => Last(Contents[m]) # "lead"
  /\ Typed \subseteq 1 .. Len(Contents)
  /\ Reads \subseteq {"lines", "coarse", "any"}

(* The content of message m: what its pieces are, and which ones. *)
Content(m) ==
  [i \in 1 .. Len(Contents[m]) |-> [type |-> Contents[m][i], of |-> <<m, i>>]]

Name        == [type |-> "name"]
Number(n)   == [type |-> "number", value |-> n]
ContentType == [type |-> "content type"]
NewLine     == [type |-> "newline"]

Encode(m) ==
  (IF m \in Typed THEN <<ContentType, NewLine>> ELSE <<>>)
    \o <<Name, Number(Len(Contents[m])), NewLine, NewLine>> \o Content(m)

(* The first m messages. *)
Encoded[m \in 0 .. Len(Contents)] ==
  IF m = 0 THEN <<>> ELSE Encoded[m - 1] \o Encode(m)

Sent == Encoded[Len(Contents)]

VARIABLES
  reads,       \* how the stream is cut
  sent,        \* what the server sends before it closes its output
  stream,      \* the part of it that was not read yet
  phase,       \* where the pump is
  data,        \* the local variables of the pump
  readBytes, lastLine, prefix,
  length,      \* headers["Content-Length"], or -1
  content, contentRead,
  dispatched   \* the contents given to _DispatchMessage

inputVars == <<reads, sent>>
vars == <<inputVars, stream, phase, data, readBytes, lastLine, prefix, length,
          content, contentRead, dispatched>>

-----------------------------------------------------------------------------
(* Reading                                                                  *)

(* What a read of any size may return: a line, or a beginning of what has   *)
(* arrived.                                                                 *)
AnyRead ==
  CASE reads = "lines"  -> {n \in 1 .. Len(stream) :
                              /\ stream[n] = NewLine \/ n = Len(stream)
                              /\ \A i \in 1 .. n - 1 : stream[i] # NewLine}
    [] reads = "coarse" -> {n \in 1 .. Len(stream) :
                              \/ n > 1 /\ stream[n].type # "lead"
                              \/ n = Len(stream)}
    [] reads = "any"    -> 1 .. Len(stream)

(* A read of at most size bytes: read and the loop around recv return them  *)
(* all, unless the stream ends.                                             *)
SizedRead(size) == IF size < Len(stream) THEN size ELSE Len(stream)

Take(n) ==
  /\ data' = SubSeq(stream, 1, n)
  /\ stream' = SubSeq(stream, n + 1, Len(stream))

(* An exception ends the message pump. *)
Raise ==
  /\ phase' = "failed"
  /\ UNCHANGED <<inputVars, stream, data, readBytes, lastLine, prefix, length,
                 content, contentRead, dispatched>>

-----------------------------------------------------------------------------
(* _ReadHeaders                                                             *)

StartOfData == readBytes' = 0 /\ lastLine' = 0

(* With no data left there is a read; the stream may be at its end, where   *)
(* reading standard output raises, and recv returns nothing for ever.       *)
ReadHeaderData ==
  /\ phase = "headers"
  /\ IF data # <<>>
     THEN UNCHANGED <<stream, data>>
     ELSE \E n \in AnyRead : Take(n)
  /\ StartOfData
  /\ phase' = "scan"
  /\ UNCHANGED <<inputVars, prefix, length, content, contentRead, dispatched>>

(* ReadData of standard output: "Connection to server died" *)
EndOfFile == reads = "lines" /\ Raise

ReadHeaderEnd ==
  /\ phase = "headers" /\ data = <<>> /\ stream = <<>>
  /\ EndOfFile

(* str( value, 'utf8' ) raises when the last character is incomplete. *)
Decodable(bytes) == bytes = <<>> \/ Last(bytes).type # "lead"

(* The line that ends at readBytes.  It may begin with the end of the line  *)
(* before, which is stripped.                                               *)
Line ==
  LET line == prefix \o SubSeq(data, lastLine + 1, readBytes)
  IN  IF line # <<>> /\ Head(line) = NewLine THEN Tail(line) ELSE line

AtNewLine == data[readBytes + 1] = NewLine

ScanByte ==
  /\ phase = "scan" /\ readBytes < Len(data)
  /\ Decodable(data) /\ ~ AtNewLine
  /\ readBytes' = readBytes + 1
  /\ UNCHANGED <<inputVars, stream, phase, data, lastLine, prefix, length,
                 content, contentRead, dispatched>>

ScanHeader ==
  /\ phase = "scan" /\ readBytes < Len(data)
  /\ Decodable(data) /\ AtNewLine
  /\ \/ Line = <<ContentType>> /\ UNCHANGED length
     \/ \E n \in 0 .. Len(Sent) : Line = <<Name, Number(n)>> /\ length' = n
  /\ prefix' = <<>>
  /\ lastLine' = readBytes
  /\ readBytes' = readBytes + 1
  /\ UNCHANGED <<inputVars, stream, phase, data, content, contentRead,
                 dispatched>>

(* The empty line. *)
HeadersComplete ==
  /\ phase = "scan" /\ readBytes < Len(data)
  /\ Decodable(data) /\ AtNewLine /\ Line = <<>>
  /\ length # -1
  /\ prefix' = <<>>
  /\ readBytes' = readBytes + 1
  /\ phase' = "headers complete"
  /\ UNCHANGED <<inputVars, stream, data, lastLine, length, content,
                 contentRead, dispatched>>

(* Bytes that are not a character, a line that is not a header, or          *)
(* "Missing 'Content-Length' header"                                        *)
ScanFails ==
  /\ phase = "scan" /\ readBytes < Len(data)
  /\ \/ ~ Decodable(data)
     \/ AtNewLine /\ Line = <<>> /\ length = -1
     \/ /\ AtNewLine /\ Line \notin {<<>>, <<ContentType>>}
        /\ \A n \in 0 .. Len(Sent) : Line # <<Name, Number(n)>>
  /\ Raise

ScanDone ==
  /\ phase = "scan" /\ readBytes = Len(data)
  /\ prefix' = SubSeq(data, lastLine + 1, Len(data))
  /\ data' = <<>>
  /\ phase' = "headers"
  /\ UNCHANGED <<inputVars, stream, readBytes, lastLine, length, content,
                 contentRead, dispatched>>

-----------------------------------------------------------------------------
(* The rest of _ReadMessages                                                *)

(* Mutant: all that is left is taken for content. *)
ContentToRead_All(n) == n

(* How many of the n bytes of data belong to the content. *)
ContentToRead(n) ==
  IF length - contentRead < n THEN length - contentRead ELSE n

(* "There are bytes left in data, use them" *)
UseRemainder ==
  /\ phase = "headers complete"
  /\ LET rest == SubSeq(data, readBytes + 1, Len(data))
         n    == ContentToRead(Len(rest))
     IN IF rest = <<>>
        THEN UNCHANGED <<data, readBytes, content, contentRead>>
        ELSE /\ data' = rest
             /\ content' = SubSeq(rest, 1, n)
             /\ contentRead' = n
             /\ readBytes' = n
  /\ phase' = "content"
  /\ UNCHANGED <<inputVars, stream, lastLine, prefix, length, dispatched>>

(* "data is exhausted - read more from the socket".  contentRead grows by   *)
(* the length of all the content so far.                                    *)
ReadContent ==
  /\ phase = "content" /\ contentRead < length /\ stream # <<>>
  /\ LET n == SizedRead(length - contentRead)
     IN /\ Take(n)
        /\ content' = content \o SubSeq(stream, 1, n)
        /\ contentRead' = contentRead + Len(content) + n
        /\ readBytes' = n
  /\ UNCHANGED <<inputVars, phase, lastLine, prefix, length, dispatched>>

ReadContentEnd ==
  /\ phase = "content" /\ contentRead < length /\ stream = <<>>
  /\ EndOfFile

(* Mutant: what follows the content is dropped. *)
Remainder_Dropped == <<>>

(* "If there is more, we start again with the remainder" *)
Remainder == SubSeq(data, readBytes + 1, Len(data))

NextMessage ==
  prefix' = <<>> /\ length' = -1 /\ content' = <<>> /\ contentRead' = 0

DispatchMessage ==
  /\ phase = "content" /\ contentRead >= length
  /\ dispatched' = Append(dispatched, content)
  /\ data' = Remainder
  /\ NextMessage
  /\ phase' = "headers"
  /\ UNCHANGED <<inputVars, stream, readBytes, lastLine>>

-----------------------------------------------------------------------------
(* What the server sends, to its end or to its death (over a socket the     *)
(* reader never hears of either: see LspConnection).                        *)
Init ==
  /\ reads \in Reads
  /\ sent \in IF reads = "lines"
             THEN {SubSeq(Sent, 1, n) : n \in 0 .. Len(Sent)}
             ELSE {Sent}
  /\ stream = sent
  /\ phase = "headers"
  /\ data = <<>> /\ readBytes = 0 /\ lastLine = 0 /\ prefix = <<>>
  /\ length = -1
  /\ content = <<>> /\ contentRead = 0
  /\ dispatched = <<>>

ReadMessage ==
  \/ ReadHeaderData \/ ReadHeaderEnd
  \/ ScanByte \/ ScanHeader \/ HeadersComplete \/ ScanFails \/ ScanDone
  \/ UseRemainder \/ ReadContent \/ ReadContentEnd

Next == ReadMessage \/ DispatchMessage

Spec == Init /\ [][Next]_vars

-----------------------------------------------------------------------------
(* Properties                                                               *)

(* Every variable has its type, and the positions are positions of data. *)
TypeOK ==
  /\ reads \in Reads
  /\ sent \in Seq(ToSet(Sent)) /\ stream \in Seq(ToSet(Sent))
  /\ phase \in {"headers", "scan", "headers complete", "content", "failed"}
  /\ data \in Seq(ToSet(Sent)) /\ prefix \in Seq(ToSet(Sent))
  /\ readBytes \in Nat /\ lastLine \in Nat
  /\ phase = "scan" => lastLine <= readBytes /\ readBytes <= Len(data)
  /\ length \in Nat \cup {-1}
  /\ content \in Seq(ToSet(Sent))
  /\ contentRead \in Nat
  /\ dispatched \in Seq(Seq(ToSet(Sent)))

(* Whatever the reads return, "a single message, or even a whole message"   *)
(* or less, what is dispatched are the contents that were sent, in order.   *)
Framing ==
  /\ Len(dispatched) <= Len(Contents)
  /\ \A m \in 1 .. Len(dispatched) : dispatched[m] = Content(m)

(* The messages that were sent to their end. *)
Complete ==
  {m \in 1 .. Len(Contents) : Len(Encoded[m]) <= Len(sent)}

(* A pump that reads lines, or pieces that are not too small, fails for no  *)
(* other reason than the death of the server, and not before it has         *)
(* dispatched every message that was sent in full.                          *)
NothingLost ==
  reads # "any" /\ phase = "failed" =>
    stream = <<>> /\ Complete \subseteq 1 .. Len(dispatched)

(* "there is no guarantee that a single socket or stream read will contain  *)
(* only a single message, or even a whole message": no way of cutting the   *)
(* stream of a correct server into reads makes the pump fail.               *)
ReadsEveryStream == reads # "lines" => phase # "failed"
-----------------------------------------------------------------------------
(* The parts of an inductive invariant.  Whatever the pump holds is a slice *)
(* of what was sent.                                                        *)

Slice(from, to) == SubSeq(sent, from + 1, to)

(* How much has been read, how much of it before data, and how much has     *)
(* been looked at.                                                          *)
Arrived  == Len(sent) - Len(stream)
Base     == Arrived - Len(data)
Position == Base + readBytes

(* Where the message begins that the pump reads, and how much comes before  *)
(* its Content-Length, and before its content.                              *)
Current   == Len(dispatched) + 1
Start     == Len(Encoded[Len(dispatched)])
Before(m) == IF m \in Typed THEN 2 ELSE 0
Header(m) == Before(m) + 4

SliceInv ==
  /\ reads \in {"lines", "coarse", "any"}
  /\ sent \in Seq(ToSet(Sent)) /\ Len(sent) <= Len(Sent)
  /\ \A i \in 1 .. Len(sent) : sent[i] = Sent[i]
  /\ reads # "lines" => Len(sent) = Len(Sent)
  /\ Arrived \in 0 .. Len(sent) /\ stream = Slice(Arrived, Len(sent))
  /\ Base \in 0 .. Arrived /\ data = Slice(Base, Arrived)
  /\ length \in Nat \cup {-1} /\ readBytes \in Nat /\ contentRead \in Nat

(* The place in a message where the line begins that place j is in, with    *)
(* the end of the line before it.                                           *)
LineStart(m, j) ==
  IF j = Before(m) + 3 THEN Before(m) + 2
  ELSE IF j >= 2 /\ Before(m) = 2 THEN 1 ELSE 0

(* The pump is at a place in a header, and has kept the line from another   *)
(* on.  It forgets the beginning of a line that takes three reads.          *)
HeaderInv(position, kept) ==
  LET m == Current
      j == position - Start
  IN  /\ j \in 0 .. Before(m) + 3 /\ (j # 0 => m <= Len(Contents))
      /\ kept \in Start + LineStart(m, j) .. position
      /\ length = IF j = Before(m) + 3 THEN Len(Contents[m]) ELSE -1
      /\ reads # "any" /\ j < Before(m) + 3 =>
           kept <= Start + (IF j < Before(m) THEN 0 ELSE Before(m))
      /\ content = <<>> /\ contentRead = 0

HeadersInv ==
  phase = "headers" =>
    /\ Len(prefix) \in 0 .. Base /\ prefix = Slice(Base - Len(prefix), Base)
    /\ HeaderInv(Base, Base - Len(prefix))
    /\ data # <<>> => Base = Start /\ prefix = <<>>
    /\ reads # "any" => Decodable(data)
    /\ reads = "lines" =>
         /\ data = <<>>
         /\ Base = Start \/ sent[Base] = NewLine \/ stream = <<>>

ScanInv ==
  phase = "scan" =>
    /\ Len(prefix) \in 0 .. Base /\ prefix = Slice(Base - Len(prefix), Base)
    /\ data # <<>> /\ readBytes <= Len(data) /\ lastLine \in 0 .. readBytes
    /\ prefix # <<>> => lastLine = 0
    /\ HeaderInv(Position, Base + lastLine - Len(prefix))
    /\ Current <= Len(Contents)
    /\ reads # "any" => Decodable(data)
    /\ reads = "coarse" => Base = Start \/ Len(data) >= 2 \/ stream = <<>>
    /\ reads = "lines" =>
         /\ Arrived <= Start + Header(Current)
         /\ Base = Start \/ sent[Base] = NewLine
         /\ sent[Arrived] = NewLine \/ stream = <<>>

ContentInv ==
  phase \in {"headers complete", "content"} =>
    /\ Current <= Len(Contents) /\ length = Len(Contents[Current])
    /\ readBytes <= Len(data)
    /\ Position = Start + Header(Current) + Len(content)
    /\ content = Slice(Start + Header(Current), Position)
    /\ Len(content) <= length
    /\ reads # "any" /\ readBytes < Len(data) => Decodable(data)
    /\ reads = "lines" => readBytes = Len(data)
    /\ IF phase = "headers complete"
       THEN content = <<>> /\ contentRead = 0
       ELSE IF contentRead < length
            THEN /\ contentRead = Len(content) /\ readBytes = Len(data)
                 /\ reads = "lines" /\ content # <<>> => stream = <<>>
            ELSE Len(content) = length

ReaderInv ==
  /\ SliceInv /\ HeadersInv /\ ScanInv /\ ContentInv /\ NothingLost
  /\ dispatched \in Seq(ToSet(dispatched)) /\ Framing
=============================================================================
