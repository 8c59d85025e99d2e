----------------------------- MODULE HubRecords -----------------------------
(***************************************************************************)
(* Records over WebSocket messages: the handshake response and what is     *)
(* pending after it (connection.go, readHandshakeResponse) and the hub     *)
(* records of the reader (protocol.go, hubRecordBuffer; connection.go,     *)
(* read).  The server cuts its stream into messages as it likes; the       *)
(* client must find the same records, judge each by its own size, and not  *)
(* keep what it has consumed while it waits.                               *)
(*                                                                         *)
(* A byte is the separator or it is not.  What a record says is data: that *)
(* a response or a hub record is invalid ends the connection, and the      *)
(* framing with it.                                                        *)
(***************************************************************************)
EXTENDS Naturals, SequencesExt

CONSTANTS
  MaxHandshake, \* maxHandshakeResponseSize
  MaxRecord,    \* maxHubRecordSize
  MaxMessage,   \* bytes in a message
  MaxBytes      \* bytes in the whole stream

ASSUME SizesAssumption ==
  /\ MaxHandshake \in Nat /\ MaxRecord \in Nat
  /\ MaxMessage \in Nat /\ MaxBytes \in Nat

Bytes == { "byte", "separator" }

VARIABLES
  pc,              \* the line the reader is at
  contents,        \* hubRecordBuffer.contents, or buffered in the handshake
  scanned,         \* the length of its prefix that was searched
  needsCompaction, \* hubRecordBuffer.needsCompaction
  retained,        \* consumed bytes that the storage of contents still holds
  received,        \* history: the stream so far
  consumed,        \* history: the bytes of the records taken, separators included
  largest          \* history: the size of the largest hub record taken

buffer == << contents, scanned, needsCompaction, retained >>
vars   == << pc, buffer, received, consumed, largest >>

Init ==
  /\ pc = "handshake"
  /\ contents = << >> /\ scanned = 0 /\ needsCompaction = FALSE /\ retained = 0
  /\ received = << >> /\ consumed = << >> /\ largest = 0

-----------------------------------------------------------------------------
\* The first index of the separator in s, or 0.
Separator(s) == SelectInSeq(s, LAMBDA b : b = "separator")

\* Seeded fault: the offset within the unsearched tail is taken for one in contents.
FirstRecordFromTail(s, n) == Separator(SubSeq(s, n + 1, Len(s)))

\* splitFirstRecord: the length of the first record with its separator, or 0.  Only
\* what follows the first n bytes is searched.
FirstRecord(s, n) == LET i == Separator(SubSeq(s, n + 1, Len(s)))
                     IN  IF i = 0 THEN 0 ELSE n + i

\* A message that the server sends.
Message(m) ==
  /\ Len(received) + Len(m) <= MaxBytes
  /\ received' = received \o m

Refuse == /\ pc' = "refused"
          /\ UNCHANGED << buffer, consumed, largest >>

\* Seeded fault: the handshake's limit is applied to all that was received.
HandshakeFitsBuffer(s, n) == Len(s) <= MaxHandshake

\* A record of n bytes with its separator, or the fragment s, is within the limit.
HandshakeFits(s, n) == (IF n = 0 THEN Len(s) ELSE n - 1) <= MaxHandshake

\* readHandshakeResponse, one message.  What follows the response is pending for
\* the reader, in the same storage.
ReadHandshake(m) ==
  LET s == contents \o m
      n == FirstRecord(s, scanned)
  IN  /\ pc = "handshake"
      /\ Message(m)
      /\ IF ~HandshakeFits(s, n) THEN Refuse
         ELSE IF n = 0
         THEN /\ contents' = s /\ scanned' = Len(s)
              /\ UNCHANGED << pc, needsCompaction, retained, consumed, largest >>
         ELSE /\ pc' = "next"
              /\ contents' = SubSeq(s, n + 1, Len(s)) /\ scanned' = 0
              /\ needsCompaction' = TRUE /\ retained' = n
              /\ consumed' = SubSeq(s, 1, n)
              /\ UNCHANGED largest

\* splitHubRecord's limit, for the same arguments.
Fits(s, n) == (IF n = 0 THEN Len(s) ELSE n - 1) <= MaxRecord

\* Seeded fault: only the storage of the handshake is compacted.
TakeRecordLeavesFlag ==
  LET n == FirstRecord(contents, scanned)
  IN  /\ pc = "next"
      /\ n # 0 /\ Fits(contents, n)
      /\ contents' = SubSeq(contents, n + 1, Len(contents)) /\ scanned' = 0
      /\ retained' = retained + n
      /\ consumed' = consumed \o SubSeq(contents, 1, n)
      /\ largest' = IF n - 1 > largest THEN n - 1 ELSE largest
      /\ UNCHANGED << pc, needsCompaction, received >>

\* hubRecordBuffer.next, a complete record: the reader decodes it and comes back.
TakeRecord ==
  LET n == FirstRecord(contents, scanned)
  IN  /\ pc = "next"
      /\ n # 0 /\ Fits(contents, n)
      /\ contents' = SubSeq(contents, n + 1, Len(contents)) /\ scanned' = 0
      /\ needsCompaction' = TRUE /\ retained' = retained + n
      /\ consumed' = consumed \o SubSeq(contents, 1, n)
      /\ largest' = IF n - 1 > largest THEN n - 1 ELSE largest
      /\ UNCHANGED << pc, received >>

\* hubRecordBuffer.next, no complete record: the consumed prefix is dropped.
AwaitMore ==
  /\ pc = "next"
  /\ FirstRecord(contents, scanned) = 0 /\ Fits(contents, 0)
  /\ pc' = "read"
  /\ scanned' = Len(contents)
  /\ retained' = IF needsCompaction THEN 0 ELSE retained
  /\ needsCompaction' = FALSE
  /\ UNCHANGED << contents, received, consumed, largest >>

RefuseRecord ==
  /\ pc = "next"
  /\ ~Fits(contents, FirstRecord(contents, scanned))
  /\ Refuse
  /\ UNCHANGED received

\* read appends a message.
ReadMessage(m) ==
  /\ pc = "read"
  /\ Message(m)
  /\ contents' = contents \o m
  /\ pc' = "next"
  /\ UNCHANGED << scanned, needsCompaction, retained, consumed, largest >>

\* The stream has ended or was refused.
Ended == /\ pc = "refused" \/ Len(received) = MaxBytes
         /\ UNCHANGED vars

Messages == BoundedSeq(Bytes, MaxMessage)

Next == \/ \E m \in Messages : ReadHandshake(m) \/ ReadMessage(m)
        \/ TakeRecord \/ AwaitMore \/ RefuseRecord
        \/ Ended

Spec == Init /\ [][Next]_vars

-----------------------------------------------------------------------------
\* However the stream was cut, what was taken and what is buffered are the stream,
\* nothing taken ends inside a record, and a reader that waits for more does not
\* sit on a complete record; what is not searched again holds no separator
\* (splitFirstRecord's offset; hubRecordBuffer.next).
RecordsAreTheStream ==
  /\ scanned <= Len(contents)
  /\ Separator(SubSeq(contents, 1, scanned)) = 0
  /\ pc # "refused" => received = consumed \o contents
  /\ consumed # << >> => Last(consumed) = "separator"
  /\ pc \in { "handshake", "read" } => Separator(contents) = 0

\* The response is the first record of the stream, and every limit is one on a
\* record: nothing within the limits is refused and nothing beyond them is taken,
\* whatever a message or the buffer holds besides; and while it waits for the server,
\* the reader holds no more than the fragment of one record
\* (readHandshakeResponse, splitHubRecord, hubRecordBuffer.needsCompaction).
RecordsKeepLimits ==
  LET rest  == SubSeq(received, Len(consumed) + 1, Len(received))
      n     == Separator(rest)
      first == IF n = 0 THEN Len(rest) ELSE n - 1
  IN  /\ largest <= MaxRecord
      /\ consumed # << >> => Separator(consumed) - 1 <= MaxHandshake
      /\ pc = "refused" => first > (IF consumed = << >> THEN MaxHandshake ELSE MaxRecord)
      /\ pc = "read" => retained = 0 /\ Len(contents) <= MaxRecord
=============================================================================
