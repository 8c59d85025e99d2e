------------------------------- MODULE HubFeed -------------------------------
(***************************************************************************)
(* What the server says and the session state that comes of it: the reader *)
(* decodes a record (connection.go, read; HubMessages), the callback       *)
(* normalizes the batch (receiver.go, run) and reduces it (SessionInfo).   *)
(* The session outlives the connection: after a disconnect the next one    *)
(* subscribes again.                                                       *)
(*                                                                         *)
(* Wire is what a server may send: a record with what it means by it.  A   *)
(* meaning is a descriptor of the session ("session"), something else      *)
(* ("other"), a request to come again ("reconnect"), or a reason to stop   *)
(* ("end": the close of the source, or a record out of the protocol); and  *)
(* whether it answers Subscribe.                                           *)
(***************************************************************************)
EXTENDS SessionInfo, HubMessages

CONSTANTS
  Topics, \* subscriptionTopics
  Wire,
  Locals, Offsets \* of SessionPayload

VARIABLES
  requested, \* signalRConnection.requestedTopics of the connection
  stopped,   \* the run returned for good
  said       \* history: what a listener who understands the server knows

feedVars == << vars, requested, stopped, said >>

Unresolved == [tuple |-> NoTuple, route |-> NoRoute, schedule |-> NoSchedule]

Unheard == [descriptor |-> Unresolved, answered |-> FALSE, over |-> FALSE]

FeedInit ==
  /\ Init
  /\ requested = Topics
  /\ stopped = FALSE
  /\ said = Unheard

-----------------------------------------------------------------------------
Payload == INSTANCE SessionPayload

\* What a batch says of the session, and whether it should.
About(batch) == { Payload!ParseSessionInfo(u.payload) :
                    u \in { v \in batch.updates : v.topic = "SessionInfo" } }
Owed(batch)  == batch.source = "snapshot" /\ "SessionInfo" \in batch.requested

\* reduceSessionInfoBatch
ReduceBatch(batch) ==
  LET about == About(batch)
  IN  \/ about = {} /\ ~Owed(batch) /\ OtherBatch
      \/ about = {} /\ Owed(batch) /\ OmitSessionInfo
      \/ \E d \in about : Describe(d)

\* What the server means, for a listener that had heard s.
Hear(s, meaning) ==
  LET twice == meaning.answer /\ s.answered
  IN  [ descriptor |-> IF meaning.kind = "session" /\ ~twice
                       THEN meaning.descriptor ELSE s.descriptor,
        answered   |-> meaning.kind # "reconnect" /\ (s.answered \/ meaning.answer),
        over       |-> meaning.kind = "end" \/ twice ]

\* Seeded fault: the manifest outlives the answer.
RequestedKept(message) == IF message.kind = "reconnect" THEN Topics ELSE requested

Answers(message) == message.kind = "batch" /\ message.source = "snapshot"

\* The manifest is given up for the answer before the answer is looked at.
RequestedAfter(message) ==
  IF message.kind = "reconnect" THEN Topics
  ELSE IF Answers(message) THEN {}
  ELSE requested

\* What a decoded record comes to.
Reading(message) == IF message.kind = "batch" THEN Normalize(message) ELSE message

\* Every session a server describes is one of the model.
ASSUME WireAssumption ==
  \A w \in Wire, r \in {Topics, {}} :
    LET batch == Reading(DecodeHubRecord(w.record, r))
    IN  batch.kind = "batch" => About(batch) \subseteq Descriptors

\* The connection and the session after a message that comes to batch, and what a
\* listener makes of it.
Take(message, batch, meaning) ==
  /\ requested' = RequestedAfter(message)
  /\ stopped' = (batch.kind \in { "invalid", "closed" })
  /\ IF batch.kind = "batch" THEN ReduceBatch(batch) ELSE UNCHANGED vars
  /\ said' = Hear(said, meaning)

\* read, one record, with the callback of run.
Receive(w) ==
  LET message == DecodeHubRecord(w.record, requested)
  IN  ~stopped /\ Take(message, Reading(message), w.meaning)

\* The connection is lost, and another one subscribed.
Drop == /\ ~stopped
        /\ requested' = Topics
        /\ said' = [said EXCEPT !.answered = FALSE]
        /\ UNCHANGED << vars, stopped >>

Stopped == stopped /\ UNCHANGED feedVars

FeedNext == (\E w \in Wire : Receive(w)) \/ Drop \/ Stopped

FeedSpec == FeedInit /\ [][FeedNext]_feedVars

-----------------------------------------------------------------------------
\* Each record by itself, before the answer to Subscribe and after it, comes to what
\* the server means by it: a reason to stop, a request to come again, the answer, and
\* a descriptor, which an answer gives for no session by leaving it out.
Understood ==
  \A w \in Wire, answered \in BOOLEAN :
    LET manifest == IF answered THEN {} ELSE Topics
        meaning  == w.meaning
        message  == DecodeHubRecord(w.record, manifest)
        batch    == Reading(message)
        over     == meaning.kind = "end" \/ (meaning.answer /\ answered)
    IN  /\ batch.kind \in { "invalid", "closed" } <=> over
        /\ ~over => /\ message.kind = "reconnect" <=> meaning.kind = "reconnect"
                    /\ Answers(message) <=> meaning.answer
                    /\ meaning.kind = "session" => batch.kind = "batch"
        /\ batch.kind = "batch" =>
             IF meaning.kind = "session"
             THEN \/ About(batch) = { meaning.descriptor }
                  \/ About(batch) = {} /\ Owed(batch) /\ meaning.descriptor = Unresolved
             ELSE About(batch) = {} /\ ~Owed(batch)

\* In whatever form the server said it (a feed or an answer, packed or not, or by
\* leaving it out), updates are let through only for the session it named last,
\* under the route and the schedule it gave; and the input stops for what is out
\* of the protocol and for nothing else (decodeHubRecord, normalizeLiveTimingBatch
\* and reduceSessionInfoBatch one after the other).  That each record by itself is
\* understood is looked at while nothing has been heard.
GateFollowsTheWire ==
  /\ said = Unheard => Understood
  /\ gate => /\ info.identity = said.descriptor.tuple
             /\ info.route = said.descriptor.route
             /\ info.schedule = said.descriptor.schedule
  /\ stopped <=> said.over
=============================================================================
