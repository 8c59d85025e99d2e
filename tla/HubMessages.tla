---------------------------- MODULE HubMessages ----------------------------
(***************************************************************************)
(* What a hub record says (protocol.go, decodeHubRecord) and what becomes  *)
(* of a batch before it is reduced (normalize.go).                         *)
(*                                                                         *)
(* A record is an object of members, each with a name, whether it is       *)
(* spelled exactly so or is an alias of it in other letters, and a value.  *)
(* A text with half a surrogate pair is "broken", and a value that is no   *)
(* text, number, flag, array or object of the kinds used here (a fraction) *)
(* is "other".  A text may inflate to the value it holds.  Topics are      *)
(* sorted by the code and a batch lists none twice, so that its updates    *)
(* are a set.                                                              *)
(***************************************************************************)
EXTENDS Integers, Sequences

Absent == [kind |-> "absent"]
Null   == [kind |-> "null"]

Invalid   == [kind |-> "invalid"]
Ignored   == [kind |-> "ignored"]
Reconnect == [kind |-> "reconnect"]
Closed    == [kind |-> "closed"]

\* Batch is a liveTimingBatch; requested is empty for a feed.
Batch(source, requested, updates) ==
  [kind |-> "batch", source |-> source, requested |-> requested, updates |-> updates]

Update(topic, payload, timestamp) ==
  [topic |-> topic, payload |-> payload, timestamp |-> timestamp]

-----------------------------------------------------------------------------
(* The message.                                                            *)

Shapes == [ type |-> {"number", "null"}, invocationId |-> {"text", "null"},
            target |-> {"text", "null"}, arguments |-> {"array", "null"},
            result |-> {"null", "object", "text", "number", "array", "flag", "broken", "other"},
            error |-> {"text", "broken"}, allowReconnect |-> {"flag", "null"} ]

\* No name occurs twice; an alias is another name.
Distinct(members) ==
  \A i, j \in DOMAIN members :
    members[i].name = members[j].name /\ members[i].exact = members[j].exact => i = j

\* decodeHubMessage: names occur once, known ones exactly and with their shape.
Decodes(record) ==
  /\ record.object
  /\ Distinct(record.members)
  /\ \A i \in DOMAIN record.members :
       LET m == record.members[i]
       IN  m.name \in DOMAIN Shapes => m.exact /\ m.value.kind \in Shapes[m.name]

Field(record, name) ==
  IF \E i \in DOMAIN record.members : record.members[i].name = name
  THEN record.members[CHOOSE i \in DOMAIN record.members : record.members[i].name = name].value
  ELSE Absent

\* unmarshalControlString: null and absence leave the text empty.
TextOf(v) == IF v.kind = "text" THEN v.text ELSE ""

-----------------------------------------------------------------------------
(* What it stands for.                                                     *)

\* decodeFeedInvocation
Feed(record) ==
  LET arguments == Field(record, "arguments")
  IN  IF TextOf(Field(record, "target")) # "feed" THEN Ignored
      ELSE IF arguments.kind # "array" THEN Invalid
      ELSE IF Len(arguments.items) # 3 THEN Invalid
      ELSE LET topic     == arguments.items[1]
               timestamp == arguments.items[3]
           IN  IF /\ topic.kind = "text" /\ TextOf(topic) # ""
                  /\ timestamp.kind \in {"text", "null"}
               THEN Batch("feed", {},
                          { Update(topic.text, arguments.items[2], TextOf(timestamp)) })
               ELSE Invalid

\* decodeSubscriptionSnapshot
Snapshot(result, manifest) ==
  IF result.kind \in {"absent", "null"} THEN Batch("snapshot", manifest, {})
  ELSE IF /\ result.kind = "object"
          /\ Distinct(result.members)
          /\ \A i \in DOMAIN result.members :
               result.members[i].exact /\ result.members[i].name \in manifest
       THEN Batch("snapshot", manifest,
                  { Update(result.members[i].name, result.members[i].value, "") :
                      i \in DOMAIN result.members })
       ELSE Invalid

\* decodeSubscriptionCompletion.  Once its Subscribe was answered, nothing is
\* requested, and a second answer is invalid.
Completion(record, manifest) ==
  LET id     == TextOf(Field(record, "invocationId"))
      result == Field(record, "result")
      error  == Field(record, "error")
  IN  IF \/ id = ""
         \/ result # Absent /\ error # Absent
         \/ error.kind = "text" /\ error.text = ""
      THEN Invalid
      ELSE IF id # "0" THEN Ignored
      ELSE IF manifest = {} \/ error # Absent THEN Invalid
      ELSE Snapshot(result, manifest)

\* decodeHubRecord
DecodeHubRecord(record, manifest) ==
  IF ~Decodes(record) THEN Invalid
  ELSE LET type == Field(record, "type")
       IN  IF type.kind # "number" THEN Invalid
           ELSE CASE type.number = 1 -> Feed(record)
                  [] type.number = 3 -> Completion(record, manifest)
                  [] type.number = 7 ->
                       IF Field(record, "allowReconnect") = [kind |-> "flag", flag |-> TRUE]
                       THEN Reconnect ELSE Closed
                  [] OTHER -> Ignored

-----------------------------------------------------------------------------
(* Normalization.                                                          *)

Packed(topic) == Len(topic) >= 2 /\ SubSeq(topic, Len(topic) - 1, Len(topic)) = ".z"

\* Seeded fault: a packed topic keeps its suffix.
SemanticWithSuffix(topic) == topic

\* normalizeLiveTimingTopic
Semantic(topic) == IF Packed(topic) THEN SubSeq(topic, 1, Len(topic) - 2) ELSE topic

\* normalizeLiveTimingUpdate: a packed topic must have a text that inflates.
Normalizes(source, u) ==
  /\ Semantic(u.topic) # ""
  /\ IF source = "feed" THEN u.timestamp = "RFC3339" ELSE u.timestamp = ""
  /\ Packed(u.topic) => u.payload.kind = "text" /\ u.payload.inflates

\* A packed payload is replaced by what it inflates to.
NormalPayload(u) == IF Packed(u.topic) THEN u.payload.holds ELSE u.payload

NormalUpdate(u) == [topic |-> Semantic(u.topic), payload |-> NormalPayload(u)]

\* normalizeLiveTimingBatch; two topics must not become one.
Normalize(batch) ==
  IF /\ \A u \in batch.updates : Normalizes(batch.source, u)
     /\ \A s, t \in batch.requested : Semantic(s) = Semantic(t) => s = t
  THEN [batch EXCEPT !.requested = { Semantic(t) : t \in @ },
                     !.updates   = { NormalUpdate(u) : u \in @ }]
  ELSE Invalid
=============================================================================
