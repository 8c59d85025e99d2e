----------------------------- MODULE MCHubFeed -----------------------------
(* The instance of HubFeed that TLC checks.                                *)
EXTENDS HubFeed, TLC

CONSTANTS k1, k2, k3, k4

\* Meeting keys are compared for equality only.
Keys == {k1, k2, k3, k4}

Symmetry == Permutations(Keys)

Session(k) == [season |-> 2021, meetingKey |-> k, sessionName |-> "sprint"]

\* What flawed objects would name, were their flaws overlooked.
Overlooked == { [season |-> 2021, meetingKey |-> 7, sessionName |-> "race"],
                [season |-> 2021, meetingKey |-> 7, sessionName |-> "sprint"],
                [season |-> 2020, meetingKey |-> 7, sessionName |-> "sprint"] }

Slot == [startUTC |-> 13, endUTC |-> 15, utcOffset |-> 2]

MCTuples    == { Session(k) : k \in Keys } \cup Overlooked
MCRoutes    == {9}
MCSchedules == { Slot, [Slot EXCEPT !.endUTC = 13] }

MCTopics == { "SessionInfo", "CarData.z" }

MCLocals == [ start |-> [year |-> 2021, hour |-> 15], end |-> [year |-> 2021, hour |-> 17],
              earlier |-> [year |-> 2020, hour |-> 0], later |-> [year |-> 2025, hour |-> 99] ]

MCOffsets == [ east |-> 2 ]

-----------------------------------------------------------------------------
Text(s)     == [kind |-> "text", text |-> s, inflates |-> FALSE]
Number(n)   == [kind |-> "number", number |-> n]
Flag(b)     == [kind |-> "flag", flag |-> b]
Array(s)    == [kind |-> "array", items |-> s]
Object(s)   == [kind |-> "object", members |-> s]
Deflated(v) == [kind |-> "text", text |-> "deflated", inflates |-> TRUE, holds |-> v]

Named(name, v) == [name |-> name, exact |-> TRUE, value |-> v]

Hub(type, rest) == [object |-> TRUE, members |-> << Named("type", Number(type)) >> \o rest]

Invoke(target, arguments) ==
  Hub(1, << Named("target", Text(target)), Named("arguments", Array(arguments)) >>)

FeedOf(topic, payload) == Invoke("feed", << Text(topic), payload, Text("RFC3339") >>)

Complete(id, rest) == Hub(3, << Named("invocationId", Text(id)) >> \o rest)

AnswerOf(result) == Complete("0", << Named("result", result) >>)

CarData == Named("CarData.z", Deflated(Null))

-----------------------------------------------------------------------------
(* SessionInfo objects, in parts.                                          *)

At(date)         == << Named("StartDate", Text(date)) >>
MeetingOf(k, s)  ==
  << Named("Meeting", Object(<< Named("Key", Number(k)), Named("Name", Text(s)) >>)) >>
Titled(type, s)  == << Named("Type", Text(type)), Named("Name", Text(s)) >>
Until(date)      == << Named("EndDate", Text(date)), Named("GmtOffset", Text("east")) >>
RoutedBy(k)      == << Named("Key", Number(k)) >>

Sprint(k, name) == At("start") \o MeetingOf(k, "British Grand Prix") \o Titled("Race", name)

FullOf(k, name) == Object(Sprint(k, name) \o Until("end") \o RoutedBy(9))

\* No session, by a flaw of its own: its date, its meeting, or a title of another season.
Nameless ==
  LET gp    == "British Grand Prix"
      race  == Titled("Race", "Race")
      place == MeetingOf(7, gp)
  IN  { Object(s) : s \in
          { At("start") \o race, At("soon") \o place \o race,
            At("start") \o At("start") \o place \o race,
            At("start") \o place \o place \o race, At("start") \o MeetingOf(0, gp) \o race,
            At("start") \o << Named("Meeting", Text(gp)) >> \o race,
            At("start") \o MeetingOf(7, "Grand Tour") \o race,
            At("start") \o place \o << race[1], [race[2] EXCEPT !.exact = FALSE] >>,
            At("start") \o place \o << race[1], Named("Name", Null) >>,
            At("start") \o place \o Titled("Race", "Qualifying"),
            At("earlier") \o place \o Titled("Race", "Sprint Qualifying"),
            At("earlier") \o place \o Titled("Practice", "Practice"),
            At("later") \o MeetingOf(7, "Pre-Season Testing") \o Titled("Practice", "Practice 1") } }

-----------------------------------------------------------------------------
Means(kind, answer, d, records) ==
  { [record |-> r, meaning |-> [kind |-> kind, answer |-> answer, descriptor |-> d]] :
      r \in records }

Names(k, route, schedule) == [tuple |-> Session(k), route |-> route, schedule |-> schedule]

Fed ==
  UNION { Means("session", FALSE, Names(k, 9, Slot),
                { FeedOf("SessionInfo", FullOf(k, "Sprint Qualifying")),
                  FeedOf("SessionInfo.z", Deflated(FullOf(k, "Sprint"))) })
            \cup
          Means("session", FALSE, Names(k, NoRoute, NoSchedule),
                { FeedOf("SessionInfo", Object(Sprint(k, "Sprint") \o s)) :
                    s \in { Until("start") \o RoutedBy(0),
                            << Named("EndDate", Text("end")) >> \o RoutedBy(9) \o RoutedBy(9) } }) :
           k \in Keys }
    \cup Means("session", FALSE, Unresolved,
                { FeedOf("SessionInfo", v) :
                    v \in {Null, Deflated(FullOf(7, "Sprint"))} \cup Nameless })

Answered ==
  UNION { Means("session", TRUE, Names(k, 9, Slot),
                { AnswerOf(Object(<< CarData, Named("SessionInfo", FullOf(k, "Sprint")) >>)) }) :
            k \in Keys }
    \cup
  Means("session", TRUE, Unresolved,
        { Complete("0", << >>), AnswerOf(Null), AnswerOf(Object(<< >>)),
          AnswerOf(Object(<< CarData >>)), AnswerOf(Object(<< Named("SessionInfo", Null) >>)) })

Strange ==
  Means("other", FALSE, Unresolved,
        { Hub(6, << >>), Hub(2, << Named("extra", Null) >>), Invoke("news", << >>),
          Complete("7", << Named("error", Text("denied")) >>),
          Complete("7", << Named("error", [kind |-> "broken"]) >>),
          Hub(6, << Named("extra", Null), [Named("extra", Null) EXCEPT !.exact = FALSE] >>),
          FeedOf("CarData.z", Deflated(Null)) })
    \cup Means("reconnect", FALSE, Unresolved, { Hub(7, << Named("allowReconnect", Flag(TRUE)) >>) })

\* Records with one flaw.
Flawed ==
  { [object |-> FALSE, members |-> << >>], [object |-> TRUE, members |-> << >>],
    [object |-> TRUE, members |-> << Named("type", Null) >>],
    Hub(6, << Named("extra", Null), Named("extra", Null) >>),
    Hub(6, << [Named("target", Null) EXCEPT !.exact = FALSE] >>),
    Hub(1, << Named("target", Number(1)) >>),
    Hub(1, << Named("target", Text("feed")) >>),
    Invoke("feed", << Text("SessionInfo"), Null >>),
    Invoke("feed", << Null, Null, Text("RFC3339") >>),
    Invoke("feed", << Text("SessionInfo"), Null, Null >>),
    Invoke("feed", << Text("SessionInfo"), Null, Text("yesterday") >>),
    FeedOf("", Null), FeedOf(".z", Deflated(Null)), FeedOf("CarData.z", Null),
    FeedOf("SessionInfo.z", Text("SessionInfo")),
    Hub(3, << >>), Hub(3, << Named("invocationId", Null) >>),
    Complete("7", << Named("result", Null), Named("error", Text("denied")) >>),
    Complete("7", << Named("error", Text("")) >>), Complete("7", << Named("error", Null) >>),
    Complete("0", << Named("error", Text("denied")) >>),
    Hub(1, << Named("target", [kind |-> "broken"]) >>),
    AnswerOf(Array(<< >>)), AnswerOf(Object(<< [CarData EXCEPT !.exact = FALSE] >>)),
    AnswerOf(Object(<< CarData, CarData >>)),
    AnswerOf(Object(<< Named("SessionInfo.z", Deflated(Null)) >>)),
    AnswerOf(Object(<< Named("CarData.z", Text("CarData")) >>)) }

MCWire ==
  Fed \cup Answered \cup Strange
    \cup Means("end", FALSE, Unresolved, Flawed \cup
               { Hub(7, << >>), Hub(7, << Named("allowReconnect", Flag(FALSE)) >>) })
=============================================================================
