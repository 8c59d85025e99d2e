--------------------------- MODULE SessionPayload ---------------------------
(***************************************************************************)
(* What a SessionInfo object says (session_info.go, parseSessionInfo): the *)
(* session, its route and its schedule, each on its own members, so that   *)
(* what is wrong with one leaves the others alone.  A member counts when   *)
(* it is there once, under exactly its name.                               *)
(*                                                                         *)
(* Members and values are those of HubMessages; of the numbers that are no *)
(* positive integer of 64 bits, 0 stands for all.  Which texts are a local *)
(* time or an offset is data.  The findings a payload is reported with are *)
(* read by nobody and left out.                                            *)
(***************************************************************************)
EXTENDS Integers, Sequences

CONSTANTS
  NoTuple, NoRoute, NoSchedule,
  Locals, \* for each text that is a local time, its year and its hour
  Offsets \* for each text that is an offset from UTC, its hours

Nothing == [kind |-> "absent"]

Given(members, name) == SelectSeq(members, LAMBDA m : m.exact /\ m.name = name)

\* Seeded fault: of several members of a name, the first one counts.
TheFirst(members, name) ==
  LET given == Given(members, name) IN IF given = << >> THEN Nothing ELSE given[1].value

\* sessionInfoMember.unique
TheOnly(members, name) ==
  LET given == Given(members, name) IN IF Len(given) = 1 THEN given[1].value ELSE Nothing

\* parsePositiveCanonicalInt64
IsKey(v) == v.kind = "number" /\ v.number # 0

IsText(v)   == v.kind = "text"
IsLocal(v)  == IsText(v) /\ v.text \in DOMAIN Locals
IsOffset(v) == IsText(v) /\ v.text \in DOMAIN Offsets

-----------------------------------------------------------------------------
(* The catalogue of sessions: source type, source name, canonical name.    *)

GrandPrixSessions ==
  { << "Practice", "Practice 1", "practice_1" >>, << "Practice", "Practice 2", "practice_2" >>,
    << "Practice", "Practice 3", "practice_3" >>, << "Qualifying", "Qualifying", "qualifying" >>,
    << "Qualifying", "Sprint Shootout", "sprint_qualifying" >>,
    << "Qualifying", "Sprint Qualifying", "sprint_qualifying" >>,
    << "Race", "Sprint", "sprint" >>, << "Race", "Race", "race" >> }

\* A meeting of one practice, and the season in which sprints had another name.
OnePractice  == { << "Practice", "Practice", "practice_1" >> }
FirstSprints == { << "Race", "Sprint Qualifying", "sprint" >> }

IsGrandPrix(meeting) ==
  Len(meeting) >= 11 /\ SubSeq(meeting, Len(meeting) - 10, Len(meeting)) = " Grand Prix"

\* testingDay
TestingSessions(prefix) ==
  { << "Practice", prefix \o "1", "testing_day_1" >>, << "Practice", prefix \o "2", "testing_day_2" >>,
    << "Practice", prefix \o "3", "testing_day_3" >> }

Testing(season, meeting) ==
  IF \/ season \in 2021 .. 2022 /\ meeting = "Pre-Season Test"
     \/ season \in 2023 .. 2024 /\ meeting = "Pre-Season Testing"
  THEN TestingSessions("Practice ")
  ELSE IF season \in 2025 .. 2026 /\ meeting = "Pre-Season Testing" THEN TestingSessions("Day ")
  ELSE {}

\* Seeded fault: the name that sprints had in one season is taken in all of them.
SessionsEver(season, key, meeting) ==
  Testing(season, meeting)
    \cup (IF season = 2020 /\ key = 1057 THEN OnePractice ELSE {})
    \cup (IF IsGrandPrix(meeting)
          THEN GrandPrixSessions \cup FirstSprints ELSE {})

\* classifySessionInfo.  No two of its rules speak of the same type and name.
Sessions(season, key, meeting) ==
  Testing(season, meeting)
    \cup (IF season = 2020 /\ key = 1057 THEN OnePractice ELSE {})
    \cup (IF IsGrandPrix(meeting) THEN GrandPrixSessions ELSE {})
    \cup (IF IsGrandPrix(meeting) /\ season = 2021 THEN FirstSprints ELSE {})

-----------------------------------------------------------------------------
\* parseSessionInfoMeeting
Meeting(v) ==
  LET members == IF v.kind = "object" THEN v.members ELSE << >>
  IN  [key |-> TheOnly(members, "Key"), name |-> TheOnly(members, "Name")]

Tuple(members) ==
  LET start   == TheOnly(members, "StartDate")
      meeting == Meeting(TheOnly(members, "Meeting"))
      type    == TheOnly(members, "Type")
      name    == TheOnly(members, "Name")
      season  == Locals[start.text].year
      found   == { s \in Sessions(season, meeting.key.number, meeting.name.text) :
                     s[1] = type.text /\ s[2] = name.text }
  IN  IF /\ IsLocal(start) /\ IsKey(meeting.key)
         /\ IsText(meeting.name) /\ IsText(type) /\ IsText(name)
         /\ found # {}
      THEN [ season |-> season, meetingKey |-> meeting.key.number,
             sessionName |-> (CHOOSE s \in found : TRUE)[3] ]
      ELSE NoTuple

Route(members) ==
  LET key == TheOnly(members, "Key") IN IF IsKey(key) THEN key.number ELSE NoRoute

\* The schedule in UTC; it ends after it starts.
Schedule(members) ==
  LET start    == TheOnly(members, "StartDate")
      end      == TheOnly(members, "EndDate")
      offset   == TheOnly(members, "GmtOffset")
      schedule == [ startUTC  |-> Locals[start.text].hour - Offsets[offset.text],
                    endUTC    |-> Locals[end.text].hour - Offsets[offset.text],
                    utcOffset |-> Offsets[offset.text] ]
  IN  IF /\ IsLocal(start) /\ IsLocal(end) /\ IsOffset(offset)
         /\ schedule.endUTC > schedule.startUTC
      THEN schedule ELSE NoSchedule

\* parseSessionInfo
ParseSessionInfo(payload) ==
  LET members == IF payload.kind = "object" THEN payload.members ELSE << >>
  IN  [tuple |-> Tuple(members), route |-> Route(members), schedule |-> Schedule(members)]
=============================================================================
