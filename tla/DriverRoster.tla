---------------------------- MODULE DriverRoster ----------------------------
(***************************************************************************)
(* What the driver registry promises, as a roster: a function from driver  *)
(* numbers to what is known of them, without arrays, insertion points or a *)
(* parser that stops counting.  A payload is whether it is an object, and  *)
(* its members in their order: a driver number, or NoNumber for a key that *)
(* is none, and a value.  A value is whether it is an object, and the      *)
(* three-letter names and racing numbers it gives, each Bad when it is     *)
(* malformed or the number of another driver.                              *)
(***************************************************************************)
EXTENDS Naturals, Sequences, FiniteSets, Functions

CONSTANTS MaxEntries, NoNumber, Absent, Bad

Mentioned(payload) == { payload.members[i].number : i \in DOMAIN payload.members } \ {NoNumber}

Values(payload, n) ==
  { i \in DOMAIN payload.members : payload.members[i].number = n }

\* What the payload says of a driver it mentions once; twice is Bad.
Only(given) == CASE given = << >> -> Absent [] Len(given) = 1 -> given[1] [] OTHER -> Bad

Said(payload, n) ==
  LET v == payload.members[CHOOSE i \in Values(payload, n) : TRUE].value
  IN  IF Cardinality(Values(payload, n)) > 1 THEN [whole |-> FALSE, tla |-> Bad, racing |-> Bad]
      ELSE IF ~v.object THEN [whole |-> FALSE, tla |-> Bad, racing |-> Absent]
      ELSE [whole |-> TRUE, tla |-> Only(v.tla), racing |-> Only(v.racing)]

TooMany(payload) == Cardinality(Mentioned(payload)) > MaxEntries

\* The order of first mention.
Earlier(payload, m, n) ==
  \E i \in Values(payload, m) : \A j \in Values(payload, n) : i < j

\* Newcomers get what room is left, in order.
Admitted(entries, payload) ==
  LET new == Mentioned(payload) \ DOMAIN entries
  IN  { n \in new : Cardinality(DOMAIN entries)
                      + Cardinality({ m \in new : Earlier(payload, m, n) }) < MaxEntries }

Overlaid(old, new) == IF new = Absent THEN old ELSE new

\* The staged roster after a feed: what is not said stays.
Staged(entries, payload) ==
  [ n \in DOMAIN entries \cup Admitted(entries, payload) |->
      LET old == IF n \in DOMAIN entries THEN entries[n] ELSE [tla |-> Absent, racing |-> Absent]
          new == Said(payload, n)
      IN  IF n \notin Mentioned(payload) THEN old
          ELSE [tla |-> Overlaid(old.tla, new.tla), racing |-> Overlaid(old.racing, new.racing)] ]

\* A snapshot that names every driver it mentions once and well.
Coherent(payload) ==
  /\ payload.object /\ Mentioned(payload) # {} /\ ~TooMany(payload)
  /\ \A n \in Mentioned(payload) :
       LET s == Said(payload, n) IN s.whole /\ s.tla \notin {Absent, Bad} /\ s.racing # Bad

\* A feed that says something else than the frozen roster.
Contradicts(entries, payload) ==
  \/ ~payload.object \/ TooMany(payload)
  \/ \E n \in Mentioned(payload) :
       LET s == Said(payload, n)
       IN  \/ n \notin DOMAIN entries \/ ~s.whole \/ s.racing = Bad
           \/ s.tla # Absent /\ s.tla # entries[n].tla

Names(payload) == [ n \in Mentioned(payload) |-> Said(payload, n).tla ]

\* A roster after a payload, [entries, frozen, synchronized].
After(r, source, payload) ==
  IF source = "snapshot" /\ Coherent(payload) /\ ~r.frozen
  THEN [ entries |-> [n \in Mentioned(payload) |-> [tla |-> Names(payload)[n], racing |-> "own"]],
         frozen |-> TRUE, synchronized |-> TRUE ]
  ELSE IF source = "snapshot"
  THEN [r EXCEPT !.synchronized =
          Coherent(payload) /\ Names(payload) = [n \in DOMAIN r.entries |-> r.entries[n].tla]]
  ELSE IF r.frozen
  THEN [r EXCEPT !.synchronized = @ /\ ~Contradicts(r.entries, payload)]
  ELSE IF payload.object /\ ~TooMany(payload)
  THEN [r EXCEPT !.entries = Staged(@, payload)]
  ELSE [r EXCEPT !.synchronized = @ /\ payload.object]

\* Somebody the payload mentions was left out for want of room.
LeftOut(r, source, payload) ==
  \/ payload.object /\ TooMany(payload)
  \/ /\ payload.object /\ source = "feed" /\ ~r.frozen
     /\ Mentioned(payload) \ DOMAIN r.entries # Admitted(r.entries, payload)
=============================================================================
