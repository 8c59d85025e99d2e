------------------------------ MODULE StatusFeed ------------------------------
(***************************************************************************)
(* What the hosts of a shared receiver see of its statuses: the events are *)
(* one sequence, numbered as they are reported, and every host sees a      *)
(* stretch of it without gap, repetition or reordering, which begins with  *)
(* the event that was the latest when it was first told one and, once the  *)
(* host is registered, goes on to the last.                                *)
(***************************************************************************)
EXTENDS Naturals, Sequences

CONSTANT Hosts

VARIABLES
  hosts,   \* the registered hosts
  latest,  \* the number of the last event reported
  seen     \* per host, the events it was told

vars == << hosts, latest, seen >>

Init ==
  /\ hosts = {}
  /\ latest = 0
  /\ seen = [h \in Hosts |-> << >>]

Join(h) == hosts' = hosts \cup {h} /\ UNCHANGED << latest, seen >>

Publish == latest' = latest + 1 /\ UNCHANGED << hosts, seen >>

Upcoming(h) == IF seen[h] = << >> THEN latest ELSE seen[h][Len(seen[h])] + 1

Tell(h) ==
  /\ h \in hosts
  /\ Upcoming(h) \in 1 .. latest
  /\ seen' = [seen EXCEPT ![h] = Append(@, Upcoming(h))]
  /\ UNCHANGED << hosts, latest >>

Next == Publish \/ \E h \in Hosts : Join(h) \/ Tell(h)

Spec == Init /\ [][Next]_vars /\ \A h \in Hosts : WF_vars(Tell(h))
=============================================================================
