---------------------------- MODULE SessionLedger ----------------------------
(***************************************************************************)
(* What the session identity promises, without the ring: the sessions of a *)
(* receiver follow each other, a session that was replaced stays retired   *)
(* for the next Limit replacements, and a descriptor that is not accepted  *)
(* costs the synchronization and nothing else.                             *)
(***************************************************************************)
EXTENDS Integers, Sequences

CONSTANTS Tuples, NoTuple, Routes, NoRoute, Limit

VARIABLES
  current,      \* the session, or NoTuple
  retired,      \* every session replaced, oldest first
  synchronized,
  route,
  sessions      \* sessions begun

vars == << current, retired, synchronized, route, sessions >>

Init ==
  /\ current = NoTuple /\ route = NoRoute
  /\ retired = << >>
  /\ synchronized = FALSE
  /\ sessions = 0

\* t is among the last Limit retired sessions.
Recent(t) == \E i \in 1 .. Len(retired) : i > Len(retired) - Limit /\ retired[i] = t

Begin(t, r) ==
  /\ t # current /\ ~Recent(t)
  /\ current' = t /\ route' = r
  /\ synchronized' = TRUE
  /\ sessions' = sessions + 1
  /\ retired' = IF current = NoTuple THEN retired ELSE Append(retired, current)

Renew(r) ==
  /\ current # NoTuple
  /\ route' = r /\ synchronized' = TRUE
  /\ UNCHANGED << current, retired, sessions >>

Lose ==
  /\ synchronized' = FALSE
  /\ UNCHANGED << current, retired, route, sessions >>

Next == \/ \E r \in Routes \cup {NoRoute} : Renew(r) \/ \E t \in Tuples : Begin(t, r)
        \/ Lose

Spec == Init /\ [][Next]_vars
=============================================================================
