----------------------------- MODULE InputHealth -----------------------------
(***************************************************************************)
(* What the receiver promises to whoever watches it: the health that its   *)
(* metrics show, the status its host was told, and how the two keep up     *)
(* with one another.  The metrics may be one change ahead; the host is     *)
(* told every health in turn and none is skipped.  A failed input never    *)
(* becomes healthy again, and the run's end freezes what is shown.         *)
(***************************************************************************)
EXTENDS Naturals

VARIABLES
  health,      \* what the metrics show
  told,        \* the health last told to the host, or "none"
  outages,     \* interruptions begun
  recoveries,  \* interruptions overcome
  ended        \* the run is over and has been summarized

vars == << health, told, outages, recoveries, ended >>

Healths == {"awaiting", "receiving", "interrupted", "failed"}

Init ==
  /\ health = "awaiting" /\ told = "none"
  /\ outages = 0 /\ recoveries = 0
  /\ ended = FALSE

\* A change of health waits until the host knows the one before it.
Change(h) == ~ended /\ told = health /\ health' = h /\ UNCHANGED << told, ended >>

Receive ==
  /\ health \in {"awaiting", "interrupted"}
  /\ Change("receiving")
  /\ recoveries' = IF health = "interrupted" THEN recoveries + 1 ELSE recoveries
  /\ UNCHANGED outages

Interrupt ==
  /\ health \in {"awaiting", "receiving"}
  /\ Change("interrupted")
  /\ outages' = outages + 1
  /\ UNCHANGED recoveries

\* A failure that strikes no open interruption is one of its own.
Fail ==
  /\ health # "failed"
  /\ Change("failed")
  /\ outages' = IF health = "interrupted" THEN outages ELSE outages + 1
  /\ UNCHANGED recoveries

Tell ==
  /\ told # health
  /\ told' = health
  /\ UNCHANGED << health, outages, recoveries, ended >>

End ==
  /\ ~ended /\ told = health
  /\ ended' = TRUE
  /\ UNCHANGED << health, told, outages, recoveries >>

Next == Receive \/ Interrupt \/ Fail \/ Tell \/ End

Spec == Init /\ [][Next]_vars /\ WF_vars(Tell)

TypeOK ==
  /\ health \in Healths /\ told \in Healths \cup {"none"}
  /\ outages \in Nat /\ recoveries \in Nat
  /\ ended \in BOOLEAN
=============================================================================
