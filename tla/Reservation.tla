----------------------------- MODULE Reservation -----------------------------
(***************************************************************************)
(* What the factory promises of the receivers of one configuration: each   *)
(* is held, perhaps live, stopped and released, once and in this order; a  *)
(* new one is made only when the one before it is released; and one that   *)
(* is told to stop is released in the end.                                 *)
(***************************************************************************)
CONSTANT Instances

VARIABLE phase

Init == phase = [i \in Instances |-> "unborn"]

Move(i, from, to) ==
  /\ phase[i] \in from
  /\ phase' = [phase EXCEPT ![i] = to]

Reserve(i) ==
  /\ \A j \in Instances : phase[j] \in {"unborn", "released"}
  /\ Move(i, {"unborn"}, "held")

GoLive(i) == Move(i, {"held"}, "live")
Stop(i) == Move(i, {"held", "live"}, "stopping")
Release(i) == Move(i, {"stopping"}, "released")

Next == \E i \in Instances : Reserve(i) \/ GoLive(i) \/ Stop(i) \/ Release(i)

Spec == Init /\ [][Next]_phase /\ \A i \in Instances : WF_phase(Release(i))
=============================================================================
