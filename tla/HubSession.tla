----------------------------- MODULE HubSession -----------------------------
(***************************************************************************)
(* What the owner of a connection may rely on (receiver.go, run): batches  *)
(* are delivered one at a time, at most one of them completes Subscribe,   *)
(* and read then returns one verdict for good.  It is the caller's own end *)
(* exactly when the caller had ended.                                      *)
(***************************************************************************)
VARIABLES
  delivering, \* the batch in the callback, or "none"
  completed,  \* a completion was delivered or is being delivered
  ended,      \* the caller's context ended
  verdict     \* what read returned, or "none"

sessionVars == << delivering, completed, ended, verdict >>

Init == delivering = "none" /\ ~completed /\ ~ended /\ verdict = "none"

Deliver(b) ==
  /\ verdict = "none" /\ delivering = "none"
  /\ b = "completion" => ~completed
  /\ delivering' = b
  /\ completed' = (completed \/ b = "completion")
  /\ UNCHANGED << ended, verdict >>

Processed ==
  /\ delivering # "none"
  /\ delivering' = "none"
  /\ UNCHANGED << completed, ended, verdict >>

End ==
  /\ verdict = "none"
  /\ ~ended /\ ended' = TRUE
  /\ UNCHANGED << delivering, completed, verdict >>

\* "transient" is everything that is retried.
Return(v) ==
  /\ verdict = "none" /\ delivering = "none"
  /\ (v = "caller") = ended
  /\ verdict' = v
  /\ UNCHANGED << delivering, completed, ended >>

Next == \/ \E b \in { "feed", "completion" } : Deliver(b)
        \/ Processed \/ End
        \/ \E v \in { "caller", "invalid", "closed", "transient" } : Return(v)

Spec == Init /\ [][Next]_sessionVars

\* A caller that ended gets its verdict between two batches or after the last.
FairSpec == Spec /\ WF_sessionVars(Processed) /\ SF_sessionVars(Return("caller"))
=============================================================================
