-------------------------- MODULE ConnectionProofs --------------------------
(***************************************************************************)
(* Theorems about Connection, for every interval, timeout, handoff, and    *)
(* set of messages and deadlines.                                          *)
(***************************************************************************)
EXTENDS Connection, TLAPS

-----------------------------------------------------------------------------
(* The inductive invariant.                                                *)

\* read has an outcome exactly after its loop, and it is the caller's end only
\* after Join.
LoopInv ==
  /\ reader \in { "top", "callback", "waiting" } => result = "none" /\ evidence = "none"
  /\ reader # "returned" => result # "caller"
  /\ reader = "callback" => batch # "none"
  /\ reader = "returned" => writer = "stopped"

\* A Read never outlasts its budget, which is not empty when it starts.
WaitInv == reader = "waiting" => wait <= Remaining

\* Who ended the run's context, before the reader does so on its way out.
ContextInv ==
  /\ run = "alive" => caller = "alive"
  /\ writeCtx = "alive" => run = "alive"
  /\ interrupted => run # "alive"
  /\ reader \notin { "joining", "returned" } /\ run # "alive" => caller # "alive" \/ pingErr # "none"
  /\ reader # "returned" /\ result = "context" => caller # "alive" \/ pingErr # "none"
  /\ pingErr # "none" => writer = "stopped"

\* The evidence is the outcome until Join, and a ping's own deadline stays on record.
EvidenceInv ==
  /\ reader \in { "returning", "joining" } =>
       IF evidence # "none" THEN result = evidence
                            ELSE result \notin { "invalid", "closed", "reconnect" }
  /\ overdue => \/ writer \in { "failed", "reporting" } /\ writeCtx = "deadline"
                \/ writer = "stopped" /\ pingErr = "pingDeadline"

ConnectionInv == /\ TypeOK /\ LoopInv /\ WaitInv /\ ServerWait /\ KeepalivePaced
                 /\ ContextInv /\ EvidenceInv /\ OutcomeRanks /\ CauseIsKept

-----------------------------------------------------------------------------
LEMMA InitInv == Init => ConnectionInv
<1> SUFFICES ASSUME Init PROVE ConnectionInv
  OBVIOUS
<1> USE ConnectionAssumption DEF ConnectionAssumption
<1>1. records \in Seq(Records)
  <2>1. << >> \in Seq(Records)
    OBVIOUS
  <2> QED
    BY <2>1 DEF Init
<1>2. callerIn \in Nat \cup {NoDeadline}
  BY DEF Init
<1>3. PICK h \in Handoffs :
        /\ receive = Spent(Timeout, h) /\ subscription = Spent(Timeout, h)
        /\ sinceOutbound = h /\ pingIn = Spent(Interval, h)
        /\ silence = h /\ outstanding = h
  BY DEF Init
<1>4. TypeOK
  <2>1. h \in Nat
    OBVIOUS
  <2>2. receive \in 0..Timeout /\ subscription \in 0..Timeout /\ pingIn \in 0..Interval
    BY <1>3, <2>1 DEF Spent
  <2>3. sinceOutbound \in Nat /\ silence \in Nat /\ outstanding \in Nat
    BY <1>3, <2>1
  <2>4. wait \in 0..Timeout /\ writeFor \in 0..Timeout
    BY DEF Init
  <2>5. /\ reader = "top" /\ result = "none" /\ batch = "none" /\ manifest = TRUE
        /\ pending = TRUE /\ writer = "idle" /\ writeCtx = "none" /\ pingErr = "none"
        /\ caller = "alive" /\ run = "alive" /\ socket = "open"
        /\ evidence = "none" /\ overdue = FALSE /\ interrupted = FALSE
    BY DEF Init
  <2> QED
    BY <1>1, <1>2, <2>2, <2>3, <2>4, <2>5 DEF TypeOK, Results, ContextStates
<1>5. ServerWait
  BY <1>3 DEF Init, ServerWait, Uncharged, Spent
<1>6. KeepalivePaced
  BY <1>3 DEF Init, KeepalivePaced
<1>7. LoopInv /\ WaitInv /\ ContextInv /\ EvidenceInv /\ OutcomeRanks /\ CauseIsKept
  BY DEF Init, LoopInv, WaitInv, ContextInv, EvidenceInv, OutcomeRanks, CauseIsKept
<1> QED
  BY <1>4, <1>5, <1>6, <1>7 DEF ConnectionInv

LEMMA StepInv == ConnectionInv /\ [Next]_vars => ConnectionInv'
<1> SUFFICES ASSUME ConnectionInv, [Next]_vars PROVE ConnectionInv'
  OBVIOUS
<1> USE ConnectionAssumption
        DEF ConnectionAssumption, ConnectionInv, TypeOK, LoopInv, WaitInv, ServerWait, KeepalivePaced,
            ContextInv, EvidenceInv, OutcomeRanks, CauseIsKept
<1> USE DEF vars, reading, budget, writing, contexts, history, Locally, Aside, Return, Take, Proceeds, Accept, Charge, EndRun, Spent, Remaining, Expiry, Outcome,
            CallerEnded, ReadCancelled, Uncharged, Results, ContextStates
<1>1. ASSUME StopAtTop PROVE ConnectionInv'
  BY <1>1 DEF StopAtTop
<1>2. ASSUME ExpireAtTop PROVE ConnectionInv'
  BY <1>2 DEF ExpireAtTop
<1>3. ASSUME TakeIgnored PROVE ConnectionInv'
  BY <1>3 DEF TakeIgnored
<1>4. ASSUME NEW r \in Records, TakeVerdict(r) PROVE ConnectionInv'
  BY <1>4 DEF TakeVerdict
<1>5. ASSUME NEW r \in Records, TakeBatch(r) PROVE ConnectionInv'
  BY <1>5 DEF TakeBatch
<1>6. ASSUME CallbackReturns PROVE ConnectionInv'
  <2> USE <1>6 DEF CallbackReturns
  <2>1. TypeOK'
    OBVIOUS
  <2>2. LoopInv' /\ WaitInv' /\ KeepalivePaced'
    OBVIOUS
  <2>3. ServerWait'
    OBVIOUS
  <2>4. ContextInv' /\ EvidenceInv' /\ OutcomeRanks' /\ CauseIsKept'
    OBVIOUS
  <2> QED
    BY <2>1, <2>2, <2>3, <2>4
<1>7. ASSUME NEW r \in { "invalid", "consumer" }, CallbackFails(r) PROVE ConnectionInv'
  BY <1>7 DEF CallbackFails
<1>8. ASSUME Await PROVE ConnectionInv'
  BY <1>8 DEF Await
<1>9. ASSUME NEW m \in Messages, ReadMessage(m) PROVE ConnectionInv'
  BY <1>9 DEF ReadMessage
<1>10. ASSUME ReadInvalid PROVE ConnectionInv'
  BY <1>10 DEF ReadInvalid
<1>11. ASSUME ReadFails PROVE ConnectionInv'
  <2> USE <1>11 DEF ReadFails
  <2>1. TypeOK'
    OBVIOUS
  <2>2. LoopInv' /\ WaitInv' /\ KeepalivePaced'
    OBVIOUS
  <2>3. ServerWait'
    OBVIOUS
  <2>4. ContextInv' /\ EvidenceInv' /\ OutcomeRanks' /\ CauseIsKept'
    OBVIOUS
  <2> QED
    BY <2>1, <2>2, <2>3, <2>4
<1>12. ASSUME Stop PROVE ConnectionInv'
  BY <1>12 DEF Stop
<1>13. ASSUME Join PROVE ConnectionInv'
  BY <1>13 DEF Join
<1>14. ASSUME PingStops PROVE ConnectionInv'
  BY <1>14 DEF PingStops
<1>15. ASSUME PingDue PROVE ConnectionInv'
  BY <1>15 DEF PingDue
<1>16. ASSUME PingWritten PROVE ConnectionInv'
  BY <1>16 DEF PingWritten
<1>17. ASSUME WriteDeadline PROVE ConnectionInv'
  BY <1>17 DEF WriteDeadline
<1>18. ASSUME WriteAborts PROVE ConnectionInv'
  BY <1>18 DEF WriteAborts
<1>19. ASSUME WriteFails PROVE ConnectionInv'
  BY <1>19 DEF WriteFails
<1>20. ASSUME PingCleanup PROVE ConnectionInv'
  BY <1>20 DEF PingCleanup
<1>21. ASSUME PingReports PROVE ConnectionInv'
  BY <1>21 DEF PingReports
<1>22. ASSUME NEW how \in { "canceled", "deadline" }, CallerEnds(how) PROVE ConnectionInv'
  BY <1>22 DEF CallerEnds
<1>23. ASSUME PeerDrops PROVE ConnectionInv'
  BY <1>23 DEF PeerDrops
<1>24. ASSUME Tick PROVE ConnectionInv'
  BY <1>24 DEF Tick, Due, Longer
<1>25. ASSUME Returned PROVE ConnectionInv'
  BY <1>25 DEF Returned
<1>26. ASSUME UNCHANGED vars PROVE ConnectionInv'
  BY <1>26
<1> QED
  BY <1>1, <1>2, <1>3, <1>4, <1>5, <1>6, <1>7, <1>8, <1>9, <1>10, <1>11, <1>12, <1>13, <1>14, <1>15, <1>16, <1>17, <1>18, <1>19, <1>20, <1>21, <1>22, <1>23, <1>24, <1>25, <1>26 DEF Next

THEOREM Invariance == Spec => []ConnectionInv
BY InitInv, StepInv, PTL DEF Spec

-----------------------------------------------------------------------------
(* The invariants that the runs check.                                     *)

\* Every variable keeps its type, and no countdown leaves its range.
THEOREM TypeCorrect == Spec => []TypeOK
BY Invariance, PTL DEF ConnectionInv

\* The budgets are the server wait that is left, and no timeout is reported before
\* the server had all of it, over any messages and callbacks
\* (serverWaitBudget, read).
THEOREM TimeoutsAreTheServers == Spec => []ServerWait
BY Invariance, PTL DEF ConnectionInv

\* Pings leave at their interval whatever the reader does (writeHubPings).
THEOREM PingsArePaced == Spec => []KeepalivePaced
BY Invariance, PTL DEF ConnectionInv

\* What read returns is what ended it, in every interleaving: a decoded record, then
\* a ping's own deadline, after the caller, and never the end of the read's own
\* context (the deferred function of read).
THEOREM OutcomesRank == Spec => []OutcomeIsItsCause
BY Invariance, PTL DEF ConnectionInv, OutcomeIsItsCause

-----------------------------------------------------------------------------
\* After a callback was interrupted nothing else is delivered (read, the check of
\* the run's context at the head of the loop).
THEOREM InterruptionIsFinal == Spec => NoDeliveryAfterInterruption
<1>1. ConnectionInv /\ [Next]_vars
        => [interrupted /\ reader' = "callback" => reader = "callback"]_vars
  <2> SUFFICES ASSUME ConnectionInv, Next, interrupted, reader' = "callback"
               PROVE  reader = "callback"
    OBVIOUS
  <2>1. run # "alive"
    BY DEF ConnectionInv, ContextInv
  <2>2. ~Proceeds
    BY <2>1 DEF Proceeds
  <2> QED
    BY <2>2 DEF Next, StopAtTop, ExpireAtTop, TakeIgnored, TakeVerdict, TakeBatch, Take,
                CallbackReturns, CallbackFails, Await, ReadMessage, ReadInvalid, ReadFails, Stop,
                Join, PingStops, PingDue, PingWritten, WriteDeadline, WriteAborts, WriteFails,
                PingCleanup, PingReports, CallerEnds, PeerDrops, Tick, Returned, Return, Aside,
                reading, vars
<1> QED
  BY <1>1, Invariance, PTL DEF Spec, NoDeliveryAfterInterruption

-----------------------------------------------------------------------------
(* The contract InputRun is written against.                               *)

LEMMA InitSession == Init => Session!Init
BY ConnectionAssumption DEF ConnectionAssumption, Init, Session!Init, CallerEnded, NoDeadline

LEMMA StepSession == ConnectionInv /\ [Next]_vars => [Session!Next]_(Session!sessionVars)
<1> SUFFICES ASSUME ConnectionInv, [Next]_vars
             PROVE  [Session!Next]_(Session!sessionVars)
  OBVIOUS
<1> USE DEF ConnectionInv, LoopInv, TypeOK, CallerEnded, Session!sessionVars, reading, contexts,
            Locally, Aside, Return
<1>1. ASSUME NEW r \in Records, TakeBatch(r) PROVE Session!Next
  <2>1. Session!Deliver(r)
    BY <1>1 DEF TakeBatch, Take, Proceeds, Session!Deliver
  <2> QED
    BY <1>1, <2>1 DEF TakeBatch, Session!Next
<1>2. ASSUME CallbackReturns \/ \E r \in { "invalid", "consumer" } : CallbackFails(r)
      PROVE  Session!Next
  BY <1>2 DEF CallbackReturns, CallbackFails, Session!Processed, Session!Next
<1>3. ASSUME Join PROVE Session!Next
  BY <1>3 DEF Join, Outcome, Session!Return, Session!Next
<1>4. ASSUME Tick \/ \E how \in { "canceled", "deadline" } : CallerEnds(how)
      PROVE  [Session!Next]_(Session!sessionVars)
  BY <1>4 DEF Tick, Due, CallerEnds, Session!End, Session!Next
<1>5. ASSUME \/ StopAtTop \/ ExpireAtTop \/ TakeIgnored \/ Await \/ Stop
             \/ \E r \in Records : TakeVerdict(r)
             \/ \E m \in Messages : ReadMessage(m)
             \/ ReadInvalid \/ ReadFails
             \/ PingStops \/ PingDue \/ PingWritten \/ WriteDeadline \/ WriteAborts
             \/ WriteFails \/ PingCleanup \/ PingReports \/ PeerDrops \/ Returned
             \/ UNCHANGED vars
      PROVE  UNCHANGED Session!sessionVars
  BY <1>5 DEF StopAtTop, ExpireAtTop, TakeIgnored, TakeVerdict, Take, Await, ReadMessage, Charge,
              ReadInvalid, ReadFails, Stop, PingStops, PingDue, PingWritten, WriteDeadline,
              WriteAborts, WriteFails, PingCleanup, PingReports, PeerDrops, Returned, vars, Proceeds
<1> QED
  BY <1>1, <1>2, <1>3, <1>4, <1>5 DEF Next

\* Every behaviour of a connection is one of HubSession: one batch at a time, one
\* completion, one verdict, the caller's exactly when the caller ended (read).
THEOREM ImplementsSession == Spec => Session!Spec
BY InitSession, StepSession, Invariance, PTL DEF Spec, Session!Spec
=============================================================================
