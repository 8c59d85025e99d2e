--------------------------- MODULE InputRunProofs ---------------------------
(***************************************************************************)
(* Theorems about InputRun, for every value of its constants.              *)
(***************************************************************************)
EXTENDS InputRun, TLAPS

-----------------------------------------------------------------------------
(* The reducer keeps the type of the state and answers with a notice.      *)

\* Every event turns an operational state into one, with a notice of its own kind.
LEMMA ReducerTypes ==
  ASSUME NEW s \in OperationalState, NEW at \in Nat
  PROVE  /\ OpStart(s) \in [state : OperationalState, notice : Notices]
         /\ OpConnected(s) \in [state : OperationalState, notice : Notices]
         /\ \A b \in Feeds \cup Snapshots :
              OpBatch(s, b, at) \in [state : OperationalState, notice : Notices]
         /\ \A kind \in Interruptions :
              OpInterruption(s, kind, at) \in [state : OperationalState, notice : Notices]
         /\ \A delay_, hint \in Nat :
              OpSchedule(s, delay_, hint, at) \in [state : OperationalState, notice : Notices]
         /\ OpAttempt(s) \in [state : OperationalState, notice : Notices]
         /\ OpConsumerFailure(s) \in [state : OperationalState, notice : Notices]
         /\ OpFinish(s) \in [state : OperationalState, notice : Notices]
         /\ \A periodic \in BOOLEAN :
              OpTick(s, periodic) \in [state : OperationalState, notice : Notices]
<1> DEFINE R == [state : OperationalState, notice : Notices]
<1>a. /\ s.outages + 1 \in Nat /\ s.attempts + 1 \in Nat /\ s.recoveries + 1 \in Nat
      /\ s.consumerFailures + 1 \in Nat
      /\ \A n \in Nat : /\ s.updates + n \in Nat /\ s.invalidUnicode + n \in Nat
                        /\ s.closedOutage + n \in Nat
  BY DEF OperationalState
<1>b. \A x, y \in Nat : Later(x, y) \in Nat /\ x + y \in Nat
  BY DEF Later
<1>c. s.outageStarted \in Nat /\ s.invalidUnicode \in Nat /\ s.stopped \in BOOLEAN
  BY DEF OperationalState
<1>1. OpStart(s) \in R
  BY DEF OpStart, UnlessStopped, Reduced, Notices
<1>2. OpConnected(s) \in R
  BY DEF OpConnected, UnlessStopped, Reduced, Notices, OperationalState, NoTime
<1>3. ASSUME NEW b \in Feeds \cup Snapshots
      PROVE  OpBatch(s, b, at) \in R
  <2>1. b.updates \in Nat /\ b.unicode \in Nat
    <3>1. SnapshotSizes \subseteq Nat
      BY BoundsAssumption DEF BoundsAssumption
    <3>2. CASE b \in Feeds
      BY <3>2 DEF Feeds
    <3>3. CASE b \in Snapshots
      <4>1. b \in [snapshot : {TRUE}, updates : SnapshotSizes, unicode : {0, 1}]
        BY <3>3 DEF Snapshots
      <4>2. b.updates \in Nat
        BY <4>1, <3>1
      <4>3. b.unicode \in Nat
        BY <4>1
      <4> QED
        BY <4>2, <4>3
    <3> QED
      BY <3>2, <3>3
  <2> DEFINE c == Counted(s, b)
  <2>2. c \in OperationalState
    <3>1. s.invalidUnicode + b.unicode \in Nat /\ s.updates + b.updates \in Nat
      BY <2>1, <1>a
    <3>2. /\ (s.subscription \/ b.snapshot) \in BOOLEAN
          /\ (s.connectionData \/ b.updates > 0) \in BOOLEAN
      OBVIOUS
    <3>3. (IF s.reportedUnicode = 0 THEN s.invalidUnicode + b.unicode
           ELSE s.reportedUnicode) \in Nat
      BY <3>1 DEF OperationalState
    <3> QED
      BY <3>1, <3>2, <3>3 DEF Counted, OperationalState
  <2>3. Closed(c, at) \in OperationalState
    <3>1. CurrentOutage(c, at) \in Nat
      BY <2>2 DEF CurrentOutage, Later, OperationalState
    <3>2. c.closedOutage + CurrentOutage(c, at) \in Nat /\ c.recoveries + 1 \in Nat
      BY <2>2, <3>1 DEF OperationalState
    <3> HIDE DEF c
    <3> QED
      BY <2>2, <3>2 DEF Closed, OperationalState, NoTime
  <2>4. [Closed(c, at) EXCEPT !.ready = TRUE] \in OperationalState
    BY <2>3 DEF OperationalState
  <2> HIDE DEF c
  <2>5. Reduced(c, "none") \in R
    BY <2>2 DEF Reduced, Notices
  <2>6. \A n \in {"firstData", "recovered", "none"} :
          Reduced([Closed(c, at) EXCEPT !.ready = TRUE], n) \in R
    BY <2>4 DEF Reduced, Notices
  <2>7. Reduced(s, "none") \in R
    BY DEF Reduced, Notices
  <2> QED
    BY <2>5, <2>6, <2>7 DEF OpBatch, UnlessStopped, c
<1>4. ASSUME NEW kind \in Interruptions
      PROVE  OpInterruption(s, kind, at) \in R
  <2> DEFINE down == [s EXCEPT !.connection = FALSE, !.subscription = FALSE,
                               !.connectionData = FALSE, !.retryAt = NoTime]
             open == IF s.outage THEN down
                     ELSE [down EXCEPT !.outage = TRUE, !.outageStarted = at,
                                       !.outages = @ + 1]
  <2>1. down \in OperationalState /\ down.outages + 1 \in Nat
    BY <1>a DEF OperationalState, NoTime
  <2> HIDE DEF down
  <2>2. open \in OperationalState
    BY <2>1 DEF OperationalState
  <2> HIDE DEF open
  <2>3. [open EXCEPT !.stopped = TRUE] \in OperationalState
    BY <2>2 DEF OperationalState
  <2> QED
    BY <2>2, <2>3 DEF OpInterruption, UnlessStopped, Reduced, Notices, Interruptions,
                      TerminalNotices, open, down
<1>5. ASSUME NEW d \in Nat, NEW hint \in Nat
      PROVE  OpSchedule(s, d, hint, at) \in R
  <2>1. Later(at + d, hint) \in Nat
    BY <1>b
  <2> QED
    BY <2>1 DEF OpSchedule, UnlessStopped, Reduced, Notices, OperationalState
<1>6. OpAttempt(s) \in R
  <2>1. [s EXCEPT !.attempts = s.attempts + 1, !.retryAt = NoTime] \in OperationalState
    BY <1>a DEF OperationalState, NoTime
  <2> QED
    BY <2>1 DEF OpAttempt, UnlessStopped, Reduced, Notices
<1>7. OpConsumerFailure(s) \in R
  <2>1. [s EXCEPT !.consumerFailures = s.consumerFailures + 1] \in OperationalState
    BY <1>a DEF OperationalState
  <2> QED
    BY <2>1 DEF OpConsumerFailure, UnlessStopped, Reduced, Notices
<1>8. OpFinish(s) \in R
  BY DEF OpFinish, Reduced, Notices, OperationalState, NoTime
<1>9. ASSUME NEW periodic \in BOOLEAN
      PROVE  OpTick(s, periodic) \in R
  <2>1. [s EXCEPT !.reportedUnicode = s.invalidUnicode] \in OperationalState
    BY DEF OperationalState
  <2> QED
    BY <2>1 DEF OpTick, Reduced, Notices
<1> QED
  BY <1>1, <1>2, <1>3, <1>4, <1>5, <1>6, <1>7, <1>8, <1>9

-----------------------------------------------------------------------------
(* The backoff.                                                            *)

\* The wait before an attempt is between one and thirty seconds, and one more
\* failed attempt never shortens it.
LEMMA BackoffBounds ==
  ASSUME NEW n \in Nat
  PROVE  /\ ReconnectDelay(n) \in 1 .. 30
         /\ ReconnectDelay(n + 1) >= ReconnectDelay(n)
<1>1. \A m \in Nat : m >= 5 => ReconnectDelay(m) = 30
  BY DEF ReconnectDelay, Backoff
<1>2. /\ ReconnectDelay(0) = 1 /\ ReconnectDelay(1) = 2 /\ ReconnectDelay(2) = 4
      /\ ReconnectDelay(3) = 8 /\ ReconnectDelay(4) = 16
  BY DEF ReconnectDelay, Backoff
<1>3. CASE n >= 5
  BY <1>1, <1>3
<1>4. CASE n < 5
  <2>1. n \in {0, 1, 2, 3, 4}
    BY <1>4
  <2>2. ReconnectDelay(5) = 30
    BY <1>1
  <2> QED
    BY <2>1, <2>2, <1>2
<1> QED
  BY <1>3, <1>4

-----------------------------------------------------------------------------
(* Type correctness.                                                       *)

\* Reducing under the mutex leaves a typed state and a typed pending notice.
LEMMA ApplyTypes ==
  ASSUME NEW p \in Processes, NEW r \in [state : OperationalState, notice : Notices],
         notice \in [Processes -> Notices], Apply(p, r)
  PROVE  op' \in OperationalState /\ notice' \in [Processes -> Notices] /\ status' = status
BY DEF Apply

\* The initial state is typed.
LEMMA TypeInit == Init => TypeOK
<1> SUFFICES ASSUME Init PROVE TypeOK
  OBVIOUS
<1>1. op \in OperationalState
  BY DEF Init, ZeroState, OperationalState, NoTime
<1>2. notice \in [Processes -> Notices]
  BY DEF Init, Notices
<1>3. failure \in [kind : ReadFailures \cup SetupFailures, retryAt : Nat]
  BY DEF Init, ReadFailures, NoTime
<1>4. pc \in Labels /\ status \in Statuses
  BY DEF Init, Labels, Statuses
<1>5. /\ attempt \in Nat /\ notBefore \in Nat /\ deadline \in Nat /\ socket \in Int
      /\ batches \in Nat /\ now \in Nat /\ outageTime \in Nat /\ delay \in Nat
  BY DEF Init, NoTime
<1>6. /\ receivedBatch \in BOOLEAN /\ snapshot \in BOOLEAN /\ data \in BOOLEAN
      /\ cancelled \in BOOLEAN /\ tickerCancelled \in BOOLEAN /\ quiet \in BOOLEAN
      /\ ticker \in {"off", "on", "done"}
  BY DEF Init
<1> QED
  BY <1>1, <1>2, <1>3, <1>4, <1>5, <1>6 DEF TypeOK

\* Every step keeps the state typed.
LEMMA TypeNext == TypeOK /\ [Next]_vars => TypeOK'
<1> SUFFICES ASSUME TypeOK, [Next]_vars PROVE TypeOK'
  OBVIOUS
<1> USE DEF TypeOK, local, stream, stop, ghost
<1> DEFINE R == [state : OperationalState, notice : Notices]
<1>a. "run" \in Processes /\ "ticker" \in Processes
  BY DEF Processes
<1>1. CASE Start
  <2>1. op' \in OperationalState /\ notice' \in [Processes -> Notices] /\ status' = status
    BY <1>1, <1>a, ReducerTypes, ApplyTypes DEF Start
  <2> QED
    BY <2>1, <1>1 DEF Start, Goto, Labels
<1>2. CASE StartTicker
  BY <1>2 DEF StartTicker, Goto, Labels, Quietly
<1>3. CASE Connected
  <2>1. op' \in OperationalState /\ notice' \in [Processes -> Notices] /\ status' = status
    BY <1>3, <1>a, ReducerTypes, ApplyTypes DEF Connected
  <2> QED
    BY <2>1, <1>3 DEF Connected, Goto, Labels
<1>4. CASE Poll
  BY <1>4 DEF Poll, Goto, Labels, Quietly
<1>5. CASE ConsumeSucceeds
  BY <1>5 DEF ConsumeSucceeds, Goto, Labels, Quietly
<1>6. CASE ConsumeFails
  <2>1. op' \in OperationalState /\ notice' \in [Processes -> Notices] /\ status' = status
    BY <1>6, <1>a, ReducerTypes, ApplyTypes DEF ConsumeFails
  <2> QED
    BY <2>1, <1>6 DEF ConsumeFails, Goto, Labels
<1>7. CASE CloseSocket
  BY <1>7 DEF CloseSocket, Goto, Labels, Quietly
<1>8. CASE Classify
  <2>1. attempt' \in Nat /\ notBefore' \in Nat
    BY <1>8 DEF Classify, NoTime
  <2> QED
    BY <2>1, <1>8 DEF Classify, Goto, Labels, Quietly
<1>9. ASSUME NEW b \in Feeds \cup Snapshots, ObserveBatch(b)
      PROVE  TypeOK'
  <2>1. op' \in OperationalState /\ notice' \in [Processes -> Notices] /\ status' = status
    BY <1>9, <1>a, ReducerTypes, ApplyTypes DEF ObserveBatch
  <2>2. /\ (snapshot \/ b.snapshot) \in BOOLEAN
        /\ (data \/ b.updates > 0) \in BOOLEAN
    OBVIOUS
  <2>3. snapshot' \in BOOLEAN /\ data' \in BOOLEAN
    BY <2>2, <1>9 DEF ObserveBatch
  <2>4. batches' \in Nat
    BY <1>9 DEF ObserveBatch
  <2>5. pc' \in Labels /\ receivedBatch' \in BOOLEAN /\ quiet' \in BOOLEAN
    BY <1>9 DEF ObserveBatch, Goto, Labels
  <2>6. UNCHANGED << attempt, failure, notBefore, deadline, socket, now, cancelled,
                     tickerCancelled, ticker, outageTime, delay >>
    BY <1>9 DEF ObserveBatch
  <2> QED
    BY <2>1, <2>3, <2>4, <2>5, <2>6
<1>10. ASSUME NEW kind \in ReadFailures, ReadReturns(kind)
       PROVE  TypeOK'
  <2>1. failure' \in [kind : ReadFailures \cup SetupFailures, retryAt : Nat]
    BY <1>10 DEF ReadReturns, NoTime
  <2> QED
    BY <2>1, <1>10 DEF ReadReturns, Goto, Labels, Quietly
<1>11. CASE Report
  <2>1. Interruption \in Interruptions
    BY DEF Interruption, Interruptions, TerminalNotices
  <2>2. op' \in OperationalState /\ notice' \in [Processes -> Notices] /\ status' = status
    BY <2>1, <1>11, <1>a, ReducerTypes, ApplyTypes DEF Report
  <2> QED
    BY <2>2, <1>11 DEF Report, Goto, Labels
<1>12. CASE Schedule
  <2>1. ReconnectDelay(attempt) \in Nat
    BY BackoffBounds
  <2> DEFINE r == OpSchedule(op, ReconnectDelay(attempt), notBefore, now)
  <2>2. r \in R
    BY <2>1, ReducerTypes
  <2> HIDE DEF r
  <2>3. Apply("run", r) /\ deadline' = r.state.retryAt
    BY <1>12 DEF Schedule, r
  <2>4. op' \in OperationalState /\ notice' \in [Processes -> Notices] /\ status' = status
    BY <2>2, <2>3, <1>a, ApplyTypes
  <2>5. deadline' \in Nat
    BY <2>2, <2>3 DEF OperationalState
  <2> QED
    BY <2>1, <2>4, <2>5, <1>12 DEF Schedule, Goto, Labels
<1>13. CASE WaitFires
  BY <1>13 DEF WaitFires, Goto, Labels, Quietly
<1>14. CASE WaitCanceled
  BY <1>14 DEF WaitCanceled, Goto, Labels, Quietly
<1>15. CASE Tick
  <2>1. op' \in OperationalState /\ notice' \in [Processes -> Notices] /\ status' = status
    BY <1>15, <1>a, ReducerTypes, ApplyTypes DEF Tick
  <2> QED
    BY <2>1, <1>15 DEF Tick, Goto, Labels
<1>16. CASE Admit
  <2>1. CASE cancelled
    BY <2>1, <1>16 DEF Admit, Goto, Labels, Quietly
  <2>2. CASE ~cancelled
    <3>1. op' \in OperationalState /\ notice' \in [Processes -> Notices] /\ status' = status
      BY <2>2, <1>16, <1>a, ReducerTypes, ApplyTypes DEF Admit
    <3> QED
      BY <3>1, <2>2, <1>16 DEF Admit, Goto, Labels
  <2> QED
    BY <2>1, <2>2
<1>17. CASE ConnectSucceeds
  <2>1. socket' \in Int
    BY <1>17 DEF ConnectSucceeds
  <2>2. pc' \in Labels /\ snapshot' \in BOOLEAN /\ data' \in BOOLEAN
    BY <1>17 DEF ConnectSucceeds, Goto, Labels
  <2>3. UNCHANGED << attempt, receivedBatch, failure, notBefore, deadline, op, notice,
                     status, batches, now, cancelled, tickerCancelled, ticker,
                     outageTime, delay, quiet >>
    BY <1>17 DEF ConnectSucceeds, Quietly
  <2> QED
    BY <2>1, <2>2, <2>3
<1>18. ASSUME NEW kind \in SetupFailures, NEW hint \in RetryAfters, ConnectFails(kind, hint)
       PROVE  TypeOK'
  <2>1. hint \in Nat
    BY BoundsAssumption DEF BoundsAssumption
  <2>2. (IF kind = "httpRetry" /\ hint > 0 THEN now + hint ELSE NoTime) \in Nat
    BY <2>1 DEF NoTime
  <2>3. failure' \in [kind : ReadFailures \cup SetupFailures, retryAt : Nat]
    BY <2>2, <1>18 DEF ConnectFails
  <2> QED
    BY <2>3, <1>18 DEF ConnectFails, Goto, Labels, Quietly
<1>19. CASE CheckConnect
  <2>1. notBefore' \in Nat
    BY <1>19 DEF CheckConnect
  <2> QED
    BY <2>1, <1>19 DEF CheckConnect, Goto, Labels, Quietly
<1>20. CASE Finish
  <2>1. op' \in OperationalState /\ notice' \in [Processes -> Notices] /\ status' = status
    BY <1>20, <1>a, ReducerTypes, ApplyTypes DEF Finish
  <2> QED
    BY <2>1, <1>20 DEF Finish, Goto, Labels
<1>21. CASE CloseDone
  BY <1>21 DEF CloseDone, Goto, Labels, Quietly
<1>22. ASSUME NEW p \in Processes, Emit(p)
       PROVE  TypeOK'
  <2>1. status' \in Statuses
    BY <1>22 DEF Emit, StatusOf, Statuses
  <2>2. notice' \in [Processes -> Notices]
    BY <1>22 DEF Emit, Notices
  <2> QED
    BY <2>1, <2>2, <1>22 DEF Emit
<1>23. CASE TickerFires
  <2>1. op' \in OperationalState /\ notice' \in [Processes -> Notices] /\ status' = status
    BY <1>23, <1>a, ReducerTypes, ApplyTypes DEF TickerFires
  <2> QED
    BY <2>1, <1>23 DEF TickerFires
<1>24. CASE TickerStops
  BY <1>24 DEF TickerStops, Quietly
<1>25. CASE Cancel
  BY <1>25 DEF Cancel, Quietly
<1>26. CASE CancelTicker
  BY <1>26 DEF CancelTicker, Quietly
<1>27. CASE Clock
  <2>1. now' \in Nat /\ outageTime' \in Nat
    BY <1>27 DEF Clock
  <2> QED
    BY <2>1, <1>27 DEF Clock, Quietly
<1>28. CASE Terminated \/ UNCHANGED vars
  BY <1>28 DEF Terminated, vars
<1> QED
  BY <1>1, <1>2, <1>3, <1>4, <1>5, <1>6, <1>7, <1>8, <1>9, <1>10, <1>11, <1>12, <1>13,
     <1>14, <1>15, <1>16, <1>17, <1>18, <1>19, <1>20, <1>21, <1>22, <1>23, <1>24, <1>25,
     <1>26, <1>27, <1>28
  DEF Next, Run, Reading, Retrying, ConnectReturns

\* The input run's state, its counters and its clock readings keep their types in
\* every behaviour.
THEOREM TypeCorrect == Spec => []TypeOK
BY TypeInit, TypeNext, PTL DEF Spec

-----------------------------------------------------------------------------
(* What a step can do to the published state.                              *)

\* The run and the ticker change the published state only through the reducer, and
\* only an uncancelled run counts an attempt.
LEMMA OpChanges ==
  ASSUME TypeOK, [Next]_vars
  PROVE  \/ op' = op
         \/ op' = OpStart(op).state
         \/ op' = OpConnected(op).state
         \/ \E b \in Feeds \cup Snapshots : op' = OpBatch(op, b, now).state
         \/ \E kind \in Interruptions : op' = OpInterruption(op, kind, now).state
         \/ \E d, hint \in Nat : op' = OpSchedule(op, d, hint, now).state
         \/ op' = OpAttempt(op).state /\ pc = "admit" /\ ~cancelled
         \/ op' = OpConsumerFailure(op).state
         \/ op' = OpFinish(op).state
         \/ \E periodic \in BOOLEAN : op' = OpTick(op, periodic).state
<1>1. CASE Start
  BY <1>1 DEF Start, Apply
<1>2. CASE Connected
  BY <1>2 DEF Connected, Apply
<1>3. ASSUME NEW b \in Feeds \cup Snapshots, ObserveBatch(b)
      PROVE  op' = OpBatch(op, b, now).state
  BY <1>3 DEF ObserveBatch, Apply
<1>4. CASE ConsumeFails
  BY <1>4 DEF ConsumeFails, Apply
<1>5. CASE Report
  <2>1. Interruption \in Interruptions
    BY DEF Interruption, Interruptions, TerminalNotices
  <2> QED
    BY <2>1, <1>5 DEF Report, Apply
<1>6. CASE Schedule
  <2>1. ReconnectDelay(attempt) \in Nat /\ notBefore \in Nat
    BY BackoffBounds DEF TypeOK
  <2> QED
    BY <2>1, <1>6 DEF Schedule, Apply
<1>7. CASE Tick
  BY <1>7 DEF Tick, Apply
<1>8. CASE Admit
  BY <1>8 DEF Admit, Apply, At, Quietly
<1>9. CASE Finish
  BY <1>9 DEF Finish, Apply
<1>10. CASE TickerFires
  BY <1>10 DEF TickerFires, Apply
<1>11. CASE \/ StartTicker \/ Poll \/ ConsumeSucceeds \/ CloseSocket \/ Classify
            \/ (\E kind \in ReadFailures : ReadReturns(kind))
            \/ WaitFires \/ WaitCanceled \/ ConnectReturns \/ CheckConnect \/ CloseDone
            \/ TickerStops \/ Cancel \/ CancelTicker \/ Clock
  BY <1>11 DEF StartTicker, Poll, ConsumeSucceeds, CloseSocket, Classify, ReadReturns,
       WaitFires, WaitCanceled, ConnectReturns, ConnectSucceeds, ConnectFails,
       CheckConnect, CloseDone, TickerStops, Cancel, CancelTicker, Clock, Quietly
<1>12. CASE (\E p \in Processes : Emit(p)) \/ Terminated \/ UNCHANGED vars
  BY <1>12 DEF Emit, Terminated, vars
<1> QED
  BY <1>1, <1>2, <1>3, <1>4, <1>5, <1>6, <1>7, <1>8, <1>9, <1>10, <1>11, <1>12
  DEF Next, Run, Reading, Retrying

\* Only an admitted attempt is counted.
LEMMA CountedIsAdmitted ==
  ASSUME TypeOK, [Next]_vars, op'.attempts # op.attempts
  PROVE  pc = "admit" /\ ~cancelled
<1> USE DEF UnlessStopped, Reduced
<1>1. op \in OperationalState
  BY DEF TypeOK
<1>2. OpStart(op).state.attempts = op.attempts
  BY <1>1 DEF OpStart
<1>3. OpConnected(op).state.attempts = op.attempts
  BY <1>1 DEF OpConnected, OperationalState
<1>4. \A b \in Feeds \cup Snapshots : OpBatch(op, b, now).state.attempts = op.attempts
  BY <1>1 DEF OpBatch, Counted, Closed, OperationalState
<1>5. \A kind \in Interruptions : OpInterruption(op, kind, now).state.attempts = op.attempts
  BY <1>1 DEF OpInterruption, OperationalState
<1>6. \A d, hint \in Nat : OpSchedule(op, d, hint, now).state.attempts = op.attempts
  BY <1>1 DEF OpSchedule, OperationalState
<1>7. OpConsumerFailure(op).state.attempts = op.attempts
  BY <1>1 DEF OpConsumerFailure, OperationalState
<1>8. OpFinish(op).state.attempts = op.attempts
  BY <1>1 DEF OpFinish, OperationalState
<1>9. \A periodic \in BOOLEAN : OpTick(op, periodic).state.attempts = op.attempts
  BY <1>1 DEF OpTick, OperationalState
<1> QED
  BY <1>2, <1>3, <1>4, <1>5, <1>6, <1>7, <1>8, <1>9, OpChanges

\* No attempt is counted once the run is cancelled: beginAttempt looks at the context
\* after it has acquired the mutex, and nothing else counts one.
THEOREM AttemptsAreAdmitted == Spec => NoAttemptAfterCancel
<1>1. TypeOK /\ [Next]_vars => [op.attempts' > op.attempts => ~cancelled]_vars
  <2> SUFFICES ASSUME TypeOK, [Next]_vars, op'.attempts > op.attempts PROVE ~cancelled
    OBVIOUS
  <2>1. op'.attempts # op.attempts
    BY DEF TypeOK, OperationalState
  <2> QED
    BY <2>1, CountedIsAdmitted
<1> QED
  BY <1>1, TypeCorrect, PTL DEF Spec, NoAttemptAfterCancel

-----------------------------------------------------------------------------
(* Accounting of outages.                                                  *)

\* An operational state in which every outage but the open one has a recovery.
Balanced(s) == s.outages = s.recoveries + (IF s.outage THEN 1 ELSE 0)

\* Every reduction keeps the balance: an outage is opened only when none is, and
\* closed only together with a recovery.
LEMMA ReducerBalanced ==
  ASSUME NEW s \in OperationalState, NEW at \in Nat, Balanced(s)
  PROVE  /\ Balanced(OpStart(s).state) /\ Balanced(OpConnected(s).state)
         /\ \A b : Balanced(OpBatch(s, b, at).state)
         /\ \A kind : Balanced(OpInterruption(s, kind, at).state)
         /\ \A d, hint : Balanced(OpSchedule(s, d, hint, at).state)
         /\ Balanced(OpAttempt(s).state) /\ Balanced(OpConsumerFailure(s).state)
         /\ Balanced(OpFinish(s).state)
         /\ \A periodic : Balanced(OpTick(s, periodic).state)
<1> USE DEF UnlessStopped, Reduced
<1>1. Balanced(OpStart(s).state)
  BY DEF OpStart, Balanced
<1>2. Balanced(OpConnected(s).state)
  BY DEF OpConnected, Balanced, OperationalState
<1>3. ASSUME NEW b PROVE Balanced(OpBatch(s, b, at).state)
  <2> DEFINE c == Counted(s, b)
  <2>1. /\ c.outages = s.outages /\ c.recoveries = s.recoveries /\ c.outage = s.outage
        /\ DOMAIN c = DOMAIN s
    BY DEF Counted, OperationalState
  <2>2. Balanced(c)
    BY <2>1 DEF Balanced
  <2> HIDE DEF c
  <2>3. Balanced(Closed(c, at)) /\ DOMAIN Closed(c, at) = DOMAIN s
    BY <2>1, <2>2 DEF Closed, Balanced, OperationalState
  <2>4. Balanced([Closed(c, at) EXCEPT !.ready = TRUE])
    BY <2>3 DEF Balanced, OperationalState
  <2> QED
    BY <2>2, <2>4 DEF OpBatch, c
<1>4. ASSUME NEW kind PROVE Balanced(OpInterruption(s, kind, at).state)
  BY DEF OpInterruption, Balanced, OperationalState
<1>5. ASSUME NEW d, NEW hint PROVE Balanced(OpSchedule(s, d, hint, at).state)
  BY DEF OpSchedule, Balanced, OperationalState
<1>6. Balanced(OpAttempt(s).state)
  BY DEF OpAttempt, Balanced, OperationalState
<1>7. Balanced(OpConsumerFailure(s).state)
  BY DEF OpConsumerFailure, Balanced, OperationalState
<1>8. Balanced(OpFinish(s).state)
  BY DEF OpFinish, Balanced, OperationalState
<1>9. ASSUME NEW periodic PROVE Balanced(OpTick(s, periodic).state)
  BY DEF OpTick, Balanced, OperationalState
<1> QED
  BY <1>1, <1>2, <1>3, <1>4, <1>5, <1>6, <1>7, <1>8, <1>9

\* The counters of outages and recoveries of the published state always agree with
\* whether an outage is open.
THEOREM EpisodesBalance == Spec => []EpisodeAccounting
<1>1. Init => EpisodeAccounting
  BY DEF Init, ZeroState, EpisodeAccounting
<1>2. TypeOK /\ EpisodeAccounting /\ [Next]_vars => EpisodeAccounting'
  <2> SUFFICES ASSUME TypeOK, EpisodeAccounting, [Next]_vars PROVE Balanced(op')
    BY DEF EpisodeAccounting, Balanced
  <2>1. op \in OperationalState /\ now \in Nat
    BY DEF TypeOK
  <2>2. Balanced(op)
    BY DEF EpisodeAccounting, Balanced
  <2> QED
    BY <2>1, <2>2, OpChanges, ReducerBalanced
<1> QED
  BY <1>1, <1>2, TypeCorrect, PTL DEF Spec

\* The published state's outage time as of a reading of the clock.
OutageSum(s, at) == s.closedOutage + CurrentOutage(s, at)

\* An open outage began in the past.
OutageBegan(s, at) == s.outage => s.outageStarted <= at

\* No reduction at a reading of the clock changes the outage time as of that
\* reading: an outage opens with length zero and closes with its whole length.
LEMMA ReducerOutageTime ==
  ASSUME NEW s \in OperationalState, NEW at \in Nat, OutageBegan(s, at),
         NEW t,
         \/ t = s
         \/ t = OpStart(s).state
         \/ t = OpConnected(s).state
         \/ \E b \in Feeds \cup Snapshots : t = OpBatch(s, b, at).state
         \/ \E kind \in Interruptions : t = OpInterruption(s, kind, at).state
         \/ \E d, hint \in Nat : t = OpSchedule(s, d, hint, at).state
         \/ t = OpAttempt(s).state
         \/ t = OpConsumerFailure(s).state
         \/ t = OpFinish(s).state
         \/ \E periodic \in BOOLEAN : t = OpTick(s, periodic).state
  PROVE  OutageSum(t, at) = OutageSum(s, at) /\ OutageBegan(t, at)
<1> DEFINE Same(x) == /\ x.closedOutage = s.closedOutage /\ x.outage = s.outage
                      /\ x.outageStarted = s.outageStarted
<1> USE DEF UnlessStopped, Reduced
<1>1. ASSUME NEW x, Same(x)
      PROVE  OutageSum(x, at) = OutageSum(s, at) /\ OutageBegan(x, at)
  BY <1>1 DEF OutageSum, OutageBegan, CurrentOutage
<1>2. /\ Same(s) /\ Same(OpStart(s).state) /\ Same(OpConnected(s).state)
      /\ \A d, hint : Same(OpSchedule(s, d, hint, at).state)
      /\ Same(OpAttempt(s).state) /\ Same(OpConsumerFailure(s).state)
      /\ Same(OpFinish(s).state) /\ \A periodic : Same(OpTick(s, periodic).state)
  BY DEF OpStart, OpConnected, OpSchedule, OpAttempt, OpConsumerFailure, OpFinish,
         OpTick, OperationalState
<1>3. ASSUME NEW b \in Feeds \cup Snapshots, t = OpBatch(s, b, at).state
      PROVE  OutageSum(t, at) = OutageSum(s, at) /\ OutageBegan(t, at)
  <2> DEFINE c == Counted(s, b)
             r == [Closed(c, at) EXCEPT !.ready = TRUE]
  <2>1. Same(c) /\ DOMAIN c = DOMAIN s
    BY DEF Counted, OperationalState
  <2> HIDE DEF c
  <2>2. CASE c.outage
    <3>1. /\ r.closedOutage = c.closedOutage + CurrentOutage(c, at)
          /\ ~r.outage
      BY <2>1, <2>2 DEF Closed, OperationalState
    <3>2. CurrentOutage(c, at) = at - s.outageStarted
      BY <2>1, <2>2 DEF CurrentOutage, Later, OutageBegan, OperationalState
    <3>3. OutageSum(s, at) = s.closedOutage + (at - s.outageStarted)
      BY <2>1, <2>2 DEF OutageSum, CurrentOutage, Later, OutageBegan, OperationalState
    <3>4. OutageSum(r, at) = r.closedOutage
      <4>1. r.closedOutage \in Int
        BY <3>1, <3>2, <2>1 DEF OperationalState
      <4> HIDE DEF r
      <4> QED
        BY <3>1, <4>1 DEF OutageSum, CurrentOutage
    <3>5. OutageSum(r, at) = OutageSum(s, at) /\ OutageBegan(r, at)
      BY <3>1, <3>2, <3>3, <3>4, <2>1 DEF OutageBegan
    <3> HIDE DEF r
    <3>6. t \in {s, c, r}
      BY <1>3 DEF OpBatch, c, r
    <3> QED
      BY <3>5, <3>6, <2>1, <1>2, <1>1
  <2>3. CASE ~c.outage
    <3>1. Same(r)
      BY <2>1, <2>3 DEF Closed, OperationalState
    <3> HIDE DEF r
    <3>2. t \in {s, c, r}
      BY <1>3 DEF OpBatch, c, r
    <3> QED
      BY <3>1, <3>2, <2>1, <1>2, <1>1
  <2> QED
    BY <2>2, <2>3
<1>4. ASSUME NEW kind \in Interruptions, t = OpInterruption(s, kind, at).state
      PROVE  OutageSum(t, at) = OutageSum(s, at) /\ OutageBegan(t, at)
  <2>1. CASE s.outage \/ s.stopped
    <3>1. Same(t)
      BY <2>1, <1>4 DEF OpInterruption, OperationalState
    <3> QED
      BY <3>1, <1>1
  <2>2. CASE ~s.outage /\ ~s.stopped
    <3>1. t.outage /\ t.outageStarted = at /\ t.closedOutage = s.closedOutage
      BY <2>2, <1>4 DEF OpInterruption, OperationalState
    <3>2. CurrentOutage(t, at) = 0 /\ CurrentOutage(s, at) = 0
      BY <3>1, <2>2 DEF CurrentOutage, Later
    <3> QED
      BY <3>1, <3>2 DEF OutageSum, OutageBegan
  <2> QED
    BY <2>1, <2>2
<1> QED
  BY <1>1, <1>2, <1>3, <1>4

\* The outage time that the summary reports is the time an outage was open, in every
\* behaviour: closing an outage loses none of it and a failed setup restarts nothing.
THEOREM OutageTimeIsMeasured == Spec => []OutageTimeAccounting
<1> DEFINE Inv == OutageTimeAccounting /\ OutageBegan(op, now)
<1>1. Init => Inv
  BY DEF Init, ZeroState, NoTime, OutageTimeAccounting, OutageBegan, CurrentOutage
<1>2. TypeOK /\ Inv /\ [Next]_vars => Inv'
  <2> SUFFICES ASSUME TypeOK, Inv, [Next]_vars PROVE Inv'
    OBVIOUS
  <2>1. op \in OperationalState /\ now \in Nat /\ outageTime \in Nat
    BY DEF TypeOK
  <2>2. CASE Clock
    <3>1. CASE op.outage
      <4>1. /\ CurrentOutage(op, now) = now - op.outageStarted
            /\ CurrentOutage(op, now + 1) = (now + 1) - op.outageStarted
        BY <3>1, <2>1 DEF CurrentOutage, Later, OutageBegan, OperationalState
      <4>2. op.closedOutage \in Nat /\ op.outageStarted \in Nat
        BY <2>1 DEF OperationalState
      <4>3. op' = op /\ now' = now + 1 /\ outageTime' = outageTime + 1
        BY <2>2, <3>1 DEF Clock, Quietly
      <4>4. OutageTimeAccounting'
        BY <4>1, <4>2, <4>3, <2>1 DEF OutageTimeAccounting
      <4>5. OutageBegan(op, now)'
        BY <4>2, <4>3, <2>1, <3>1 DEF OutageBegan
      <4> QED
        BY <4>4, <4>5
    <3>2. CASE ~op.outage
      BY <3>2, <2>2 DEF Clock, Quietly, OutageTimeAccounting, OutageBegan, CurrentOutage
    <3> QED
      BY <3>1, <3>2
  <2>3. CASE ~Clock
    <3>1. now' = now /\ outageTime' = outageTime
      BY <2>3 DEF Next, Run, Reading, Retrying, ConnectReturns, Start, StartTicker,
        Connected, Poll, ConsumeSucceeds, ConsumeFails, CloseSocket, Classify,
        ObserveBatch, ReadReturns, ConnectSucceeds, ConnectFails, Report, Schedule,
        WaitFires, WaitCanceled, Tick, Admit, CheckConnect, Finish, CloseDone, Emit,
        TickerFires, TickerStops, Cancel, CancelTicker, Terminated, vars, ghost
    <3>2. OutageSum(op', now) = OutageSum(op, now) /\ OutageBegan(op', now)
      BY <2>1, OpChanges, ReducerOutageTime
    <3> QED
      BY <3>1, <3>2 DEF OutageSum, OutageTimeAccounting, OutageBegan
  <2> QED
    BY <2>2, <2>3
<1>3. Inv => OutageTimeAccounting
  OBVIOUS
<1> QED
  BY <1>1, <1>2, <1>3, TypeCorrect, PTL DEF Spec

-----------------------------------------------------------------------------
(* Status and finality.  StatusMatchesState speaks of an idle reporter, so the *)
(* induction needs what holds while an output is pending: the status the host  *)
(* will have been told once it is delivered.                                   *)

\* Before Start reduced its event nothing is published, pending or ticking.
Unstarted ==
  pc = "start" =>
    ~op.ready /\ ~op.outage /\ ~op.stopped /\ ~op.summarized /\ Unlocked /\ ticker = "off"

\* Once what is pending is delivered, the host knows the published state.
StatusWillMatch ==
  pc # "start" /\ ~op.summarized => StatusOf(notice["run"], status) = Told(op)

\* The ticker reports no status.
TickerTellsNothing == notice["ticker"] \in {"none", "stopped", "progress", "waiting"}

\* A permanent status, told or pending, belongs to a stopped state, in which the run
\* has nothing else to tell.
PermanentIsStopped ==
  /\ op.summarized => op.stopped
  /\ notice["run"] \in TerminalNotices => op.stopped
  /\ op.stopped => notice["run"] \in TerminalNotices \cup {"none", "summary"}
  /\ status = "permanent" => op.stopped

StatusInv == /\ StopIsFinal /\ Unstarted /\ StatusWillMatch
             /\ TickerTellsNothing /\ PermanentIsStopped

\* The initial state satisfies the invariant.
LEMMA StatusInit == Init => StatusInv
BY DEF Init, ZeroState, StatusInv, StopIsFinal, Unstarted, Unlocked, StatusWillMatch,
       TickerTellsNothing, PermanentIsStopped, Processes, TerminalNotices

\* A step that leaves the reporter alone keeps the invariant.
LEMMA StatusQuiet ==
  ASSUME StatusInv, Quietly, pc' # "start" \/ pc' = pc, pc' = "start" => ticker' = ticker,
         pc' # pc => pc # "start" /\ (op.stopped => pc' \in {"finish", "closing", "done"})
  PROVE  StatusInv'
BY DEF Quietly, StatusInv, StopIsFinal, Unstarted, Unlocked, StatusWillMatch,
       TickerTellsNothing, PermanentIsStopped, Told

\* A reduction by the run keeps the invariant when its notice tells the host what it
\* changed, when it stops the input only at the end of the run, and when a stopped
\* state is changed by the finish alone.
LEMMA StatusApply ==
  ASSUME TypeOK, StatusInv, NEW r \in [state : OperationalState, notice : Notices],
         Apply("run", r), pc' # "start",
         r.state.stopped => pc' \in {"finish", "closing", "done"},
         ~r.state.summarized => StatusOf(r.notice, status) = Told(r.state),
         r.state.summarized => r.state.stopped,
         r.notice \in TerminalNotices => r.state.stopped,
         r.state.stopped => r.notice \in TerminalNotices \cup {"none", "summary"},
         op.stopped => r.state.stopped
  PROVE  StatusInv'
<1>1. op' = r.state /\ status' = status /\ notice'["run"] = r.notice
      /\ notice'["ticker"] = notice["ticker"]
  BY DEF Apply, TypeOK, Processes
<1>2. StopIsFinal' /\ Unstarted'
  BY <1>1 DEF StopIsFinal, Unstarted
<1>3. StatusWillMatch'
  BY <1>1 DEF StatusWillMatch
<1>4. TickerTellsNothing'
  BY <1>1 DEF TickerTellsNothing, StatusInv
<1>5. PermanentIsStopped'
  BY <1>1 DEF PermanentIsStopped, StatusInv
<1> QED
  BY <1>2, <1>3, <1>4, <1>5 DEF StatusInv

\* Every step keeps the invariant.
LEMMA StatusNext == TypeOK /\ StatusInv /\ [Next]_vars => StatusInv'
<1> SUFFICES ASSUME TypeOK, StatusInv, [Next]_vars PROVE StatusInv'
  OBVIOUS
<1> USE DEF UnlessStopped, Reduced
<1> DEFINE R == [state : OperationalState, notice : Notices]
<1>a. op \in OperationalState /\ now \in Nat /\ notBefore \in Nat
  BY DEF TypeOK
\* What holds at any line but the first when the mutex is free and the input runs.
<1>b. ASSUME Unlocked, pc # "start", ~op.stopped
      PROVE  status = Told(op) /\ ~op.summarized
  BY <1>b DEF StatusInv, StatusWillMatch, PermanentIsStopped, Unlocked, Processes,
              StatusOf, TerminalNotices
<1>c. op.stopped => pc \in {"finish", "closing", "done"}
  BY DEF StatusInv, StopIsFinal
<1>1. CASE Start
  <2>1. OpStart(op) \in R /\ Apply("run", OpStart(op)) /\ pc' = "startTicker" /\ pc = "start"
    BY <1>1, <1>a, ReducerTypes DEF Start, At, Goto
  <2>2. OpStart(op) = [state |-> op, notice |-> "starting"]
    BY <2>1 DEF OpStart, StatusInv, Unstarted
  <2>3. ~op.ready /\ ~op.outage /\ ~op.stopped
    BY <2>1 DEF StatusInv, Unstarted
  <2>4. StatusOf("starting", status) = Told(op) /\ "starting" \notin TerminalNotices
    BY <2>3 DEF StatusOf, Told, TerminalNotices
  <2>5. ~op.summarized
    BY <2>3 DEF StatusInv, PermanentIsStopped
  <2> QED
    BY <2>1, <2>2, <2>3, <2>4, <2>5, StatusApply
<1>2. CASE Connected
  <2>1. OpConnected(op) \in R /\ Apply("run", OpConnected(op)) /\ pc' = "polling"
        /\ pc = "connected" /\ Unlocked
    BY <1>2, <1>a, ReducerTypes DEF Connected, At, Goto, Apply
  <2> DEFINE r == OpConnected(op)
  <2>2. ~op.stopped /\ ~op.summarized /\ status = Told(op)
    BY <2>1, <1>b, <1>c
  <2>3. /\ r.notice = "none" /\ r.state.stopped = op.stopped
        /\ r.state.outage = op.outage /\ r.state.ready = op.ready
        /\ r.state.summarized = op.summarized
    BY <2>2, <1>a DEF OpConnected, OperationalState
  <2>4. StatusOf("none", status) = Told(r.state) /\ "none" \notin TerminalNotices
    BY <2>2, <2>3 DEF StatusOf, Told, TerminalNotices
  <2> QED
    BY <2>1, <2>2, <2>3, <2>4, StatusApply
<1>3. ASSUME NEW b \in Feeds \cup Snapshots, ObserveBatch(b)
      PROVE  StatusInv'
  <2> DEFINE r == OpBatch(op, b, now)
             c == Counted(op, b)
  <2>1. r \in R /\ Apply("run", r) /\ pc' = "consume" /\ pc = "receiving" /\ Unlocked
    BY <1>3, <1>a, ReducerTypes DEF ObserveBatch, At, Goto, Apply
  <2>2. ~op.stopped /\ ~op.summarized /\ status = Told(op)
    BY <2>1, <1>b, <1>c
  <2>3. /\ c.stopped = op.stopped /\ c.outage = op.outage /\ c.ready = op.ready
        /\ c.summarized = op.summarized /\ DOMAIN c = DOMAIN op
    BY <1>a DEF Counted, OperationalState
  <2>4. /\ r.state.stopped = op.stopped /\ r.state.summarized = op.summarized
        /\ r.notice \in {"none", "firstData", "recovered"}
    BY <2>2, <2>3, <1>a DEF OpBatch, Closed, OperationalState
  <2>5. StatusOf(r.notice, status) = Told(r.state)
    <3> HIDE DEF c
    <3>1. CASE c.subscription /\ c.connectionData
      <4>1. r.state.ready /\ ~r.state.outage
        BY <2>2, <2>3, <3>1, <1>a DEF OpBatch, Closed, OperationalState, c
      <4>2. r.notice = IF ~op.ready THEN "firstData"
                       ELSE IF op.outage THEN "recovered" ELSE "none"
        BY <2>2, <2>3, <3>1 DEF OpBatch, c
      <4> QED
        BY <4>1, <4>2, <2>2, <2>4 DEF StatusOf, Told, TerminalNotices
    <3>2. CASE ~(c.subscription /\ c.connectionData)
      <4>1. r.state = c /\ r.notice = "none"
        BY <2>2, <3>2 DEF OpBatch, c
      <4> QED
        BY <4>1, <2>2, <2>3 DEF StatusOf, Told, TerminalNotices
    <3> QED
      BY <3>1, <3>2
  <2>6. r.notice \notin TerminalNotices
    BY <2>4 DEF TerminalNotices
  <2> HIDE DEF r
  <2> QED
    BY <2>1, <2>2, <2>4, <2>5, <2>6, StatusApply
<1>4. CASE ConsumeFails
  <2> DEFINE r == OpConsumerFailure(op)
  <2>1. r \in R /\ Apply("run", r) /\ pc' = "polling" /\ pc = "consume" /\ Unlocked
    BY <1>4, <1>a, ReducerTypes DEF ConsumeFails, At, Goto, Apply
  <2>2. ~op.stopped /\ ~op.summarized /\ status = Told(op)
    BY <2>1, <1>b, <1>c
  <2>3. /\ r.notice \in {"none", "consumerFailure"} /\ r.state.stopped = op.stopped
        /\ r.state.outage = op.outage /\ r.state.ready = op.ready
        /\ r.state.summarized = op.summarized
    BY <2>2, <1>a DEF OpConsumerFailure, OperationalState
  <2>4. StatusOf(r.notice, status) = Told(r.state) /\ r.notice \notin TerminalNotices
    BY <2>2, <2>3 DEF StatusOf, Told, TerminalNotices
  <2> QED
    BY <2>1, <2>2, <2>3, <2>4, StatusApply
<1>5. CASE Report
  <2> DEFINE kind == Interruption
             r == OpInterruption(op, kind, now)
  <2>1. kind \in Interruptions
    BY DEF Interruption, Interruptions, TerminalNotices
  <2>2. /\ r \in R /\ Apply("run", r) /\ pc = "report" /\ Unlocked
        /\ pc' = IF kind \in TerminalNotices THEN "finish" ELSE "schedule"
    BY <2>1, <1>5, <1>a, ReducerTypes DEF Report, At, Goto, Apply
  <2>3. ~op.stopped /\ ~op.summarized /\ status = Told(op)
    BY <2>2, <1>b, <1>c
  <2> HIDE DEF kind
  <2>a. r.state.summarized = op.summarized /\ r.state.outage
    BY <2>3, <1>a DEF OpInterruption, OperationalState
  <2>b. IF kind \in TerminalNotices
        THEN r.state.stopped /\ r.notice = kind
        ELSE ~r.state.stopped /\ r.notice = IF op.outage THEN "none" ELSE "outage"
    BY <2>3, <1>a DEF OpInterruption, OperationalState
  <2> HIDE DEF r
  <2>4. /\ r.state.stopped <=> (kind \in TerminalNotices)
        /\ r.state.outage /\ r.state.summarized = op.summarized
        /\ r.notice = IF kind \in TerminalNotices THEN kind
                      ELSE IF op.outage THEN "none" ELSE "outage"
    BY <2>a, <2>b
  <2>5. StatusOf(r.notice, status) = Told(r.state)
    BY <2>3, <2>4 DEF StatusOf, Told, TerminalNotices
  <2>6. /\ r.notice \in TerminalNotices => r.state.stopped
        /\ r.state.stopped => r.notice \in TerminalNotices \cup {"none", "summary"}
    BY <2>4 DEF TerminalNotices
  <2> QED
    BY <2>2, <2>3, <2>4, <2>5, <2>6, StatusApply
<1>6. CASE Schedule
  <2> DEFINE r == OpSchedule(op, ReconnectDelay(attempt), notBefore, now)
  <2>1. ReconnectDelay(attempt) \in Nat
    BY BackoffBounds DEF TypeOK
  <2>2. r \in R /\ Apply("run", r) /\ pc' = "waiting" /\ pc = "schedule" /\ Unlocked
    BY <2>1, <1>6, <1>a, ReducerTypes DEF Schedule, At, Goto, Apply
  <2>3. ~op.stopped /\ ~op.summarized /\ status = Told(op)
    BY <2>2, <1>b, <1>c
  <2>4. /\ r.notice = "progress" /\ r.state.stopped = op.stopped
        /\ r.state.outage = op.outage /\ r.state.ready = op.ready
        /\ r.state.summarized = op.summarized
    BY <2>3, <1>a DEF OpSchedule, OperationalState
  <2> HIDE DEF r
  <2>5. StatusOf(r.notice, status) = Told(r.state) /\ r.notice \notin TerminalNotices
    BY <2>3, <2>4 DEF StatusOf, Told, TerminalNotices
  <2> QED
    BY <2>2, <2>3, <2>4, <2>5, StatusApply
<1>7. CASE Tick
  <2> DEFINE r == OpTick(op, FALSE)
  <2>1. r \in R /\ Apply("run", r) /\ pc' = "admit" /\ pc = "tick" /\ Unlocked
    BY <1>7, <1>a, ReducerTypes DEF Tick, At, Goto, Apply
  <2>2. ~op.stopped /\ ~op.summarized /\ status = Told(op)
    BY <2>1, <1>b, <1>c
  <2>3. r.notice \in {"progress", "waiting", "none"} /\ r.state = op
    BY <2>2 DEF OpTick
  <2> HIDE DEF r
  <2>4. StatusOf(r.notice, status) = Told(r.state) /\ r.notice \notin TerminalNotices
    BY <2>2, <2>3 DEF StatusOf, Told, TerminalNotices
  <2> QED
    BY <2>1, <2>2, <2>3, <2>4, StatusApply
<1>8. CASE Admit
  <2>1. CASE cancelled
    <3>1. Quietly /\ pc = "admit" /\ pc' = "finish"
      BY <2>1, <1>8 DEF Admit, At, Goto
    <3> QED
      BY <3>1, <1>c, StatusQuiet
  <2>2. CASE ~cancelled
    <3> DEFINE r == OpAttempt(op)
    <3>1. r \in R /\ Apply("run", r) /\ pc' = "connecting" /\ pc = "admit" /\ Unlocked
      BY <2>2, <1>8, <1>a, ReducerTypes DEF Admit, At, Goto, Apply
    <3>2. ~op.stopped /\ ~op.summarized /\ status = Told(op)
      BY <3>1, <1>b, <1>c
    <3>3. /\ r.notice = "none" /\ r.state.stopped = op.stopped
          /\ r.state.outage = op.outage /\ r.state.ready = op.ready
          /\ r.state.summarized = op.summarized
      BY <3>2, <1>a DEF OpAttempt, OperationalState
    <3>4. StatusOf(r.notice, status) = Told(r.state) /\ r.notice \notin TerminalNotices
      BY <3>2, <3>3 DEF StatusOf, Told, TerminalNotices
    <3> QED
      BY <3>1, <3>2, <3>3, <3>4, StatusApply
  <2> QED
    BY <2>1, <2>2
<1>9. CASE Finish
  <2> DEFINE r == OpFinish(op)
  <2>1. r \in R /\ Apply("run", r) /\ pc' = "closing"
    BY <1>9, <1>a, ReducerTypes DEF Finish, Goto
  <2>2. /\ r.notice \in {"none", "summary"} /\ r.state.summarized
        /\ r.state.stopped
    BY <1>a DEF OpFinish, OperationalState, StatusInv, PermanentIsStopped
  <2>3. r.notice \notin TerminalNotices
    BY <2>2 DEF TerminalNotices
  <2> HIDE DEF r
  <2> QED
    BY <2>1, <2>2, <2>3, StatusApply
<1>10. CASE TickerFires
  <2> DEFINE r == OpTick(op, TRUE)
  <2>1. /\ op' = r.state /\ status' = status /\ pc' = pc /\ ticker' = ticker /\ ticker = "on"
        /\ notice'["run"] = notice["run"] /\ notice'["ticker"] = r.notice
    BY <1>10 DEF TickerFires, Apply, stop, TypeOK, Processes
  <2>2. /\ r.notice \in {"stopped", "progress", "waiting", "none"}
        /\ r.state.stopped = op.stopped /\ r.state.outage = op.outage
        /\ r.state.ready = op.ready /\ r.state.summarized = op.summarized
    BY <1>a DEF OpTick, OperationalState
  <2> HIDE DEF r
  <2> QED
    BY <2>1, <2>2 DEF StatusInv, StopIsFinal, Unstarted, StatusWillMatch,
         TickerTellsNothing, PermanentIsStopped, Told
<1>11. CASE \/ StartTicker \/ Poll \/ ConsumeSucceeds \/ CloseSocket \/ Classify
            \/ (\E kind \in ReadFailures : ReadReturns(kind))
            \/ WaitFires \/ WaitCanceled \/ ConnectReturns \/ CheckConnect \/ CloseDone
  <2>1. /\ Quietly
        /\ pc \notin {"start", "finish", "done"} /\ pc' # "start"
        /\ pc = "closing" => pc' = "done"
    BY <1>11 DEF StartTicker, Poll, ConsumeSucceeds, CloseSocket, Classify, ReadReturns,
         WaitFires, WaitCanceled, ConnectReturns, ConnectSucceeds, ConnectFails,
         CheckConnect, CloseDone, At, Goto
  <2> QED
    BY <2>1, <1>c, StatusQuiet
<1>12. CASE TickerStops \/ Cancel \/ CancelTicker \/ Clock
  <2>1. Quietly /\ pc' = pc
    BY <1>12 DEF TickerStops, Cancel, CancelTicker, Clock
  <2>2. pc = "start" => ticker' = ticker
    BY <1>12 DEF TickerStops, Cancel, CancelTicker, Clock, stop, StatusInv, Unstarted
  <2> QED
    BY <2>1, <2>2, StatusQuiet
<1>13. CASE Emit("run")
  <2>1. /\ pc' = pc /\ op' = op /\ ticker' = ticker /\ notice["run"] # "none"
        /\ notice'["run"] = "none" /\ notice'["ticker"] = notice["ticker"]
        /\ status' = StatusOf(notice["run"], status)
    BY <1>13 DEF Emit, stop, TypeOK, Processes
  <2>2. StatusOf("none", status') = status'
    BY DEF StatusOf, TerminalNotices
  <2>3. pc # "start"
    BY <2>1 DEF StatusInv, Unstarted, Unlocked, Processes
  <2>4. status' = "permanent" => op.stopped
    BY <2>1 DEF StatusOf, StatusInv, PermanentIsStopped
  <2>5. StopIsFinal' /\ Unstarted' /\ TickerTellsNothing'
    BY <2>1, <2>3 DEF StatusInv, StopIsFinal, Unstarted, TickerTellsNothing
  <2>6. StatusWillMatch'
    BY <2>1, <2>2, <2>3 DEF StatusInv, StatusWillMatch, Told
  <2>7. PermanentIsStopped'
    BY <2>1, <2>4 DEF StatusInv, PermanentIsStopped, TerminalNotices
  <2> QED
    BY <2>5, <2>6, <2>7 DEF StatusInv
<1>14. CASE Emit("ticker")
  <2>1. /\ pc' = pc /\ op' = op /\ ticker' = ticker /\ notice["ticker"] # "none"
        /\ notice'["ticker"] = "none" /\ notice'["run"] = notice["run"]
        /\ status' = StatusOf(notice["ticker"], status)
    BY <1>14 DEF Emit, stop, TypeOK, Processes
  <2>2. status' = status
    BY <2>1 DEF StatusOf, StatusInv, TickerTellsNothing, TerminalNotices
  <2>3. pc # "start"
    BY <2>1 DEF StatusInv, Unstarted, Unlocked, Processes
  <2> QED
    BY <2>1, <2>2, <2>3 DEF StatusInv, StopIsFinal, Unstarted, StatusWillMatch,
         TickerTellsNothing, PermanentIsStopped, Told
<1>15. CASE Terminated \/ UNCHANGED vars
  <2>1. Quietly /\ pc' = pc /\ ticker' = ticker
    BY <1>15 DEF Terminated, vars, Quietly, stop
  <2> QED
    BY <2>1, StatusQuiet
<1> QED
  BY <1>1, <1>2, <1>3, <1>4, <1>5, <1>6, <1>7, <1>8, <1>9, <1>10, <1>11, <1>12, <1>13,
     <1>14, <1>15
  DEF Next, Run, Reading, Retrying, Processes

\* The strengthened invariant holds throughout.
LEMMA StatusInvariant == Spec => []StatusInv
BY StatusInit, StatusNext, TypeCorrect, PTL DEF Spec

\* Whenever the reporter is idle, the host has been told the published state.
THEOREM HostKnowsState == Spec => []StatusMatchesState
<1>1. StatusInv => StatusMatchesState
  BY DEF StatusInv, StatusWillMatch, StatusMatchesState, Unlocked, Processes, StatusOf,
         TerminalNotices
<1> QED
  BY <1>1, StatusInvariant, PTL

\* After a terminal failure the run only finishes.
THEOREM TerminalEndsTheRun == Spec => []StopIsFinal
<1>1. StatusInv => StopIsFinal
  BY DEF StatusInv
<1> QED
  BY <1>1, StatusInvariant, PTL

\* A permanent status is never overwritten, and a summarized state never changes.
THEOREM LastWordStands == Spec => LastWordIsFinal
<1>1. TypeOK /\ StatusInv /\ [Next]_vars =>
        [ /\ status = "permanent" => status' = "permanent"
          /\ op.summarized => op' = op ]_vars
  <2> SUFFICES ASSUME TypeOK, StatusInv, [Next]_vars
               PROVE  /\ status = "permanent" => status' = "permanent"
                      /\ op.summarized => op' = op
    OBVIOUS
  <2>1. ASSUME op.summarized PROVE op' = op
    <3>1. op.stopped /\ op \in OperationalState
      BY <2>1 DEF StatusInv, PermanentIsStopped, TypeOK
    <3>2. \A periodic \in BOOLEAN : OpTick(op, periodic).state = op
      BY <2>1 DEF OpTick, Reduced
    <3>3. OpFinish(op).state = op
      BY <2>1 DEF OpFinish, Reduced
    <3> QED
      BY <3>1, <3>2, <3>3, OpChanges
      DEF OpStart, OpConnected, OpBatch, OpInterruption, OpSchedule, OpAttempt,
          OpConsumerFailure, UnlessStopped, Reduced
  <2>2. ASSUME status = "permanent" PROVE status' = "permanent"
    <3>1. ASSUME NEW p \in Processes, Emit(p)
          PROVE  status' = "permanent"
      <4>1. notice[p] \in TerminalNotices
                          \cup {"none", "summary", "stopped", "progress", "waiting"}
        BY <2>2 DEF StatusInv, PermanentIsStopped, TickerTellsNothing, Processes
      <4>2. StatusOf(notice[p], status) = "permanent"
        BY <4>1, <2>2 DEF StatusOf, TerminalNotices
      <4> QED
        BY <4>2, <3>1 DEF Emit
    <3>2. CASE ~\E p \in Processes : Emit(p)
      <4>1. status' = status
        BY <3>2 DEF Next, Run, Reading, Retrying, ConnectReturns, Start, StartTicker,
          Connected, Poll, ConsumeSucceeds, ConsumeFails, CloseSocket, Classify,
          ObserveBatch, ReadReturns, ConnectSucceeds, ConnectFails, Report, Schedule,
          WaitFires, WaitCanceled, Tick, Admit, CheckConnect, Finish, CloseDone,
          TickerFires, TickerStops, Cancel, CancelTicker, Clock, Terminated, vars,
          Apply, Quietly
      <4> QED
        BY <4>1, <2>2
    <3> QED
      BY <3>1, <3>2
  <2> QED
    BY <2>1, <2>2
<1> QED
  BY <1>1, TypeCorrect, StatusInvariant, PTL DEF Spec, LastWordIsFinal

-----------------------------------------------------------------------------
(* The input run implements the safety of InputHealth.                     *)

\* The published states s and t look the same to the host and the metrics.
SameHealth(s, t) ==
  /\ s.ready = t.ready /\ s.outage = t.outage /\ s.stopped = t.stopped
  /\ s.summarized = t.summarized
  /\ s.outages = t.outages /\ s.recoveries = t.recoveries

\* Once the state is summarized the run has only the summary to tell.
SummaryIsLast == op.summarized => notice["run"] \in {"none", "summary"}

LEMMA SummaryNext == TypeOK /\ StatusInv /\ SummaryIsLast /\ [Next]_vars => SummaryIsLast'
<1> SUFFICES ASSUME TypeOK, StatusInv, SummaryIsLast, [Next]_vars, op'.summarized
             PROVE  notice'["run"] \in {"none", "summary"}
  BY DEF SummaryIsLast
<1>0. op \in OperationalState /\ now \in Nat
  BY DEF TypeOK
<1>1. CASE Finish
  <2>1. notice'["run"] = OpFinish(op).notice
    BY <1>1 DEF Finish, Apply, TypeOK, Processes
  <2> QED
    BY <2>1 DEF OpFinish, Reduced
<1>2. CASE notice'["run"] \in {notice["run"], "none"} /\ op' = op
  BY <1>2 DEF SummaryIsLast
<1>3. CASE TickerFires
  <2>1. notice'["run"] = notice["run"] /\ op' = OpTick(op, TRUE).state
    BY <1>3 DEF TickerFires, Apply, TypeOK, Processes
  <2>2. op.summarized
    BY <2>1, <1>0 DEF OpTick, Reduced, OperationalState
  <2> QED
    BY <2>1, <2>2 DEF SummaryIsLast
<1>5. CASE Start \/ Connected \/ ConsumeFails \/ Report \/ Schedule \/ Tick \/ (Admit /\ ~cancelled)
           \/ \E b \in Feeds \cup Snapshots : ObserveBatch(b)
  <2>1. pc \notin {"finish", "closing", "done"}
    BY <1>5 DEF Start, Connected, ConsumeFails, Report, Schedule, Tick, Admit,
                ObserveBatch, At
  <2>2. op'.summarized = op.summarized
    <3> USE <1>0 DEF UnlessStopped, Reduced
    <3>1. CASE Start
      BY <3>1 DEF Start, Apply, OpStart
    <3>2. CASE Connected
      BY <3>2 DEF Connected, Apply, OpConnected, OperationalState
    <3>3. CASE ConsumeFails
      BY <3>3 DEF ConsumeFails, Apply, OpConsumerFailure, OperationalState
    <3>4. CASE Report
      BY <3>4 DEF Report, Apply, OpInterruption, OperationalState
    <3>5. CASE Schedule
      <4>1. op' = OpSchedule(op, ReconnectDelay(attempt), notBefore, now).state
        BY <3>5 DEF Schedule, Apply
      <4>2. \A d, hint : OpSchedule(op, d, hint, now).state.summarized = op.summarized
        BY DEF OpSchedule, OperationalState
      <4> QED
        BY <4>1, <4>2
    <3>6. CASE Tick
      BY <3>6 DEF Tick, Apply, OpTick, OperationalState
    <3>7. CASE Admit /\ ~cancelled
      BY <3>7 DEF Admit, Apply, OpAttempt, OperationalState
    <3>8. CASE \E b \in Feeds \cup Snapshots : ObserveBatch(b)
      <4>1. PICK b \in Feeds \cup Snapshots : op' = OpBatch(op, b, now).state
        BY <3>8 DEF ObserveBatch, Apply
      <4> DEFINE c == Counted(op, b)
      <4>2. c.summarized = op.summarized /\ DOMAIN c = DOMAIN op
        BY DEF Counted, OperationalState
      <4> HIDE DEF c
      <4>3. [Closed(c, now) EXCEPT !.ready = TRUE].summarized = op.summarized
        BY <4>2 DEF Closed, OperationalState
      <4> QED
        BY <4>1, <4>2, <4>3 DEF OpBatch, c
    <3> QED
      BY <1>5, <3>1, <3>2, <3>3, <3>4, <3>5, <3>6, <3>7, <3>8
  <2> QED
    BY <2>1, <2>2 DEF StatusInv, StopIsFinal, PermanentIsStopped
<1>6. CASE \/ StartTicker \/ Poll \/ ConsumeSucceeds \/ CloseSocket \/ Classify
           \/ (\E kind \in ReadFailures : ReadReturns(kind))
           \/ WaitFires \/ WaitCanceled \/ ConnectReturns \/ CheckConnect \/ CloseDone
           \/ TickerStops \/ Cancel \/ CancelTicker \/ Clock \/ (Admit /\ cancelled)
  BY <1>2, <1>6 DEF StartTicker, Poll, ConsumeSucceeds, CloseSocket, Classify, ReadReturns,
       WaitFires, WaitCanceled, ConnectReturns, ConnectSucceeds, ConnectFails,
       CheckConnect, CloseDone, TickerStops, Cancel, CancelTicker, Clock, Quietly, Admit
<1>7. CASE (\E p \in Processes : Emit(p)) \/ Terminated \/ UNCHANGED vars
  BY <1>2, <1>7 DEF Emit, Terminated, vars, TypeOK, Processes
<1> QED
  BY <1>1, <1>3, <1>5, <1>6, <1>7 DEF Next, Run, Reading, Retrying

\* The events that neither end nor begin an interruption, nor the input, show the
\* host and the metrics nothing.
LEMMA UnseenReductions ==
  ASSUME NEW s \in OperationalState, NEW at
  PROVE  /\ SameHealth(s, OpStart(s).state) /\ SameHealth(s, OpConnected(s).state)
         /\ \A d, hint : SameHealth(s, OpSchedule(s, d, hint, at).state)
         /\ SameHealth(s, OpAttempt(s).state) /\ SameHealth(s, OpConsumerFailure(s).state)
         /\ \A periodic : SameHealth(s, OpTick(s, periodic).state)
BY DEF SameHealth, OpStart, OpConnected, OpSchedule, OpAttempt, OpConsumerFailure, OpTick,
       UnlessStopped, Reduced, OperationalState

\* Every step changes what is shown as InputHealth allows, or not at all.
LEMMA HealthStep ==
  TypeOK /\ StatusInv /\ SummaryIsLast /\ [Next]_vars => [Promise!Next]_(Promise!vars)
<1> SUFFICES ASSUME TypeOK, StatusInv, SummaryIsLast, [Next]_vars
             PROVE  Promise!Next \/ UNCHANGED Promise!vars
  OBVIOUS
<1>a. op \in OperationalState /\ now \in Nat /\ status \in Statuses
  BY DEF TypeOK
\* With the mutex free and the input running, the host knows the health.
<1>b. ASSUME Unlocked, pc # "start", ~op.stopped
      PROVE  status = Told(op) /\ ~op.summarized /\ ToldHealth = Health
  <2>1. status = Told(op) /\ ~op.summarized
    BY <1>b DEF StatusInv, StatusWillMatch, PermanentIsStopped, Unlocked, Processes,
                StatusOf, TerminalNotices
  <2> QED
    BY <2>1, <1>b DEF ToldHealth, Health, Failed, Told
<1>c. op.stopped => pc \in {"finish", "closing", "done"}
  BY DEF StatusInv, StopIsFinal
<1>0. ASSUME SameHealth(op, op'), status' = status
      PROVE  UNCHANGED Promise!vars
  BY <1>0 DEF SameHealth, Promise!vars, Health, Failed, ToldHealth
<1>1. ASSUME NEW b \in Feeds \cup Snapshots, ObserveBatch(b)
      PROVE  Promise!Next \/ UNCHANGED Promise!vars
  <2> DEFINE c == Counted(op, b)
  <2>1. /\ op' = OpBatch(op, b, now).state /\ status' = status
        /\ Unlocked /\ pc = "receiving"
    BY <1>1 DEF ObserveBatch, Apply, At
  <2>2. ~op.stopped /\ ~op.summarized /\ ToldHealth = Health
    BY <2>1, <1>b, <1>c
  <2>3. SameHealth(op, c) /\ DOMAIN c = DOMAIN op
    BY <1>a DEF SameHealth, Counted, OperationalState
  <2> HIDE DEF c
  <2>4. CASE ~(c.subscription /\ c.connectionData)
    <3>1. op' = c
      BY <2>1, <2>2, <2>4 DEF OpBatch, UnlessStopped, Reduced, c
    <3> QED
      BY <3>1, <2>1, <2>3, <1>0
  <2>5. CASE c.subscription /\ c.connectionData
    <3> DEFINE t == [Closed(c, now) EXCEPT !.ready = TRUE]
    <3>1. op' = t
      BY <2>1, <2>2, <2>5 DEF OpBatch, UnlessStopped, Reduced, c
    <3>2. /\ t.ready = TRUE /\ t.outage = FALSE /\ t.outages = op.outages
          /\ t.recoveries = IF op.outage THEN op.recoveries + 1 ELSE op.recoveries
      BY <2>3, <1>a DEF Closed, SameHealth, OperationalState
    <3>3. t.stopped = op.stopped /\ t.summarized = op.summarized
      BY <2>3, <1>a DEF Closed, SameHealth, OperationalState
    <3> HIDE DEF t
    <3>4. Health' = "receiving" /\ ToldHealth' = ToldHealth
      BY <3>1, <3>2, <3>3, <2>1, <2>2 DEF Health, Failed, ToldHealth
    <3>5. CASE op.ready /\ ~op.outage
      <4>1. SameHealth(op, op')
        BY <3>1, <3>2, <3>3, <3>5, <1>a DEF SameHealth, OperationalState
      <4> QED
        BY <4>1, <2>1, <1>0
    <3>6. CASE ~(op.ready /\ ~op.outage)
      <4>1. Health = IF op.outage THEN "interrupted" ELSE "awaiting"
        BY <3>6, <2>2 DEF Health, Failed
      <4>2. Promise!Receive
        BY <3>1, <3>2, <3>3, <3>4, <4>1, <2>2
        DEF Promise!Receive, Promise!Change
      <4> QED
        BY <4>2 DEF Promise!Next
    <3> QED
      BY <3>5, <3>6
  <2> QED
    BY <2>4, <2>5
<1>2. CASE Report
  <2> DEFINE kind == Interruption
  <2>1. /\ op' = OpInterruption(op, kind, now).state /\ status' = status
        /\ Unlocked /\ pc = "report"
    BY <1>2 DEF Report, Apply, At
  <2>2. ~op.stopped /\ ~op.summarized /\ ToldHealth = Health
    BY <2>1, <1>b, <1>c
  <2> HIDE DEF kind
  <2>3. op'.outage /\ op'.ready = op.ready /\ op'.summarized = op.summarized
    BY <2>1, <2>2, <1>a DEF OpInterruption, UnlessStopped, Reduced, OperationalState
  <2>4. op'.stopped <=> (kind \in TerminalNotices)
    BY <2>1, <2>2, <1>a DEF OpInterruption, UnlessStopped, Reduced, OperationalState
  <2>5. op'.outages = (IF op.outage THEN op.outages ELSE op.outages + 1)
    BY <2>1, <2>2, <1>a DEF OpInterruption, UnlessStopped, Reduced, OperationalState
  <2>6. op'.recoveries = op.recoveries
    BY <2>1, <2>2, <1>a DEF OpInterruption, UnlessStopped, Reduced, OperationalState
  <2>7. /\ ToldHealth' = ToldHealth
        /\ Health' = IF kind \in TerminalNotices THEN "failed" ELSE "interrupted"
        /\ Health = IF op.outage THEN "interrupted"
                    ELSE IF op.ready THEN "receiving" ELSE "awaiting"
    BY <2>1, <2>2, <2>3, <2>4 DEF Health, Failed, ToldHealth
  <2>8. CASE kind \in TerminalNotices
    <3>1. Promise!Fail
      BY <2>2, <2>3, <2>5, <2>6, <2>7, <2>8 DEF Promise!Fail, Promise!Change
    <3> QED
      BY <3>1 DEF Promise!Next
  <2>9. CASE kind \notin TerminalNotices /\ ~op.outage
    <3>1. Promise!Interrupt
      BY <2>2, <2>3, <2>5, <2>6, <2>7, <2>9 DEF Promise!Interrupt, Promise!Change
    <3> QED
      BY <3>1 DEF Promise!Next
  <2>10. CASE kind \notin TerminalNotices /\ op.outage
    BY <2>2, <2>3, <2>5, <2>6, <2>7, <2>10 DEF Promise!vars
  <2> QED
    BY <2>8, <2>9, <2>10
<1>3. CASE Finish
  <2>1. /\ op' = OpFinish(op).state /\ status' = status /\ Unlocked /\ pc = "finish"
    BY <1>3 DEF Finish, Apply, At
  <2>2. CASE op.summarized
    <3>1. op' = op
      BY <2>1, <2>2 DEF OpFinish, Reduced
    <3> QED
      BY <3>1, <2>1, <1>0 DEF SameHealth
  <2>3. CASE ~op.summarized
    <3>1. /\ op'.stopped = TRUE /\ op'.summarized = TRUE /\ op'.ready = op.ready
          /\ op'.outage = op.outage
      BY <2>1, <2>3, <1>a DEF OpFinish, Reduced, OperationalState
    <3>2. op'.outages = op.outages /\ op'.recoveries = op.recoveries
      BY <2>1, <2>3, <1>a DEF OpFinish, Reduced, OperationalState
    <3>3. status = Told(op)
      BY <2>1, <2>3 DEF StatusInv, StatusWillMatch, Unlocked, Processes, StatusOf,
                        TerminalNotices
    <3>4. ToldHealth = Health /\ Health' = Health /\ ToldHealth' = ToldHealth
      BY <2>1, <2>3, <3>1, <3>3 DEF Health, Failed, ToldHealth, Told
    <3>5. Promise!End
      BY <2>3, <3>1, <3>2, <3>4 DEF Promise!End
    <3> QED
      BY <3>5 DEF Promise!Next
  <2> QED
    BY <2>2, <2>3
<1>4. ASSUME NEW p \in Processes, Emit(p)
      PROVE  Promise!Next \/ UNCHANGED Promise!vars
  <2>1. op' = op /\ status' = StatusOf(notice[p], status) /\ notice[p] # "none" /\ pc # "start"
    BY <1>4 DEF Emit, StatusInv, Unstarted, Unlocked
  <2>2. CASE status' = status
    BY <2>1, <2>2, <1>0 DEF SameHealth
  <2>3. CASE status' # status
    <3>1. p = "run"
      BY <2>1, <2>3 DEF StatusInv, TickerTellsNothing, StatusOf, TerminalNotices, Processes
    <3>2. ~op.summarized
      BY <2>1, <2>3, <3>1 DEF SummaryIsLast, StatusOf, TerminalNotices
    <3>3. status' = Told(op)
      BY <2>1, <3>1, <3>2 DEF StatusInv, StatusWillMatch
    <3>4. Health = CASE Told(op) = "permanent" -> "failed"
                     [] Told(op) = "outage" -> "interrupted"
                     [] Told(op) = "ok" -> "receiving"
                     [] Told(op) = "awaiting" -> "awaiting"
      BY <3>2 DEF Health, Failed, Told
    <3>5. Health' = Health
      BY <2>1, <3>2 DEF Health, Failed
    <3>6. ToldHealth' = Health
      BY <3>3, <3>4 DEF ToldHealth, Told
    <3>7. ToldHealth # ToldHealth'
      BY <2>3, <3>3, <1>a DEF ToldHealth, Told, Statuses
    <3>8. Promise!Tell
      BY <2>1, <3>5, <3>6, <3>7 DEF Promise!Tell
    <3> QED
      BY <3>8 DEF Promise!Next
  <2> QED
    BY <2>2, <2>3
<1>5. CASE Start \/ Connected \/ ConsumeFails \/ Schedule \/ Tick \/ (Admit /\ ~cancelled)
           \/ TickerFires
  <2>1. status' = status
    BY <1>5 DEF Start, Connected, ConsumeFails, Schedule, Tick, Admit, TickerFires, Apply
  <2>2. SameHealth(op, op')
    <3>1. CASE Start
      BY <3>1, <1>a, UnseenReductions DEF Start, Apply
    <3>2. CASE Connected
      BY <3>2, <1>a, UnseenReductions DEF Connected, Apply
    <3>3. CASE ConsumeFails
      BY <3>3, <1>a, UnseenReductions DEF ConsumeFails, Apply
    <3>4. CASE Schedule
      <4>1. op' = OpSchedule(op, ReconnectDelay(attempt), notBefore, now).state
        BY <3>4 DEF Schedule, Apply
      <4> QED
        BY <4>1, <1>a, UnseenReductions
    <3>5. CASE Tick
      BY <3>5, <1>a, UnseenReductions DEF Tick, Apply
    <3>6. CASE Admit /\ ~cancelled
      BY <3>6, <1>a, UnseenReductions DEF Admit, Apply
    <3>7. CASE TickerFires
      BY <3>7, <1>a, UnseenReductions DEF TickerFires, Apply
    <3> QED
      BY <1>5, <3>1, <3>2, <3>3, <3>4, <3>5, <3>6, <3>7
  <2> QED
    BY <2>1, <2>2, <1>0
<1>6. CASE \/ StartTicker \/ Poll \/ ConsumeSucceeds \/ CloseSocket \/ Classify
           \/ (\E kind \in ReadFailures : ReadReturns(kind))
           \/ WaitFires \/ WaitCanceled \/ ConnectReturns \/ CheckConnect \/ CloseDone
           \/ TickerStops \/ Cancel \/ CancelTicker \/ Clock \/ (Admit /\ cancelled)
           \/ Terminated \/ UNCHANGED vars
  <2>1. op' = op /\ status' = status
    BY <1>6 DEF StartTicker, Poll, ConsumeSucceeds, CloseSocket, Classify, ReadReturns,
       WaitFires, WaitCanceled, ConnectReturns, ConnectSucceeds, ConnectFails,
       CheckConnect, CloseDone, TickerStops, Cancel, CancelTicker, Clock, Quietly, Admit,
       Terminated, vars
  <2> QED
    BY <2>1, <1>0 DEF SameHealth
<1> QED
  BY <1>1, <1>2, <1>3, <1>4, <1>5, <1>6 DEF Next, Run, Reading, Retrying

\* What the host and the metrics see of the input run is a behaviour of InputHealth:
\* every health is told before the next, none is skipped, a failure is final and each
\* recovery closes an interruption.
THEOREM ImplementsHealth == Spec => Promise!Init /\ [][Promise!Next]_(Promise!vars)
<1>1. Init => Promise!Init /\ SummaryIsLast
  BY DEF Init, ZeroState, Promise!Init, Health, Failed, ToldHealth, SummaryIsLast
<1> QED
  BY <1>1, SummaryNext, HealthStep, TypeCorrect, StatusInvariant, PTL DEF Spec

-----------------------------------------------------------------------------
(* Sockets and reconnects.                                                 *)

\* What the metrics say of outages is what happened.
THEOREM OutagesAreAccounted == Spec => []OutageAccounting
BY EpisodesBalance, OutageTimeIsMeasured, PTL DEF OutageAccounting

\* Every connection that was opened is closed before the run waits for the next.
THEOREM SocketsAreClosed == Spec => []SocketAccounting
<1>1. Init => SocketAccounting
  BY DEF Init, SocketAccounting
<1>2. SocketAccounting /\ [Next]_vars => SocketAccounting'
  <2> SUFFICES ASSUME SocketAccounting, [Next]_vars PROVE SocketAccounting'
    OBVIOUS
  <2> USE DEF SocketAccounting, At, Goto
  <2>1. CASE Start \/ StartTicker \/ Connected \/ Poll
    BY <2>1 DEF Start, StartTicker, Connected, Poll, stream
  <2>2. CASE ConsumeSucceeds \/ ConsumeFails \/ CloseSocket \/ Classify
    BY <2>2 DEF ConsumeSucceeds, ConsumeFails, CloseSocket, Classify, stream
  <2>3. ASSUME NEW b \in Feeds \cup Snapshots, ObserveBatch(b) PROVE SocketAccounting'
    BY <2>3 DEF ObserveBatch
  <2>4. ASSUME NEW kind \in ReadFailures, ReadReturns(kind) PROVE SocketAccounting'
    BY <2>4 DEF ReadReturns, stream
  <2>5. CASE Report \/ Schedule \/ WaitFires \/ WaitCanceled
    BY <2>5 DEF Report, Schedule, WaitFires, WaitCanceled, stream
  <2>6. CASE Tick \/ Admit \/ CheckConnect
    BY <2>6 DEF Tick, Admit, CheckConnect, stream
  <2>12. CASE ConnectSucceeds
    BY <2>12 DEF ConnectSucceeds
  <2>7. ASSUME NEW kind \in SetupFailures, NEW hint \in RetryAfters, ConnectFails(kind, hint)
        PROVE  SocketAccounting'
    BY <2>7 DEF ConnectFails, stream
  <2>8. CASE Finish \/ CloseDone
    BY <2>8 DEF Finish, CloseDone, stream
  <2>9. ASSUME NEW p \in Processes, Emit(p) PROVE SocketAccounting'
    BY <2>9 DEF Emit, stream
  <2>10. CASE TickerFires \/ TickerStops \/ Cancel \/ CancelTicker \/ Clock
    BY <2>10 DEF TickerFires, TickerStops, Cancel, CancelTicker, Clock, stream
  <2>11. CASE Terminated \/ UNCHANGED vars
    BY <2>11 DEF Terminated, vars, stream
  <2> QED
    BY <2>1, <2>2, <2>3, <2>4, <2>5, <2>6, <2>7, <2>8, <2>9, <2>10, <2>11, <2>12
    DEF Next, Run, Reading, Retrying, ConnectReturns
<1> QED
  BY <1>1, <1>2, PTL DEF Spec

\* What the retry loop knows of its deadlines at each of its lines: the hint in force
\* is that of the last failure, the armed timer is the published countdown, and once
\* it fired the countdown is over.
PacingInv ==
  /\ pc \in {"close", "classify"} => cancelled \/ failure.retryAt = NoTime
  /\ pc = "report" => failure.kind = "invalid" \/ notBefore = failure.retryAt
  /\ HintIsLatest
  /\ pc \in {"waiting", "tick", "admit"} => deadline = op.retryAt
  /\ pc \in {"tick", "admit"} => now >= deadline

LEMMA PacingInit == Init => PacingInv
BY DEF Init, PacingInv, HintIsLatest, NoTime

\* Every step keeps the deadlines in step; a terminal failure does not reach the timer.
LEMMA PacingNext == TypeOK /\ StopIsFinal /\ PacingInv /\ [Next]_vars => PacingInv'
<1> SUFFICES ASSUME TypeOK, StopIsFinal, PacingInv, [Next]_vars PROVE PacingInv'
  OBVIOUS
<1> USE DEF PacingInv, HintIsLatest, At, Goto, NoTime
<1>a. /\ now \in Nat /\ notBefore \in Nat /\ deadline \in Nat /\ op \in OperationalState
      /\ failure \in [kind : ReadFailures \cup SetupFailures, retryAt : Nat]
  BY DEF TypeOK
<1>b. \A periodic : OpTick(op, periodic).state.retryAt = op.retryAt
  BY <1>a DEF OpTick, Reduced, OperationalState
<1>1. CASE Start \/ StartTicker \/ Connected \/ Poll
  BY <1>1 DEF Start, StartTicker, Connected, Poll, local, stop
<1>2. CASE ConsumeSucceeds \/ ConsumeFails
  BY <1>2 DEF ConsumeSucceeds, ConsumeFails, local, stop
<1>3. CASE CloseSocket
  BY <1>3 DEF CloseSocket, local, stop
<1>4. CASE Classify
  BY <1>4 DEF Classify, stop
<1>5. ASSUME NEW b \in Feeds \cup Snapshots, ObserveBatch(b) PROVE PacingInv'
  BY <1>5 DEF ObserveBatch
<1>6. ASSUME NEW kind \in ReadFailures, ReadReturns(kind) PROVE PacingInv'
  BY <1>6 DEF ReadReturns
<1>7. CASE Report
  BY <1>7 DEF Report, Interruption, TerminalNotices, local, stop
<1>8. CASE Schedule
  <2>1. ~op.stopped
    BY <1>8 DEF Schedule, StopIsFinal
  <2>2. ReconnectDelay(attempt) \in Nat
    BY BackoffBounds, <1>a DEF TypeOK
  <2> DEFINE r == OpSchedule(op, ReconnectDelay(attempt), notBefore, now)
  <2>3. r.state.retryAt = Later(now + ReconnectDelay(attempt), notBefore)
    BY <2>1, <1>a DEF OpSchedule, UnlessStopped, Reduced, OperationalState
  <2>4. deadline' = r.state.retryAt /\ op' = r.state
    BY <1>8 DEF Schedule, Apply
  <2> HIDE DEF r
  <2>5. deadline' >= notBefore
    BY <2>2, <2>3, <2>4, <1>a DEF Later
  <2> QED
    BY <2>4, <2>5, <1>8 DEF Schedule
<1>9. CASE WaitFires \/ WaitCanceled
  BY <1>9, <1>a DEF WaitFires, WaitCanceled, Quietly, local
<1>10. CASE Tick
  BY <1>10, <1>b DEF Tick, Apply, local
<1>11. CASE Admit
  BY <1>11 DEF Admit
<1>12. CASE CheckConnect
  BY <1>12 DEF CheckConnect, stop
<1>13. CASE ConnectSucceeds \/ Finish \/ CloseDone
  BY <1>13 DEF ConnectSucceeds, Finish, CloseDone
<1>14. ASSUME NEW kind \in SetupFailures, NEW hint \in RetryAfters, ConnectFails(kind, hint)
       PROVE  PacingInv'
  BY <1>14 DEF ConnectFails
<1>15. ASSUME NEW p \in Processes, Emit(p) PROVE PacingInv'
  BY <1>15 DEF Emit, local, stop
<1>16. CASE TickerFires
  BY <1>16, <1>b DEF TickerFires, Apply, local, stop
<1>17. CASE TickerStops \/ Cancel \/ CancelTicker
  BY <1>17 DEF TickerStops, Cancel, CancelTicker, Quietly, local
<1>18. CASE Clock
  BY <1>18, <1>a DEF Clock, Quietly, local, stop
<1>19. CASE Terminated \/ UNCHANGED vars
  BY <1>19 DEF Terminated, vars, local, stop
<1> QED
  BY <1>1, <1>2, <1>3, <1>4, <1>5, <1>6, <1>7, <1>8, <1>9, <1>10, <1>11, <1>12, <1>13,
     <1>14, <1>15, <1>16, <1>17, <1>18, <1>19
  DEF Next, Run, Reading, Retrying, ConnectReturns

LEMMA PacingInvariant == Spec => []PacingInv
BY PacingInit, PacingNext, TypeCorrect, TerminalEndsTheRun, PTL DEF Spec

\* The hint of a failure postpones the attempt after it, and no other.
THEOREM HintsAreLatest == Spec => []HintIsLatest
<1>1. PacingInv => HintIsLatest
  BY DEF PacingInv
<1> QED
  BY <1>1, PacingInvariant, PTL

\* No attempt is counted before its published countdown and its hint are over.
THEOREM AttemptsAreDue == Spec => NoEarlyAttempt
<1>1. TypeOK /\ PacingInv /\ [Next]_vars =>
        [op.attempts' > op.attempts => now >= op.retryAt /\ now >= notBefore]_vars
  <2> SUFFICES ASSUME TypeOK, PacingInv, [Next]_vars, op.attempts' > op.attempts
               PROVE  now >= op.retryAt /\ now >= notBefore
    OBVIOUS
  <2>1. pc = "admit"
    <3>1. op'.attempts # op.attempts
      BY DEF TypeOK, OperationalState
    <3> QED
      BY <3>1, CountedIsAdmitted
  <2>2. /\ now \in Nat /\ notBefore \in Nat /\ deadline \in Nat
        /\ deadline >= notBefore /\ deadline = op.retryAt /\ now >= deadline
    BY <2>1 DEF PacingInv, HintIsLatest, TypeOK
  <2> QED
    BY <2>2
<1> QED
  BY <1>1, TypeCorrect, PacingInvariant, PTL DEF Spec, NoEarlyAttempt

-----------------------------------------------------------------------------
(* What the run makes of a connection: the backoff after one that was silent,  *)
(* and the evidence after one that was not.                                   *)


\* While silent, the last delay is at most the one that would come next, and the
\* batch that receivedBatch tells of came before the last reconnect.
SilenceInv ==
  quiet => /\ delay <= ReconnectDelay(attempt)
           /\ receivedBatch => pc \notin {"polling", "receiving", "consume", "close", "classify"}

LEMMA SilenceInit == Init => SilenceInv
BY DEF Init, SilenceInv

\* Every step keeps it: the exponent is reset only after a batch, and a batch is not
\* forgotten between the read that gave it and the classification of its end.
LEMMA SilenceNext == TypeOK /\ SilenceInv /\ [Next]_vars => SilenceInv'
<1> SUFFICES ASSUME TypeOK, SilenceInv, [Next]_vars PROVE SilenceInv'
  OBVIOUS
<1> USE DEF SilenceInv, At, Goto
<1>a. /\ attempt \in Nat /\ delay \in Nat /\ ReconnectDelay(attempt) \in 1 .. 30
      /\ ReconnectDelay(attempt + 1) \in 1 .. 30
      /\ ReconnectDelay(attempt + 1) >= ReconnectDelay(attempt)
  BY BackoffBounds DEF TypeOK
<1>1. CASE Start \/ StartTicker \/ Connected \/ Poll
  BY <1>1 DEF Start, StartTicker, Connected, Poll, local, ghost
<1>2. CASE ConsumeSucceeds \/ ConsumeFails \/ CloseSocket
  BY <1>2 DEF ConsumeSucceeds, ConsumeFails, CloseSocket, local, ghost
<1>3. CASE Classify
  BY <1>3 DEF Classify, ghost
<1>4. ASSUME NEW b \in Feeds \cup Snapshots, ObserveBatch(b) PROVE SilenceInv'
  BY <1>4 DEF ObserveBatch
<1>5. ASSUME NEW kind \in ReadFailures, ReadReturns(kind) PROVE SilenceInv'
  BY <1>5 DEF ReadReturns, ghost
<1>6. CASE Report \/ WaitFires \/ WaitCanceled \/ Tick \/ CheckConnect
  BY <1>6 DEF Report, WaitFires, WaitCanceled, Tick, CheckConnect, local, ghost
<1>7. CASE Schedule
  BY <1>7, <1>a DEF Schedule
<1>8. CASE Admit
  BY <1>8, <1>a DEF Admit, ghost
<1>9. CASE ConnectSucceeds \/ Finish \/ CloseDone
  BY <1>9 DEF ConnectSucceeds, Finish, CloseDone, local, ghost
<1>10. ASSUME NEW kind \in SetupFailures, NEW hint \in RetryAfters, ConnectFails(kind, hint)
       PROVE  SilenceInv'
  BY <1>10 DEF ConnectFails, ghost
<1>11. ASSUME NEW p \in Processes, Emit(p) PROVE SilenceInv'
  BY <1>11 DEF Emit, local, ghost
<1>12. CASE TickerFires \/ TickerStops \/ Cancel \/ CancelTicker \/ Clock
  BY <1>12 DEF TickerFires, TickerStops, Cancel, CancelTicker, Clock, local, ghost
<1>13. CASE Terminated \/ UNCHANGED vars
  BY <1>13 DEF Terminated, vars, local, ghost
<1> QED
  BY <1>1, <1>2, <1>3, <1>4, <1>5, <1>6, <1>7, <1>8, <1>9, <1>10, <1>11, <1>12, <1>13
  DEF Next, Run, Reading, Retrying, ConnectReturns

\* The delay changes only when a wait is scheduled, and then it is the backoff.
LEMMA DelaySteps == [Next]_vars => delay' = delay \/ (quiet => delay' = ReconnectDelay(attempt))
BY DEF Next, Run, Reading, Retrying, ConnectReturns, vars, ghost,
       Start, StartTicker, Connected, Poll, ObserveBatch, ConsumeSucceeds, ConsumeFails,
       ReadReturns, CloseSocket, Classify, Report, Schedule, WaitFires, WaitCanceled,
       Tick, Admit, ConnectSucceeds, ConnectFails, CheckConnect, Finish, CloseDone,
       Emit, TickerFires, TickerStops, Cancel, CancelTicker, Clock, Terminated

\* A server that says nothing is never asked sooner than the time before, however
\* many connections to it succeed.
THEOREM SilenceIsBackedOff == Spec => BackoffNeverShortensInSilence
<1>1. TypeOK /\ SilenceInv /\ [Next]_vars => [quiet /\ quiet' => delay' >= delay]_vars
  <2> SUFFICES ASSUME TypeOK, SilenceInv, [Next]_vars, quiet PROVE delay' >= delay
    OBVIOUS
  <2>1. delay \in Nat /\ ReconnectDelay(attempt) \in 1 .. 30 /\ delay <= ReconnectDelay(attempt)
    BY BackoffBounds DEF TypeOK, SilenceInv
  <2> QED
    BY <2>1, DelaySteps
<1> QED
  BY <1>1, SilenceInit, SilenceNext, TypeCorrect, PTL DEF Spec, BackoffNeverShortensInSilence

-----------------------------------------------------------------------------
(* Evidence.                                                               *)

\* The lines without evidence: before a connection is announced, and from the report
\* of its end to the announcement of the next.
Dark == {"start", "startTicker", "connected", "schedule", "waiting", "tick", "admit",
         "connecting", "connectFailed"}

EvidenceInv ==
  /\ EvidenceIsCurrent
  /\ pc \in Dark => ~op.subscription /\ ~op.connectionData
  /\ pc \in {"polling", "receiving", "consume"} => op.connection

\* What a reduction makes of the evidence.
Evidence(s) == << s.connection, s.subscription, s.connectionData, s.outage >>

LEMMA EvidenceInit == Init => EvidenceInv
BY DEF Init, EvidenceInv, EvidenceIsCurrent, ZeroState

\* The reductions that do not speak of the transport keep the evidence.
LEMMA EvidenceKept ==
  ASSUME NEW s \in OperationalState
  PROVE  /\ Evidence(OpStart(s).state) = Evidence(s)
         /\ Evidence(OpAttempt(s).state) = Evidence(s)
         /\ Evidence(OpConsumerFailure(s).state) = Evidence(s)
         /\ \A d, hint, at \in Nat : Evidence(OpSchedule(s, d, hint, at).state) = Evidence(s)
         /\ \A periodic : Evidence(OpTick(s, periodic).state) = Evidence(s)
<1> USE DEF Evidence, UnlessStopped, Reduced
<1>1. Evidence(OpStart(s).state) = Evidence(s)
  BY DEF OpStart
<1>2. Evidence(OpAttempt(s).state) = Evidence(s)
  BY DEF OpAttempt, OperationalState
<1>3. Evidence(OpConsumerFailure(s).state) = Evidence(s)
  BY DEF OpConsumerFailure, OperationalState
<1>4. \A d, hint, at \in Nat : Evidence(OpSchedule(s, d, hint, at).state) = Evidence(s)
  BY DEF OpSchedule, OperationalState
<1>5. \A periodic : Evidence(OpTick(s, periodic).state) = Evidence(s)
  BY DEF OpTick, OperationalState
<1> QED
  BY <1>1, <1>2, <1>3, <1>4, <1>5

\* The ones that do: a new transport and an end leave none, a batch adds its own and
\* ends the outage if that makes it whole.
LEMMA EvidenceChanged ==
  ASSUME NEW s \in OperationalState, ~s.stopped
  PROVE  /\ LET t == OpConnected(s).state
            IN  t.connection /\ ~t.subscription /\ ~t.connectionData
         /\ \A kind, at : LET t == OpInterruption(s, kind, at).state
                          IN  ~t.subscription /\ ~t.connectionData
         /\ \A b \in Feeds \cup Snapshots : \A at :
              LET t == OpBatch(s, b, at).state
              IN  /\ t.connection = s.connection
                  /\ t.subscription = (s.subscription \/ b.snapshot)
                  /\ t.connectionData = (s.connectionData \/ b.updates > 0)
                  /\ t.outage => ~(t.subscription /\ t.connectionData)
<1> USE DEF UnlessStopped, Reduced
<1>1. LET t == OpConnected(s).state
      IN  t.connection /\ ~t.subscription /\ ~t.connectionData
  BY DEF OpConnected, OperationalState
<1>2. \A kind, at : LET t == OpInterruption(s, kind, at).state
                    IN  ~t.subscription /\ ~t.connectionData
  BY DEF OpInterruption, OperationalState
<1>3. ASSUME NEW b \in Feeds \cup Snapshots, NEW at
      PROVE  LET t == OpBatch(s, b, at).state
             IN  /\ t.connection = s.connection
                 /\ t.subscription = (s.subscription \/ b.snapshot)
                 /\ t.connectionData = (s.connectionData \/ b.updates > 0)
                 /\ t.outage => ~(t.subscription /\ t.connectionData)
  <2> DEFINE c == Counted(s, b)
             t == OpBatch(s, b, at).state
  <2>1. /\ c.connection = s.connection /\ c.outage = s.outage
        /\ c.subscription = (s.subscription \/ b.snapshot)
        /\ c.connectionData = (s.connectionData \/ b.updates > 0)
        /\ DOMAIN c = DOMAIN s
    BY DEF Counted, OperationalState
  <2>2. t = IF c.subscription /\ c.connectionData
            THEN [Closed(c, at) EXCEPT !.ready = TRUE] ELSE c
    BY DEF OpBatch
  <2> HIDE DEF c
  <2>3. LET x == [Closed(c, at) EXCEPT !.ready = TRUE]
        IN  /\ x.connection = c.connection /\ x.subscription = c.subscription
            /\ x.connectionData = c.connectionData /\ ~x.outage
    BY <2>1 DEF Closed, OperationalState
  <2> HIDE DEF t
  <2>4. /\ t.connection = c.connection /\ t.subscription = c.subscription
        /\ t.connectionData = c.connectionData
        /\ t.outage => ~(c.subscription /\ c.connectionData)
    BY <2>2, <2>3
  <2> QED
    BY <2>1, <2>4 DEF t
<1> QED
  BY <1>1, <1>2, <1>3

\* Every step keeps the evidence in step with the connection.
LEMMA EvidenceNext == TypeOK /\ StopIsFinal /\ EvidenceInv /\ [Next]_vars => EvidenceInv'
<1> SUFFICES ASSUME TypeOK, StopIsFinal, EvidenceInv, [Next]_vars PROVE EvidenceInv'
  OBVIOUS
<1> USE DEF EvidenceInv, EvidenceIsCurrent, Dark, At, Goto
<1>a. op \in OperationalState /\ now \in Nat /\ notBefore \in Nat
      /\ ReconnectDelay(attempt) \in Nat
  BY BackoffBounds DEF TypeOK
<1>b. op.stopped => pc \in {"finish", "closing", "done"}
  BY DEF StopIsFinal
<1>1. CASE Start
  BY <1>1, <1>a, EvidenceKept DEF Start, Apply, Evidence, stream
<1>2. CASE Connected
  <2>1. op' = OpConnected(op).state /\ ~op.stopped
    BY <1>2, <1>b DEF Connected, Apply
  <2>2. op'.connection /\ ~op'.subscription /\ ~op'.connectionData
    BY <2>1, <1>a, EvidenceChanged
  <2> QED
    BY <2>2, <1>2 DEF Connected
<1>3. ASSUME NEW b \in Feeds \cup Snapshots, ObserveBatch(b) PROVE EvidenceInv'
  <2>1. op' = OpBatch(op, b, now).state /\ ~op.stopped /\ pc = "receiving" /\ pc' = "consume"
    BY <1>3, <1>b DEF ObserveBatch, Apply
  <2>2. /\ op'.connection = op.connection
        /\ op'.subscription = (op.subscription \/ b.snapshot)
        /\ op'.connectionData = (op.connectionData \/ b.updates > 0)
        /\ op'.outage => ~(op'.subscription /\ op'.connectionData)
    BY <2>1, <1>a, EvidenceChanged
  <2>3. snapshot' = (snapshot \/ b.snapshot) /\ data' = (data \/ b.updates > 0)
    BY <1>3 DEF ObserveBatch
  <2> QED
    BY <2>1, <2>2, <2>3
<1>4. CASE ConsumeFails
  BY <1>4, <1>a, EvidenceKept DEF ConsumeFails, Apply, Evidence, stream
<1>5. CASE Report
  <2>1. op' = OpInterruption(op, Interruption, now).state /\ ~op.stopped
    BY <1>5, <1>b DEF Report, Apply
  <2>2. ~op'.subscription /\ ~op'.connectionData
    BY <2>1, <1>a, EvidenceChanged
  <2> QED
    BY <2>2, <1>5 DEF Report
<1>6. CASE Schedule
  <2>1. Evidence(op') = Evidence(op)
    BY <1>6, <1>a, EvidenceKept DEF Schedule, Apply
  <2> QED
    BY <2>1, <1>6 DEF Schedule, Evidence, stream
<1>7. CASE Tick
  <2>1. Evidence(op') = Evidence(op)
    BY <1>7, <1>a, EvidenceKept DEF Tick, Apply
  <2> QED
    BY <2>1, <1>7 DEF Tick, Evidence, stream
<1>18. CASE TickerFires
  <2>1. Evidence(op') = Evidence(op)
    BY <1>18, <1>a, EvidenceKept DEF TickerFires, Apply
  <2>2. /\ op'.connection = op.connection /\ op'.subscription = op.subscription
        /\ op'.connectionData = op.connectionData /\ op'.outage = op.outage
    BY <2>1 DEF Evidence
  <2>3. pc' = pc /\ snapshot' = snapshot /\ data' = data
    BY <1>18 DEF TickerFires, stream
  <2> QED
    BY <2>2, <2>3
<1>8. CASE Admit
  <2>1. Evidence(op') = Evidence(op)
    BY <1>8, <1>a, EvidenceKept DEF Admit, Apply, Quietly
  <2> QED
    BY <2>1, <1>8 DEF Admit, Evidence, stream
<1>9. CASE Finish
  <2>1. op' = OpFinish(op).state
    BY <1>9 DEF Finish, Apply
  <2>2. op' = op \/ (~op'.subscription /\ ~op'.connectionData)
    BY <2>1, <1>a DEF OpFinish, Reduced, OperationalState
  <2> QED
    BY <2>2, <1>9 DEF Finish, stream
<1>10. CASE StartTicker \/ Poll \/ ConsumeSucceeds \/ CloseSocket \/ Classify
  BY <1>10 DEF StartTicker, Poll, ConsumeSucceeds, CloseSocket, Classify, Quietly, stream
<1>11. ASSUME NEW kind \in ReadFailures, ReadReturns(kind) PROVE EvidenceInv'
  BY <1>11 DEF ReadReturns, Quietly, stream
<1>12. CASE WaitFires \/ WaitCanceled \/ CheckConnect \/ CloseDone
  BY <1>12 DEF WaitFires, WaitCanceled, CheckConnect, CloseDone, Quietly, stream
<1>13. CASE ConnectSucceeds
  BY <1>13 DEF ConnectSucceeds, Quietly
<1>14. ASSUME NEW kind \in SetupFailures, NEW hint \in RetryAfters, ConnectFails(kind, hint)
       PROVE  EvidenceInv'
  BY <1>14 DEF ConnectFails, Quietly, stream
<1>15. ASSUME NEW p \in Processes, Emit(p) PROVE EvidenceInv'
  BY <1>15 DEF Emit, stream
<1>16. CASE TickerStops \/ Cancel \/ CancelTicker \/ Clock
  BY <1>16 DEF TickerStops, Cancel, CancelTicker, Clock, Quietly, stream
<1>17. CASE Terminated \/ UNCHANGED vars
  BY <1>17 DEF Terminated, vars, stream
<1> QED
  BY <1>1, <1>2, <1>3, <1>4, <1>5, <1>6, <1>7, <1>8, <1>9, <1>10, <1>11, <1>12, <1>13,
     <1>14, <1>15, <1>16, <1>17, <1>18
  DEF Next, Run, Reading, Retrying, ConnectReturns

\* What is published as received was received on the connection that is open now, and
\* an outage is over as soon as both halves of the evidence are there.
THEOREM EvidenceIsFresh == Spec => []EvidenceIsCurrent
<1>1. EvidenceInv => EvidenceIsCurrent
  BY DEF EvidenceInv
<1> QED
  BY <1>1, EvidenceInit, EvidenceNext, TypeCorrect, TerminalEndsTheRun, PTL DEF Spec
=============================================================================
