----------------------------- MODULE Operational -----------------------------
(***************************************************************************)
(* The pure reducer of the receiver's operational state: what the input    *)
(* run and the periodic ticker each make of it (operational.go).           *)
(*                                                                         *)
(* A reduction is a record [state, notice].  The notice is the output the  *)
(* reporter must deliver for the change.  Times are whole clock readings   *)
(* and NoTime stands for Go's zero time.Time.  `started' and `lastUpdate'  *)
(* only feed elapsed-time fields of log lines and gauges and are left out. *)
(***************************************************************************)
EXTENDS Integers

NoTime == 0                \* time.Time{}: every real reading is later

Later(a, b) == IF a > b THEN a ELSE b

Notices == { "none", "starting", "waiting", "firstData", "outage", "progress",
             "recovered", "consumerFailure", "invalid", "sourceStopped",
             "setupStopped", "summary", "stopped" }

\* The notices of the three interruptions after which the input never resumes.
TerminalNotices == { "invalid", "sourceStopped", "setupStopped" }

\* The interruptions: a transient one, and the three terminal ones.
Interruptions == { "outage" } \cup TerminalNotices

OperationalState ==
  [ connection       : BOOLEAN,   \* transport established, Subscribe written
    subscription     : BOOLEAN,   \* Subscribe completion normalized
    connectionData   : BOOLEAN,   \* some update arrived on this connection
    ready            : BOOLEAN,   \* both held at once at some time
    outage           : BOOLEAN,
    stopped          : BOOLEAN,
    summarized       : BOOLEAN,
    outages          : Nat,
    attempts         : Nat,
    recoveries       : Nat,
    updates          : Nat,
    consumerFailures : Nat,
    invalidUnicode   : Nat,
    reportedUnicode  : Nat,
    closedOutage     : Nat,
    outageStarted    : Nat,
    retryAt          : Nat ]

ZeroState ==
  [ connection |-> FALSE, subscription |-> FALSE, connectionData |-> FALSE,
    ready |-> FALSE, outage |-> FALSE, stopped |-> FALSE, summarized |-> FALSE,
    outages |-> 0, attempts |-> 0, recoveries |-> 0, updates |-> 0,
    consumerFailures |-> 0, invalidUnicode |-> 0, reportedUnicode |-> 0,
    closedOutage |-> 0, outageStarted |-> NoTime, retryAt |-> NoTime ]

Reduced(s, notice) == [state |-> s, notice |-> notice]

CurrentOutage(s, at) ==
  IF s.outage THEN Later(0, at - s.outageStarted) ELSE 0

-----------------------------------------------------------------------------
(* One operator per event.  The early return of reduceOperational lets only *)
(* ticks and the finish through once the input has stopped.                 *)

UnlessStopped(s, reduction) == IF s.stopped THEN Reduced(s, "none") ELSE reduction

OpStart(s) == UnlessStopped(s, Reduced(s, "starting"))

\* Seeded fault: a new transport alone ends the outage.
OpConnectedEndsOutage(s) ==
  UnlessStopped(s, Reduced(
    [s EXCEPT !.connection = TRUE, !.subscription = FALSE,
              !.connectionData = FALSE, !.retryAt = NoTime, !.outage = FALSE,
              !.recoveries = IF s.outage THEN @ + 1 ELSE @], "none"))

OpConnected(s) ==
  UnlessStopped(s, Reduced(
    [s EXCEPT !.connection = TRUE, !.subscription = FALSE,
              !.connectionData = FALSE, !.retryAt = NoTime], "none"))

\* The state after a batch is counted and before readiness is looked at.
Counted(s, b) ==
  LET seen == s.invalidUnicode + b.unicode
  IN  [s EXCEPT !.invalidUnicode = seen,
                !.reportedUnicode = IF @ = 0 THEN seen ELSE @,
                !.subscription = @ \/ b.snapshot,
                !.updates = @ + b.updates,
                !.connectionData = @ \/ b.updates > 0]

\* An open outage ends: its length is added to the closed ones.
Closed(s, at) ==
  IF s.outage
  THEN [s EXCEPT !.closedOutage = @ + CurrentOutage(s, at), !.outage = FALSE,
                 !.outageStarted = NoTime, !.recoveries = @ + 1]
  ELSE s

OpBatch(s, b, at) ==
  LET c == Counted(s, b)
  IN  UnlessStopped(s,
        IF c.subscription /\ c.connectionData
        THEN Reduced([Closed(c, at) EXCEPT !.ready = TRUE],
                     IF ~c.ready THEN "firstData"
                     ELSE IF c.outage THEN "recovered" ELSE "none")
        ELSE Reduced(c, "none"))

\* Seeded fault: every failed setup restarts the clock of the outage.
OpInterruptionRestartsClock(s, kind, at) ==
  LET open == [s EXCEPT !.connection = FALSE, !.subscription = FALSE,
                        !.connectionData = FALSE, !.retryAt = NoTime,
                        !.outage = TRUE, !.outageStarted = at,
                        !.outages = IF s.outage THEN @ ELSE @ + 1]
  IN  UnlessStopped(s,
        IF kind \in TerminalNotices
        THEN Reduced([open EXCEPT !.stopped = TRUE], kind)
        ELSE Reduced(open, IF s.outage THEN "none" ELSE "outage"))

\* Seeded fault: the subscription of the lost connection is kept.
OpInterruptionKeepsSubscription(s, kind, at) ==
  LET down == [s EXCEPT !.connection = FALSE, !.connectionData = FALSE,
                        !.retryAt = NoTime]
      open == IF s.outage THEN down
              ELSE [down EXCEPT !.outage = TRUE, !.outageStarted = at,
                                !.outages = @ + 1]
  IN  UnlessStopped(s,
        IF kind \in TerminalNotices
        THEN Reduced([open EXCEPT !.stopped = TRUE], kind)
        ELSE Reduced(open, IF s.outage THEN "none" ELSE "outage"))

\* opOutage, opInvalid, opSourceStopped and opSetupStopped.
OpInterruption(s, kind, at) ==
  LET down == [s EXCEPT !.connection = FALSE, !.subscription = FALSE,
                        !.connectionData = FALSE, !.retryAt = NoTime]
      open == IF s.outage THEN down
              ELSE [down EXCEPT !.outage = TRUE, !.outageStarted = at,
                                !.outages = @ + 1]
  IN  UnlessStopped(s,
        IF kind \in TerminalNotices
        THEN Reduced([open EXCEPT !.stopped = TRUE], kind)
        ELSE Reduced(open, IF s.outage THEN "none" ELSE "outage"))

\* Seeded fault: the hint of the server is not looked at.
OpScheduleIgnoresHint(s, delay, notBefore, at) ==
  UnlessStopped(s, Reduced([s EXCEPT !.retryAt = at + delay], "progress"))

\* The Retry-After deadline postpones the attempt, it never brings it forward.
OpSchedule(s, delay, notBefore, at) ==
  UnlessStopped(s, Reduced(
    [s EXCEPT !.retryAt = Later(at + delay, notBefore)], "progress"))

OpAttempt(s) ==
  UnlessStopped(s, Reduced(
    [s EXCEPT !.attempts = @ + 1, !.retryAt = NoTime], "none"))

OpConsumerFailure(s) ==
  UnlessStopped(s, Reduced(
    [s EXCEPT !.consumerFailures = @ + 1],
    IF s.consumerFailures = 0 THEN "consumerFailure" ELSE "none"))

OpFinish(s) ==
  IF s.summarized
  THEN Reduced(s, "none")
  ELSE Reduced([s EXCEPT !.connection = FALSE, !.subscription = FALSE,
                         !.connectionData = FALSE, !.retryAt = NoTime,
                         !.stopped = TRUE, !.summarized = TRUE], "summary")

\* Seeded fault: a late periodic tick changes a summarized state.
OpTickAfterSummary(s, periodic) ==
  Reduced(IF periodic THEN [s EXCEPT !.reportedUnicode = s.invalidUnicode] ELSE s,
          IF s.stopped THEN "stopped"
          ELSE IF s.outage THEN "progress"
          ELSE IF ~s.ready THEN "waiting" ELSE "none")

OpTick(s, periodic) ==
  LET t == IF periodic /\ ~s.summarized
           THEN [s EXCEPT !.reportedUnicode = s.invalidUnicode] ELSE s
  IN  Reduced(t, IF s.stopped THEN "stopped"
                 ELSE IF s.outage THEN "progress"
                 ELSE IF ~s.ready THEN "waiting" ELSE "none")
=============================================================================
