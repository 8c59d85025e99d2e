------------------------------ MODULE InputRun ------------------------------
(***************************************************************************)
(* The input run of the receiver (receiver.go, run) beside the reporter's  *)
(* periodic ticker, the cancellation by Shutdown, and the clock            *)
(* (operational_reporter.go).                                              *)
(*                                                                         *)
(* The run goroutine and the ticker goroutine change the operational state *)
(* only in `apply', under the reporter's mutex.  The mutex is held from    *)
(* the change of the state until its notice has been delivered to the log  *)
(* and the host, so a process holds it exactly while it has a notice       *)
(* pending.  Metric callbacks read the new state as soon as it is stored.  *)
(*                                                                         *)
(* A connection is abstracted to what its read returns; the setup of one   *)
(* to the class of its error.                                              *)
(***************************************************************************)
EXTENDS Operational

CONSTANTS
  MaxAttempts,         \* transient failures strike while fewer reconnects were made
  MaxBatches,          \* normalized batches observed by the whole run
  MaxConsumerFailures, \* batches whose reduction or consumer fails
  Horizon,             \* the clock passes it only while a wait is armed
  SnapshotSizes,       \* numbers of updates in a Subscribe completion
  RetryAfters          \* Retry-After hints; 0 is no usable hint

ASSUME BoundsAssumption ==
  /\ MaxAttempts \in Nat
  /\ MaxBatches \in Nat
  /\ MaxConsumerFailures \in Nat
  /\ Horizon \in Nat
  /\ SnapshotSizes \subseteq Nat
  /\ RetryAfters \subseteq Nat

VARIABLES
  pc,             \* the line the run goroutine (and Start before it) is at
  attempt,        \* the backoff exponent
  receivedBatch,  \* some batch normalized on the current connection
  failure,        \* why the last read or connect failed
  notBefore,      \* the Retry-After deadline in force
  deadline,       \* when the armed reconnect timer fires
  op,             \* the published operational state
  notice,         \* per process, the notice it must still deliver
  status,         \* the last status the host was told
  socket,         \* open connections
  snapshot,       \* the open connection's Subscribe completion was decoded
  data,           \* the open connection delivered a normalized update
  batches,        \* batches observed so far
  now,            \* the process clock
  cancelled,      \* the run's context is cancelled
  tickerCancelled,\* the reporter's context is cancelled
  ticker,         \* the periodic goroutine: "off", "on" or "done"
  outageTime,     \* history: clock readings spent with an outage open
  delay,          \* history: the last scheduled backoff delay
  quiet           \* history: no batch was observed since it was scheduled

local  == << attempt, receivedBatch, failure, notBefore, deadline >>
stream == << socket, snapshot, data, batches >>
stop   == << cancelled, tickerCancelled, ticker >>
ghost  == << outageTime, delay, quiet >>
vars   == << pc, local, op, notice, status, stream, now, stop, ghost >>

Processes == { "run", "ticker" }

Statuses == { "none", "awaiting", "ok", "outage", "permanent" }

Labels == { "start", "startTicker", "connected", "polling", "receiving", "consume",
            "close", "classify", "report", "schedule", "waiting", "tick",
            "admit", "connecting", "connectFailed", "finish", "closing", "done" }

\* How a read or a connection setup ends: "transient" covers transport errors,
\* timeouts and closes that allow a reconnect, "httpRetry" and "httpStop" are the
\* two classes of a setup HTTP status.
ReadFailures  == { "invalid", "closed", "transient" }
SetupFailures == { "invalid", "httpStop", "httpRetry", "transient" }

Feeds      == [snapshot : {FALSE}, updates : {1}, unicode : {0, 1}]
Snapshots  == { b \in [snapshot : {TRUE}, updates : SnapshotSizes, unicode : {0, 1}] :
                  b.unicode <= b.updates }

\* Seeded fault: an uncapped shift that wraps.
ReconnectDelayWraps(n) == IF n < 1 THEN 1 ELSE -1

\* time.Second << min(attempt, 5), at most 30 seconds.
Backoff == << 1, 2, 4, 8, 16, 30 >>
ReconnectDelay(n) == Backoff[(IF n < 5 THEN n ELSE 5) + 1]

-----------------------------------------------------------------------------
Init ==
  /\ pc = "start"
  /\ attempt = 0 /\ receivedBatch = FALSE
  /\ failure = [kind |-> "transient", retryAt |-> NoTime]
  /\ notBefore = NoTime /\ deadline = NoTime
  /\ op = ZeroState
  /\ notice = [p \in Processes |-> "none"]
  /\ status = "none"
  /\ socket = 1 /\ snapshot = FALSE /\ data = FALSE /\ batches = 0
  /\ now = 1
  /\ cancelled = FALSE /\ tickerCancelled = FALSE /\ ticker = "off"
  /\ outageTime = 0 /\ delay = 0 /\ quiet = FALSE

\* The reporter's mutex is free.
Unlocked == \A p \in Processes : notice[p] = "none"

\* apply, up to its output: lock, reduce, store.  Without a notice the mutex is
\* released at once.
Apply(p, reduction) ==
  /\ Unlocked
  /\ op' = reduction.state
  /\ notice' = [notice EXCEPT ![p] = reduction.notice]
  /\ UNCHANGED status

\* The run goroutine is at l and not inside apply.
At(l) == pc = l /\ notice["run"] = "none"

Goto(l) == pc' = l

\* A step of the run goroutine that does not touch the reporter.
Quietly == UNCHANGED << op, notice, status >>

\* Seeded fault: first data is logged and not reported to the host.
StatusOfUntold(n, old) ==
  CASE n = "starting"         -> "awaiting"
    [] n = "recovered"        -> "ok"
    [] n = "outage"           -> "outage"
    [] n \in TerminalNotices  -> "permanent"
    [] OTHER                  -> old

StatusOf(n, old) ==
  CASE n = "starting"                   -> "awaiting"
    [] n \in {"firstData", "recovered"} -> "ok"
    [] n = "outage"                     -> "outage"
    [] n \in TerminalNotices            -> "permanent"
    [] OTHER                            -> old

\* Seeded faults: a path out of the output that keeps the mutex.
EmitKeeps(p, kept) ==
  /\ notice[p] # "none"
  /\ status' = StatusOf(notice[p], status)
  /\ notice' = [notice EXCEPT ![p] = IF @ = kept THEN @ ELSE "none"]
  /\ UNCHANGED << pc, local, op, stream, now, stop, ghost >>

EmitKeepsLockOnSummary(p) == EmitKeeps(p, "summary")
EmitKeepsLockOnProgress(p) == EmitKeeps(p, "progress")

\* The output of apply: the log line, the host status, then the unlock.
Emit(p) ==
  /\ notice[p] # "none"
  /\ status' = StatusOf(notice[p], status)
  /\ notice' = [notice EXCEPT ![p] = "none"]
  /\ UNCHANGED << pc, local, op, stream, now, stop, ghost >>

-----------------------------------------------------------------------------
(* Start, after the initial connect, and the read of one connection.       *)

Start ==
  /\ At("start")
  /\ Apply("run", OpStart(op))
  /\ Goto("startTicker")
  /\ UNCHANGED << local, stream, now, stop, ghost >>

StartTicker ==
  /\ At("startTicker")
  /\ ticker' = "on"
  /\ Goto("connected")
  /\ Quietly
  /\ UNCHANGED << local, stream, now, cancelled, tickerCancelled, ghost >>

Connected ==
  /\ At("connected")
  /\ Apply("run", OpConnected(op))
  /\ receivedBatch' = FALSE
  /\ Goto("polling")
  /\ UNCHANGED << attempt, failure, notBefore, deadline, stream, now, stop, ghost >>

\* The top of the read loop, where a cancelled read ends.
Poll ==
  /\ At("polling")
  /\ Goto(IF cancelled THEN "close" ELSE "receiving")
  /\ Quietly
  /\ UNCHANGED << local, stream, now, stop, ghost >>

\* A hub record decoded and normalized.  The completion clears the manifest of
\* the connection, so a second one is a decoding error.
ObserveBatch(b) ==
  /\ At("receiving")
  /\ batches < MaxBatches
  /\ b.snapshot => ~snapshot
  /\ Apply("run", OpBatch(op, b, now))
  /\ receivedBatch' = TRUE
  /\ snapshot' = (snapshot \/ b.snapshot)
  /\ data' = (data \/ b.updates > 0)
  /\ batches' = batches + 1
  /\ quiet' = FALSE
  /\ Goto("consume")
  /\ UNCHANGED << attempt, failure, notBefore, deadline, socket, now, stop,
                  outageTime, delay >>

ConsumeSucceeds ==
  /\ At("consume")
  /\ Goto("polling")
  /\ Quietly
  /\ UNCHANGED << local, stream, now, stop, ghost >>

\* The reduction or the consumer rejects the batch; the read goes on.
ConsumeFails ==
  /\ At("consume")
  /\ op.consumerFailures < MaxConsumerFailures
  /\ Apply("run", OpConsumerFailure(op))
  /\ Goto("polling")
  /\ UNCHANGED << local, stream, now, stop, ghost >>

ReadReturns(kind) ==
  /\ At("receiving")
  /\ kind = "transient" => op.attempts < MaxAttempts \/ cancelled
  /\ failure' = [kind |-> kind, retryAt |-> NoTime]
  /\ Goto("close")
  /\ Quietly
  /\ UNCHANGED << attempt, receivedBatch, notBefore, deadline, stream, now, stop,
                  ghost >>

\* Seeded fault: a read ended by invalid data is not closed.
CloseSocketUnlessInvalid ==
  /\ At("close")
  /\ socket' = IF failure.kind = "invalid" THEN socket ELSE socket - 1
  /\ Goto("classify")
  /\ Quietly
  /\ UNCHANGED << local, snapshot, data, batches, now, stop, ghost >>

CloseSocket ==
  /\ At("close")
  /\ socket' = socket - 1
  /\ Goto("classify")
  /\ Quietly
  /\ UNCHANGED << local, snapshot, data, batches, now, stop, ghost >>

\* Seeded fault: any connection resets the backoff, even a silent one.
ClassifyAlwaysResets ==
  /\ At("classify")
  /\ Goto(IF cancelled THEN "finish" ELSE "report")
  /\ attempt' = 0
  /\ notBefore' = NoTime
  /\ Quietly
  /\ UNCHANGED << receivedBatch, failure, deadline, stream, now, stop, ghost >>

\* What the run makes of the end of a read.  Cancellation is looked at first and
\* invalid data before the backoff is reset.
Classify ==
  /\ At("classify")
  /\ Goto(IF cancelled THEN "finish" ELSE "report")
  /\ attempt' = IF receivedBatch /\ failure.kind # "invalid" /\ ~cancelled
                THEN 0 ELSE attempt
  /\ notBefore' = NoTime
  /\ Quietly
  /\ UNCHANGED << receivedBatch, failure, deadline, stream, now, stop, ghost >>

-----------------------------------------------------------------------------
(* The retry loop.                                                         *)

\* The interruption a failure is reported as.
Interruption ==
  CASE failure.kind = "invalid"  -> "invalid"
    [] failure.kind = "closed"   -> "sourceStopped"
    [] failure.kind = "httpStop" -> "setupStopped"
    [] OTHER                     -> "outage"

\* Seeded fault: a permanent setup status is reported and retried.
ReportRetriesSetupStop ==
  /\ At("report")
  /\ Apply("run", OpInterruption(op, Interruption, now))
  /\ Goto(IF Interruption \in {"invalid", "sourceStopped"} THEN "finish" ELSE "schedule")
  /\ UNCHANGED << local, stream, now, stop, ghost >>

Report ==
  /\ At("report")
  /\ Apply("run", OpInterruption(op, Interruption, now))
  /\ Goto(IF Interruption \in TerminalNotices THEN "finish" ELSE "schedule")
  /\ UNCHANGED << local, stream, now, stop, ghost >>

Schedule ==
  /\ At("schedule")
  /\ LET scheduled == OpSchedule(op, ReconnectDelay(attempt), notBefore, now)
     IN  /\ Apply("run", scheduled)
         /\ deadline' = scheduled.state.retryAt
  /\ delay' = ReconnectDelay(attempt)
  /\ quiet' = TRUE
  /\ Goto("waiting")
  /\ UNCHANGED << attempt, receivedBatch, failure, notBefore, stream, now, stop,
                  outageTime >>

\* When the timer and the cancellation are both ready the select picks either;
\* the context is checked again after it.
WaitFires ==
  /\ At("waiting")
  /\ now >= deadline
  /\ Goto(IF cancelled THEN "finish" ELSE "tick")
  /\ Quietly
  /\ UNCHANGED << local, stream, now, stop, ghost >>

WaitCanceled ==
  /\ At("waiting")
  /\ cancelled
  /\ Goto("finish")
  /\ Quietly
  /\ UNCHANGED << local, stream, now, stop, ghost >>

Tick ==
  /\ At("tick")
  /\ Apply("run", OpTick(op, FALSE))
  /\ Goto("admit")
  /\ UNCHANGED << local, stream, now, stop, ghost >>

\* Seeded fault: the context is not checked again under the mutex.
AdmitUnchecked ==
  /\ At("admit")
  /\ Apply("run", OpAttempt(op))
  /\ attempt' = attempt + 1
  /\ Goto("connecting")
  /\ UNCHANGED << receivedBatch, failure, notBefore, deadline, stream, now, stop,
                  ghost >>

\* beginAttempt: the context is checked once the mutex is held.
Admit ==
  /\ At("admit")
  /\ IF cancelled
     THEN /\ Unlocked
          /\ Quietly
          /\ Goto("finish")
          /\ UNCHANGED attempt
     ELSE /\ Apply("run", OpAttempt(op))
          /\ attempt' = attempt + 1
          /\ Goto("connecting")
  /\ UNCHANGED << receivedBatch, failure, notBefore, deadline, stream, now, stop,
                  ghost >>

\* Also when the cancellation came too late to stop the setup.
ConnectSucceeds ==
  /\ At("connecting")
  /\ socket' = socket + 1
  /\ snapshot' = FALSE
  /\ data' = FALSE
  /\ Goto("connected")
  /\ Quietly
  /\ UNCHANGED << local, batches, now, stop, ghost >>

\* A retryable HTTP status may carry a Retry-After hint, made a deadline when the
\* response is observed.
ConnectFails(kind, hint) ==
  /\ At("connecting")
  /\ kind \in {"transient", "httpRetry"} => op.attempts < MaxAttempts \/ cancelled
  /\ failure' = [kind |-> kind,
                 retryAt |-> IF kind = "httpRetry" /\ hint > 0
                             THEN now + hint ELSE NoTime]
  /\ Goto("connectFailed")
  /\ Quietly
  /\ UNCHANGED << attempt, receivedBatch, notBefore, deadline, stream, now, stop,
                  ghost >>

\* Seeded fault: a failure without a hint keeps the hint of an earlier one.
CheckConnectKeepsHint ==
  /\ At("connectFailed")
  /\ Goto(IF cancelled THEN "finish" ELSE "report")
  /\ notBefore' = Later(notBefore, failure.retryAt)
  /\ Quietly
  /\ UNCHANGED << attempt, receivedBatch, failure, deadline, stream, now, stop, ghost >>

CheckConnect ==
  /\ At("connectFailed")
  /\ Goto(IF cancelled THEN "finish" ELSE "report")
  /\ notBefore' = IF cancelled \/ failure.kind = "invalid"
                  THEN notBefore ELSE failure.retryAt
  /\ Quietly
  /\ UNCHANGED << attempt, receivedBatch, failure, deadline, stream, now, stop, ghost >>

\* The deferred opFinish, then the deferred close(done).
Finish ==
  /\ At("finish")
  /\ Apply("run", OpFinish(op))
  /\ Goto("closing")
  /\ UNCHANGED << local, stream, now, stop, ghost >>

CloseDone ==
  /\ At("closing")
  /\ Goto("done")
  /\ Quietly
  /\ UNCHANGED << local, stream, now, stop, ghost >>

-----------------------------------------------------------------------------
(* The ticker, Shutdown and the clock.                                     *)

\* The select may pick a tick that was ready before the cancellation.
TickerFires ==
  /\ ticker = "on"
  /\ Apply("ticker", OpTick(op, TRUE))
  /\ UNCHANGED << pc, local, stream, now, stop, ghost >>

TickerStops ==
  /\ ticker = "on" /\ notice["ticker"] = "none"
  /\ tickerCancelled
  /\ ticker' = "done"
  /\ Quietly
  /\ UNCHANGED << pc, local, stream, now, cancelled, tickerCancelled, ghost >>

\* beginShutdown, which the Collector calls after Start returned.
Cancel ==
  /\ pc \notin {"start", "startTicker"}
  /\ ~cancelled
  /\ cancelled' = TRUE
  /\ Quietly
  /\ UNCHANGED << pc, local, stream, now, tickerCancelled, ticker, ghost >>

CancelTicker ==
  /\ cancelled /\ ~tickerCancelled
  /\ tickerCancelled' = TRUE
  /\ Quietly
  /\ UNCHANGED << pc, local, stream, now, cancelled, ticker, ghost >>

Clock ==
  /\ now < Horizon \/ (pc = "waiting" /\ now < deadline)
  /\ now' = now + 1
  /\ outageTime' = IF op.outage THEN outageTime + 1 ELSE outageTime
  /\ Quietly
  /\ UNCHANGED << pc, local, stream, stop, delay, quiet >>

Terminated ==
  /\ pc = "done" /\ ticker = "done"
  /\ UNCHANGED vars

Reading == \/ Connected \/ Poll \/ ConsumeSucceeds \/ ConsumeFails
           \/ CloseSocket \/ Classify
           \/ \E b \in Feeds \cup Snapshots : ObserveBatch(b)
           \/ \E kind \in ReadFailures : ReadReturns(kind)

ConnectReturns == \/ ConnectSucceeds
                  \/ \E kind \in SetupFailures, hint \in RetryAfters :
                       ConnectFails(kind, hint)

Retrying == \/ Report \/ Schedule \/ WaitFires \/ WaitCanceled \/ Tick \/ Admit
            \/ ConnectReturns \/ CheckConnect

Run == Start \/ StartTicker \/ Reading \/ Retrying \/ Finish \/ CloseDone

Next == \/ Run
        \/ \E p \in Processes : Emit(p)
        \/ TickerFires \/ TickerStops
        \/ Cancel \/ CancelTicker
        \/ Clock \/ Terminated

Spec == Init /\ [][Next]_vars

\* The goroutines are scheduled, Go's mutex starves nobody, a select with two
\* ready cases does not always pick the same, logging and status callbacks
\* return, and a cancelled read or setup returns.  Nothing makes the network
\* deliver anything, the ticker fire or Shutdown be called.
Fairness ==
  /\ WF_vars(Start \/ StartTicker \/ Poll \/ CloseSocket \/ Classify \/ CheckConnect)
  /\ WF_vars(ConsumeSucceeds \/ WaitFires \/ WaitCanceled \/ CloseDone)
  /\ WF_vars(cancelled /\ (ConnectReturns \/ \E kind \in ReadFailures : ReadReturns(kind)))
  /\ SF_vars(Connected \/ Report \/ Schedule \/ Tick \/ Admit \/ Finish)
  /\ SF_vars(TickerStops)
  /\ \A p \in Processes : WF_vars(Emit(p))
  /\ WF_vars(CancelTicker)
  /\ WF_vars(Clock)

FairSpec == Spec /\ Fairness
-----------------------------------------------------------------------------
(* Properties.                                                             *)

TypeOK ==
  /\ pc \in Labels
  /\ attempt \in Nat /\ receivedBatch \in BOOLEAN
  /\ failure \in [kind : ReadFailures \cup SetupFailures, retryAt : Nat]
  /\ notBefore \in Nat /\ deadline \in Nat
  /\ op \in OperationalState
  /\ notice \in [Processes -> Notices]
  /\ status \in Statuses
  /\ socket \in Int /\ snapshot \in BOOLEAN /\ data \in BOOLEAN /\ batches \in Nat
  /\ now \in Nat
  /\ cancelled \in BOOLEAN /\ tickerCancelled \in BOOLEAN
  /\ ticker \in {"off", "on", "done"}
  /\ outageTime \in Nat /\ delay \in Nat /\ quiet \in BOOLEAN

\* The status that tells the host the state s of an input that has not finished.
Told(s) ==
  IF s.stopped THEN "permanent"
  ELSE IF s.outage THEN "outage"
  ELSE IF s.ready THEN "ok" ELSE "awaiting"

\* Whenever the reporter is idle the host has been told the published state: no
\* interleaving of the run and the ticker swallows or reorders a status
\* (applyLocked keeps the mutex through its output).
StatusMatchesState ==
  (Unlocked /\ pc # "start" /\ ~op.summarized) => status = Told(op)

\* Every counted outage is either closed by a counted recovery or the open one,
\* over disconnects, failed setups, terminal failures and the finish.
EpisodeAccounting ==
  op.outages = op.recoveries + (IF op.outage THEN 1 ELSE 0)

\* The outage time the summary reports is the time an outage was open.
OutageTimeAccounting ==
  op.closedOutage + CurrentOutage(op, now) = outageTime

\* What the metrics say of outages, their number and their length, is what happened.
OutageAccounting == EpisodeAccounting /\ OutageTimeAccounting

\* An outage counts as over only on fresh evidence: the subscription and the data
\* that are published were both seen on the connection that is open now, and an
\* open outage means that one of them is missing.
EvidenceIsCurrent ==
  /\ op.subscription => op.connection /\ snapshot
  /\ op.connectionData => op.connection /\ data
  /\ op.outage => ~(op.subscription /\ op.connectionData)

\* A Retry-After deadline postpones the attempt it was given for and no later one.
HintIsLatest ==
  pc \in {"schedule", "waiting", "tick", "admit"} =>
    notBefore = failure.retryAt /\ (pc # "schedule" => deadline >= failure.retryAt)

\* At most one connection is open, and none outside a read: no reconnect leaks
\* the socket before it.
SocketAccounting ==
  socket = IF pc \in {"start", "startTicker", "connected", "polling", "receiving",
                      "consume", "close"} THEN 1 ELSE 0

\* A terminal failure ends the run: no wait, no setup and no read after it, although
\* the Collector never cancelled it.
StopIsFinal ==
  op.stopped => pc \in {"finish", "closing", "done"}

\* A cancelled run counts and makes no further reconnect attempt, even when the
\* cancellation came while it waited for the reporter's mutex (beginAttempt).
NoAttemptAfterCancel == [][op.attempts' > op.attempts => ~cancelled]_vars

\* No attempt is made before the published countdown ran out.
NoEarlyAttempt == [][op.attempts' > op.attempts => now >= op.retryAt /\ now >= notBefore]_vars

\* While no batch arrives the backoff never shortens, whatever mix of failed setups
\* and connections that deliver nothing comes in between.
BackoffNeverShortensInSilence == [][quiet /\ quiet' => delay' >= delay]_vars

\* A permanent status is the last one, and after the summary the published state
\* does not change any more: late ticks only repeat it.
LastWordIsFinal ==
  [][ /\ status = "permanent" => status' = "permanent"
      /\ op.summarized => op' = op ]_vars

\* Shutdown ends both goroutines from wherever they are.
ShutdownCompletes == cancelled ~> (pc = "done" /\ ticker = "done")

\* A transient interruption is always followed by another attempt, or the run ends.
KeepsRetrying == (pc = "schedule") ~> (pc \in {"connecting", "done"})

-----------------------------------------------------------------------------
(* What the host and the metrics see implements InputHealth.               *)

\* The run failed for good: until the summary the state says so, after it the
\* permanent status that was told.
Failed == op.stopped /\ (op.summarized => status = "permanent")

Health == IF Failed THEN "failed"
          ELSE IF op.outage THEN "interrupted"
          ELSE IF op.ready THEN "receiving" ELSE "awaiting"

ToldHealth == CASE status = "none"      -> "none"
                [] status = "awaiting"  -> "awaiting"
                [] status = "ok"        -> "receiving"
                [] status = "outage"    -> "interrupted"
                [] status = "permanent" -> "failed"

Promise == INSTANCE InputHealth WITH
             health <- Health, told <- ToldHealth, outages <- op.outages,
             recoveries <- op.recoveries, ended <- op.summarized

\* The input run implements what InputHealth promises of it.
KeepsPromise == Promise!Spec
=============================================================================
