----------------------------- MODULE Connection -----------------------------
(***************************************************************************)
(* One SignalR connection after its Subscribe was written (connection.go,  *)
(* read; liveness.go; liveness_runtime.go): the reader, which owns the     *)
(* buffered records, the requested manifest and the two budgets of server  *)
(* wait, and the ping writer, which owns the time of the last successful   *)
(* write.  They share the socket and the run's context; the reader cancels *)
(* and joins the writer before it returns.                                 *)
(*                                                                         *)
(* Time is kept in countdowns and elapsed times, so that the server may    *)
(* send without bound.  It passes only while no timer is due: a timer is   *)
(* not late, but what fires at one instant happens in any order.           *)
(***************************************************************************)
EXTENDS Integers, Sequences

CONSTANTS
  Interval,  \* hubKeepaliveInterval
  Timeout,   \* hubServerTimeout: both budgets and the bound on a ping's write
  Messages,  \* records completed by one WebSocket message
  Handoffs,  \* time between Subscribe's write and the entry to read
  Deadlines  \* time until the caller's deadline, or NoDeadline

NoDeadline == -1

\* What decodeHubRecord tells apart: a batch of either source; "ignored" is a
\* ping, an unknown type, another target or another invocation.
Records == { "feed", "completion", "ignored", "invalid", "closed", "reconnect" }

ASSUME ConnectionAssumption ==
  /\ Interval \in Nat \ {0}
  /\ Timeout \in Nat \ {0}
  /\ Messages \subseteq Seq(Records)
  /\ Handoffs \subseteq Nat
  /\ Deadlines \subseteq (Nat \ {0}) \cup {NoDeadline}

VARIABLES
  reader,        \* the line read is at
  result,        \* what it returns
  records,       \* complete records buffered
  batch,         \* the kind of the batch in the callback
  manifest,      \* requestedTopics is not nil
  receive,       \* server wait left until the next record must be accepted
  subscription,  \* server wait left until Subscribe must complete
  pending,       \* Subscribe has not completed
  wait,          \* time spent in the current Read
  writer,        \* the line writeHubPings is at
  sinceOutbound, \* time since the last successful write
  pingIn,        \* time until the ping timer fires
  writeFor,      \* time spent in the current write of a ping
  writeCtx,      \* the context of that write
  pingErr,       \* what writeHubPings returned
  caller,        \* the caller's context
  callerIn,      \* time until its deadline
  run,           \* the context reader and writer share, a child of the caller's
  socket,        \* "open" or "closed"
  silence,       \* history: time in Read since a record was accepted
  outstanding,   \* history: time in Read while Subscribe was pending
  evidence,      \* history: the verdict the server's data asked for
  overdue,       \* history: a ping failed at its own deadline
  interrupted    \* history: run ended during a callback

budget   == << receive, subscription, pending >>
reading  == << reader, result, records, batch, manifest, budget, wait >>
writing  == << writer, sinceOutbound, pingIn, writeFor >>
contexts == << writeCtx, caller, callerIn, run >>
history  == << silence, outstanding, evidence, overdue, interrupted >>
vars     == << reading, writing, contexts, pingErr, socket, history >>

-----------------------------------------------------------------------------
\* max(0, b - e).
Spent(b, e) == IF e < b THEN b - e ELSE 0

\* serverWaitBudget.remaining.
Remaining == IF pending /\ subscription < receive THEN subscription ELSE receive

\* serverWaitBudget.expired, of given budgets.
Expiry(r, s) == CASE pending /\ s = 0 -> "subscriptionTimeout"
                  [] ~(pending /\ s = 0) /\ r = 0 -> "receiveTimeout"
                  [] OTHER -> "none"

\* The caller's context has ended, or its deadline has passed and the timer that
\* ends it has yet to run.
CallerEnded == caller # "alive" \/ callerIn = 0

Init ==
  /\ reader = "top" /\ result = "none" /\ batch = "none" /\ manifest = TRUE
  /\ records \in Messages \cup {<< >>}
  /\ pending = TRUE /\ wait = 0
  /\ \E h \in Handoffs :
       /\ receive = Spent(Timeout, h) /\ subscription = Spent(Timeout, h)
       /\ sinceOutbound = h /\ pingIn = Spent(Interval, h)
       /\ silence = h /\ outstanding = h
  /\ writer = "idle" /\ writeFor = 0 /\ writeCtx = "none" /\ pingErr = "none"
  /\ caller = "alive" /\ callerIn \in Deadlines /\ run = "alive"
  /\ socket = "open"
  /\ evidence = "none" /\ overdue = FALSE /\ interrupted = FALSE

-----------------------------------------------------------------------------
\* The run's context ends, and the context of a write with it.
EndRun(how) ==
  /\ run' = IF run = "alive" THEN how ELSE run
  /\ writeCtx' = IF writeCtx = "alive" THEN how ELSE writeCtx
  /\ interrupted' = (interrupted \/ (run = "alive" /\ reader = "callback"))

Return(r) == reader' = "returning" /\ result' = r

\* The reader leaves the writer, the contexts and the socket alone.
Locally == UNCHANGED << writing, contexts, pingErr, socket, outstanding, overdue, interrupted >>

\* Seeded fault: the loop does not look at the run's context.
UncheckedLoop == /\ reader = "top"
                 /\ Expiry(receive, subscription) = "none"

\* The loop passes its two checks.
Proceeds == /\ reader = "top"
            /\ run = "alive"
            /\ Expiry(receive, subscription) = "none"

StopAtTop ==
  /\ reader = "top" /\ run # "alive"
  /\ Return("context")
  /\ UNCHANGED << records, batch, manifest, budget, wait, silence, evidence >>
  /\ Locally

ExpireAtTop ==
  /\ reader = "top" /\ run = "alive"
  /\ Expiry(receive, subscription) # "none"
  /\ Return(Expiry(receive, subscription))
  /\ UNCHANGED << records, batch, manifest, budget, wait, silence, evidence >>
  /\ Locally

\* Seeded fault: every accepted record renews the subscription budget.
AcceptRenewsBoth(completion) ==
  /\ receive' = Timeout
  /\ pending' = (pending /\ ~completion)
  /\ subscription' = IF completion THEN 0 ELSE Timeout
  /\ silence' = 0
  /\ UNCHANGED outstanding

\* serverWaitBudget.accepted.
Accept(completion) ==
  /\ receive' = Timeout
  /\ pending' = (pending /\ ~completion)
  /\ subscription' = IF completion THEN 0 ELSE subscription
  /\ silence' = 0
  /\ UNCHANGED outstanding

\* The next complete record is r.
Take(r) == /\ Proceeds
           /\ records # << >>
           /\ r = Head(records)
           /\ records' = Tail(records)

TakeIgnored ==
  /\ Take("ignored")
  /\ Accept(FALSE)
  /\ UNCHANGED << reader, result, batch, manifest, wait, evidence >>
  /\ Locally

\* An undecodable record, a close, or a completion without a manifest.
TakeVerdict(r) ==
  LET v == IF r = "completion" THEN "invalid" ELSE r
  IN  /\ r \in { "invalid", "closed", "reconnect" } \/ (r = "completion" /\ ~manifest)
      /\ Take(r)
      /\ Return(v)
      /\ evidence' = v
      /\ UNCHANGED << batch, manifest, budget, wait, silence >>
      /\ Locally

\* Seeded fault: the manifest survives its completion.
TakeBatchKeepsManifest(r) ==
  /\ r = "feed" \/ (r = "completion" /\ manifest)
  /\ Take(r)
  /\ reader' = "callback" /\ batch' = r
  /\ UNCHANGED << result, manifest, budget, wait, silence, evidence >>
  /\ Locally

\* The manifest is consumed before the callback.
TakeBatch(r) ==
  /\ r = "feed" \/ (r = "completion" /\ manifest)
  /\ Take(r)
  /\ reader' = "callback" /\ batch' = r
  /\ manifest' = (manifest /\ r = "feed")
  /\ UNCHANGED << result, budget, wait, silence, evidence >>
  /\ Locally

\* Local work is not server wait: it spends no budget, however long it takes.
CallbackReturns ==
  /\ reader = "callback"
  /\ Accept(batch = "completion")
  /\ reader' = "top"
  /\ UNCHANGED << result, records, batch, manifest, wait, evidence >>
  /\ Locally

\* The callback rejects the batch (invalid data), or fails otherwise.
CallbackFails(r) ==
  /\ reader = "callback"
  /\ r \in { "invalid", "consumer" }
  /\ Return(r)
  /\ evidence' = IF r = "invalid" THEN r ELSE evidence
  /\ UNCHANGED << records, batch, manifest, budget, wait, silence >>
  /\ Locally

Await ==
  /\ Proceeds
  /\ records = << >>
  /\ reader' = "waiting" /\ wait' = 0
  /\ UNCHANGED << result, records, batch, manifest, budget, silence, evidence >>
  /\ Locally

\* Read returns: its elapsed time is charged to the budgets.
Charge ==
  /\ reader = "waiting"
  /\ receive' = Spent(receive, wait)
  /\ subscription' = IF pending THEN Spent(subscription, wait) ELSE subscription
  /\ UNCHANGED << pending, wait, batch, manifest, silence >>

\* Seeded fault: any message, not only a complete record, renews the budget.
ReadMessageRenews(m) ==
  /\ reader = "waiting" /\ socket = "open"
  /\ receive' = Timeout
  /\ subscription' = IF pending THEN Spent(subscription, wait) ELSE subscription
  /\ UNCHANGED << pending, wait, batch, manifest, silence >>
  /\ records' = records \o m /\ reader' = "top"
  /\ UNCHANGED << result, evidence >>
  /\ Locally

\* A message completes any number of records, none included.
ReadMessage(m) ==
  /\ Charge
  /\ socket = "open"
  /\ records' = records \o m /\ reader' = "top"
  /\ UNCHANGED << result, evidence >>
  /\ Locally

\* A binary message, or a frame the library rejects and closes the socket for.
ReadInvalid ==
  /\ Charge
  /\ socket = "open"
  /\ socket' \in { "open", "closed" }
  /\ Return("invalid")
  /\ evidence' = "invalid"
  /\ UNCHANGED << records, writing, contexts, pingErr, outstanding, overdue, interrupted >>

\* The Read's context has ended: its deadline is what remains of the budgets.
ReadCancelled == wait = Remaining \/ run # "alive"

\* Read fails; a Read whose context ends closes the socket.
ReadFails ==
  /\ Charge
  /\ ReadCancelled \/ socket = "closed"
  /\ socket' = "closed"
  /\ Return(CASE Expiry(receive', subscription') # "none" -> Expiry(receive', subscription')
              [] Expiry(receive', subscription') = "none" /\ run # "alive" -> "context"
              [] OTHER -> "transport")
  /\ UNCHANGED << records, evidence, writing, contexts, pingErr, outstanding, overdue, interrupted >>

\* The deferred function: stop, join the writer, choose the outcome.
Stop ==
  /\ reader = "returning"
  /\ reader' = "joining"
  /\ EndRun("canceled")
  /\ UNCHANGED << result, records, batch, manifest, budget, wait, writing, caller, callerIn,
                  pingErr, socket, silence, outstanding, evidence, overdue >>

\* Seeded fault: a ping failure hides a close that allows a reconnect.
OutcomeForgetsReconnect ==
  CASE CallerEnded -> "caller"
    [] ~CallerEnded /\ pingErr # "none" /\ result \notin { "invalid", "closed" } -> pingErr
    [] OTHER -> result

Outcome ==
  CASE CallerEnded -> "caller"
    [] ~CallerEnded /\ pingErr # "none" /\ result \notin { "invalid", "closed", "reconnect" } -> pingErr
    [] OTHER -> result

Join ==
  /\ reader = "joining"
  /\ writer = "stopped"
  /\ reader' = "returned" /\ result' = Outcome
  /\ UNCHANGED << records, batch, manifest, budget, wait, silence, evidence >>
  /\ Locally

-----------------------------------------------------------------------------
\* The writer leaves the reader and the caller alone.
Aside == UNCHANGED << reading, caller, callerIn, silence, outstanding, evidence >>

PingStops ==
  /\ writer = "idle" /\ run # "alive"
  /\ writer' = "stopped"
  /\ UNCHANGED << sinceOutbound, pingIn, writeFor, writeCtx, run, pingErr, socket, overdue, interrupted >>
  /\ Aside

PingDue ==
  /\ writer = "idle" /\ run = "alive"
  /\ pingIn = 0
  /\ writer' = "writing" /\ writeFor' = 0 /\ writeCtx' = "alive"
  /\ UNCHANGED << sinceOutbound, pingIn, run, pingErr, socket, overdue, interrupted >>
  /\ Aside

\* Seeded fault: the next interval starts with the write, not with its success.
PingWrittenFromStart ==
  /\ writer = "writing" /\ socket = "open"
  /\ writer' = "idle" /\ writeCtx' = "none"
  /\ sinceOutbound' = 0 /\ pingIn' = Spent(Interval, writeFor)
  /\ UNCHANGED << writeFor, run, pingErr, socket, overdue, interrupted >>
  /\ Aside

\* The write may win against the end of its context.
PingWritten ==
  /\ writer = "writing" /\ socket = "open"
  /\ writer' = "idle" /\ writeCtx' = "none"
  /\ sinceOutbound' = 0 /\ pingIn' = Interval
  /\ UNCHANGED << writeFor, run, pingErr, socket, overdue, interrupted >>
  /\ Aside

WriteDeadline ==
  /\ writer = "writing" /\ writeCtx = "alive"
  /\ writeFor = Timeout
  /\ writeCtx' = "deadline"
  /\ UNCHANGED << writing, run, pingErr, socket, overdue, interrupted >>
  /\ Aside

\* A write whose context ends closes the socket, before it returns.
WriteAborts ==
  /\ writer = "writing" /\ writeCtx # "alive"
  /\ socket = "open" /\ socket' = "closed"
  /\ UNCHANGED << writing, writeCtx, run, pingErr, overdue, interrupted >>
  /\ Aside

WriteFails ==
  /\ writer = "writing" /\ socket = "closed"
  /\ writer' = "failed"
  /\ overdue' = (overdue \/ writeCtx = "deadline")
  /\ UNCHANGED << sinceOutbound, pingIn, writeFor, writeCtx, run, pingErr, socket, interrupted >>
  /\ Aside

\* Seeded fault: the context is cancelled before it is asked whether it was.
PingCleanupAfterStop ==
  /\ writer = "failed"
  /\ EndRun("canceled")
  /\ writer' = IF writeCtx # "deadline" THEN "stopped" ELSE "reporting"
  /\ UNCHANGED << sinceOutbound, pingIn, writeFor, pingErr, socket, overdue >>
  /\ Aside

\* Is it the failure of a ping, or the clean-up of the read?
PingCleanup ==
  /\ writer = "failed"
  /\ writer' = IF run # "alive" /\ writeCtx # "deadline" THEN "stopped" ELSE "reporting"
  /\ UNCHANGED << sinceOutbound, pingIn, writeFor, writeCtx, run, pingErr, socket, overdue, interrupted >>
  /\ Aside

\* sanitizedTransportError asks the write's context again; then the writer stops
\* the read.
PingReports ==
  /\ writer = "reporting"
  /\ pingErr' = CASE writeCtx = "deadline" -> "pingDeadline"
                  [] writeCtx = "canceled" -> "pingCanceled"
                  [] OTHER -> "pingFailed"
  /\ writer' = "stopped"
  /\ EndRun("canceled")
  /\ UNCHANGED << sinceOutbound, pingIn, writeFor, socket, overdue >>
  /\ Aside

-----------------------------------------------------------------------------
\* The caller and the peer.
CallerEnds(how) ==
  /\ reader # "returned" /\ caller = "alive"
  /\ how = "deadline" => callerIn = 0
  /\ caller' = how
  /\ EndRun(how)
  /\ UNCHANGED << reading, writing, callerIn, pingErr, socket, silence, outstanding, evidence, overdue >>

PeerDrops ==
  /\ reader # "returned"
  /\ socket = "open" /\ socket' = "closed"
  /\ UNCHANGED << reading, writing, contexts, pingErr, history >>

\* A timer is due, or a goroutine that waits has been woken.
Due ==
  \/ reader = "waiting" /\ ReadCancelled
  \/ writer = "idle" /\ (pingIn = 0 \/ run # "alive")
  \/ writer = "writing" /\ (writeFor = Timeout \/ writeCtx # "alive")
  \/ writer \in { "failed", "reporting" }
  \/ caller = "alive" /\ callerIn = 0

\* Beyond Timeout the histories tell nothing more.
Longer(t) == IF t <= Timeout THEN t + 1 ELSE t

\* Seeded fault: local processing is charged like server wait.
TickAlwaysWaits ==
  /\ reader # "returned" /\ ~Due
  /\ wait' = IF reader = "waiting" THEN wait + 1 ELSE wait
  /\ receive' = IF reader = "callback" THEN Spent(receive, 1) ELSE receive
  /\ silence' = IF reader = "waiting" THEN Longer(silence) ELSE silence
  /\ outstanding' = IF reader = "waiting" /\ pending THEN Longer(outstanding) ELSE outstanding
  /\ sinceOutbound' = IF writer = "stopped" THEN sinceOutbound ELSE sinceOutbound + 1
  /\ pingIn' = IF writer = "idle" THEN pingIn - 1 ELSE pingIn
  /\ writeFor' = IF writer = "writing" THEN writeFor + 1 ELSE writeFor
  /\ callerIn' = IF caller = "alive" /\ callerIn > 0 THEN callerIn - 1 ELSE callerIn
  /\ UNCHANGED << reader, result, records, batch, manifest, subscription, pending, writer, writeCtx,
                  caller, run, pingErr, socket, evidence, overdue, interrupted >>

Tick ==
  /\ reader # "returned" /\ ~Due
  /\ wait' = IF reader = "waiting" THEN wait + 1 ELSE wait
  /\ silence' = IF reader = "waiting" THEN Longer(silence) ELSE silence
  /\ outstanding' = IF reader = "waiting" /\ pending THEN Longer(outstanding) ELSE outstanding
  /\ sinceOutbound' = IF writer = "stopped" THEN sinceOutbound ELSE sinceOutbound + 1
  /\ pingIn' = IF writer = "idle" THEN pingIn - 1 ELSE pingIn
  /\ writeFor' = IF writer = "writing" THEN writeFor + 1 ELSE writeFor
  /\ callerIn' = IF caller = "alive" /\ callerIn > 0 THEN callerIn - 1 ELSE callerIn
  /\ UNCHANGED << reader, result, records, batch, manifest, budget, writer, writeCtx,
                  caller, run, pingErr, socket, evidence, overdue, interrupted >>

Returned == reader = "returned" /\ UNCHANGED vars

Next ==
  \/ StopAtTop \/ ExpireAtTop \/ TakeIgnored
  \/ \E r \in Records : TakeVerdict(r) \/ TakeBatch(r)
  \/ CallbackReturns
  \/ \E r \in { "invalid", "consumer" } : CallbackFails(r)
  \/ Await
  \/ \E m \in Messages : ReadMessage(m)
  \/ ReadInvalid \/ ReadFails \/ Stop \/ Join
  \/ PingStops \/ PingDue \/ PingWritten \/ WriteDeadline \/ WriteAborts \/ WriteFails
  \/ PingCleanup \/ PingReports
  \/ \E how \in { "canceled", "deadline" } : CallerEnds(how)
  \/ PeerDrops
  \/ Tick \/ Returned

Spec == Init /\ [][Next]_vars

\* The loop, the callback, the library and both goroutines proceed, timers fire,
\* and Reads take time, however often the server sends: it does not for ever send
\* just before the clock or the writer would have moved.
Loop == \/ StopAtTop \/ ExpireAtTop \/ TakeIgnored \/ Await \/ Stop \/ Join
        \/ \E r \in Records : TakeVerdict(r) \/ TakeBatch(r)

Callback == CallbackReturns \/ \E r \in { "invalid", "consumer" } : CallbackFails(r)

Pings == PingStops \/ PingDue \/ WriteAborts \/ WriteFails \/ PingCleanup \/ PingReports

Fairness ==
  /\ WF_vars(Loop) /\ WF_vars(Callback) /\ WF_vars(ReadFails)
  /\ WF_vars(Pings) /\ WF_vars(WriteDeadline) /\ WF_vars(CallerEnds("deadline"))
  /\ SF_vars(reader = "waiting" /\ Tick)
  /\ SF_vars(reader = "waiting" /\ Pings)
  /\ SF_vars(reader = "waiting" /\ WriteDeadline)
  /\ SF_vars(reader = "waiting" /\ CallerEnds("deadline"))

FairSpec == Spec /\ Fairness

-----------------------------------------------------------------------------
ContextStates == { "alive", "canceled", "deadline" }
Results == { "none", "context", "receiveTimeout", "subscriptionTimeout", "invalid", "closed",
             "reconnect", "consumer", "transport", "pingFailed", "pingDeadline", "pingCanceled",
             "caller" }

\* Types, and what bounds the countdowns: a budget never leaves 0..Timeout.
TypeOK ==
  /\ reader \in { "top", "callback", "waiting", "returning", "joining", "returned" }
  /\ result \in Results
  /\ records \in Seq(Records)
  /\ batch \in { "none", "feed", "completion" }
  /\ manifest \in BOOLEAN /\ pending \in BOOLEAN
  /\ receive \in 0..Timeout /\ subscription \in 0..Timeout
  /\ wait \in 0..Timeout
  /\ writer \in { "idle", "writing", "failed", "reporting", "stopped" }
  /\ sinceOutbound \in Nat /\ pingIn \in 0..Interval /\ writeFor \in 0..Timeout
  /\ writeCtx \in ContextStates \cup { "none" }
  /\ pingErr \in { "none", "pingFailed", "pingDeadline", "pingCanceled" }
  /\ caller \in ContextStates /\ callerIn \in Nat \cup {NoDeadline}
  /\ run \in ContextStates
  /\ socket \in { "open", "closed" }
  /\ silence \in Nat /\ outstanding \in Nat
  /\ evidence \in { "none", "invalid", "closed", "reconnect" }
  /\ overdue \in BOOLEAN /\ interrupted \in BOOLEAN

\* The part of the silence that is not charged yet.
Uncharged == IF reader = "waiting" THEN wait ELSE 0

\* The budgets are the server wait that is left, whatever was processed in
\* between and however messages were cut: the connection never waits longer than
\* Timeout for a record or for the completion of Subscribe, and a timeout is
\* reported only when the server had all of it (liveness.go; connection.go 318, 338, 345).
ServerWait ==
  /\ Spent(receive, Uncharged) = Spent(Timeout, silence)
  /\ pending => Spent(subscription, Uncharged) = Spent(Timeout, outstanding)
  /\ reader = "waiting" => silence <= Timeout /\ (pending => outstanding <= Timeout)
  /\ result = "receiveTimeout" => silence >= Timeout
  /\ result = "subscriptionTimeout" => pending /\ outstanding >= Timeout

\* A ping is due Interval after the last successful write, Subscribe's or a
\* ping's, whatever the reader does meanwhile; none is sent earlier, and its write
\* is cut off after Timeout (liveness_runtime.go).
KeepalivePaced ==
  /\ writer = "idle" => pingIn = Spent(Interval, sinceOutbound)
  /\ writer = "writing" => sinceOutbound - writeFor >= Interval /\ writeFor <= Timeout

\* An invalid or closing record the reader decoded decides the outcome, after the caller's end alone; and a ping
\* that failed at its own deadline decides it otherwise, even though the closed
\* socket may have woken the reader first (connection.go 297-308).
OutcomeRanks ==
  reader = "returned" =>
    \/ result = "caller"
    \/ evidence # "none" /\ result = evidence
    \/ evidence = "none" /\ (overdue => result = "pingDeadline")

\* The end of the run's context is never the outcome: it ended for the caller or
\* for a ping's failure, and that is what read returns (connection.go 315, 305-308).
CauseIsKept == reader = "returned" => result # "context"

\* What read returns is what ended it, whatever else failed in the same instant: a
\* decoded verdict is not lost to the writer or the clean-up, and no context that
\* ended for a reason stands for the reason (connection.go 294-309).
OutcomeIsItsCause == OutcomeRanks /\ CauseIsKept

\* After the run's context ended during a callback no other batch is delivered
\* (connection.go 315).
NoDeliveryAfterInterruption ==
  [][interrupted /\ reader' = "callback" => reader = "callback"]_vars

\* Subscribe's completion comes or the connection ends, even though the server
\* sends other records for ever (liveness.go 47-54).
SubscriptionSettles == <>(~pending \/ reader = "returned")

\* A server that sends no complete record, or fragments of one for ever, is
\* given up on (connection.go 343-345).
SilenceIsDetected == []<><<TakeIgnored \/ CallbackReturns>>_vars \/ <>(reader = "returned")

\* A server that keeps the connection from being of use, by answers without the
\* completion or by no records at all, is given up on (serverWaitBudget).
ServerIsGivenUpOn == SubscriptionSettles /\ SilenceIsDetected

\* A ping that the clean-up of the read interrupts is no ping failure
\* (liveness_runtime.go 34).
CleanupIsNoPingFailure == reader = "returned" => result # "pingCanceled"

\* What InputRun takes from a connection.
Session == INSTANCE HubSession WITH
  delivering <- IF reader = "callback" THEN batch ELSE "none",
  completed  <- ~manifest,
  ended      <- CallerEnded,
  verdict    <- CASE reader # "returned" -> "none"
                  [] reader = "returned" /\ result \in { "caller", "invalid", "closed" } -> result
                  [] OTHER -> "transient"

\* read keeps the contract its caller is modelled with: batches one at a time, at
\* most one completion, then one verdict, the caller's end if and only if the
\* caller ended, and that one without fail (connection.go 267-363).
KeepsSession == Session!FairSpec
=============================================================================
