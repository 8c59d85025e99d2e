------------------------------ MODULE Lifecycle ------------------------------
(***************************************************************************)
(* The life of the receivers that one configuration is served by: creation *)
(* through the factory's map, Start and Shutdown by the signals that share *)
(* a receiver (factory.go, receiver.go), and the reporter's cleanup worker *)
(* (operational_reporter.go).                                              *)
(*                                                                         *)
(* Every receiver ever constructed is an instance 1, 2, ...  The Collector *)
(* calls Start and Shutdown for each signal, with a context of its own for *)
(* each call; no Start overlaps the initiation of a Shutdown.  An input    *)
(* run, a metric observation, a periodic report and the SDK's Unregister   *)
(* may take as long as they like.                                          *)
(***************************************************************************)
EXTENDS Naturals

CONSTANTS
  Signals,       \* the pipelines' signal types, which share a receiver
  MaxInstances,  \* receivers constructed, failed constructions included
  MaxObservers   \* metric callbacks of one instance running at once

ASSUME LifecycleAssumption ==
  /\ MaxInstances \in Nat
  /\ MaxObservers \in Nat

VARIABLES
  born,           \* instances constructed so far
  receivers,      \* the map's entry for the configuration, or None
  published,      \* the instance was stored in the map
  stopping,       \* the atomic stopping flag
  startOnce,      \* startOnce: "idle", "running" or "done"
  startErr,       \* the shared Start failed
  stopOnce,       \* the shared receiver's stopOnce
  inputCancelled, \* the input run's context is cancelled
  run,            \* the input run's goroutine: "none", "running" or "done"
  tickerCancelled,\* the reporter's context is cancelled
  ticker,         \* the periodic goroutine: "none", "on", "reporting" or "done"
  enabled,        \* callbackEnabled
  observers,      \* callbacks that hold the callback lock and observe
  registration,   \* the SDK's registration: "none", "live", "gone" or "retained"
  worker,         \* the line the cleanup worker is at
  pc,             \* per signal, the line of the call it is in
  holds,          \* per signal, the instance it was given, or None
  expired         \* per signal, the context of its call has ended

mapVars    == << born, receivers, published >>
guards     == << stopping, startOnce, startErr, stopOnce >>
input      == << inputCancelled, run >>
reporting  == << tickerCancelled, ticker >>
telemetry  == << enabled, observers, registration >>
caller     == << pc, holds, expired >>
instance   == << guards, input, reporting, telemetry, worker >>
vars       == << mapVars, instance, caller >>

None == 0
Instances == 1 .. MaxInstances

Once == { "idle", "running", "done" }
WorkerLabels == { "none", "spawned", "draining", "join", "unregister", "joinInput",
                  "remove", "closing", "done" }

\* No call is under way: the last one returned nil from Start ("started") or from
\* Shutdown ("stopped"), or returned anything else.
Idle == { "idle", "started", "stopped" }
Starting == { "once", "connecting", "startWait" }
Initiating == { "stopOnce", "cancel", "beginStop" }
Stopping == Initiating \cup { "waitRun", "waitStop" }

\* The input run of i never existed or its done channel is closed.
RunEnded(i) == run[i] \in {"none", "done"}
TickerEnded(i) == ticker[i] \in {"none", "done"}

Init ==
  /\ born = 0
  /\ receivers = None
  /\ published = [i \in Instances |-> FALSE]
  /\ stopping = [i \in Instances |-> FALSE]
  /\ startOnce = [i \in Instances |-> "idle"]
  /\ startErr = [i \in Instances |-> FALSE]
  /\ stopOnce = [i \in Instances |-> "idle"]
  /\ inputCancelled = [i \in Instances |-> FALSE]
  /\ run = [i \in Instances |-> "none"]
  /\ tickerCancelled = [i \in Instances |-> FALSE]
  /\ ticker = [i \in Instances |-> "none"]
  /\ enabled = [i \in Instances |-> FALSE]
  /\ observers = [i \in Instances |-> 0]
  /\ registration = [i \in Instances |-> "none"]
  /\ worker = [i \in Instances |-> "none"]
  /\ pc = [s \in Signals |-> "idle"]
  /\ holds = [s \in Signals |-> None]
  /\ expired = [s \in Signals |-> FALSE]

Goto(s, l) == pc' = [pc EXCEPT ![s] = l]

\* Every call has a context of its own.
Call(s, l) == Goto(s, l) /\ expired' = [expired EXCEPT ![s] = FALSE]

-----------------------------------------------------------------------------
(* Creation through the factory.                                           *)

\* The map's mutex, which a construction holds while it waits for the cleanup of
\* a partial registration.
MapUnlocked == \A s \in Signals : pc[s] # "constructing"

\* A signal asks for a receiver: it has none yet or its old one is stopping.
MayCreate(s) ==
  /\ pc[s] \in Idle
  /\ holds[s] # None => stopping[holds[s]]
  /\ MapUnlocked

Fresh == born + 1

\* The telemetry of the new instance is enabled before anyone can find it.
CreateNew(s) ==
  /\ MayCreate(s)
  /\ receivers = None
  /\ Fresh \in Instances
  /\ born' = Fresh
  /\ receivers' = Fresh
  /\ published' = [published EXCEPT ![Fresh] = TRUE]
  /\ enabled' = [enabled EXCEPT ![Fresh] = TRUE]
  /\ registration' = [registration EXCEPT ![Fresh] = "live"]
  /\ holds' = [holds EXCEPT ![s] = Fresh]
  /\ Call(s, "idle")
  /\ UNCHANGED << guards, input, reporting, observers, worker >>

CreateShared(s) ==
  /\ MayCreate(s)
  /\ receivers # None
  /\ ~stopping[receivers]
  /\ holds' = [holds EXCEPT ![s] = receivers]
  /\ Call(s, "idle")
  /\ UNCHANGED << mapVars, instance >>

\* An instrument cannot be made: nothing was registered yet.
CreateUninstrumented(s) ==
  /\ MayCreate(s)
  /\ receivers = None
  /\ Call(s, "idle")
  /\ UNCHANGED << mapVars, instance, holds >>

\* errReceiverStopping.
CreateRefused(s) ==
  /\ MayCreate(s)
  /\ receivers # None
  /\ stopping[receivers]
  /\ Call(s, "idle")
  /\ UNCHANGED << mapVars, instance, holds >>

\* The SDK refuses the callback, perhaps after it made a registration: the cleanup
\* worker takes over and nothing is published.
CreatePartial(s) ==
  /\ MayCreate(s)
  /\ receivers = None
  /\ Fresh \in Instances
  /\ born' = Fresh
  /\ \E kept \in {"none", "live"} :
       registration' = [registration EXCEPT ![Fresh] = kept]
  /\ worker' = [worker EXCEPT ![Fresh] = "spawned"]
  /\ Call(s, "constructing")
  /\ UNCHANGED << receivers, published, guards, input, reporting, enabled, observers,
                  holds >>

CreateFails(s) ==
  /\ pc[s] = "constructing"
  /\ worker[born] = "done" \/ expired[s]
  /\ Goto(s, "idle")
  /\ UNCHANGED << mapVars, instance, holds, expired >>

-----------------------------------------------------------------------------
(* Start.                                                                  *)

\* The host registers for statuses here (StatusBroadcast).
StartBegins(s) ==
  /\ pc[s] \in Idle
  /\ \A t \in Signals : pc[t] \notin Initiating
  /\ holds[s] # None
  /\ Call(s, IF stopping[holds[s]] THEN "idle" ELSE "once")
  /\ UNCHANGED << mapVars, instance, holds >>

StartFirst(s) ==
  /\ pc[s] = "once"
  /\ startOnce[holds[s]] = "idle"
  /\ startOnce' = [startOnce EXCEPT ![holds[s]] = "running"]
  /\ Goto(s, "connecting")
  /\ UNCHANGED << mapVars, stopping, startErr, stopOnce, input, reporting, telemetry,
                  worker, holds, expired >>

\* Seeded fault: the second Start sees the flag of the first and does not wait.
StartLaterUnwaiting(s) ==
  /\ pc[s] = "once"
  /\ startOnce[holds[s]] # "idle"
  /\ Goto(s, IF startErr[holds[s]] THEN "idle" ELSE "started")
  /\ UNCHANGED << mapVars, instance, holds, expired >>

\* A later Start waits for the first and returns its result.
StartLater(s) ==
  /\ pc[s] = "once"
  /\ startOnce[holds[s]] = "done"
  /\ Goto(s, IF startErr[holds[s]] THEN "idle" ELSE "started")
  /\ UNCHANGED << mapVars, instance, holds, expired >>

\* Nothing can stop the receiver before Start returns.
ConnectSucceeds(s) ==
  /\ pc[s] = "connecting"
  /\ run' = [run EXCEPT ![holds[s]] = "running"]
  /\ ticker' = [ticker EXCEPT ![holds[s]] = "on"]
  /\ startOnce' = [startOnce EXCEPT ![holds[s]] = "done"]
  /\ Goto(s, "started")
  /\ UNCHANGED << mapVars, stopping, startErr, stopOnce, inputCancelled, tickerCancelled,
                  telemetry, worker, holds, expired >>

\* Seeded fault: the periodic reporter is not cancelled.
StopKeepsTicker(i) ==
  /\ stopping' = [stopping EXCEPT ![i] = TRUE]
  /\ worker' = [worker EXCEPT ![i] = IF @ = "none" THEN "spawned" ELSE @]
  /\ UNCHANGED tickerCancelled

\* beginStop of the reporter of i, which acts only once.
Stop(i) ==
  IF worker[i] = "none"
  THEN /\ stopping' = [stopping EXCEPT ![i] = TRUE]
       /\ tickerCancelled' = [tickerCancelled EXCEPT ![i] = ticker[i] # "none"]
       /\ worker' = [worker EXCEPT ![i] = "spawned"]
  ELSE UNCHANGED << stopping, tickerCancelled, worker >>

ConnectFails(s) ==
  /\ pc[s] = "connecting"
  /\ Stop(holds[s])
  /\ Goto(s, "startWait")
  /\ UNCHANGED << mapVars, startOnce, startErr, stopOnce, input, ticker, telemetry,
                  holds, expired >>

StartFails(s) ==
  /\ pc[s] = "startWait"
  /\ worker[holds[s]] = "done" \/ expired[s]
  /\ startErr' = [startErr EXCEPT ![holds[s]] = TRUE]
  /\ startOnce' = [startOnce EXCEPT ![holds[s]] = "done"]
  /\ Goto(s, "idle")
  /\ UNCHANGED << mapVars, stopping, stopOnce, input, reporting, telemetry, worker,
                  holds, expired >>

-----------------------------------------------------------------------------
(* Shutdown.                                                               *)

ShutdownBegins(s) ==
  /\ pc[s] \in Idle
  /\ holds[s] # None
  /\ \A t \in Signals : pc[t] \notin Starting
  /\ Call(s, "stopOnce")
  /\ UNCHANGED << mapVars, instance, holds >>

ShutdownFirst(s) ==
  /\ pc[s] = "stopOnce"
  /\ stopOnce[holds[s]] = "idle"
  /\ stopOnce' = [stopOnce EXCEPT ![holds[s]] = "running"]
  /\ stopping' = [stopping EXCEPT ![holds[s]] = TRUE]
  /\ Goto(s, "cancel")
  /\ UNCHANGED << mapVars, startOnce, startErr, input, reporting, telemetry, worker,
                  holds, expired >>

ShutdownLater(s) ==
  /\ pc[s] = "stopOnce"
  /\ stopOnce[holds[s]] = "done"
  /\ Goto(s, "waitRun")
  /\ UNCHANGED << mapVars, instance, holds, expired >>

\* beginShutdown: a receiver that was never started has nothing to cancel.
CancelInput(s) ==
  /\ pc[s] = "cancel"
  /\ inputCancelled' = [inputCancelled EXCEPT ![holds[s]] = run[holds[s]] # "none"]
  /\ Goto(s, "beginStop")
  /\ UNCHANGED << mapVars, guards, run, reporting, telemetry, worker, holds, expired >>

\* Seeded fault: the wait of the first caller happens inside stopOnce.
BeginStopThenJoins(s) ==
  /\ pc[s] = "beginStop"
  /\ Stop(holds[s])
  /\ IF worker[holds[s]] = "done" \/ expired[s]
     THEN /\ stopOnce' = [stopOnce EXCEPT ![holds[s]] = "done"]
          /\ Goto(s, "waitRun")
     ELSE UNCHANGED << stopOnce, pc >>
  /\ UNCHANGED << mapVars, startOnce, startErr, input, ticker, telemetry, holds, expired >>

BeginStop(s) ==
  /\ pc[s] = "beginStop"
  /\ Stop(holds[s])
  /\ stopOnce' = [stopOnce EXCEPT ![holds[s]] = "done"]
  /\ Goto(s, "waitRun")
  /\ UNCHANGED << mapVars, startOnce, startErr, input, ticker, telemetry, holds, expired >>

ShutdownJoinsRun(s) ==
  /\ pc[s] = "waitRun"
  /\ ~expired[s] /\ RunEnded(holds[s])
  /\ Goto(s, "waitStop")
  /\ UNCHANGED << mapVars, instance, holds, expired >>

\* Seeded fault: the wait is for the telemetry cleanup and not for the worker.
ShutdownReturnsAfterCleanup(s) ==
  /\ pc[s] = "waitStop"
  /\ ~expired[s] /\ worker[holds[s]] \in {"joinInput", "remove", "closing", "done"}
  /\ Goto(s, "stopped")
  /\ UNCHANGED << mapVars, instance, holds, expired >>

ShutdownReturns(s) ==
  /\ pc[s] = "waitStop"
  /\ ~expired[s] /\ worker[holds[s]] = "done"
  /\ Goto(s, "stopped")
  /\ UNCHANGED << mapVars, instance, holds, expired >>

\* A context that has ended wins over a channel that is closed.
ShutdownTimesOut(s) ==
  /\ pc[s] \in {"waitRun", "waitStop"}
  /\ expired[s]
  /\ Goto(s, "idle")
  /\ UNCHANGED << mapVars, instance, holds, expired >>

Expire(s) ==
  /\ pc[s] \notin Idle
  /\ ~expired[s]
  /\ expired' = [expired EXCEPT ![s] = TRUE]
  /\ UNCHANGED << mapVars, instance, pc, holds >>

-----------------------------------------------------------------------------
(* The cleanup worker of an instance.                                      *)

\* From here on a pending writer keeps new observations out.
Drain(i) ==
  /\ worker[i] = "spawned"
  /\ worker' = [worker EXCEPT ![i] = "draining"]
  /\ UNCHANGED << mapVars, guards, input, reporting, telemetry, caller >>

Disable(i) ==
  /\ worker[i] = "draining"
  /\ observers[i] = 0
  /\ enabled' = [enabled EXCEPT ![i] = FALSE]
  /\ worker' = [worker EXCEPT ![i] = "join"]
  /\ UNCHANGED << mapVars, guards, input, reporting, observers, registration, caller >>

JoinTicker(i) ==
  /\ worker[i] = "join"
  /\ TickerEnded(i)
  /\ worker' = [worker EXCEPT ![i] = "unregister"]
  /\ UNCHANGED << mapVars, guards, input, reporting, telemetry, caller >>

\* A failed Unregister may leave the callback with the SDK.  Only a published
\* instance has an afterCleanup.
Unregister(i) ==
  /\ worker[i] = "unregister"
  /\ IF registration[i] = "live"
     THEN \E left \in {"gone", "retained"} :
            registration' = [registration EXCEPT ![i] = left]
     ELSE UNCHANGED registration
  /\ worker' = [worker EXCEPT ![i] = IF published[i] THEN "joinInput" ELSE "done"]
  /\ UNCHANGED << mapVars, guards, input, reporting, enabled, observers, caller >>

\* Seeded fault: the reservation is given up without joining the input run.
JoinInputUnwaiting(i) ==
  /\ worker[i] = "joinInput"
  /\ worker' = [worker EXCEPT ![i] = "remove"]
  /\ UNCHANGED << mapVars, guards, input, reporting, telemetry, caller >>

JoinInput(i) ==
  /\ worker[i] = "joinInput"
  /\ RunEnded(i)
  /\ worker' = [worker EXCEPT ![i] = "remove"]
  /\ UNCHANGED << mapVars, guards, input, reporting, telemetry, caller >>

Remove(i) ==
  /\ worker[i] = "remove"
  /\ MapUnlocked
  /\ receivers' = IF receivers = i THEN None ELSE receivers
  /\ worker' = [worker EXCEPT ![i] = "closing"]
  /\ UNCHANGED << born, published, guards, input, reporting, telemetry, caller >>

CloseStop(i) ==
  /\ worker[i] = "closing"
  /\ worker' = [worker EXCEPT ![i] = "done"]
  /\ UNCHANGED << mapVars, guards, input, reporting, telemetry, caller >>

-----------------------------------------------------------------------------
(* What runs beside them.                                                  *)

\* The run ends when it is cancelled or fails for good.
EndRun(i) ==
  /\ run[i] = "running"
  /\ run' = [run EXCEPT ![i] = "done"]
  /\ UNCHANGED << mapVars, guards, inputCancelled, reporting, telemetry, worker, caller >>

TickerFires(i) ==
  /\ ticker[i] = "on"
  /\ ticker' = [ticker EXCEPT ![i] = "reporting"]
  /\ UNCHANGED << mapVars, guards, input, tickerCancelled, telemetry, worker, caller >>

TickerReports(i) ==
  /\ ticker[i] = "reporting"
  /\ ticker' = [ticker EXCEPT ![i] = "on"]
  /\ UNCHANGED << mapVars, guards, input, tickerCancelled, telemetry, worker, caller >>

TickerStops(i) ==
  /\ ticker[i] = "on"
  /\ tickerCancelled[i]
  /\ ticker' = [ticker EXCEPT ![i] = "done"]
  /\ UNCHANGED << mapVars, guards, input, tickerCancelled, telemetry, worker, caller >>

\* The SDK collects: a callback that finds itself disabled observes nothing.
Observe(i) ==
  /\ registration[i] \in {"live", "retained"}
  /\ worker[i] # "draining"
  /\ enabled[i]
  /\ observers[i] < MaxObservers
  /\ observers' = [observers EXCEPT ![i] = @ + 1]
  /\ UNCHANGED << mapVars, guards, input, reporting, enabled, registration, worker, caller >>

Observed(i) ==
  /\ observers[i] > 0
  /\ observers' = [observers EXCEPT ![i] = @ - 1]
  /\ UNCHANGED << mapVars, guards, input, reporting, enabled, registration, worker, caller >>

-----------------------------------------------------------------------------
Create(s) == \/ CreateNew(s) \/ CreateShared(s) \/ CreateRefused(s)
             \/ CreateUninstrumented(s) \/ CreatePartial(s) \/ CreateFails(s)

Start(s) == \/ StartBegins(s) \/ StartFirst(s) \/ StartLater(s)
            \/ ConnectSucceeds(s) \/ ConnectFails(s) \/ StartFails(s)

ShutdownWaits(s) == \/ ShutdownJoinsRun(s) \/ ShutdownReturns(s) \/ ShutdownTimesOut(s)

ShutdownStarts(s) == \/ ShutdownFirst(s) \/ ShutdownLater(s)
                     \/ CancelInput(s) \/ BeginStop(s)

Worker(i) == \/ Drain(i) \/ Disable(i) \/ JoinTicker(i) \/ Unregister(i)
             \/ JoinInput(i) \/ Remove(i) \/ CloseStop(i)

Beside(i) == \/ EndRun(i) \/ TickerFires(i) \/ TickerReports(i) \/ TickerStops(i)
             \/ Observe(i) \/ Observed(i)

Next ==
  \/ \E s \in Signals : \/ Create(s) \/ Start(s) \/ ShutdownBegins(s)
                        \/ ShutdownStarts(s) \/ ShutdownWaits(s) \/ Expire(s)
  \/ \E i \in Instances : Worker(i) \/ Beside(i)

Spec == Init /\ [][Next]_vars

\* The goroutines that call are scheduled; nothing they wait for need ever happen.
CallerFairness == \A s \in Signals : WF_vars(ShutdownStarts(s)) /\ WF_vars(ShutdownWaits(s))

CallerSpec == Spec /\ CallerFairness

\* Beyond that, what was cancelled ends: the input run, a periodic report, an
\* admitted observation and Unregister return.  The worker is scheduled and the
\* map's mutex and the ticker's select are fair to it.
ServiceFairness ==
  \A i \in Instances :
    /\ WF_vars(Drain(i)) /\ WF_vars(Disable(i)) /\ WF_vars(JoinTicker(i))
    /\ WF_vars(Unregister(i)) /\ WF_vars(JoinInput(i)) /\ WF_vars(CloseStop(i))
    /\ SF_vars(Remove(i))
    /\ WF_vars(inputCancelled[i] /\ EndRun(i))
    /\ WF_vars(TickerReports(i)) /\ SF_vars(TickerStops(i))
    /\ WF_vars(Observed(i))

CreatorFairness == \A s \in Signals : WF_vars(CreateFails(s))

FairSpec == CallerSpec /\ ServiceFairness /\ CreatorFairness
-----------------------------------------------------------------------------
(* Properties.                                                             *)

TypeOK ==
  /\ born \in 0 .. MaxInstances
  /\ receivers \in 0 .. born
  /\ published \in [Instances -> BOOLEAN]
  /\ stopping \in [Instances -> BOOLEAN]
  /\ startOnce \in [Instances -> Once]
  /\ startErr \in [Instances -> BOOLEAN]
  /\ stopOnce \in [Instances -> Once]
  /\ inputCancelled \in [Instances -> BOOLEAN]
  /\ run \in [Instances -> {"none", "running", "done"}]
  /\ tickerCancelled \in [Instances -> BOOLEAN]
  /\ ticker \in [Instances -> {"none", "on", "reporting", "done"}]
  /\ enabled \in [Instances -> BOOLEAN]
  /\ observers \in [Instances -> 0 .. MaxObservers]
  /\ registration \in [Instances -> {"none", "live", "gone", "retained"}]
  /\ worker \in [Instances -> WorkerLabels]
  /\ pc \in [Signals -> Idle \cup Starting \cup Stopping \cup {"constructing"}]
  /\ holds \in [Signals -> 0 .. born]
  /\ expired \in [Signals -> BOOLEAN]

\* The instance still has something of its own at work.
Alive(i) == \/ \E s \in Signals : holds[s] = i /\ pc[s] = "connecting"
            \/ ~RunEnded(i) \/ ~TickerEnded(i)
            \/ enabled[i] \/ observers[i] > 0

\* The map's entry covers everything its receiver runs: as long as an instance
\* connects, reads, reports or observes, or its cleanup is not over, it is the
\* entry, so that none is created beside it, whatever deadline ran out.
ReservationCoversLife ==
  \A i \in Instances :
    /\ Alive(i) => receivers = i
    /\ published[i] /\ worker[i] \notin {"closing", "done"} => receivers = i

\* A Shutdown that returned nil left nothing behind: run, ticker, observations and
\* worker have ended and the entry is free, and so it stays.
CleanShutdown ==
  \A s \in Signals : pc[s] = "stopped" =>
    /\ ~Alive(holds[s])
    /\ worker[holds[s]] = "done"
    /\ receivers # holds[s]

\* A Start that returned nil, the first or a later one, has started the input.
StartTellsTruth ==
  \A s \in Signals : pc[s] = "started" => run[holds[s]] # "none"

\* A receiver that is stopping is not handed out, connected, started or enabled
\* again, by whatever calls of its signals.
StopIsPermanent ==
  [][\A i \in Instances : stopping[i] =>
       /\ stopping'[i]
       /\ run'[i] = "running" => run[i] = "running"
       /\ ticker'[i] = "on" => ticker[i] \in {"on", "reporting"}
       /\ enabled'[i] => enabled[i]
       /\ \A s \in Signals : holds'[s] = i => holds[s] = i]_vars

\* A Shutdown whose context ends returns, although the run, the cleanup and every
\* other caller may be stuck for ever.
PromptShutdown ==
  \A s \in Signals : (expired[s] /\ pc[s] \in Stopping) ~> (pc[s] \in Idle)

-----------------------------------------------------------------------------
(* The instances implement Reservation.                                    *)

Phase(i) ==
  IF ~published[i] THEN "unborn"
  ELSE IF worker[i] \in {"closing", "done"} THEN "released"
  ELSE IF stopping[i] THEN "stopping"
  ELSE IF run[i] # "none" THEN "live" ELSE "held"

Phases == [i \in Instances |-> Phase(i)]

Reserved == INSTANCE Reservation WITH phase <- Phases

\* At most one receiver exists at a time, each goes through its phases once and
\* in order, and one that is told to stop is released.
KeepsReservation == Reserved!Spec
=============================================================================
