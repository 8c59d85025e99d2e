--------------------------- MODULE LifecycleProofs ---------------------------
(***************************************************************************)
(* Theorems about Lifecycle, for any signals, instances and observers.     *)
(***************************************************************************)
EXTENDS Lifecycle, TLAPS

-----------------------------------------------------------------------------
(* The inductive invariant.                                                *)

\* An instance that was not constructed has nothing.
NothingUnborn ==
  \A i \in Instances : i > born =>
    /\ ~published[i] /\ ~stopping[i] /\ startOnce[i] = "idle"
    /\ run[i] = "none" /\ ticker[i] = "none" /\ worker[i] = "none"
    /\ ~enabled[i] /\ observers[i] = 0

\* The entry is a published instance, and of the published ones the only one whose
\* cleanup is not over.
EntryInv ==
  /\ receivers # None => published[receivers]
  /\ \A i \in Instances :
       IF worker[i] \in {"closing", "done"} THEN receivers # i
                                            ELSE published[i] => receivers = i

\* What an instance runs ends at the line of the worker that joins it.
ExtentInv ==
  \A i \in Instances :
    /\ enabled[i] \/ observers[i] > 0 =>
         published[i] /\ worker[i] \in {"none", "spawned", "draining"}
    /\ ~TickerEnded(i) =>
         published[i] /\ worker[i] \in {"none", "spawned", "draining", "join"}
    /\ ~RunEnded(i) =>
         published[i] /\ worker[i] \notin {"remove", "closing", "done"}
    /\ published[i] /\ worker[i] # "none" => stopping[i]

\* No Start overlaps the initiation of a Shutdown.
TurnsInv ==
  \A s, t \in Signals : pc[s] \in Initiating => pc[t] \notin Starting

\* One signal at most is inside the startOnce of an instance, which is then not
\* stopping unless this Start failed.
StartInv ==
  /\ \A s \in Signals :
       /\ pc[s] \in {"connecting", "startWait"} => startOnce[holds[s]] = "running"
       /\ pc[s] = "connecting" => worker[holds[s]] = "none" /\ ~stopping[holds[s]]
       /\ pc[s] = "once" /\ startOnce[holds[s]] = "idle" =>
            worker[holds[s]] = "none" /\ ~stopping[holds[s]]
       /\ \A t \in Signals \ {s} :
            /\ pc[s] \in {"connecting", "startWait"}
            /\ pc[t] \in {"connecting", "startWait"}
            => holds[s] # holds[t]
  /\ \A i \in Instances : startOnce[i] = "done" /\ ~startErr[i] => run[i] # "none"

\* A signal in a call holds a published instance, and what the last call returned
\* is so.
HoldInv ==
  \A s \in Signals :
    /\ pc[s] \notin {"idle", "constructing"} => holds[s] # None
    /\ holds[s] # None => published[holds[s]]
    /\ pc[s] = "started" => run[holds[s]] # "none"
    /\ pc[s] = "stopped" => worker[holds[s]] = "done"

LifeInv == /\ NothingUnborn /\ EntryInv /\ ExtentInv /\ TurnsInv /\ StartInv /\ HoldInv

-----------------------------------------------------------------------------
(* Types.                                                                  *)

LEMMA StopTypes ==
  ASSUME TypeOK, NEW i, Stop(i)
  PROVE  /\ stopping' \in [Instances -> BOOLEAN]
         /\ tickerCancelled' \in [Instances -> BOOLEAN]
         /\ worker' \in [Instances -> WorkerLabels]
<1> DEFINE on == ticker[i] # "none"
<1>1. on \in BOOLEAN
  OBVIOUS
<1> HIDE DEF on
<1>2. CASE worker[i] = "none"
  <2>1. tickerCancelled' = [tickerCancelled EXCEPT ![i] = on]
    BY <1>2 DEF Stop, on
  <2>2. tickerCancelled' \in [Instances -> BOOLEAN]
    BY <2>1, <1>1 DEF TypeOK
  <2> QED
    BY <1>2, <2>2 DEF Stop, TypeOK, WorkerLabels
<1>3. CASE worker[i] # "none"
  BY <1>3 DEF Stop, TypeOK
<1> QED
  BY <1>2, <1>3

LEMMA TypeStep == TypeOK /\ [Next]_vars => TypeOK'
<1> SUFFICES ASSUME TypeOK, [Next]_vars PROVE TypeOK'
  OBVIOUS
<1> USE LifecycleAssumption DEF LifecycleAssumption, TypeOK, Goto, Call, Instances, None, Once,
     WorkerLabels, Idle, Starting, Initiating, Stopping, mapVars, guards, input, reporting,
     telemetry, caller, instance
<1>1. ASSUME NEW s \in Signals, CreateNew(s) PROVE TypeOK'
  BY <1>1 DEF CreateNew, MayCreate, Fresh
<1>2. ASSUME NEW s \in Signals, CreateShared(s) PROVE TypeOK'
  BY <1>2 DEF CreateShared, MayCreate
<1>3. ASSUME NEW s \in Signals, CreateUninstrumented(s) PROVE TypeOK'
  BY <1>3 DEF CreateUninstrumented, MayCreate
<1>4. ASSUME NEW s \in Signals, CreateRefused(s) PROVE TypeOK'
  BY <1>4 DEF CreateRefused, MayCreate
<1>5. ASSUME NEW s \in Signals, CreatePartial(s) PROVE TypeOK'
  BY <1>5 DEF CreatePartial, MayCreate, Fresh
<1>6. ASSUME NEW s \in Signals, CreateFails(s) PROVE TypeOK'
  BY <1>6 DEF CreateFails
<1>7. ASSUME NEW s \in Signals, StartBegins(s) PROVE TypeOK'
  BY <1>7 DEF StartBegins
<1>8. ASSUME NEW s \in Signals, StartFirst(s) PROVE TypeOK'
  BY <1>8 DEF StartFirst
<1>9. ASSUME NEW s \in Signals, StartLater(s) PROVE TypeOK'
  BY <1>9 DEF StartLater
<1>10. ASSUME NEW s \in Signals, ConnectSucceeds(s) PROVE TypeOK'
  BY <1>10 DEF ConnectSucceeds
<1>11. ASSUME NEW s \in Signals, ConnectFails(s) PROVE TypeOK'
  BY <1>11, StopTypes DEF ConnectFails
<1>12. ASSUME NEW s \in Signals, StartFails(s) PROVE TypeOK'
  BY <1>12 DEF StartFails
<1>13. ASSUME NEW s \in Signals, ShutdownBegins(s) PROVE TypeOK'
  BY <1>13 DEF ShutdownBegins
<1>14. ASSUME NEW s \in Signals, ShutdownFirst(s) PROVE TypeOK'
  BY <1>14 DEF ShutdownFirst
<1>15. ASSUME NEW s \in Signals, ShutdownLater(s) PROVE TypeOK'
  BY <1>15 DEF ShutdownLater
<1>16. ASSUME NEW s \in Signals, CancelInput(s) PROVE TypeOK'
  BY <1>16 DEF CancelInput
<1>17. ASSUME NEW s \in Signals, BeginStop(s) PROVE TypeOK'
  BY <1>17, StopTypes DEF BeginStop
<1>18. ASSUME NEW s \in Signals, ShutdownJoinsRun(s) PROVE TypeOK'
  BY <1>18 DEF ShutdownJoinsRun
<1>19. ASSUME NEW s \in Signals, ShutdownReturns(s) PROVE TypeOK'
  BY <1>19 DEF ShutdownReturns
<1>20. ASSUME NEW s \in Signals, ShutdownTimesOut(s) PROVE TypeOK'
  BY <1>20 DEF ShutdownTimesOut
<1>21. ASSUME NEW s \in Signals, Expire(s) PROVE TypeOK'
  BY <1>21 DEF Expire
<1>22. ASSUME NEW i \in Instances, Drain(i) PROVE TypeOK'
  BY <1>22 DEF Drain
<1>23. ASSUME NEW i \in Instances, Disable(i) PROVE TypeOK'
  BY <1>23 DEF Disable
<1>24. ASSUME NEW i \in Instances, JoinTicker(i) PROVE TypeOK'
  BY <1>24 DEF JoinTicker
<1>25. ASSUME NEW i \in Instances, Unregister(i) PROVE TypeOK'
  BY <1>25 DEF Unregister
<1>26. ASSUME NEW i \in Instances, JoinInput(i) PROVE TypeOK'
  BY <1>26 DEF JoinInput
<1>27. ASSUME NEW i \in Instances, Remove(i) PROVE TypeOK'
  BY <1>27 DEF Remove
<1>28. ASSUME NEW i \in Instances, CloseStop(i) PROVE TypeOK'
  BY <1>28 DEF CloseStop
<1>29. ASSUME NEW i \in Instances, EndRun(i) PROVE TypeOK'
  BY <1>29 DEF EndRun
<1>30. ASSUME NEW i \in Instances, TickerFires(i) PROVE TypeOK'
  BY <1>30 DEF TickerFires
<1>31. ASSUME NEW i \in Instances, TickerReports(i) PROVE TypeOK'
  BY <1>31 DEF TickerReports
<1>32. ASSUME NEW i \in Instances, TickerStops(i) PROVE TypeOK'
  BY <1>32 DEF TickerStops
<1>33. ASSUME NEW i \in Instances, Observe(i) PROVE TypeOK'
  BY <1>33 DEF Observe
<1>34. ASSUME NEW i \in Instances, Observed(i) PROVE TypeOK'
  BY <1>34 DEF Observed
<1>35. CASE UNCHANGED vars
  BY <1>35 DEF vars
<1> QED
  BY <1>1, <1>2, <1>3, <1>4, <1>5, <1>6, <1>7, <1>8, <1>9, <1>10, <1>11, <1>12, <1>13, <1>14, <1>15, <1>16, <1>17, <1>18, <1>19, <1>20, <1>21, <1>22, <1>23, <1>24, <1>25, <1>26, <1>27, <1>28, <1>29, <1>30, <1>31, <1>32, <1>33, <1>34, <1>35
  DEF Next, Create, Start, ShutdownStarts, ShutdownWaits, Worker, Beside

\* A signal in a call holds an instance that was constructed and published.
LEMMA Held ==
  ASSUME TypeOK, HoldInv, NEW s \in Signals, pc[s] \notin {"idle", "constructing"}
  PROVE  holds[s] \in Instances /\ holds[s] <= born /\ published[holds[s]]
<1>1. holds[s] \in 0 .. born /\ born \in 0 .. MaxInstances
  BY DEF TypeOK
<1>2. holds[s] # 0 /\ published[holds[s]]
  BY DEF HoldInv, None
<1> QED
  BY <1>1, <1>2, LifecycleAssumption DEF LifecycleAssumption, Instances

LEMMA LifeStep == TypeOK /\ LifeInv /\ [Next]_vars => LifeInv'
<1> SUFFICES ASSUME TypeOK, LifeInv, [Next]_vars PROVE LifeInv'
  OBVIOUS
<1> USE LifecycleAssumption DEF LifecycleAssumption, TypeOK, Goto, Call, Instances, None, Once,
     WorkerLabels, Idle, Starting, Initiating, Stopping, mapVars, guards, input, reporting,
     telemetry, caller, instance,
     LifeInv, RunEnded, TickerEnded,
     NothingUnborn, EntryInv, ExtentInv, TurnsInv, StartInv, HoldInv
<1>1. ASSUME NEW s \in Signals, CreateNew(s) PROVE LifeInv'
  BY <1>1 DEF CreateNew, MayCreate, Fresh
<1>2. ASSUME NEW s \in Signals, CreateShared(s) PROVE LifeInv'
  BY <1>2 DEF CreateShared, MayCreate
<1>3. ASSUME NEW s \in Signals, CreateUninstrumented(s) PROVE LifeInv'
  BY <1>3 DEF CreateUninstrumented, MayCreate
<1>4. ASSUME NEW s \in Signals, CreateRefused(s) PROVE LifeInv'
  BY <1>4 DEF CreateRefused, MayCreate
<1>5. ASSUME NEW s \in Signals, CreatePartial(s) PROVE LifeInv'
  BY <1>5 DEF CreatePartial, MayCreate, Fresh
<1>6. ASSUME NEW s \in Signals, CreateFails(s) PROVE LifeInv'
  BY <1>6 DEF CreateFails
<1>7. ASSUME NEW s \in Signals, StartBegins(s) PROVE LifeInv'
  BY <1>7 DEF StartBegins
<1>8. ASSUME NEW s \in Signals, StartFirst(s) PROVE LifeInv'
  <2>1. NothingUnborn' /\ EntryInv' /\ ExtentInv' /\ TurnsInv' /\ HoldInv'
    BY <1>8 DEF StartFirst
  <2>2. holds[s] \in Instances /\ pc[s] = "once" /\ startOnce[holds[s]] = "idle"
    BY <1>8, Held DEF StartFirst
  <2>3. \A t \in Signals : pc[t] \in {"connecting", "startWait"} => holds[t] # holds[s]
    BY <2>2
  <2>4. /\ pc' = [pc EXCEPT ![s] = "connecting"] /\ holds' = holds
        /\ startOnce' = [startOnce EXCEPT ![holds[s]] = "running"]
        /\ worker' = worker /\ stopping' = stopping /\ startErr' = startErr /\ run' = run
    BY <1>8 DEF StartFirst
  <2>5. StartInv'
    BY <2>2, <2>3, <2>4
  <2> QED
    BY <2>1, <2>5
<1>9. ASSUME NEW s \in Signals, StartLater(s) PROVE LifeInv'
  BY <1>9 DEF StartLater
<1>10. ASSUME NEW s \in Signals, ConnectSucceeds(s) PROVE LifeInv'
  BY <1>10 DEF ConnectSucceeds
<1>11. ASSUME NEW s \in Signals, ConnectFails(s) PROVE LifeInv'
  <2>1. /\ holds[s] \in Instances /\ holds[s] <= born /\ published[holds[s]]
        /\ pc[s] = "connecting" /\ worker[holds[s]] = "none"
    BY <1>11, Held DEF ConnectFails
  <2>2. /\ stopping' = [stopping EXCEPT ![holds[s]] = TRUE]
        /\ worker' = [worker EXCEPT ![holds[s]] = "spawned"]
        /\ pc' = [pc EXCEPT ![s] = "startWait"]
        /\ UNCHANGED << born, receivers, published, startOnce, startErr, run, ticker,
                        enabled, observers, holds >>
    BY <1>11, <2>1 DEF ConnectFails, Stop
  <2>3. NothingUnborn' /\ EntryInv' /\ ExtentInv'
    BY <2>1, <2>2
  <2>4. TurnsInv' /\ StartInv' /\ HoldInv'
    BY <2>1, <2>2
  <2> QED
    BY <2>3, <2>4
<1>12. ASSUME NEW s \in Signals, StartFails(s) PROVE LifeInv'
  BY <1>12 DEF StartFails
<1>13. ASSUME NEW s \in Signals, ShutdownBegins(s) PROVE LifeInv'
  BY <1>13 DEF ShutdownBegins
<1>14. ASSUME NEW s \in Signals, ShutdownFirst(s) PROVE LifeInv'
  BY <1>14 DEF ShutdownFirst
<1>15. ASSUME NEW s \in Signals, ShutdownLater(s) PROVE LifeInv'
  BY <1>15 DEF ShutdownLater
<1>16. ASSUME NEW s \in Signals, CancelInput(s) PROVE LifeInv'
  BY <1>16 DEF CancelInput
<1>17. ASSUME NEW s \in Signals, BeginStop(s) PROVE LifeInv'
  <2>1. /\ holds[s] \in Instances /\ holds[s] <= born /\ published[holds[s]]
        /\ pc[s] = "beginStop" /\ \A t \in Signals : pc[t] \notin Starting
    BY <1>17, Held DEF BeginStop
  <2>2. /\ pc' = [pc EXCEPT ![s] = "waitRun"]
        /\ UNCHANGED << born, receivers, published, startOnce, startErr, run, ticker,
                        enabled, observers, holds >>
    BY <1>17 DEF BeginStop
  <2>3. CASE worker[holds[s]] = "none"
    <3>1. /\ stopping' = [stopping EXCEPT ![holds[s]] = TRUE]
          /\ worker' = [worker EXCEPT ![holds[s]] = "spawned"]
      BY <1>17, <2>3 DEF BeginStop, Stop
    <3>2. NothingUnborn' /\ EntryInv' /\ ExtentInv'
      BY <2>1, <2>2, <2>3, <3>1
    <3>3. TurnsInv' /\ StartInv' /\ HoldInv'
      BY <2>1, <2>2, <2>3, <3>1
    <3> QED
      BY <3>2, <3>3
  <2>4. CASE worker[holds[s]] # "none"
    <3>1. stopping' = stopping /\ worker' = worker
      BY <1>17, <2>4 DEF BeginStop, Stop
    <3> QED
      BY <2>1, <2>2, <3>1
  <2> QED
    BY <2>3, <2>4
<1>18. ASSUME NEW s \in Signals, ShutdownJoinsRun(s) PROVE LifeInv'
  BY <1>18 DEF ShutdownJoinsRun
<1>19. ASSUME NEW s \in Signals, ShutdownReturns(s) PROVE LifeInv'
  BY <1>19 DEF ShutdownReturns
<1>20. ASSUME NEW s \in Signals, ShutdownTimesOut(s) PROVE LifeInv'
  BY <1>20 DEF ShutdownTimesOut
<1>21. ASSUME NEW s \in Signals, Expire(s) PROVE LifeInv'
  BY <1>21 DEF Expire
<1>22. ASSUME NEW i \in Instances, Drain(i) PROVE LifeInv'
  BY <1>22 DEF Drain
<1>23. ASSUME NEW i \in Instances, Disable(i) PROVE LifeInv'
  BY <1>23 DEF Disable
<1>24. ASSUME NEW i \in Instances, JoinTicker(i) PROVE LifeInv'
  BY <1>24 DEF JoinTicker
<1>25. ASSUME NEW i \in Instances, Unregister(i) PROVE LifeInv'
  BY <1>25 DEF Unregister
<1>26. ASSUME NEW i \in Instances, JoinInput(i) PROVE LifeInv'
  BY <1>26 DEF JoinInput
<1>27. ASSUME NEW i \in Instances, Remove(i) PROVE LifeInv'
  BY <1>27 DEF Remove
<1>28. ASSUME NEW i \in Instances, CloseStop(i) PROVE LifeInv'
  BY <1>28 DEF CloseStop
<1>29. ASSUME NEW i \in Instances, EndRun(i) PROVE LifeInv'
  BY <1>29 DEF EndRun
<1>30. ASSUME NEW i \in Instances, TickerFires(i) PROVE LifeInv'
  <2>1. ticker[i] = "on" /\ ticker' = [ticker EXCEPT ![i] = "reporting"]
    BY <1>30 DEF TickerFires
  <2>2. \A j \in Instances : TickerEnded(j)' <=> TickerEnded(j)
    BY <2>1
  <2>3. /\ ~TickerEnded(i)
        /\ UNCHANGED << mapVars, guards, input, telemetry, worker, caller >>
    BY <1>30 DEF TickerFires
  <2>4. NothingUnborn' /\ EntryInv' /\ TurnsInv' /\ StartInv' /\ HoldInv'
    BY <2>1, <2>3
  <2>5. ExtentInv'
    <3> HIDE DEF TickerEnded
    <3> QED
      BY <2>2, <2>3
  <2> QED
    BY <2>4, <2>5
<1>31. ASSUME NEW i \in Instances, TickerReports(i) PROVE LifeInv'
  <2>1. ticker[i] = "reporting" /\ ticker' = [ticker EXCEPT ![i] = "on"]
    BY <1>31 DEF TickerReports
  <2>2. \A j \in Instances : TickerEnded(j)' <=> TickerEnded(j)
    BY <2>1
  <2>3. /\ ~TickerEnded(i)
        /\ UNCHANGED << mapVars, guards, input, telemetry, worker, caller >>
    BY <1>31 DEF TickerReports
  <2>4. NothingUnborn' /\ EntryInv' /\ TurnsInv' /\ StartInv' /\ HoldInv'
    BY <2>1, <2>3
  <2>5. ExtentInv'
    <3> HIDE DEF TickerEnded
    <3> QED
      BY <2>2, <2>3
  <2> QED
    BY <2>4, <2>5
<1>32. ASSUME NEW i \in Instances, TickerStops(i) PROVE LifeInv'
  BY <1>32 DEF TickerStops
<1>33. ASSUME NEW i \in Instances, Observe(i) PROVE LifeInv'
  BY <1>33 DEF Observe
<1>34. ASSUME NEW i \in Instances, Observed(i) PROVE LifeInv'
  BY <1>34 DEF Observed
<1>35. CASE UNCHANGED vars
  BY <1>35 DEF vars
<1> QED
  BY <1>1, <1>2, <1>3, <1>4, <1>5, <1>6, <1>7, <1>8, <1>9, <1>10, <1>11, <1>12, <1>13, <1>14, <1>15, <1>16, <1>17, <1>18, <1>19, <1>20, <1>21, <1>22, <1>23, <1>24, <1>25, <1>26, <1>27, <1>28, <1>29, <1>30, <1>31, <1>32, <1>33, <1>34, <1>35
  DEF Next, Create, Start, ShutdownStarts, ShutdownWaits, Worker, Beside

LEMMA LifeInit == Init => TypeOK /\ LifeInv
BY LifecycleAssumption
DEF LifecycleAssumption, Init, TypeOK, Instances, None, Once, WorkerLabels, Idle, Starting,
    Initiating, Stopping, LifeInv, NothingUnborn, EntryInv, ExtentInv, TurnsInv, StartInv,
    HoldInv, RunEnded, TickerEnded

\* The variables keep their types: no lock is released twice and no instance beyond
\* the constructed ones is touched.
THEOREM TypeCorrect == Spec => []TypeOK
<1>1. Init => TypeOK
  BY LifeInit
<1> QED
  BY <1>1, TypeStep, PTL DEF Spec

LEMMA LifeInvariant == Spec => [](TypeOK /\ LifeInv)
<1>1. TypeOK /\ LifeInv /\ [Next]_vars => (TypeOK /\ LifeInv)'
  BY TypeStep, LifeStep
<1> QED
  BY <1>1, LifeInit, PTL DEF Spec

-----------------------------------------------------------------------------
(* What follows from it.                                                   *)

\* As long as an instance connects, reads, reports, observes or cleans up, it is the
\* entry of the map (afterCleanup removes the entry last).
THEOREM EntryCoversLife == Spec => []ReservationCoversLife
<1>1. TypeOK /\ LifeInv => ReservationCoversLife
  <2> SUFFICES ASSUME TypeOK, LifeInv, NEW i \in Instances
               PROVE  /\ Alive(i) => receivers = i
                      /\ published[i] /\ worker[i] \notin {"closing", "done"} => receivers = i
    BY DEF ReservationCoversLife
  <2>1. published[i] /\ worker[i] \notin {"closing", "done"} => receivers = i
    BY DEF LifeInv, EntryInv
  <2>2. ASSUME Alive(i)
        PROVE  published[i] /\ worker[i] \notin {"closing", "done"}
    <3>1. CASE \E s \in Signals : holds[s] = i /\ pc[s] = "connecting"
      BY <3>1 DEF LifeInv, StartInv, HoldInv, Instances, None
    <3>2. CASE ~RunEnded(i)
      BY <3>2 DEF LifeInv, ExtentInv
    <3>3. CASE ~TickerEnded(i)
      BY <3>3 DEF LifeInv, ExtentInv
    <3>4. CASE enabled[i] \/ observers[i] > 0
      BY <3>4 DEF LifeInv, ExtentInv
    <3> QED
      BY <2>2, <3>1, <3>2, <3>3, <3>4 DEF Alive
  <2> QED
    BY <2>1, <2>2
<1> QED
  BY <1>1, LifeInvariant, PTL

\* A Shutdown that returned nil left nothing at work and no entry.
THEOREM ShutdownIsClean == Spec => []CleanShutdown
<1>1. TypeOK /\ LifeInv => CleanShutdown
  <2> SUFFICES ASSUME TypeOK, LifeInv, NEW s \in Signals, pc[s] = "stopped"
               PROVE  /\ ~Alive(holds[s]) /\ worker[holds[s]] = "done"
                      /\ receivers # holds[s]
    BY DEF CleanShutdown
  <2>1. holds[s] \in Instances /\ worker[holds[s]] = "done"
    BY Held DEF LifeInv, HoldInv
  <2>2. receivers # holds[s]
    BY <2>1 DEF LifeInv, EntryInv
  <2>3. \A t \in Signals : holds[t] = holds[s] => pc[t] # "connecting"
    BY <2>1 DEF LifeInv, StartInv
  <2>4. ~Alive(holds[s])
    BY <2>1, <2>3 DEF Alive, LifeInv, ExtentInv
  <2> QED
    BY <2>1, <2>2, <2>4
<1> QED
  BY <1>1, LifeInvariant, PTL

\* A Start that returned nil has started the input.
THEOREM StartIsTrue == Spec => []StartTellsTruth
<1>1. LifeInv => StartTellsTruth
  BY DEF LifeInv, HoldInv, StartTellsTruth
<1> QED
  BY <1>1, LifeInvariant, PTL

\* A receiver that is stopping is neither handed out nor started nor enabled again.
THEOREM StopLasts == Spec => StopIsPermanent
<1> DEFINE Lasts(i) ==
      stopping[i] => /\ stopping'[i]
                     /\ run'[i] = "running" => run[i] = "running"
                     /\ ticker'[i] = "on" => ticker[i] \in {"on", "reporting"}
                     /\ enabled'[i] => enabled[i]
                     /\ \A s \in Signals : holds'[s] = i => holds[s] = i
<1>1. TypeOK /\ LifeInv /\ [Next]_vars => \A i \in Instances : Lasts(i)
  <2> SUFFICES ASSUME TypeOK, LifeInv, [Next]_vars, NEW i \in Instances, stopping[i]
               PROVE  Lasts(i)
    OBVIOUS
  <2> USE LifecycleAssumption DEF LifecycleAssumption, TypeOK, Instances, None, Goto, Call,
       mapVars, guards, input, reporting, telemetry, caller, instance
  <2>1. ASSUME NEW s \in Signals, CreateNew(s) PROVE Lasts(i)
    BY <2>1 DEF CreateNew, MayCreate, Fresh, LifeInv, NothingUnborn
  <2>2. ASSUME NEW s \in Signals, CreateShared(s) PROVE Lasts(i)
    BY <2>2 DEF CreateShared, MayCreate
  <2>3. ASSUME NEW s \in Signals, CreateUninstrumented(s) PROVE Lasts(i)
    BY <2>3 DEF CreateUninstrumented, MayCreate
  <2>4. ASSUME NEW s \in Signals, CreateRefused(s) PROVE Lasts(i)
    BY <2>4 DEF CreateRefused, MayCreate
  <2>5. ASSUME NEW s \in Signals, CreatePartial(s) PROVE Lasts(i)
    BY <2>5 DEF CreatePartial, MayCreate, Fresh
  <2>6. ASSUME NEW s \in Signals, CreateFails(s) PROVE Lasts(i)
    BY <2>6 DEF CreateFails
  <2>7. ASSUME NEW s \in Signals, StartBegins(s) PROVE Lasts(i)
    BY <2>7 DEF StartBegins
  <2>8. ASSUME NEW s \in Signals, StartFirst(s) PROVE Lasts(i)
    BY <2>8 DEF StartFirst
  <2>9. ASSUME NEW s \in Signals, StartLater(s) PROVE Lasts(i)
    BY <2>9 DEF StartLater
  <2>10. ASSUME NEW s \in Signals, ConnectSucceeds(s) PROVE Lasts(i)
    BY <2>10 DEF ConnectSucceeds, LifeInv, StartInv
  <2>11. ASSUME NEW s \in Signals, ConnectFails(s) PROVE Lasts(i)
    BY <2>11 DEF ConnectFails, Stop
  <2>12. ASSUME NEW s \in Signals, StartFails(s) PROVE Lasts(i)
    BY <2>12 DEF StartFails
  <2>13. ASSUME NEW s \in Signals, ShutdownBegins(s) PROVE Lasts(i)
    BY <2>13 DEF ShutdownBegins
  <2>14. ASSUME NEW s \in Signals, ShutdownFirst(s) PROVE Lasts(i)
    BY <2>14 DEF ShutdownFirst
  <2>15. ASSUME NEW s \in Signals, ShutdownLater(s) PROVE Lasts(i)
    BY <2>15 DEF ShutdownLater
  <2>16. ASSUME NEW s \in Signals, CancelInput(s) PROVE Lasts(i)
    BY <2>16 DEF CancelInput
  <2>17. ASSUME NEW s \in Signals, BeginStop(s) PROVE Lasts(i)
    BY <2>17 DEF BeginStop, Stop
  <2>18. ASSUME NEW s \in Signals, ShutdownJoinsRun(s) PROVE Lasts(i)
    BY <2>18 DEF ShutdownJoinsRun
  <2>19. ASSUME NEW s \in Signals, ShutdownReturns(s) PROVE Lasts(i)
    BY <2>19 DEF ShutdownReturns
  <2>20. ASSUME NEW s \in Signals, ShutdownTimesOut(s) PROVE Lasts(i)
    BY <2>20 DEF ShutdownTimesOut
  <2>21. ASSUME NEW s \in Signals, Expire(s) PROVE Lasts(i)
    BY <2>21 DEF Expire
  <2>22. ASSUME NEW j \in Instances, Drain(j) PROVE Lasts(i)
    BY <2>22 DEF Drain
  <2>23. ASSUME NEW j \in Instances, Disable(j) PROVE Lasts(i)
    BY <2>23 DEF Disable
  <2>24. ASSUME NEW j \in Instances, JoinTicker(j) PROVE Lasts(i)
    BY <2>24 DEF JoinTicker
  <2>25. ASSUME NEW j \in Instances, Unregister(j) PROVE Lasts(i)
    BY <2>25 DEF Unregister
  <2>26. ASSUME NEW j \in Instances, JoinInput(j) PROVE Lasts(i)
    BY <2>26 DEF JoinInput
  <2>27. ASSUME NEW j \in Instances, Remove(j) PROVE Lasts(i)
    BY <2>27 DEF Remove
  <2>28. ASSUME NEW j \in Instances, CloseStop(j) PROVE Lasts(i)
    BY <2>28 DEF CloseStop
  <2>29. ASSUME NEW j \in Instances, EndRun(j) PROVE Lasts(i)
    BY <2>29 DEF EndRun
  <2>30. ASSUME NEW j \in Instances, TickerFires(j) PROVE Lasts(i)
    BY <2>30 DEF TickerFires
  <2>31. ASSUME NEW j \in Instances, TickerReports(j) PROVE Lasts(i)
    BY <2>31 DEF TickerReports
  <2>32. ASSUME NEW j \in Instances, TickerStops(j) PROVE Lasts(i)
    BY <2>32 DEF TickerStops
  <2>33. ASSUME NEW j \in Instances, Observe(j) PROVE Lasts(i)
    BY <2>33 DEF Observe
  <2>34. ASSUME NEW j \in Instances, Observed(j) PROVE Lasts(i)
    BY <2>34 DEF Observed
  <2>35. CASE UNCHANGED vars
    BY <2>35 DEF vars
  <2> QED
    BY <2>1, <2>2, <2>3, <2>4, <2>5, <2>6, <2>7, <2>8, <2>9, <2>10, <2>11, <2>12, <2>13, <2>14, <2>15, <2>16, <2>17, <2>18, <2>19, <2>20, <2>21, <2>22, <2>23, <2>24, <2>25, <2>26, <2>27, <2>28, <2>29, <2>30, <2>31, <2>32, <2>33, <2>34, <2>35
    DEF Next, Create, Start, ShutdownStarts, ShutdownWaits, Worker, Beside
<1> QED
  BY <1>1, LifeInvariant, PTL DEF Spec, StopIsPermanent

-----------------------------------------------------------------------------
(* Refinement.                                                             *)

\* A step that moves the phase of one instance is that move of Reservation.
LEMMA Moves ==
  ASSUME NEW i \in Instances, NEW from, NEW to, Phase(i) \in from, Phase(i)' = to,
         \A j \in Instances \ {i} : Phase(j)' = Phase(j)
  PROVE  Reserved!Move(i, from, to)
<1>1. Phases[i] \in from
  BY DEF Phases
<1>2. Phases' = [Phases EXCEPT ![i] = to]
  BY DEF Phases
<1> QED
  BY <1>1, <1>2 DEF Reserved!Move

LEMMA ReservationStep ==
  TypeOK /\ LifeInv /\ [Next]_vars => [Reserved!Next]_Phases
<1> SUFFICES ASSUME TypeOK, LifeInv, [Next]_vars
             PROVE  Reserved!Next \/ Phases' = Phases
  OBVIOUS
<1> USE DEF TypeOK, Goto, Call, mapVars, guards, input, reporting, telemetry, caller, instance
<1>1. ASSUME \A j \in Instances : Phase(j)' = Phase(j)
      PROVE  Phases' = Phases
  BY <1>1 DEF Phases
<1>2. ASSUME NEW s \in Signals, CreateNew(s)
      PROVE  Reserved!Next
  <2>1. Fresh \in Instances
    BY <1>2 DEF CreateNew
  <2>2. PICK new \in Instances : new = Fresh
    BY <2>1
  <2>3. /\ receivers = None
        /\ published' = [published EXCEPT ![new] = TRUE]
        /\ UNCHANGED << worker, stopping, run >>
    BY <1>2, <2>2 DEF CreateNew
  <2>4. \A j \in Instances : Phase(j) \in {"unborn", "released"}
    BY <2>3 DEF LifeInv, EntryInv, Phase, None, Instances
  <2>5. /\ ~published[new] /\ worker[new] = "none" /\ ~stopping[new]
        /\ run[new] = "none"
    BY <2>2 DEF LifeInv, NothingUnborn, Fresh, Instances
  <2>6. /\ Phase(new) \in {"unborn"} /\ Phase(new)' = "held"
        /\ \A j \in Instances \ {new} : Phase(j)' = Phase(j)
    BY <2>3, <2>5 DEF Phase
  <2>7. Reserved!Move(new, {"unborn"}, "held")
    BY <2>6, Moves
  <2>8. Reserved!Reserve(new)
    BY <2>4, <2>7 DEF Reserved!Reserve, Phases
  <2> QED
    BY <2>8 DEF Reserved!Next
<1>3. ASSUME NEW s \in Signals, CreatePartial(s)
      PROVE  Phases' = Phases
  <2>1. /\ Fresh \in Instances /\ ~published[Fresh]
        /\ worker' = [worker EXCEPT ![Fresh] = "spawned"]
        /\ UNCHANGED << published, stopping, run >>
    BY <1>3 DEF CreatePartial, LifeInv, NothingUnborn, Fresh, Instances
  <2> QED
    BY <1>1, <2>1 DEF Phase
<1>4. ASSUME NEW s \in Signals, ConnectSucceeds(s)
      PROVE  Reserved!Next \/ Phases' = Phases
  <2>1. /\ holds[s] \in Instances /\ published[holds[s]]
        /\ worker[holds[s]] = "none" /\ ~stopping[holds[s]]
    BY <1>4, Held DEF ConnectSucceeds, LifeInv, StartInv
  <2>2. PICK i \in Instances : i = holds[s]
    BY <2>1
  <2>3. /\ run' = [run EXCEPT ![i] = "running"]
        /\ UNCHANGED << published, worker, stopping >>
    BY <1>4, <2>2 DEF ConnectSucceeds
  <2>4. CASE run[i] = "none"
    <3>1. /\ Phase(i) \in {"held"} /\ Phase(i)' = "live"
          /\ \A j \in Instances \ {i} : Phase(j)' = Phase(j)
      BY <2>1, <2>2, <2>3, <2>4 DEF Phase
    <3>2. Reserved!GoLive(i)
      BY <3>1, Moves DEF Reserved!GoLive
    <3> QED
      BY <3>2 DEF Reserved!Next
  <2>5. CASE run[i] # "none"
    BY <1>1, <2>1, <2>2, <2>3, <2>5 DEF Phase
  <2> QED
    BY <2>4, <2>5
\* A stopping flag that is set, with the worker spawned or not.
<1>5. ASSUME NEW i \in Instances, published[i],
             stopping' = [stopping EXCEPT ![i] = TRUE],
             \A j \in Instances : worker'[j] \in {"closing", "done"} <=>
                                  worker[j] \in {"closing", "done"},
             published' = published, run' = run
      PROVE  Reserved!Next \/ Phases' = Phases
  <2>1. \A j \in Instances \ {i} : Phase(j)' = Phase(j)
    BY <1>5 DEF Phase
  <2>2. CASE Phase(i) \in {"held", "live"}
    <3>1. Phase(i)' = "stopping"
      BY <1>5, <2>2 DEF Phase
    <3>2. Reserved!Stop(i)
      BY <2>1, <2>2, <3>1, Moves DEF Reserved!Stop
    <3> QED
      BY <3>2 DEF Reserved!Next
  <2>3. CASE Phase(i) \notin {"held", "live"}
    <3>1. Phase(i)' = Phase(i)
      BY <1>5, <2>3 DEF Phase
    <3> QED
      BY <1>1, <2>1, <3>1
  <2> QED
    BY <2>2, <2>3
<1>6. ASSUME NEW s \in Signals, ConnectFails(s)
      PROVE  Reserved!Next \/ Phases' = Phases
  <2>1. /\ holds[s] \in Instances /\ published[holds[s]] /\ worker[holds[s]] = "none"
    BY <1>6, Held DEF ConnectFails, LifeInv, StartInv
  <2>2. /\ stopping' = [stopping EXCEPT ![holds[s]] = TRUE]
        /\ worker' = [worker EXCEPT ![holds[s]] = "spawned"]
        /\ published' = published /\ run' = run
    BY <1>6, <2>1 DEF ConnectFails, Stop
  <2> QED
    BY <1>5, <2>1, <2>2
<1>7. ASSUME NEW s \in Signals, ShutdownFirst(s)
      PROVE  Reserved!Next \/ Phases' = Phases
  <2>1. holds[s] \in Instances /\ published[holds[s]]
    BY <1>7, Held DEF ShutdownFirst, LifeInv
  <2> QED
    BY <1>5, <1>7, <2>1 DEF ShutdownFirst
<1>8. ASSUME NEW s \in Signals, BeginStop(s)
      PROVE  Reserved!Next \/ Phases' = Phases
  <2>1. holds[s] \in Instances /\ published[holds[s]]
    BY <1>8, Held DEF BeginStop, LifeInv
  <2>2. published' = published /\ run' = run
    BY <1>8 DEF BeginStop
  <2>3. CASE worker[holds[s]] = "none"
    <3>1. /\ stopping' = [stopping EXCEPT ![holds[s]] = TRUE]
          /\ worker' = [worker EXCEPT ![holds[s]] = "spawned"]
      BY <1>8, <2>3 DEF BeginStop, Stop
    <3> QED
      BY <1>5, <2>1, <2>2, <2>3, <3>1
  <2>4. CASE worker[holds[s]] # "none"
    <3>1. stopping' = stopping /\ worker' = worker
      BY <1>8, <2>4 DEF BeginStop, Stop
    <3> QED
      BY <1>1, <2>2, <3>1 DEF Phase
  <2> QED
    BY <2>3, <2>4
<1>9. ASSUME NEW i \in Instances, Remove(i)
      PROVE  Reserved!Next \/ Phases' = Phases
  <2>1. /\ worker[i] = "remove" /\ worker' = [worker EXCEPT ![i] = "closing"]
        /\ UNCHANGED << published, stopping, run >>
    BY <1>9 DEF Remove
  <2>2. CASE published[i]
    <3>1. stopping[i]
      BY <2>1, <2>2 DEF LifeInv, ExtentInv
    <3>2. /\ Phase(i) \in {"stopping"} /\ Phase(i)' = "released"
          /\ \A j \in Instances \ {i} : Phase(j)' = Phase(j)
      BY <2>1, <2>2, <3>1 DEF Phase
    <3>3. Reserved!Release(i)
      BY <3>2, Moves DEF Reserved!Release
    <3> QED
      BY <3>3 DEF Reserved!Next
  <2>3. CASE ~published[i]
    BY <1>1, <2>1, <2>3 DEF Phase
  <2> QED
    BY <2>2, <2>3
<1>10. ASSUME NEW i \in Instances, Drain(i) \/ Disable(i) \/ JoinTicker(i) \/ JoinInput(i)
                                  \/ CloseStop(i) \/ Unregister(i)
       PROVE  Phases' = Phases
  <2>1. UNCHANGED << published, stopping, run >>
    BY <1>10 DEF Drain, Disable, JoinTicker, JoinInput, CloseStop, Unregister
  <2>2. \A j \in Instances : published[j] =>
          (worker'[j] \in {"closing", "done"} <=> worker[j] \in {"closing", "done"})
    BY <1>10 DEF Drain, Disable, JoinTicker, JoinInput, CloseStop, Unregister
  <2> QED
    BY <1>1, <2>1, <2>2 DEF Phase
<1>11. ASSUME NEW i \in Instances, EndRun(i)
       PROVE  Phases' = Phases
  <2>1. UNCHANGED << published, stopping, worker >>
    BY <1>11 DEF EndRun
  <2>2. \A j \in Instances : run'[j] = "none" <=> run[j] = "none"
    BY <1>11 DEF EndRun
  <2> QED
    BY <1>1, <2>1, <2>2 DEF Phase
<1>12. CASE UNCHANGED << published, stopping, worker, run >>
  BY <1>1, <1>12 DEF Phase
<1>13. ASSUME NEW s \in Signals,
              \/ CreateShared(s) \/ CreateRefused(s) \/ CreateUninstrumented(s)
              \/ CreateFails(s) \/ StartBegins(s) \/ StartFirst(s) \/ StartLater(s)
              \/ StartFails(s) \/ ShutdownBegins(s) \/ ShutdownLater(s) \/ CancelInput(s)
              \/ ShutdownWaits(s) \/ Expire(s)
       PROVE  UNCHANGED << published, stopping, worker, run >>
  BY <1>13
  DEF CreateShared, CreateRefused, CreateUninstrumented, CreateFails, StartBegins,
      StartFirst, StartLater, StartFails, ShutdownBegins, ShutdownLater, CancelInput,
      ShutdownWaits, ShutdownJoinsRun, ShutdownReturns, ShutdownTimesOut, Expire
<1>14. ASSUME NEW i \in Instances,
              \/ TickerFires(i) \/ TickerReports(i) \/ TickerStops(i)
              \/ Observe(i) \/ Observed(i)
       PROVE  UNCHANGED << published, stopping, worker, run >>
  BY <1>14 DEF TickerFires, TickerReports, TickerStops, Observe, Observed
<1>15. CASE UNCHANGED vars
  BY <1>12, <1>15 DEF vars
<1> QED
  BY <1>2, <1>3, <1>4, <1>6, <1>7, <1>8, <1>9, <1>10, <1>11, <1>12, <1>13, <1>14, <1>15
  DEF Next, Create, Start, ShutdownStarts, Worker, Beside

\* The instances follow one another through the phases of Reservation.
THEOREM ImplementsReservation == Spec => Reserved!Init /\ [][Reserved!Next]_Phases
<1>1. Init => Reserved!Init
  BY DEF Init, Reserved!Init, Phases, Phase
<1> QED
  BY <1>1, ReservationStep, LifeInvariant, PTL DEF Spec
=============================================================================
