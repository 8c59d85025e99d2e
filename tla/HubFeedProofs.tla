---------------------------- MODULE HubFeedProofs ----------------------------
(***************************************************************************)
(* Theorems about the session state, for every ring size and every width   *)
(* of the counters: first of the reducer, SessionInfo, then of HubFeed,    *)
(* which implements it whatever a server sends and however often the       *)
(* connection is lost.                                                     *)
(***************************************************************************)
EXTENDS HubFeed, TLAPS

-----------------------------------------------------------------------------
(* The ring.                                                               *)

Ring == [ tuples : [Slots -> Tuples \cup {NoTuple}], start : Slots, count : 0 .. Limit ]

\* The slot that lies `offset' after `start'.
Slot(ring, offset) == (ring.start + offset) % Limit

\* Where the slots of a ring are: the position wraps once.
LEMMA SlotValue ==
  ASSUME NEW ring \in Ring, NEW offset \in 0 .. Limit
  PROVE  /\ Slot(ring, offset) \in Slots
         /\ Slot(ring, offset) = IF ring.start + offset < Limit THEN ring.start + offset
                                 ELSE (ring.start + offset) - Limit
<1>1. Limit \in Nat \ {0}
  BY SessionAssumption DEF SessionAssumption
<1>2. ring.start \in Nat /\ ring.start < Limit
  BY <1>1 DEF Ring, Slots
<1> DEFINE n == ring.start + offset
<1>3. n \in Nat /\ n < 2 * Limit
  BY <1>1, <1>2
<1> DEFINE x == n % Limit
<1>4. Slot(ring, offset) = x
  BY DEF Slot
<1> HIDE DEF n
<1>5. x \in Slots
  BY <1>1, <1>3 DEF Slots
<1>6. n < Limit => x = n
  BY <1>1, <1>3
<1>7. n >= Limit => x = n - Limit
  BY <1>1, <1>3
<1> HIDE DEF x
<1>8. x = IF n < Limit THEN n ELSE n - Limit
  BY <1>1, <1>3, <1>6, <1>7
<1> QED
  BY <1>4, <1>5, <1>8 DEF n

\* Adding a tuple yields a ring.
LEMMA AddType ==
  ASSUME NEW ring \in Ring, NEW t \in Tuples
  PROVE  Add(ring, t) \in Ring
<1>1. Limit \in Nat \ {0}
  BY SessionAssumption DEF SessionAssumption
<1>2. ring.count \in 0 .. Limit /\ ring.start \in Slots
  BY DEF Ring
<1>3. CASE ring.count < Limit
  <2>1. Slot(ring, ring.count) \in Slots /\ ring.count + 1 \in 0 .. Limit
    BY <1>1, <1>2, <1>3, SlotValue
  <2> QED
    BY <1>3, <2>1 DEF Add, Ring, Slot
<1>4. CASE ~(ring.count < Limit)
  <2>1. Slot(ring, 1) \in Slots
    BY <1>1, SlotValue
  <2> QED
    BY <1>2, <1>4, <2>1 DEF Add, Ring, Slot
<1> QED
  BY <1>3, <1>4

\* The history h, a sequence of tuples, ends with what the ring holds, oldest first.
Mirrors(ring, h) ==
  /\ ring.count = IF Len(h) < Limit THEN Len(h) ELSE Limit
  /\ \A offset \in 0 .. (ring.count - 1) :
       ring.tuples[Slot(ring, offset)] = h[Len(h) - ring.count + offset + 1]

\* Adding to the ring mirrors appending to the history: before and after it is full
\* the ring drops nothing but the oldest tuple.
LEMMA AddMirrors ==
  ASSUME NEW ring \in Ring, NEW h \in Seq(Tuples), NEW t \in Tuples, Mirrors(ring, h)
  PROVE  Mirrors(Add(ring, t), Append(h, t))
<1> DEFINE next == Add(ring, t)
           g    == Append(h, t)
<1>1. Limit \in Nat \ {0}
  BY SessionAssumption DEF SessionAssumption
<1>2. /\ Len(h) \in Nat /\ Len(g) = Len(h) + 1 /\ g[Len(h) + 1] = t
      /\ \A i \in 1 .. Len(h) : g[i] = h[i]
  OBVIOUS
<1>3. ring.count \in Nat /\ ring.count <= Limit /\ ring.start \in Slots
  BY DEF Ring
<1>4. next \in Ring
  BY AddType
<1> HIDE DEF g
<1>5. ASSUME ring.count < Limit PROVE Mirrors(next, g)
  <2>1. /\ next.count = ring.count + 1 /\ next.start = ring.start
        /\ next.tuples = [ring.tuples EXCEPT ![Slot(ring, ring.count)] = t]
    BY <1>5 DEF Add, Slot, Ring
  <2> HIDE DEF next
  <2>2. ring.count = Len(h)
    BY <1>1, <1>2, <1>5 DEF Mirrors
  <2>3. next.count = IF Len(g) < Limit THEN Len(g) ELSE Limit
    BY <1>1, <1>2, <1>5, <2>1, <2>2
  <2>4. ASSUME NEW offset \in 0 .. (next.count - 1)
        PROVE  next.tuples[Slot(next, offset)] = g[Len(g) - next.count + offset + 1]
    <3>1. Slot(next, offset) = Slot(ring, offset)
      BY <2>1 DEF Slot
    <3>2. Len(g) - next.count + offset + 1 = offset + 1
      BY <2>1, <2>2, <1>2, <1>3
    <3>3. CASE offset = ring.count
      <4>1. Slot(ring, ring.count) \in Slots
        BY <1>1, <1>3, SlotValue
      <4>2. next.tuples[Slot(ring, offset)] = t
        BY <3>3, <4>1, <2>1 DEF Ring
      <4> QED
        BY <4>2, <3>1, <3>2, <3>3, <2>2, <1>2
    <3>4. CASE offset < ring.count
      <4>1. offset \in 0 .. (ring.count - 1) /\ offset \in 0 .. Limit
            /\ ring.count \in 0 .. Limit
        BY <3>4, <2>1, <1>3, <1>1
      <4>2. Slot(ring, offset) # Slot(ring, ring.count) /\ Slot(ring, offset) \in Slots
        <5>1. ring.start \in Nat /\ ring.start < Limit
          BY <1>1, <1>3 DEF Slots
        <5>2. /\ Slot(ring, offset) \in Slots
              /\ Slot(ring, offset) = IF ring.start + offset < Limit THEN ring.start + offset
                                      ELSE (ring.start + offset) - Limit
          BY <4>1, SlotValue
        <5>3. Slot(ring, ring.count) = IF ring.start + ring.count < Limit
                                       THEN ring.start + ring.count
                                       ELSE (ring.start + ring.count) - Limit
          BY <4>1, SlotValue
        <5> QED
          BY <5>1, <5>2, <5>3, <1>1, <1>3, <1>5, <3>4
      <4>3. next.tuples[Slot(ring, offset)] = ring.tuples[Slot(ring, offset)]
        BY <4>2, <2>1 DEF Ring
      <4>4. ring.tuples[Slot(ring, offset)] = h[offset + 1]
        <5>1. Len(h) - ring.count + offset + 1 = offset + 1
          BY <2>2, <4>1, <1>2
        <5> QED
          BY <4>1, <5>1 DEF Mirrors
      <4>5. g[offset + 1] = h[offset + 1]
        BY <4>1, <2>2, <1>2
      <4> QED
        BY <4>3, <4>4, <4>5, <3>1, <3>2
    <3>5. offset = ring.count \/ offset < ring.count
      BY <2>1, <1>3
    <3> QED
      BY <3>3, <3>4, <3>5
  <2> QED
    BY <2>3, <2>4 DEF Mirrors
<1>6. ASSUME ring.count = Limit PROVE Mirrors(next, g)
  <2>1. /\ next.count = Limit /\ next.start = Slot(ring, 1)
        /\ next.tuples = [ring.tuples EXCEPT ![ring.start] = t]
    BY <1>1, <1>6 DEF Add, Slot, Ring
  <2> HIDE DEF next
  <2>2. Len(h) >= Limit
    BY <1>1, <1>2, <1>6 DEF Mirrors
  <2>3. next.count = IF Len(g) < Limit THEN Len(g) ELSE Limit
    BY <1>1, <1>2, <2>1, <2>2
  <2>4. ASSUME NEW offset \in 0 .. (next.count - 1)
        PROVE  next.tuples[Slot(next, offset)] = g[Len(g) - next.count + offset + 1]
    <3>1. /\ offset \in Nat /\ offset < Limit /\ offset \in 0 .. Limit
          /\ offset + 1 \in 0 .. Limit
      BY <2>1, <1>1
    <3>2. ring.start \in Nat /\ ring.start < Limit
      BY <1>1, <1>3 DEF Slots
    <3>3. Slot(next, offset) = Slot(ring, offset + 1)
      <4>1. next.start = IF ring.start + 1 < Limit THEN ring.start + 1
                         ELSE (ring.start + 1) - Limit
        BY <2>1, <1>1, SlotValue
      <4>2. Slot(next, offset) = IF next.start + offset < Limit THEN next.start + offset
                                 ELSE (next.start + offset) - Limit
        BY <3>1, <1>4, SlotValue
      <4>3. Slot(ring, offset + 1) = IF ring.start + (offset + 1) < Limit
                                     THEN ring.start + (offset + 1)
                                     ELSE (ring.start + (offset + 1)) - Limit
        BY <3>1, SlotValue
      <4> HIDE DEF next
      <4> QED
        BY <4>1, <4>2, <4>3, <3>1, <3>2, <1>1
    <3>4. Len(g) - next.count + offset + 1 = Len(h) - Limit + (offset + 1) + 1
      BY <2>1, <1>1, <1>2, <3>1
    <3>a. /\ Slot(ring, offset + 1) \in Slots
          /\ Slot(ring, offset + 1) = IF ring.start + (offset + 1) < Limit
                                      THEN ring.start + (offset + 1)
                                      ELSE (ring.start + (offset + 1)) - Limit
      BY <3>1, SlotValue
    <3>5. CASE offset + 1 = Limit
      <4>1. Slot(ring, offset + 1) = ring.start
        BY <3>1, <3>2, <3>5, <3>a, <1>1
      <4>2. next.tuples[ring.start] = t
        BY <2>1, <1>3 DEF Ring
      <4>3. Len(h) - Limit + (offset + 1) + 1 = Len(h) + 1
        BY <3>5, <1>1, <1>2
      <4> QED
        BY <4>1, <4>2, <4>3, <3>3, <3>4, <1>2
    <3>6. CASE offset + 1 < Limit
      <4>1. Slot(ring, offset + 1) # ring.start /\ Slot(ring, offset + 1) \in Slots
        BY <3>1, <3>2, <3>6, <3>a, <1>1
      <4>2. next.tuples[Slot(ring, offset + 1)] = ring.tuples[Slot(ring, offset + 1)]
        BY <4>1, <2>1, <1>3 DEF Ring
      <4>3. ring.tuples[Slot(ring, offset + 1)] = h[Len(h) - Limit + (offset + 1) + 1]
        <5>1. offset + 1 \in 0 .. (ring.count - 1)
          BY <3>1, <3>6, <1>1, <1>6
        <5>2. ring.tuples[Slot(ring, offset + 1)] = h[Len(h) - ring.count + (offset + 1) + 1]
          BY <5>1 DEF Mirrors
        <5> QED
          BY <5>2, <1>6
      <4>4. Len(h) - Limit + (offset + 1) + 1 \in 1 .. Len(h)
        BY <3>1, <3>6, <2>2, <1>1, <1>2
      <4> QED
        BY <4>2, <4>3, <4>4, <3>3, <3>4, <1>2
    <3>7. offset + 1 = Limit \/ offset + 1 < Limit
      BY <3>1, <1>1
    <3> QED
      BY <3>5, <3>6, <3>7
  <2> QED
    BY <2>3, <2>4 DEF Mirrors
<1>7. Mirrors(next, g)
  BY <1>3, <1>5, <1>6, <1>1
<1> QED
  BY <1>7 DEF next, g

-----------------------------------------------------------------------------
(* The reducer.                                                            *)

\* How a reduction r of s under d begins a session.
Begins(s, d, r) ==
  /\ d.tuple \in Tuples /\ d.tuple # s.identity /\ ~Contains(s.retired, d.tuple)
  /\ s.generation < MaxGeneration
  /\ r.state.identity = d.tuple /\ r.state.route = d.route
  /\ r.state.synchronized
  /\ r.state.generation = s.generation + 1 /\ r.state.epoch = 0

\* How it keeps the session: with its token if the route is kept, with a later one
\* otherwise.
Keeps(s, d, r) ==
  /\ r.disposition = "refreshed"
  /\ s.identity # NoTuple
  /\ r.state.identity = s.identity /\ r.state.retired = s.retired
  /\ r.state.route = d.route /\ r.state.synchronized
  /\ r.state.generation = s.generation
  /\ IF s.route = d.route THEN r.state.epoch = s.epoch ELSE r.state.epoch = s.epoch + 1

\* How it rejects the descriptor.
Rejects(s, r) ==
  /\ r.disposition \in {"unresolved", "stale", "tokenExhausted"}
  /\ r.state = [s EXCEPT !.synchronized = FALSE]

\* The first session of a receiver, and one that replaces another.
Installs(s, d, r) ==
  /\ Begins(s, d, r)
  /\ r.disposition = "installed" /\ s.identity = NoTuple
  /\ r.state.retired = s.retired

Replaces(s, d, r) ==
  /\ Begins(s, d, r)
  /\ r.disposition = "replaced" /\ s.identity # NoTuple
  /\ r.state.retired = Add(s.retired, s.identity)

Outcome(s, d, r) ==
  /\ r.state \in SessionInfoState /\ r.disposition \in Dispositions
  /\ Rejects(s, r) \/ Keeps(s, d, r) \/ Installs(s, d, r) \/ Replaces(s, d, r)

\* A reduction does one of the four, and a session state comes of it.
LEMMA Reductions ==
  ASSUME NEW s \in SessionInfoState, NEW d \in Descriptors
  PROVE  Outcome(s, d, ReduceSessionInfo(s, d))
<1> DEFINE r == ReduceSessionInfo(s, d)
<1> SUFFICES Outcome(s, d, r)
  OBVIOUS
<1>a. /\ s.generation \in 0 .. MaxGeneration /\ s.epoch \in 0 .. MaxEpoch
      /\ MaxGeneration \in Nat /\ MaxEpoch \in Nat /\ NoTuple \notin Tuples
  BY SessionAssumption DEF SessionAssumption, SessionInfoState
<1>b. s.retired \in Ring /\ s.identity \in Tuples \cup {NoTuple}
  BY DEF SessionInfoState, Ring
<1>c. d.tuple \in Tuples \cup {NoTuple} /\ d.route \in Routes \cup {NoRoute}
      /\ d.schedule \in Schedules \cup {NoSchedule}
  BY DEF Descriptors
<1>d. s.generation # MaxGeneration =>
        /\ s.generation < MaxGeneration
        /\ (s.generation + 1) % (MaxGeneration + 1) = s.generation + 1
        /\ s.generation + 1 \in 0 .. MaxGeneration
  BY <1>a
<1>e. s.epoch # MaxEpoch =>
        /\ (s.epoch + 1) % (MaxEpoch + 1) = s.epoch + 1
        /\ s.epoch + 1 \in 0 .. MaxEpoch
  BY <1>a
<1>0. ASSUME NEW disp \in {"unresolved", "stale", "tokenExhausted"},
             r = Unsynchronized(s, disp)
      PROVE  Outcome(s, d, r)
  <2>1. r.state = [s EXCEPT !.synchronized = FALSE] /\ r.disposition = disp
    BY <1>0 DEF Unsynchronized, Reduced
  <2>2. r.state \in SessionInfoState
    BY <2>1 DEF SessionInfoState
  <2> HIDE DEF r
  <2> QED
    BY <2>1, <2>2 DEF Outcome, Rejects, Dispositions
<1>1. CASE d.tuple = NoTuple
  BY <1>0, <1>1 DEF ReduceSessionInfo
<1>2. CASE d.tuple # NoTuple /\ Contains(s.retired, d.tuple)
  BY <1>0, <1>2 DEF ReduceSessionInfo
<1>3. CASE d.tuple # NoTuple /\ ~Contains(s.retired, d.tuple)
  <2>1. CASE s.identity # NoTuple /\ s.identity = d.tuple
    <3>1. r = Refresh(s, d)
      BY <2>1, <1>3 DEF ReduceSessionInfo
    <3>2. CASE s.route # d.route /\ s.epoch = MaxEpoch
      BY <3>1, <3>2, <1>0 DEF Refresh
    <3>3. CASE ~(s.route # d.route /\ s.epoch = MaxEpoch)
      <4> DEFINE e == IF s.route = d.route THEN s.epoch ELSE s.epoch + 1
                 t == [s EXCEPT !.synchronized = TRUE, !.route = d.route,
                                !.schedule = d.schedule, !.epoch = e]
      <4>1. r = Reduced(t, "refreshed")
        BY <3>1, <3>3, <1>e DEF Refresh, Described, SessionInfoState
      <4>2. e \in 0 .. MaxEpoch
        BY <3>3, <1>a, <1>e
      <4> HIDE DEF e, r
      <4>3. t \in SessionInfoState
        BY <4>2, <1>c DEF SessionInfoState
      <4>4. /\ t.identity = s.identity /\ t.retired = s.retired /\ t.route = d.route
            /\ t.synchronized /\ t.generation = s.generation /\ t.epoch = e
        BY DEF SessionInfoState
      <4> HIDE DEF t
      <4>5. r.state = t /\ r.disposition = "refreshed"
        BY <4>1 DEF Reduced
      <4>6. Keeps(s, d, r)
        BY <4>4, <4>5, <2>1 DEF Keeps, e
      <4> QED
        BY <4>3, <4>5, <4>6 DEF Outcome, Dispositions
    <3> QED
      BY <3>2, <3>3
  <2>2. CASE (s.identity = NoTuple \/ s.identity # d.tuple) /\ s.generation = MaxGeneration
    <3>1. r = Unsynchronized(s, "tokenExhausted")
      BY <2>2, <1>3 DEF ReduceSessionInfo, Install, Replace
    <3> QED
      BY <3>1, <1>0
  <2>3. CASE (s.identity = NoTuple \/ s.identity # d.tuple) /\ s.generation # MaxGeneration
    <3> DEFINE g == s.generation + 1
               t == [s EXCEPT !.synchronized = TRUE, !.route = d.route,
                              !.schedule = d.schedule, !.identity = d.tuple,
                              !.epoch = 0, !.generation = g]
               u == [t EXCEPT !.retired = Add(s.retired, s.identity)]
    <3>1. Generated(s, d) = t /\ t.retired = s.retired
      BY <2>3, <1>d DEF Generated, Described, SessionInfoState
    <3>a. g \in 0 .. MaxGeneration /\ 0 \in 0 .. MaxEpoch
      BY <2>3, <1>a, <1>d
    <3> HIDE DEF g
    <3>2. t \in SessionInfoState
      BY <3>a, <1>c DEF SessionInfoState
    <3>3. /\ t.identity = d.tuple /\ t.route = d.route /\ t.synchronized
          /\ t.generation = g /\ t.epoch = 0
      BY DEF SessionInfoState
    <3>4. d.tuple \in Tuples /\ d.tuple # s.identity /\ s.generation < MaxGeneration
      BY <2>3, <1>c, <1>d, <1>3
    <3> HIDE DEF t
    <3>5. CASE s.identity = NoTuple
      <4>1. r = Reduced(t, "installed")
        BY <3>1, <3>5, <2>3, <1>3 DEF ReduceSessionInfo, Install
      <4> HIDE DEF r
      <4>2. r.state = t /\ r.disposition = "installed"
        BY <4>1 DEF Reduced
      <4>3. Begins(s, d, r)
        BY <4>2, <3>3, <3>4, <1>3 DEF Begins, g
      <4> QED
        BY <4>2, <4>3, <3>1, <3>2, <3>5 DEF Outcome, Installs, Dispositions
    <3>6. CASE s.identity # NoTuple
      <4>1. r = Reduced(u, "replaced")
        BY <3>1, <3>6, <2>3, <1>3 DEF ReduceSessionInfo, Replace
      <4>2. Add(s.retired, s.identity) \in Ring
        BY <3>6, <1>b, AddType
      <4>3. u \in SessionInfoState /\ u.retired = Add(s.retired, s.identity)
        BY <4>2, <3>2 DEF SessionInfoState, Ring
      <4>4. /\ u.identity = t.identity /\ u.route = t.route /\ u.synchronized = t.synchronized
            /\ u.generation = t.generation /\ u.epoch = t.epoch
        BY <3>2 DEF SessionInfoState
      <4> HIDE DEF r, u
      <4>5. r.state = u /\ r.disposition = "replaced"
        BY <4>1 DEF Reduced
      <4>6. Begins(s, d, r)
        BY <4>4, <4>5, <3>3, <3>4, <1>3 DEF Begins, g
      <4> QED
        BY <4>3, <4>5, <4>6, <3>6 DEF Outcome, Replaces, Dispositions
    <3> QED
      BY <3>5, <3>6
  <2> QED
    BY <2>1, <2>2, <2>3
<1> QED
  BY <1>1, <1>2, <1>3

-----------------------------------------------------------------------------
(* Steps.                                                                  *)

\* A step changes nothing that outlasts the batch, or records a reduction.
LEMMA Steps ==
  ASSUME info \in SessionInfoState, [Next]_vars
  PROVE  \/ UNCHANGED << info, log, issued >>
         \/ \E d \in Descriptors : \E r : Outcome(info, d, r) /\ Record(r)
<1>1. ASSUME NEW d \in Descriptors, Describe(d)
      PROVE  \E r : Outcome(info, d, r) /\ Record(r)
  BY <1>1, Reductions DEF Describe
<1>2. CASE OmitSessionInfo
  <2> DEFINE d == [tuple |-> NoTuple, route |-> NoRoute, schedule |-> NoSchedule]
             r == Unsynchronized(info, "unresolved")
  <2>1. d \in Descriptors /\ ReduceSessionInfo(info, d) = r
    BY DEF Descriptors, ReduceSessionInfo
  <2>2. Record(r)
    BY <1>2 DEF OmitSessionInfo
  <2> HIDE DEF d, r
  <2> QED
    BY <2>1, <2>2, Reductions
<1>3. CASE OtherBatch \/ RejectBatch \/ UNCHANGED vars
  BY <1>3 DEF OtherBatch, RejectBatch, vars
<1> QED
  BY <1>1, <1>2, <1>3 DEF Next

\* The retained state, the history of retired tuples and the issued tokens keep
\* their types.
RetainedType ==
  /\ info \in SessionInfoState
  /\ log \in Seq(Tuples)
  /\ issued \subseteq [generation : 0 .. MaxGeneration, epoch : 0 .. MaxEpoch,
                       tuple : Tuples, route : Routes \cup {NoRoute}]

LEMMA RetainedInit == Init => RetainedType
<1> SUFFICES ASSUME Init PROVE RetainedType
  OBVIOUS
<1>1. /\ 0 \in 0 .. MaxGeneration /\ 0 \in 0 .. MaxEpoch
      /\ 0 \in Slots /\ 0 \in 0 .. Limit
  BY SessionAssumption DEF SessionAssumption, Slots
<1>2. info \in SessionInfoState
  BY <1>1 DEF Init, SessionInfoState
<1> QED
  BY <1>2 DEF Init, RetainedType

LEMMA RetainedNext == RetainedType /\ [Next]_vars => RetainedType'
<1> SUFFICES ASSUME RetainedType, [Next]_vars PROVE RetainedType'
  OBVIOUS
<1>1. CASE UNCHANGED << info, log, issued >>
  BY <1>1 DEF RetainedType
<1>2. ASSUME NEW d \in Descriptors, NEW r, Outcome(info, d, r), Record(r)
      PROVE  RetainedType'
  <2>1. info' \in SessionInfoState /\ info' = r.state
    BY <1>2 DEF Outcome, Record
  <2>2. log' \in Seq(Tuples)
    <3>1. CASE r.disposition = "replaced"
      <4>1. info.identity \in Tuples
        BY <1>2, <3>1 DEF Outcome, Rejects, Keeps, Installs, Replaces, RetainedType,
                          SessionInfoState
      <4> QED
        BY <1>2, <3>1, <4>1 DEF Record, RetainedType
    <3>2. CASE r.disposition # "replaced"
      BY <1>2, <3>2 DEF Record, RetainedType
    <3> QED
      BY <3>1, <3>2
  <2>3. r.state.identity # NoTuple =>
          Token(r.state) \in [generation : 0 .. MaxGeneration, epoch : 0 .. MaxEpoch,
                              tuple : Tuples, route : Routes \cup {NoRoute}]
    BY <1>2 DEF Outcome, Token, SessionInfoState
  <2> QED
    BY <1>2, <2>1, <2>2, <2>3 DEF Record, RetainedType
<1> QED
  BY <1>1, <1>2, Steps DEF RetainedType

LEMMA Retained == Spec => []RetainedType
BY RetainedInit, RetainedNext, PTL DEF Spec

\* The module's variables keep their types.
THEOREM TypeCorrect == Spec => []TypeOK
<1>1. Init => TypeOK
  <2> SUFFICES ASSUME Init PROVE TypeOK
    OBVIOUS
  <2>1. seen \in Descriptors
    BY DEF Init, Descriptors
  <2> QED
    BY <2>1, RetainedInit DEF Init, TypeOK, RetainedType
<1>2. TypeOK /\ [Next]_vars => TypeOK'
  <2> SUFFICES ASSUME TypeOK, [Next]_vars PROVE TypeOK'
    OBVIOUS
  <2>1. RetainedType'
    BY RetainedNext DEF TypeOK, RetainedType
  <2>2. disposition' \in Dispositions \cup {"none"}
    <3>1. ASSUME NEW d \in Descriptors, Describe(d)
          PROVE  disposition' \in Dispositions
      BY <3>1, Reductions DEF Describe, Record, Outcome, TypeOK
    <3>2. CASE OmitSessionInfo
      BY <3>2 DEF OmitSessionInfo, Record, Unsynchronized, Reduced, Dispositions
    <3>3. CASE OtherBatch \/ RejectBatch \/ UNCHANGED vars
      BY <3>3 DEF OtherBatch, RejectBatch, vars, TypeOK
    <3> QED
      BY <3>1, <3>2, <3>3 DEF Next
  <2>3. gate' \in BOOLEAN
    <3>1. \A st : Allowed(st) \in BOOLEAN
      BY DEF Allowed
    <3>2. CASE gate' = gate
      BY <3>2 DEF TypeOK
    <3>3. CASE \E st : gate' = Allowed(st)
      BY <3>1, <3>3
    <3> QED
      BY <3>2, <3>3 DEF Next, Describe, OmitSessionInfo, OtherBatch, RejectBatch, Record, vars
  <2>4. seen' \in Descriptors
    BY DEF Next, Describe, OmitSessionInfo, OtherBatch, RejectBatch, vars, TypeOK,
           Descriptors
  <2> QED
    BY <2>1, <2>2, <2>3, <2>4 DEF TypeOK, RetainedType
<1> QED
  BY <1>1, <1>2, PTL DEF Spec

-----------------------------------------------------------------------------
(* Tokens.                                                                 *)

\* Token x is not ahead of the state, and an equal token stands for what the state
\* holds.  Generations and epochs only grow, so no later token meets x again.
Behind(x, s) ==
  /\ x.generation <= s.generation
  /\ x.generation = s.generation => x.tuple = s.identity /\ x.epoch <= s.epoch
  /\ x.generation = s.generation /\ x.epoch = s.epoch => x.route = s.route

TokenInv ==
  /\ info.identity = NoTuple => issued = {}
  /\ \A x \in issued : Behind(x, info)
  /\ TokenIdentifies

LEMMA TokenNext == RetainedType /\ TokenInv /\ [Next]_vars => TokenInv'
<1> SUFFICES ASSUME RetainedType, TokenInv, [Next]_vars PROVE TokenInv'
  OBVIOUS
<1>1. CASE UNCHANGED << info, log, issued >>
  BY <1>1 DEF TokenInv, TokenIdentifies, Behind
<1>2. ASSUME NEW d \in Descriptors, NEW r, Outcome(info, d, r), Record(r)
      PROVE  TokenInv'
  <2> DEFINE t == Token(info')
  <2>1. /\ info' = r.state /\ info' \in SessionInfoState /\ info \in SessionInfoState
        /\ issued' = IF info'.identity # NoTuple THEN issued \cup {t} ELSE issued
    BY <1>2 DEF Record, Outcome, RetainedType
  <2>2. /\ info.generation \in Int /\ info.epoch \in Int
        /\ info'.generation \in Int /\ info'.epoch \in Int
    BY <2>1 DEF SessionInfoState
  <2>3. /\ t.generation = info'.generation /\ t.epoch = info'.epoch
        /\ t.tuple = info'.identity /\ t.route = info'.route
    BY DEF Token
  <2>4. \A x \in issued : x.generation \in Int /\ x.epoch \in Int
    BY DEF RetainedType
  <2>5. ASSUME NEW x \in issued PROVE Behind(x, info')
    <3>1. Behind(x, info) /\ info.identity # NoTuple
      BY DEF TokenInv
    <3>2. CASE Rejects(info, r)
      <4>1. /\ info'.generation = info.generation /\ info'.epoch = info.epoch
            /\ info'.identity = info.identity /\ info'.route = info.route
        BY <2>1, <3>2 DEF Rejects, SessionInfoState
      <4> QED
        BY <3>1, <4>1 DEF Behind
    <3>3. CASE Keeps(info, d, r)
      <4>1. /\ info'.generation = info.generation /\ info'.identity = info.identity
            /\ info'.route = d.route
            /\ IF info.route = d.route THEN info'.epoch = info.epoch
               ELSE info'.epoch = info.epoch + 1
        BY <2>1, <3>3 DEF Keeps
      <4>2. CASE info.route = d.route
        BY <3>1, <4>1, <4>2 DEF Behind
      <4>3. CASE info.route # d.route
        <5>1. x.generation = info'.generation => x.epoch < info'.epoch
          BY <3>1, <4>1, <4>3, <2>2, <2>4 DEF Behind
        <5>2. x.generation = info'.generation => x.epoch <= info'.epoch /\ x.epoch # info'.epoch
          BY <5>1, <2>2, <2>4
        <5> QED
          BY <5>2, <3>1, <4>1 DEF Behind
      <4> QED
        BY <4>2, <4>3
    <3>4. CASE Begins(info, d, r)
      <4>1. info'.generation = info.generation + 1
        BY <2>1, <3>4 DEF Begins
      <4>2. x.generation <= info'.generation /\ x.generation # info'.generation
        BY <3>1, <4>1, <2>2, <2>4 DEF Behind
      <4> QED
        BY <4>2 DEF Behind
    <3> QED
      BY <1>2, <3>2, <3>3, <3>4 DEF Outcome, Installs, Replaces
  <2> HIDE DEF t
  <2>6. Behind(t, info')
    BY <2>3, <2>2 DEF Behind
  <2>7. \A x \in issued' : Behind(x, info')
    BY <2>1, <2>5, <2>6
  <2>8. info'.identity = NoTuple => issued' = {}
    <3>1. info'.identity = NoTuple => info.identity = NoTuple
      BY <1>2, <2>1, SessionAssumption
      DEF Outcome, Rejects, Keeps, Installs, Replaces, Begins, SessionAssumption,
          SessionInfoState
    <3> QED
      BY <2>1, <3>1 DEF TokenInv
  <2>9. TokenIdentifies'
    <3> SUFFICES ASSUME NEW a \in issued', NEW b \in issued'
                 PROVE  /\ a.generation = b.generation => a.tuple = b.tuple
                        /\ a.generation = b.generation /\ a.epoch = b.epoch
                             => a.route = b.route
      BY DEF TokenIdentifies
    <3>1. CASE a \in issued /\ b \in issued
      BY <3>1 DEF TokenInv, TokenIdentifies
    <3>2. CASE a = t /\ b \in issued
      BY <3>2, <2>3, <2>5 DEF Behind
    <3>3. CASE a \in issued /\ b = t
      BY <3>3, <2>3, <2>5 DEF Behind
    <3>4. CASE a = t /\ b = t
      BY <3>4
    <3> QED
      BY <3>1, <3>2, <3>3, <3>4, <2>1
  <2> QED
    BY <2>7, <2>8, <2>9 DEF TokenInv
<1> QED
  BY <1>1, <1>2, Steps DEF RetainedType

\* However the counters run, a token that was ever issued stands for one session and
\* one route: nothing started for another one carries an equal token.
THEOREM TokensIdentify == Spec => []TokenIdentifies
<1>1. Init => TokenInv
  BY DEF Init, TokenInv, TokenIdentifies
<1>2. TokenInv => TokenIdentifies
  BY DEF TokenInv
<1> QED
  BY <1>1, <1>2, TokenNext, Retained, PTL DEF Spec

\* The generation counts up and never wraps, and the epoch does within one.
THEOREM TokensAdvance == Spec => TokenNeverRunsBack
<1>1. RetainedType /\ [Next]_vars =>
        [ /\ info'.generation >= info.generation
          /\ info'.generation = info.generation => info'.epoch >= info.epoch ]_vars
  <2> SUFFICES ASSUME RetainedType, [Next]_vars
               PROVE  /\ info'.generation >= info.generation
                      /\ info'.generation = info.generation => info'.epoch >= info.epoch
    OBVIOUS
  <2>1. info.generation \in Int /\ info.epoch \in Int
    BY DEF RetainedType, SessionInfoState
  <2>2. CASE UNCHANGED << info, log, issued >>
    BY <2>1, <2>2
  <2>3. ASSUME NEW d \in Descriptors, NEW r, Outcome(info, d, r), Record(r)
        PROVE  /\ info'.generation >= info.generation
               /\ info'.generation = info.generation => info'.epoch >= info.epoch
    <3>1. info' = r.state
      BY <2>3 DEF Record
    <3>2. CASE Rejects(info, r)
      <4>1. info'.generation = info.generation /\ info'.epoch = info.epoch
        BY <3>1, <3>2 DEF Rejects, RetainedType, SessionInfoState
      <4> QED
        BY <4>1, <2>1
    <3>3. CASE Keeps(info, d, r)
      BY <2>1, <3>1, <3>3 DEF Keeps
    <3>4. CASE Begins(info, d, r)
      BY <2>1, <3>1, <3>4 DEF Begins
    <3> QED
      BY <2>3, <3>2, <3>3, <3>4 DEF Outcome, Installs, Replaces
  <2> QED
    BY <2>2, <2>3, Steps DEF RetainedType
<1> QED
  BY <1>1, Retained, PTL DEF Spec, TokenNeverRunsBack

-----------------------------------------------------------------------------
(* Retired tuples.                                                         *)

\* t is among the last Limit entries of the history h.
RecentIn(h, t) == \E i \in 1 .. Len(h) : i > Len(h) - Limit /\ h[i] = t

\* A ring that mirrors a history holds exactly its last Limit entries.
LEMMA ContainsRecent ==
  ASSUME NEW ring \in Ring, NEW h \in Seq(Tuples), Mirrors(ring, h), NEW t
  PROVE  Contains(ring, t) <=> RecentIn(h, t)
<1>1. Limit \in Nat \ {0} /\ Len(h) \in Nat
  BY SessionAssumption DEF SessionAssumption
<1>2. ring.count = IF Len(h) < Limit THEN Len(h) ELSE Limit
  BY DEF Mirrors
<1>3. ring.count \in Nat
  BY <1>1, <1>2
<1>4. ASSUME Contains(ring, t) PROVE RecentIn(h, t)
  <2>1. PICK offset \in 0 .. (ring.count - 1) : ring.tuples[Slot(ring, offset)] = t
    BY <1>4 DEF Contains, Slot
  <2>2. h[Len(h) - ring.count + offset + 1] = t
    BY <2>1 DEF Mirrors
  <2>a. offset \in Nat /\ offset < ring.count
    BY <1>3
  <2>b. ring.count <= Len(h) /\ ring.count <= Limit
    BY <1>1, <1>2
  <2>c. Len(h) - ring.count + offset + 1 \in 1 .. Len(h)
    BY <2>a, <2>b, <1>1, <1>3
  <2>d. Len(h) - ring.count + offset + 1 > Len(h) - Limit
    BY <2>a, <2>b, <1>1, <1>3
  <2>3. /\ Len(h) - ring.count + offset + 1 \in 1 .. Len(h)
        /\ Len(h) - ring.count + offset + 1 > Len(h) - Limit
    BY <2>c, <2>d
  <2> QED
    BY <2>2, <2>3 DEF RecentIn
<1>5. ASSUME RecentIn(h, t) PROVE Contains(ring, t)
  <2>1. PICK i \in 1 .. Len(h) : i > Len(h) - Limit /\ h[i] = t
    BY <1>5 DEF RecentIn
  <2> DEFINE offset == i - (Len(h) - ring.count) - 1
  <2>2. offset \in 0 .. (ring.count - 1)
    BY <2>1, <1>1, <1>2, <1>3
  <2>3. Len(h) - ring.count + offset + 1 = i
    BY <2>1, <1>1, <1>3
  <2> HIDE DEF offset
  <2>4. ring.tuples[Slot(ring, offset)] = h[Len(h) - ring.count + offset + 1]
    BY <2>2 DEF Mirrors
  <2> QED
    BY <2>1, <2>2, <2>3, <2>4 DEF Contains, Slot
<1> QED
  BY <1>4, <1>5

\* The ring mirrors the history and the current session is not among its last Limit
\* entries.
RetiredInv == Mirrors(info.retired, log) /\ NoResurrection

\* Retiring t and installing u keeps what is recent apart from u.
LEMMA RecentAppend ==
  ASSUME NEW h \in Seq(Tuples), NEW t \in Tuples, NEW u, u # t, ~RecentIn(h, u)
  PROVE  ~RecentIn(Append(h, t), u)
<1> DEFINE g == Append(h, t)
<1>1. Limit \in Nat \ {0} /\ Len(h) \in Nat
  BY SessionAssumption DEF SessionAssumption
<1>2. /\ Len(g) = Len(h) + 1 /\ g[Len(h) + 1] = t
      /\ \A i \in 1 .. Len(h) : g[i] = h[i]
  OBVIOUS
<1> HIDE DEF g
<1>3. ASSUME NEW i \in 1 .. Len(g), i > Len(g) - Limit, g[i] = u
      PROVE  FALSE
  <2>1. i = Len(h) + 1 \/ (i \in 1 .. Len(h) /\ i > Len(h) - Limit)
    BY <1>1, <1>2, <1>3
  <2> QED
    BY <2>1, <1>2, <1>3 DEF RecentIn
<1> QED
  BY <1>3 DEF RecentIn, g

LEMMA RetiredInit == Init => RetiredInv
<1> SUFFICES ASSUME Init PROVE RetiredInv
  OBVIOUS
<1>1. Limit \in Nat \ {0}
  BY SessionAssumption DEF SessionAssumption
<1>2. log = << >> /\ info.retired.count = 0 /\ Len(<< >>) = 0
  BY DEF Init
<1> QED
  BY <1>1, <1>2 DEF RetiredInv, Mirrors, NoResurrection

LEMMA RetiredNext == RetainedType /\ RetiredInv /\ [Next]_vars => RetiredInv'
<1> SUFFICES ASSUME RetainedType, RetiredInv, [Next]_vars PROVE RetiredInv'
  OBVIOUS
<1>1. CASE UNCHANGED << info, log, issued >>
  BY <1>1 DEF RetiredInv, Mirrors, NoResurrection, Slot
<1>2. ASSUME NEW d \in Descriptors, NEW r, Outcome(info, d, r), Record(r)
      PROVE  RetiredInv'
  <2>1. /\ info' = r.state
        /\ log' = IF r.disposition = "replaced" THEN Append(log, info.identity) ELSE log
    BY <1>2 DEF Record
  <2>2. info.retired \in Ring /\ log \in Seq(Tuples) /\ Mirrors(info.retired, log)
    BY DEF RetainedType, RetiredInv, SessionInfoState, Ring
  <2>3. ~RecentIn(log, info.identity)
    BY DEF RetiredInv, NoResurrection, RecentIn
  <2>4. CASE Rejects(info, r) \/ Keeps(info, d, r)
    <3>1. /\ info'.retired = info.retired /\ info'.identity = info.identity
          /\ log' = log
      BY <2>1, <2>4 DEF Rejects, Keeps, RetainedType, SessionInfoState
    <3>2. ~RecentIn(log', info'.identity) /\ Mirrors(info'.retired, log')
      BY <3>1, <2>2, <2>3
    <3> QED
      BY <3>2 DEF RetiredInv, NoResurrection, RecentIn, Mirrors, Slot
  <2>5. ASSUME Begins(info, d, r) PROVE ~RecentIn(log, d.tuple) /\ d.tuple # info.identity
    BY <2>2, <2>5, ContainsRecent DEF Begins
  <2>6. CASE Installs(info, d, r)
    <3>1. /\ info'.retired = info.retired /\ info'.identity = d.tuple /\ log' = log
      BY <2>1, <2>6 DEF Installs, Begins
    <3>2. ~RecentIn(log', info'.identity) /\ Mirrors(info'.retired, log')
      BY <3>1, <2>2, <2>5, <2>6 DEF Installs
    <3> QED
      BY <3>2 DEF RetiredInv, NoResurrection, RecentIn, Mirrors, Slot
  <2>7. CASE Replaces(info, d, r)
    <3>1. /\ info'.retired = Add(info.retired, info.identity)
          /\ info'.identity = d.tuple /\ log' = Append(log, info.identity)
      BY <2>1, <2>7 DEF Replaces, Begins
    <3>2. info.identity \in Tuples
      BY <2>7 DEF Replaces, RetainedType, SessionInfoState
    <3>3. Mirrors(info'.retired, log')
      BY <3>1, <3>2, <2>2, AddMirrors
    <3>4. ~RecentIn(log', info'.identity)
      BY <3>1, <3>2, <2>2, <2>5, <2>7, RecentAppend DEF Replaces
    <3> QED
      BY <3>3, <3>4 DEF RetiredInv, NoResurrection, RecentIn, Mirrors, Slot
  <2> QED
    BY <1>2, <2>4, <2>6, <2>7 DEF Outcome
<1> QED
  BY <1>1, <1>2, Steps DEF RetainedType

LEMMA Retired == Spec => []RetiredInv
BY RetiredInit, RetiredNext, Retained, PTL DEF Spec

\* None of the last Limit retired sessions becomes current, for every ring size.
THEOREM RetiredStayRetired == Spec => []NoResurrection
<1>1. RetiredInv => NoResurrection
  BY DEF RetiredInv
<1> QED
  BY <1>1, Retired, PTL

-----------------------------------------------------------------------------
(* The reducer over the ring implements the ledger.                        *)

\* Every step renews, loses or replaces the session as the ledger does, or stutters.
LEMMA LedgerStep == RetainedType /\ RetiredInv /\ [Next]_vars => [Ledger!Next]_(Ledger!vars)
<1> SUFFICES ASSUME RetainedType, RetiredInv, [Next]_vars
             PROVE  Ledger!Next \/ UNCHANGED Ledger!vars
  OBVIOUS
<1>1. CASE UNCHANGED << info, log, issued >>
  BY <1>1 DEF Ledger!vars
<1>2. ASSUME NEW d \in Descriptors, NEW r, Outcome(info, d, r), Record(r)
      PROVE  Ledger!Next
  <2>1. /\ info' = r.state
        /\ log' = IF r.disposition = "replaced" THEN Append(log, info.identity) ELSE log
    BY <1>2 DEF Record
  <2>2. info.retired \in Ring /\ log \in Seq(Tuples) /\ Mirrors(info.retired, log)
    BY DEF RetainedType, RetiredInv, SessionInfoState, Ring
  <2>3. d.route \in Routes \cup {NoRoute}
    BY DEF Descriptors
  <2>4. CASE Rejects(info, r)
    <3>1. /\ info'.identity = info.identity /\ info'.route = info.route
          /\ info'.generation = info.generation /\ info'.synchronized = FALSE
          /\ log' = log
      BY <2>1, <2>4 DEF Rejects, RetainedType, SessionInfoState
    <3>2. Ledger!Lose
      BY <3>1 DEF Ledger!Lose
    <3> QED
      BY <3>2 DEF Ledger!Next
  <2>5. CASE Keeps(info, d, r)
    <3>1. /\ info'.identity = info.identity /\ info'.route = d.route
          /\ info'.generation = info.generation /\ info'.synchronized = TRUE
          /\ log' = log /\ info.identity # NoTuple
      <4>1. info'.synchronized \in BOOLEAN
        BY <1>2, <2>1 DEF Outcome, SessionInfoState
      <4> QED
        BY <4>1, <2>1, <2>5 DEF Keeps
    <3>2. Ledger!Renew(d.route)
      BY <3>1 DEF Ledger!Renew
    <3> QED
      BY <3>2, <2>3 DEF Ledger!Next
  <2>6. CASE Installs(info, d, r) \/ Replaces(info, d, r)
    <3>1. Begins(info, d, r)
      BY <2>6 DEF Installs, Replaces
    <3>2. d.tuple \in Tuples /\ d.tuple # info.identity /\ ~RecentIn(log, d.tuple)
      BY <3>1, <2>2, ContainsRecent DEF Begins
    <3>3. info'.synchronized \in BOOLEAN
      BY <1>2, <2>1 DEF Outcome, SessionInfoState
    <3>4. /\ info'.identity = d.tuple /\ info'.route = d.route
          /\ info'.synchronized = TRUE /\ info'.generation = info.generation + 1
      BY <2>1, <3>1, <3>3 DEF Begins
    <3>5. log' = IF info.identity = NoTuple THEN log ELSE Append(log, info.identity)
      BY <2>1, <2>6 DEF Installs, Replaces
    <3>6. Ledger!Begin(d.tuple, d.route)
      BY <3>2, <3>4, <3>5 DEF Ledger!Begin, Ledger!Recent, RecentIn
    <3> QED
      BY <3>2, <3>6, <2>3 DEF Ledger!Next
  <2> QED
    BY <1>2, <2>4, <2>5, <2>6 DEF Outcome
<1> QED
  BY <1>1, <1>2, Steps DEF RetainedType

\* The session identity keeps what SessionLedger promises, for every ring size: the
\* ring forgets a retired session only after Limit newer ones.
THEOREM ImplementsLedger == Spec => KeepsLedger
<1>1. Init => Ledger!Init
  BY DEF Init, Ledger!Init
<1> QED
  BY <1>1, LedgerStep, Retained, Retired, PTL DEF Spec, KeepsLedger, Ledger!Spec

-----------------------------------------------------------------------------
(* The gate.                                                               *)

\* The gate was computed of the state that is retained, and a synchronized state is the
\* last authoritative descriptor's.
GateInv ==
  /\ gate => Allowed(info)
  /\ info.synchronized => /\ seen.tuple = info.identity
                          /\ seen.route = info.route
                          /\ seen.schedule = info.schedule

\* A reduction leaves a synchronized state only with what it was given.
LEMMA ReductionDescribes ==
  ASSUME info \in SessionInfoState, NEW d \in Descriptors
  PROVE  LET s == ReduceSessionInfo(info, d).state
         IN  s.synchronized => s.identity = d.tuple /\ s.route = d.route /\ s.schedule = d.schedule
<1> DEFINE s == ReduceSessionInfo(info, d).state
<1> USE DEF Reduced
<1>1. ~Unsynchronized(info, "unresolved").state.synchronized
  BY DEF Unsynchronized, SessionInfoState
<1>2. ~Unsynchronized(info, "stale").state.synchronized
  BY DEF Unsynchronized, SessionInfoState
<1>3. LET t == Generated(info, d)
      IN  t.identity = d.tuple /\ t.route = d.route /\ t.schedule = d.schedule
  BY DEF Generated, Described, SessionInfoState
<1>4. LET t == Install(info, d).state
      IN  t.synchronized => t.identity = d.tuple /\ t.route = d.route /\ t.schedule = d.schedule
  BY <1>3 DEF Install, Unsynchronized, SessionInfoState
<1>5. LET t == Replace(info, d).state
      IN  t.synchronized => t.identity = d.tuple /\ t.route = d.route /\ t.schedule = d.schedule
  BY DEF Replace, Unsynchronized, Generated, Described, SessionInfoState
<1>6. info.identity = d.tuple =>
        LET t == Refresh(info, d).state
        IN  t.synchronized => t.identity = d.tuple /\ t.route = d.route /\ t.schedule = d.schedule
  BY DEF Refresh, Unsynchronized, Described, SessionInfoState
<1> QED
  BY <1>1, <1>2, <1>4, <1>5, <1>6 DEF ReduceSessionInfo

LEMMA GateNext == RetainedType /\ GateInv /\ [Next]_vars => GateInv'
<1> SUFFICES ASSUME RetainedType, GateInv, [Next]_vars PROVE GateInv'
  OBVIOUS
<1> USE DEF GateInv, Allowed
<1>a. info \in SessionInfoState
  BY DEF RetainedType
<1>1. ASSUME NEW d \in Descriptors, Describe(d) PROVE GateInv'
  <2>1. /\ info' = ReduceSessionInfo(info, d).state /\ gate' = Allowed(info') /\ seen' = d
    BY <1>1 DEF Describe, Record
  <2> QED
    BY <2>1, <1>a, ReductionDescribes
<1>2. CASE OmitSessionInfo
  <2>1. info' = [info EXCEPT !.synchronized = FALSE] /\ gate' = Allowed(info')
    BY <1>2 DEF OmitSessionInfo, Record, Unsynchronized, Reduced
  <2>2. ~info'.synchronized
    BY <2>1, <1>a DEF SessionInfoState
  <2> QED
    BY <2>1, <2>2
<1>3. CASE OtherBatch
  BY <1>3 DEF OtherBatch
<1>4. CASE RejectBatch \/ UNCHANGED vars
  BY <1>4 DEF RejectBatch, vars
<1> QED
  BY <1>1, <1>2, <1>3, <1>4 DEF Next

\* Updates pass only for the session that the last authoritative batch named.
THEOREM GateStaysCurrent == Spec => []GateIsCurrent
<1>1. Init => GateInv
  BY DEF Init, GateInv
<1>2. GateInv => GateIsCurrent
  BY DEF GateInv, GateIsCurrent, Allowed
<1> QED
  BY <1>1, <1>2, GateNext, Retained, PTL DEF Spec

\* The retained session can always be synchronized again, also with full counters:
\* it is never among the retired, and its own route needs no token.
THEOREM SessionIsNeverLost == Spec => []CanResynchronize
<1>1. RetainedType /\ RetiredInv => CanResynchronize
  <2> SUFFICES ASSUME RetainedType, RetiredInv, info.identity # NoTuple
               PROVE  LET same == [tuple |-> info.identity, route |-> info.route,
                                   schedule |-> info.schedule]
                      IN  ReduceSessionInfo(info, same).state = [info EXCEPT !.synchronized = TRUE]
    BY DEF CanResynchronize
  <2> DEFINE same == [tuple |-> info.identity, route |-> info.route, schedule |-> info.schedule]
  <2>1. info \in SessionInfoState /\ info.retired \in Ring /\ log \in Seq(Tuples)
        /\ Mirrors(info.retired, log)
    BY DEF RetainedType, RetiredInv, SessionInfoState, Ring
  <2>2. ~RecentIn(log, info.identity)
    BY DEF RetiredInv, NoResurrection, RecentIn
  <2>3. ~Contains(info.retired, info.identity)
    BY <2>1, <2>2, ContainsRecent
  <2>4. ReduceSessionInfo(info, same).state = Refresh(info, same).state
    BY <2>3 DEF ReduceSessionInfo
  <2>5. Refresh(info, same).state = [Described(info, same) EXCEPT !.epoch = @]
    BY DEF Refresh, Reduced
  <2>6. [Described(info, same) EXCEPT !.epoch = @] = [info EXCEPT !.synchronized = TRUE]
    BY <2>1 DEF Described, SessionInfoState
  <2> QED
    BY <2>4, <2>5, <2>6
<1> QED
  BY <1>1, Retained, Retired, PTL

-----------------------------------------------------------------------------
(* The session under what the server says: a record is a batch of SessionInfo, *)
(* or none.                                                                *)


\* The manifest is that of the Subscribe, or given up.
Manifest == requested \in {Topics, {}}

LEMMA ManifestKept == Manifest /\ [FeedNext]_feedVars => Manifest'
BY DEF Manifest, FeedNext, Receive, Take, RequestedAfter, Drop, Stopped, feedVars

\* A batch is reduced as SessionInfo reduces it.
LEMMA BatchStep ==
  ASSUME NEW w \in Wire, Manifest,
         Reading(DecodeHubRecord(w.record, requested)).kind = "batch",
         ReduceBatch(Reading(DecodeHubRecord(w.record, requested)))
  PROVE  Next
<1> DEFINE batch == Reading(DecodeHubRecord(w.record, requested))
<1>1. About(batch) \subseteq Descriptors
  BY WireAssumption DEF WireAssumption, Manifest
<1> HIDE DEF batch
<1>2. CASE OtherBatch \/ OmitSessionInfo
  BY <1>2 DEF Next
<1>3. ASSUME NEW d \in About(batch), Describe(d)
      PROVE  Next
  BY <1>1, <1>3 DEF Next
<1>4. ReduceBatch(batch)
  BY DEF batch
<1> QED
  BY <1>2, <1>3, <1>4 DEF ReduceBatch

\* A record changes the session by a batch or not at all, and a disconnect leaves it.
LEMMA FeedStep == Manifest /\ [FeedNext]_feedVars => [Next]_vars
<1> SUFFICES ASSUME Manifest, [FeedNext]_feedVars PROVE Next \/ UNCHANGED vars
  OBVIOUS
<1>1. ASSUME NEW w \in Wire, Receive(w) PROVE Next \/ UNCHANGED vars
  BY <1>1, BatchStep DEF Receive, Take
<1>2. CASE Drop
  BY <1>2 DEF Drop
<1>3. CASE Stopped \/ UNCHANGED feedVars
  BY <1>3 DEF Stopped, feedVars, vars
<1> QED
  BY <1>1, <1>2, <1>3 DEF FeedNext

\* Decoding, normalization and reduction together implement the session, whatever
\* records a server sends and however often the connection is lost.
THEOREM ImplementsSessionInfo == FeedSpec => Spec
<1>1. FeedInit => Init /\ Manifest
  BY DEF FeedInit, Manifest
<1> QED
  BY <1>1, FeedStep, ManifestKept, PTL DEF FeedSpec, Spec

\* Hence no server can make two sessions share a token, nor reopen a retired one.
THEOREM TokensIdentifyOnTheWire == FeedSpec => []TokenIdentifies /\ []NoResurrection
BY ImplementsSessionInfo, TokensIdentify, RetiredStayRetired, PTL

\* No record rejected before takes the retained session away.
THEOREM SessionSurvivesTheWire == FeedSpec => []CanResynchronize
BY ImplementsSessionInfo, SessionIsNeverLost, PTL

-----------------------------------------------------------------------------
(* From records to runs: a listener who understands each record by itself, *)
(* under either manifest, is in step with the reader however the records   *)
(* and the disconnects follow one another.                                 *)

\* The history that the listener keeps is the state that the reader keeps.
InStep ==
  /\ said \in [descriptor : {seen}, answered : BOOLEAN, over : BOOLEAN]
  /\ stopped <=> said.over
  /\ ~stopped => requested = IF said.answered THEN {} ELSE Topics

\* A record moves both in the same way.
LEMMA RecordInStep ==
  ASSUME Understood, InStep, NEW w \in Wire, Receive(w)
  PROVE  InStep'
<1> DEFINE manifest == IF said.answered THEN {} ELSE Topics
           meaning  == w.meaning
           message  == DecodeHubRecord(w.record, manifest)
           batch    == Reading(message)
           over     == meaning.kind = "end" \/ (meaning.answer /\ said.answered)
<1>1. requested = manifest /\ ~stopped
  BY DEF InStep, Receive
<1>2. /\ batch.kind \in { "invalid", "closed" } <=> over
      /\ ~over => /\ message.kind = "reconnect" <=> meaning.kind = "reconnect"
                  /\ Answers(message) <=> meaning.answer
                  /\ meaning.kind = "session" => batch.kind = "batch"
      /\ batch.kind = "batch" =>
           IF meaning.kind = "session"
           THEN \/ About(batch) = { meaning.descriptor }
                \/ About(batch) = {} /\ Owed(batch) /\ meaning.descriptor = Unresolved
           ELSE About(batch) = {} /\ ~Owed(batch)
  BY DEF Understood, InStep
<1>3. /\ requested' = RequestedAfter(message)
      /\ stopped' = (batch.kind \in { "invalid", "closed" })
      /\ IF batch.kind = "batch" THEN ReduceBatch(batch) ELSE UNCHANGED vars
      /\ said' = Hear(said, meaning)
  BY <1>1 DEF Receive, Take
<1> HIDE DEF message, batch
<1>4. /\ said' \in [descriptor : {said'.descriptor}, answered : BOOLEAN, over : BOOLEAN]
      /\ said'.over = over
  BY <1>3 DEF Hear
<1>5. stopped' <=> said'.over
  BY <1>2, <1>3, <1>4
<1>6. ASSUME ~stopped'
      PROVE  requested' = IF said'.answered THEN {} ELSE Topics
  <2>1. ~over
    BY <1>4, <1>5, <1>6
  <2>2. said'.answered = (meaning.kind # "reconnect" /\ (said.answered \/ meaning.answer))
    BY <1>3 DEF Hear
  <2>3. CASE message.kind = "reconnect"
    BY <1>2, <1>3, <2>1, <2>2, <2>3 DEF RequestedAfter
  <2>4. CASE Answers(message)
    BY <1>2, <1>3, <2>1, <2>2, <2>4 DEF RequestedAfter, Answers
  <2>5. CASE message.kind # "reconnect" /\ ~Answers(message)
    BY <1>1, <1>2, <1>3, <2>1, <2>2, <2>5 DEF RequestedAfter
  <2> QED
    BY <2>3, <2>4, <2>5
<1>7. seen' = said'.descriptor
  <2>1. said'.descriptor = IF meaning.kind = "session" /\ ~(meaning.answer /\ said.answered)
                           THEN meaning.descriptor ELSE said.descriptor
    BY <1>3 DEF Hear
  <2>2. CASE batch.kind # "batch"
    <3>1. seen' = seen
      BY <1>3, <2>2 DEF vars
    <3> QED
      BY <1>2, <2>1, <2>2, <3>1 DEF InStep
  <2>3. CASE batch.kind = "batch" /\ meaning.kind = "session"
    <3>1. said'.descriptor = meaning.descriptor
      BY <1>2, <2>1, <2>3
    <3>2. CASE About(batch) = { meaning.descriptor }
      <4>1. Describe(meaning.descriptor)
        BY <1>3, <2>3, <3>2 DEF ReduceBatch
      <4> QED
        BY <3>1, <4>1 DEF Describe
    <3>3. CASE About(batch) = {} /\ Owed(batch) /\ meaning.descriptor = Unresolved
      <4>1. OmitSessionInfo
        BY <1>3, <2>3, <3>3 DEF ReduceBatch
      <4> QED
        BY <3>1, <3>3, <4>1 DEF OmitSessionInfo, Unresolved
    <3> QED
      BY <1>2, <2>3, <3>2, <3>3
  <2>4. CASE batch.kind = "batch" /\ meaning.kind # "session"
    <3>1. OtherBatch
      BY <1>2, <1>3, <2>4 DEF ReduceBatch
    <3> QED
      BY <2>1, <2>4, <3>1 DEF OtherBatch, InStep
  <2> QED
    BY <2>2, <2>3, <2>4
<1> QED
  BY <1>4, <1>5, <1>6, <1>7 DEF InStep

\* So does a disconnect, after which both await an answer again.
LEMMA KeptInStep ==
  ASSUME Understood, InStep, [FeedNext]_feedVars
  PROVE  InStep'
<1>1. ASSUME NEW w \in Wire, Receive(w) PROVE InStep'
  BY <1>1, RecordInStep
<1>2. CASE Drop
  <2>1. said' = [said EXCEPT !.answered = FALSE] /\ requested' = Topics
        /\ seen' = seen /\ stopped' = stopped
    BY <1>2 DEF Drop, vars
  <2> QED
    BY <2>1 DEF InStep
<1>3. CASE Stopped \/ UNCHANGED feedVars
  BY <1>3 DEF Stopped, feedVars, vars, InStep
<1> QED
  BY <1>1, <1>2, <1>3 DEF FeedNext

\* Whatever the server sends in whatever order, an open gate is the gate of the
\* session it named last, and the input stops for what is out of the protocol and
\* for nothing else, if it understands each record by itself.
THEOREM GateFollows ==
  ASSUME Understood
  PROVE  FeedSpec => []GateFollowsTheWire
<1>1. FeedInit => InStep
  BY DEF FeedInit, Init, InStep, Unheard, Unresolved
<1>2. InStep /\ [FeedNext]_feedVars => InStep'
  BY KeptInStep
<1>3. InStep /\ GateIsCurrent => GateFollowsTheWire
  BY DEF InStep, GateIsCurrent, GateFollowsTheWire
<1> QED
  BY <1>1, <1>2, <1>3, ImplementsSessionInfo, GateStaysCurrent, PTL DEF FeedSpec
=============================================================================
