----------------------------- MODULE SessionInfo -----------------------------
(***************************************************************************)
(* The identity of the Live Timing session and the gate it puts before     *)
(* every other update (session_info_reducer.go, session_info_batch.go,     *)
(* state.go, and reduceNormalizedBatch of receiver.go).                    *)
(*                                                                         *)
(* A parsed SessionInfo object is a descriptor: the logical tuple it names *)
(* (NoTuple when the identity does not resolve), the routing key and the   *)
(* schedule, each valid or absent.  The canonical session type is a        *)
(* function of the tuple's session name and is left out.  Generation and   *)
(* route epoch are unsigned counters that wrap at MaxGeneration and        *)
(* MaxEpoch (2^64 - 1 in the code).                                        *)
(***************************************************************************)
EXTENDS Integers, Sequences

CONSTANTS
  Tuples, NoTuple,       \* logical tuples: season, meeting key, session name
  Routes, NoRoute,       \* routing keys
  Schedules, NoSchedule,
  Limit,                 \* sessionInfoRetiredTupleLimit: 256
  MaxGeneration,
  MaxEpoch

ASSUME SessionAssumption ==
  /\ NoTuple \notin Tuples /\ NoRoute \notin Routes /\ NoSchedule \notin Schedules
  /\ Limit \in Nat \ {0}
  /\ MaxGeneration \in Nat \ {0} /\ MaxEpoch \in Nat

VARIABLES
  info,         \* the retained sessionInfoState
  disposition,  \* of the last authoritative reduction, or "none"
  gate,         \* sessionScopedUpdatesAllowed of the last batch
  seen,         \* history: the last authoritative descriptor
  log,          \* history: every tuple retired, oldest first
  issued        \* history: every token that was current, with what it stood for

vars == << info, disposition, gate, seen, log, issued >>

Descriptors == [ tuple    : Tuples \cup {NoTuple},
                 route    : Routes \cup {NoRoute},
                 schedule : Schedules \cup {NoSchedule} ]

Dispositions == { "unresolved", "stale", "installed", "refreshed", "replaced",
                  "tokenExhausted" }

Slots == 0 .. (Limit - 1)

SessionInfoState ==
  [ identity     : Tuples \cup {NoTuple},
    synchronized : BOOLEAN,
    route        : Routes \cup {NoRoute},
    schedule     : Schedules \cup {NoSchedule},
    generation   : 0 .. MaxGeneration,
    epoch        : 0 .. MaxEpoch,
    retired      : [tuples : [Slots -> Tuples \cup {NoTuple}],
                    start : Slots, count : 0 .. Limit] ]

-----------------------------------------------------------------------------
(* The retired tuples: a FIFO of the last Limit of them in a ring.         *)

Contains(ring, t) ==
  \E offset \in 0 .. (ring.count - 1) : ring.tuples[(ring.start + offset) % Limit] = t

\* Seeded fault: a full ring overwrites its newest tuple.
AddOverNewest(ring, t) ==
  IF ring.count < Limit
  THEN [ring EXCEPT !.tuples[(ring.start + ring.count) % Limit] = t, !.count = @ + 1]
  ELSE [ring EXCEPT !.tuples[(ring.start + Limit - 1) % Limit] = t]

Add(ring, t) ==
  IF ring.count < Limit
  THEN [ring EXCEPT !.tuples[(ring.start + ring.count) % Limit] = t, !.count = @ + 1]
  ELSE [ring EXCEPT !.tuples[ring.start] = t, !.start = (@ + 1) % Limit]

-----------------------------------------------------------------------------
(* The reducer.  A reduction is a record [state, disposition].             *)

Reduced(s, d) == [state |-> s, disposition |-> d]

Unsynchronized(s, d) == Reduced([s EXCEPT !.synchronized = FALSE], d)

\* Route and schedule are replaced together with the rest of the descriptor.
Described(s, d) ==
  [s EXCEPT !.synchronized = TRUE, !.route = d.route, !.schedule = d.schedule]

\* The next generation under the identity of d.
Generated(s, d) ==
  [Described(s, d) EXCEPT !.identity = d.tuple, !.epoch = 0,
                          !.generation = (@ + 1) % (MaxGeneration + 1)]

Install(s, d) ==
  IF s.generation = MaxGeneration
  THEN Unsynchronized(s, "tokenExhausted")
  ELSE Reduced(Generated(s, d), "installed")

\* Seeded fault: the route changes under an unchanged token.
RefreshKeepsEpoch(s, d) == Reduced(Described(s, d), "refreshed")

\* Seeded fault: an exhausted epoch rejects every descriptor of the tuple.
RefreshNeedsToken(s, d) ==
  IF s.epoch = MaxEpoch
  THEN Unsynchronized(s, "tokenExhausted")
  ELSE Reduced([Described(s, d) EXCEPT
                 !.epoch = IF s.route # d.route THEN @ + 1 ELSE @], "refreshed")

\* The same tuple: only a change of the route, its loss and its restoration
\* included, needs a new token.
Refresh(s, d) ==
  LET routeTransition == s.route # d.route
  IN  IF routeTransition /\ s.epoch = MaxEpoch
      THEN Unsynchronized(s, "tokenExhausted")
      ELSE Reduced([Described(s, d) EXCEPT
                     !.epoch = IF routeTransition THEN (@ + 1) % (MaxEpoch + 1) ELSE @],
                   "refreshed")

\* Seeded fault: the generation wraps.
ReplaceWraps(s, d) ==
  Reduced([Generated(s, d) EXCEPT !.retired = Add(@, s.identity)], "replaced")

Replace(s, d) ==
  IF s.generation = MaxGeneration
  THEN Unsynchronized(s, "tokenExhausted")
  ELSE Reduced([Generated(s, d) EXCEPT !.retired = Add(@, s.identity)], "replaced")

\* Seeded fault: an identity that does not resolve leaves the gate as it was.
ReduceSessionInfoKeepsGate(s, d) ==
  IF d.tuple = NoTuple \/ Contains(s.retired, d.tuple) THEN Reduced(s, "unresolved")
  ELSE IF s.identity = NoTuple THEN Install(s, d)
  ELSE IF s.identity = d.tuple THEN Refresh(s, d)
  ELSE Replace(s, d)

\* Seeded fault: retired tuples are not looked for.
ReduceSessionInfoRevives(s, d) ==
  IF d.tuple = NoTuple THEN Unsynchronized(s, "unresolved")
  ELSE IF s.identity = NoTuple THEN Install(s, d)
  ELSE IF s.identity = d.tuple THEN Refresh(s, d)
  ELSE Replace(s, d)

ReduceSessionInfo(s, d) ==
  IF d.tuple = NoTuple THEN Unsynchronized(s, "unresolved")
  ELSE IF Contains(s.retired, d.tuple) THEN Unsynchronized(s, "stale")
  ELSE IF s.identity = NoTuple THEN Install(s, d)
  ELSE IF s.identity = d.tuple THEN Refresh(s, d)
  ELSE Replace(s, d)

-----------------------------------------------------------------------------
Init ==
  /\ info = [ identity |-> NoTuple, synchronized |-> FALSE, route |-> NoRoute,
              schedule |-> NoSchedule, generation |-> 0, epoch |-> 0,
              retired |-> [tuples |-> [i \in Slots |-> NoTuple],
                           start |-> 0, count |-> 0] ]
  /\ disposition = "none"
  /\ gate = FALSE
  /\ seen = [tuple |-> NoTuple, route |-> NoRoute, schedule |-> NoSchedule]
  /\ log = << >>
  /\ issued = {}

\* The gate of reduceLiveTimingBatch, of the state after the batch.
Allowed(s) == s.identity # NoTuple /\ s.synchronized

\* What an asynchronous effect is stamped with, and what it was started for.
Token(s) == [ generation |-> s.generation, epoch |-> s.epoch,
              tuple |-> s.identity, route |-> s.route ]

Record(reduction) ==
  /\ info' = reduction.state
  /\ disposition' = reduction.disposition
  /\ gate' = Allowed(reduction.state)
  /\ log' = IF reduction.disposition = "replaced" THEN Append(log, info.identity) ELSE log
  /\ issued' = IF reduction.state.identity # NoTuple
               THEN issued \cup {Token(reduction.state)} ELSE issued

\* A feed of SessionInfo, or a completion whose snapshot holds it.
Describe(d) ==
  /\ Record(ReduceSessionInfo(info, d))
  /\ seen' = d

\* A completion that requested SessionInfo and omits it is authoritative, too.
OmitSessionInfo ==
  /\ Record(Unsynchronized(info, "unresolved"))
  /\ seen' = [tuple |-> NoTuple, route |-> NoRoute, schedule |-> NoSchedule]

\* A batch without authority over SessionInfo: another topic, or a completion that
\* did not request it.
OtherBatch ==
  /\ gate' = Allowed(info)
  /\ UNCHANGED << info, disposition, seen, log, issued >>

\* A batch or payload out of contract: the reduction is an error and the receiver
\* keeps its state.
RejectBatch == UNCHANGED vars

Next == \/ \E d \in Descriptors : Describe(d)
        \/ OmitSessionInfo \/ OtherBatch \/ RejectBatch

Spec == Init /\ [][Next]_vars

-----------------------------------------------------------------------------
(* Properties.                                                             *)

TypeOK ==
  /\ info \in SessionInfoState
  /\ disposition \in Dispositions \cup {"none"}
  /\ gate \in BOOLEAN
  /\ seen \in Descriptors
  /\ log \in Seq(Tuples)
  /\ issued \subseteq [generation : 0 .. MaxGeneration, epoch : 0 .. MaxEpoch,
                       tuple : Tuples, route : Routes \cup {NoRoute}]

\* A token stands for one session under one route: work that was started under an
\* equal token was started for what is current, whatever changes of route,
\* replacements and returns of evicted tuples came in between.
TokenIdentifies ==
  \A a, b \in issued :
    /\ a.generation = b.generation => a.tuple = b.tuple
    /\ a.generation = b.generation /\ a.epoch = b.epoch => a.route = b.route

\* The generation counts the sessions installed and the token never runs back,
\* so a full counter stops and does not wrap.
TokenNeverRunsBack ==
  [][ /\ info'.generation >= info.generation
      /\ info'.generation = info.generation => info'.epoch >= info.epoch ]_vars

\* None of the last Limit retired sessions is current.
NoResurrection ==
  \A i \in 1 .. Len(log) : i > Len(log) - Limit => log[i] # info.identity

\* Updates are let through only for the session the last authoritative batch
\* named, under the route and the schedule it gave.
GateIsCurrent ==
  gate => /\ seen.tuple = info.identity
          /\ seen.route = info.route
          /\ seen.schedule = info.schedule

\* Whatever was rejected, repeating the retained tuple and route synchronizes
\* again and needs no new token, so that exhausted counters lose no session.
CanResynchronize ==
  info.identity # NoTuple =>
    LET same == [tuple |-> info.identity, route |-> info.route, schedule |-> info.schedule]
    IN  ReduceSessionInfo(info, same).state = [info EXCEPT !.synchronized = TRUE]

-----------------------------------------------------------------------------
(* The ring implements the unbounded ledger of retired sessions.           *)

Ledger == INSTANCE SessionLedger WITH
            current <- info.identity, retired <- log, synchronized <- info.synchronized,
            route <- info.route, sessions <- info.generation

\* The reducer over the ring behaves as one over the log of all retired tuples of
\* which it consults the last Limit.
KeepsLedger == Ledger!Spec
=============================================================================
