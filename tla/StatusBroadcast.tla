--------------------------- MODULE StatusBroadcast ---------------------------
(***************************************************************************)
(* The status broadcaster of a shared receiver (receiver.go): the host of  *)
(* every signal registers, at its Start, and is told the current event;    *)
(* every event the reporter reports goes to all registered hosts.          *)
(*                                                                         *)
(* The delivery lock is held over the calls to the hosts, which may call   *)
(* back for the extensions.  The state's own mutex is held for one action  *)
(* only and needs no variable.  The reporter's Reports come one at a time, *)
(* under its mutex, and the first follows a registration.                  *)
(***************************************************************************)
EXTENDS Naturals, SequencesExt

CONSTANTS
  Hosts,     \* one per registration
  Reporter,  \* the caller of Report
  Free,      \* no one holds the delivery lock
  MaxEvents  \* events reported

ASSUME BroadcastAssumption ==
  /\ MaxEvents \in Nat
  /\ Reporter \notin Hosts
  /\ Free \notin Hosts \cup {Reporter}

VARIABLES
  hosts,    \* the registered hosts, in order
  current,  \* the number of the last event reported, 0 before the first
  delivery, \* who holds the delivery lock, or Free
  pc,       \* the line each caller is at
  replay,   \* per host, the current event that register read
  pending,  \* the hosts a Report has still to tell
  callback, \* per caller, its call to a host: "none", "called" or "answered"
  seen      \* history: per host, the events it was told

vars == << hosts, current, delivery, pc, replay, pending, callback, seen >>

Processes == Hosts \cup {Reporter}

Labels == { "idle", "lock", "store", "tell", "unlock", "registered" }

Init ==
  /\ hosts = << >>
  /\ current = 0
  /\ delivery = Free
  /\ pc = [p \in Processes |-> "idle"]
  /\ replay = [h \in Hosts |-> 0]
  /\ pending = << >>
  /\ callback = [p \in Processes |-> "none"]
  /\ seen = [h \in Hosts |-> << >>]

Goto(p, l) == pc' = [pc EXCEPT ![p] = l]

\* register and Report are called.
Call(p) ==
  /\ pc[p] = "idle"
  /\ p = Reporter => /\ current < MaxEvents
                     /\ \E h \in Hosts : pc[h] = "registered"
  /\ Goto(p, "lock")
  /\ UNCHANGED << hosts, current, delivery, replay, pending, callback, seen >>

\* Seeded fault: register does not take the delivery lock.
LockReportsOnly(p) ==
  /\ pc[p] = "lock"
  /\ p = Reporter => delivery = Free
  /\ delivery' = IF p = Reporter THEN p ELSE delivery
  /\ Goto(p, "store")
  /\ UNCHANGED << hosts, current, replay, pending, callback, seen >>

Lock(p) ==
  /\ pc[p] = "lock"
  /\ delivery = Free
  /\ delivery' = p
  /\ Goto(p, "store")
  /\ UNCHANGED << hosts, current, replay, pending, callback, seen >>

\* register, under the state's mutex.
Register(h) ==
  /\ pc[h] = "store"
  /\ hosts' = Append(hosts, h)
  /\ replay' = [replay EXCEPT ![h] = current]
  /\ Goto(h, IF current = 0 THEN "unlock" ELSE "tell")
  /\ UNCHANGED << current, delivery, pending, callback, seen >>

\* Seeded fault: the first host stands for all.
ReportToFirst ==
  /\ pc[Reporter] = "store"
  /\ current' = current + 1
  /\ pending' = SubSeq(hosts, 1, 1)
  /\ Goto(Reporter, "tell")
  /\ UNCHANGED << hosts, delivery, replay, callback, seen >>

\* Report, under the state's mutex.
Report ==
  /\ pc[Reporter] = "store"
  /\ current' = current + 1
  /\ pending' = hosts
  /\ Goto(Reporter, "tell")
  /\ UNCHANGED << hosts, delivery, replay, callback, seen >>

\* The host p is about to tell, and the event.
Target(p) == IF p = Reporter THEN Head(pending) ELSE p
Event(p) == IF p = Reporter THEN current ELSE replay[p]

CallHost(p) ==
  /\ pc[p] = "tell"
  /\ callback[p] = "none"
  /\ p = Reporter => pending # << >>
  /\ callback' = [callback EXCEPT ![p] = "called"]
  /\ UNCHANGED << hosts, current, delivery, pc, replay, pending, seen >>

\* Seeded fault: the extensions are looked up under the delivery lock.
GetExtensionsLocked(p) ==
  /\ callback[p] = "called"
  /\ delivery = Free
  /\ callback' = [callback EXCEPT ![p] = "answered"]
  /\ UNCHANGED << hosts, current, delivery, pc, replay, pending, seen >>

\* The host calls back before it returns; only the state's mutex is needed.
GetExtensions(p) ==
  /\ callback[p] = "called"
  /\ callback' = [callback EXCEPT ![p] = "answered"]
  /\ UNCHANGED << hosts, current, delivery, pc, replay, pending, seen >>

HostReturns(p) ==
  /\ callback[p] = "answered"
  /\ callback' = [callback EXCEPT ![p] = "none"]
  /\ seen' = [seen EXCEPT ![Target(p)] = Append(@, Event(p))]
  /\ IF p = Reporter
     THEN pending' = Tail(pending) /\ UNCHANGED pc
     ELSE Goto(p, "unlock") /\ UNCHANGED pending
  /\ UNCHANGED << hosts, current, delivery, replay >>

AllTold ==
  /\ pc[Reporter] = "tell"
  /\ pending = << >>
  /\ Goto(Reporter, "unlock")
  /\ UNCHANGED << hosts, current, delivery, replay, pending, callback, seen >>

Unlock(p) ==
  /\ pc[p] = "unlock"
  /\ delivery' = Free
  /\ Goto(p, IF p = Reporter THEN "idle" ELSE "registered")
  /\ UNCHANGED << hosts, current, replay, pending, callback, seen >>

\* All hosts are registered and nothing more is reported.
Quiescent ==
  /\ \A h \in Hosts : pc[h] = "registered"
  /\ pc[Reporter] = "idle" /\ current = MaxEvents
  /\ UNCHANGED vars

Tells(p) == CallHost(p) \/ GetExtensions(p) \/ HostReturns(p)

Next == \/ \E p \in Processes : Call(p) \/ Lock(p) \/ Tells(p) \/ Unlock(p)
        \/ \E h \in Hosts : Register(h)
        \/ Report \/ AllTold
        \/ Quiescent

Spec == Init /\ [][Next]_vars

\* Callers are scheduled, hosts return and the mutex starves nobody.  Nothing makes
\* a host register or an event happen.
Fairness ==
  /\ \A p \in Processes : SF_vars(Lock(p)) /\ WF_vars(Tells(p)) /\ WF_vars(Unlock(p))
  /\ \A h \in Hosts : WF_vars(Register(h))
  /\ WF_vars(Report) /\ WF_vars(AllTold)

FairSpec == Spec /\ Fairness
-----------------------------------------------------------------------------
(* Properties.                                                             *)

\* Every host sees a stretch of one sequence of events: a late registration can
\* neither miss the event that is being reported nor see it twice or out of order.
\* And every delivery gets through, although hosts call back for the extensions
\* while they are told.
Feed == INSTANCE StatusFeed WITH hosts <- ToSet(hosts), latest <- current
KeepsFeed == Feed!Spec
=============================================================================
