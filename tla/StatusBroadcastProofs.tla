------------------------- MODULE StatusBroadcastProofs -------------------------
(***************************************************************************)
(* Theorems about the status broadcaster, for any hosts and any number of  *)
(* events.                                                                 *)
(***************************************************************************)
EXTENDS StatusBroadcast, TLAPS

-----------------------------------------------------------------------------
(* Sequences as lists of hosts.                                            *)

LEMMA SetOfAppend ==
  ASSUME NEW S, NEW s \in Seq(S), NEW x \in S
  PROVE  ToSet(Append(s, x)) = ToSet(s) \cup {x}
<1> DEFINE t == Append(s, x)
<1>1. /\ Len(s) \in Nat /\ DOMAIN s = 1 .. Len(s) /\ DOMAIN t = 1 .. (Len(s) + 1)
      /\ t[Len(s) + 1] = x /\ \A i \in 1 .. Len(s) : t[i] = s[i]
  OBVIOUS
<1> HIDE DEF t
<1>2. ASSUME NEW y \in ToSet(t) PROVE y \in ToSet(s) \cup {x}
  <2>1. PICK i \in 1 .. (Len(s) + 1) : y = t[i]
    BY <1>1, <1>2 DEF ToSet
  <2>2. i = Len(s) + 1 \/ i \in 1 .. Len(s)
    BY <1>1, <2>1
  <2> QED
    BY <1>1, <2>1, <2>2 DEF ToSet
<1>3. ASSUME NEW y \in ToSet(s) \cup {x} PROVE y \in ToSet(t)
  <2>1. y = x \/ \E i \in 1 .. Len(s) : y = s[i]
    BY <1>1, <1>3 DEF ToSet
  <2>2. Len(s) + 1 \in 1 .. (Len(s) + 1) /\ 1 .. Len(s) \subseteq 1 .. (Len(s) + 1)
    BY <1>1
  <2> QED
    BY <1>1, <2>1, <2>2 DEF ToSet
<1> QED
  BY <1>2, <1>3 DEF t

LEMMA SetOfEmpty == ToSet(<< >>) = {} /\ IsInjective(<< >>)
BY DEF ToSet, IsInjective

\* The rest of a list without repetition is everyone but its first.
LEMMA SetOfTail ==
  ASSUME NEW S, NEW s \in Seq(S), s # << >>, IsInjective(s)
  PROVE  /\ Head(s) \in ToSet(s) /\ Tail(s) \in Seq(S) /\ IsInjective(Tail(s))
         /\ ToSet(Tail(s)) = ToSet(s) \ {Head(s)}
<1> DEFINE t == Tail(s)
<1>1. /\ Len(s) \in Nat /\ Len(s) > 0 /\ DOMAIN s = 1 .. Len(s)
      /\ DOMAIN t = 1 .. (Len(s) - 1) /\ t \in Seq(S)
      /\ Head(s) = s[1] /\ \A i \in 1 .. (Len(s) - 1) : t[i] = s[i + 1]
  OBVIOUS
<1> HIDE DEF t
<1>2. Head(s) \in ToSet(s)
  BY <1>1 DEF ToSet
<1>3. IsInjective(t)
  <2> SUFFICES ASSUME NEW i \in 1 .. (Len(s) - 1), NEW j \in 1 .. (Len(s) - 1), t[i] = t[j]
               PROVE  i = j
    BY <1>1 DEF IsInjective
  <2>1. s[i + 1] = s[j + 1] /\ i + 1 \in 1 .. Len(s) /\ j + 1 \in 1 .. Len(s)
    BY <1>1
  <2>2. i + 1 = j + 1
    BY <1>1, <2>1 DEF IsInjective
  <2> QED
    BY <2>2
<1>4. ASSUME NEW y \in ToSet(t) PROVE y \in ToSet(s) \ {Head(s)}
  <2>1. PICK i \in 1 .. (Len(s) - 1) : y = t[i]
    BY <1>1, <1>4 DEF ToSet
  <2>2. y = s[i + 1] /\ i + 1 \in 1 .. Len(s) /\ 1 \in 1 .. Len(s) /\ i + 1 # 1
    BY <1>1, <2>1
  <2> QED
    BY <1>1, <2>2 DEF ToSet, IsInjective
<1>5. ASSUME NEW y \in ToSet(s) \ {Head(s)} PROVE y \in ToSet(t)
  <2>1. PICK i \in 1 .. Len(s) : y = s[i]
    BY <1>1, <1>5 DEF ToSet
  <2>2. i # 1
    BY <1>1, <1>5, <2>1
  <2>3. i - 1 \in 1 .. (Len(s) - 1) /\ (i - 1) + 1 = i
    BY <1>1, <2>2
  <2>4. t[i - 1] = y
    BY <1>1, <2>1, <2>3
  <2> QED
    BY <1>1, <2>3, <2>4 DEF ToSet
<1> QED
  BY <1>1, <1>2, <1>3, <1>4, <1>5 DEF t

LEMMA InjectiveAppend ==
  ASSUME NEW S, NEW s \in Seq(S), NEW x \in S, IsInjective(s), x \notin ToSet(s)
  PROVE  IsInjective(Append(s, x))
<1> DEFINE t == Append(s, x)
<1>1. /\ Len(s) \in Nat /\ DOMAIN s = 1 .. Len(s) /\ DOMAIN t = 1 .. (Len(s) + 1)
      /\ t[Len(s) + 1] = x /\ \A i \in 1 .. Len(s) : t[i] = s[i] /\ s[i] # x
  BY DEF ToSet
<1> HIDE DEF t
<1> SUFFICES ASSUME NEW i \in 1 .. (Len(s) + 1), NEW j \in 1 .. (Len(s) + 1), t[i] = t[j]
             PROVE  i = j
  BY <1>1 DEF IsInjective, t
<1>2. (i = Len(s) + 1 \/ i \in 1 .. Len(s)) /\ (j = Len(s) + 1 \/ j \in 1 .. Len(s))
  BY <1>1
<1> QED
  BY <1>1, <1>2 DEF IsInjective

-----------------------------------------------------------------------------
(* The invariant.                                                          *)

TypeOK ==
  /\ hosts \in Seq(Hosts)
  /\ current \in Nat
  /\ delivery \in Processes \cup {Free}
  /\ pc \in [Processes -> Labels]
  /\ replay \in [Hosts -> Nat]
  /\ pending \in Seq(Hosts)
  /\ callback \in [Processes -> {"none", "called", "answered"}]
  /\ seen \in [Hosts -> Seq(Nat)]

\* Whoever is between Lock and Unlock holds the delivery lock, and nobody else does.
LockInv == \A p \in Processes : pc[p] \in { "store", "tell", "unlock" } <=> delivery = p

\* Hosts are called under the lock.
CallInv ==
  \A p \in Processes : callback[p] # "none" =>
    pc[p] = "tell" /\ (p = Reporter => pending # << >>)

\* The list holds each host that has registered once, and what a Report has still to
\* tell is taken from it.
ListInv ==
  /\ \A h \in Hosts : h \in ToSet(hosts) <=> pc[h] \in { "tell", "unlock", "registered" }
  /\ IsInjective(hosts) /\ IsInjective(pending)
  /\ ToSet(pending) \subseteq ToSet(hosts)
  /\ pending # << >> => pc[Reporter] = "tell"
  /\ pc[Reporter] = "tell" => current > 0

\* A host that was told anything was told the current event, or the one before while a
\* Report has still to tell it; what register read is current until it is told.
SeenInv ==
  \A h \in Hosts :
    /\ pc[h] \in { "idle", "lock", "store", "tell" } => seen[h] = << >>
    /\ pc[h] = "tell" => current > 0 /\ replay[h] = current
    /\ seen[h] # << >> =>
         seen[h][Len(seen[h])] = IF h \in ToSet(pending) THEN current - 1 ELSE current

BroadcastInv == TypeOK /\ LockInv /\ CallInv /\ ListInv /\ SeenInv

LEMMA BroadcastInit == Init => BroadcastInv
<1> SUFFICES ASSUME Init PROVE BroadcastInv
  OBVIOUS
<1>1. TypeOK
  BY DEF Init, TypeOK, Processes, Labels
<1>2. LockInv
  BY BroadcastAssumption DEF Init, LockInv, BroadcastAssumption, Processes
<1>3. CallInv /\ ListInv /\ SeenInv
  BY SetOfEmpty DEF Init, CallInv, ListInv, SeenInv, Processes
<1> QED
  BY <1>1, <1>2, <1>3 DEF BroadcastInv

-----------------------------------------------------------------------------
(* The steps.  Each leaves all parts alone but those that it names.        *)

\* The lock is passed by those who take it and give it up.
LEMMA LockNext == BroadcastInv /\ [Next]_vars => LockInv'
<1> SUFFICES ASSUME BroadcastInv, [Next]_vars PROVE LockInv'
  OBVIOUS
<1> USE DEF BroadcastInv, TypeOK, LockInv, Goto
<1>a. \A h \in Hosts : h \in Processes /\ h # Reporter
  BY BroadcastAssumption DEF BroadcastAssumption, Processes
<1>b. Reporter \in Processes /\ Free \notin Processes
  BY BroadcastAssumption DEF BroadcastAssumption, Processes
<1>1. ASSUME NEW p \in Processes, Call(p) PROVE LockInv'
  BY <1>1 DEF Call
<1>2. ASSUME NEW p \in Processes, Lock(p) PROVE LockInv'
  BY <1>2, <1>b DEF Lock
<1>3. ASSUME NEW p \in Processes, Tells(p) PROVE LockInv'
  <2>1. delivery' = delivery
    BY <1>3 DEF Tells, CallHost, GetExtensions, HostReturns
  <2>2. CASE pc' = pc
    BY <2>1, <2>2
  <2>3. CASE HostReturns(p) /\ p # Reporter
    <3>1. pc[p] = "tell" /\ pc' = [pc EXCEPT ![p] = "unlock"]
      BY <2>3 DEF HostReturns, CallInv
    <3> QED
      BY <2>1, <3>1
  <2> QED
    BY <1>3, <2>2, <2>3 DEF Tells, CallHost, GetExtensions, HostReturns
<1>4. ASSUME NEW p \in Processes, Unlock(p) PROVE LockInv'
  <2>1. delivery = p /\ delivery' = Free
    BY <1>4 DEF Unlock
  <2>2. pc' = [pc EXCEPT ![p] = IF p = Reporter THEN "idle" ELSE "registered"]
    BY <1>4 DEF Unlock
  <2>3. pc'[p] \notin { "store", "tell", "unlock" }
    BY <2>2
  <2> QED
    BY <2>1, <2>2, <2>3, <1>b
<1>5. ASSUME NEW h \in Hosts, Register(h) PROVE LockInv'
  BY <1>5, <1>a DEF Register
<1>6. CASE Report
  BY <1>6, <1>b DEF Report
<1>7. CASE AllTold
  BY <1>7, <1>b DEF AllTold
<1>8. CASE Quiescent \/ UNCHANGED vars
  BY <1>8 DEF Quiescent, vars
<1> QED
  BY <1>1, <1>2, <1>3, <1>4, <1>5, <1>6, <1>7, <1>8 DEF Next

\* A call in which nobody is told anything: the caller moves on, the lists stay.
LEMMA MoveKeeps ==
  ASSUME BroadcastInv, NEW p \in Processes, NEW l \in Labels, Goto(p, l),
         UNCHANGED << hosts, current, replay, pending, callback, seen >>,
         callback[p] = "none",
         p # Reporter => << pc[p], l >> \in { << "idle", "lock" >>, << "lock", "store" >>,
                                             << "unlock", "registered" >> },
         p = Reporter => l # "tell" /\ pending = << >>
  PROVE  CallInv' /\ ListInv' /\ SeenInv'
<1> USE DEF BroadcastInv, TypeOK, Goto
<1>1. CallInv'
  BY DEF CallInv
<1>a. \A h \in Hosts : h \in Processes
  BY DEF Processes
<1>b. Reporter \in Processes
  BY DEF Processes
<1>2. \A h \in Hosts : /\ pc'[h] \in { "tell", "unlock", "registered" }
                            <=> pc[h] \in { "tell", "unlock", "registered" }
                       /\ pc'[h] \in { "idle", "lock", "store", "tell" }
                            => pc[h] \in { "idle", "lock", "store", "tell" }
                       /\ pc'[h] = "tell" => pc[h] = "tell"
  <2> SUFFICES ASSUME NEW h \in Hosts
               PROVE  /\ pc'[h] \in { "tell", "unlock", "registered" }
                           <=> pc[h] \in { "tell", "unlock", "registered" }
                      /\ pc'[h] \in { "idle", "lock", "store", "tell" }
                           => pc[h] \in { "idle", "lock", "store", "tell" }
                      /\ pc'[h] = "tell" => pc[h] = "tell"
    OBVIOUS
  <2>1. h # Reporter
    BY BroadcastAssumption DEF BroadcastAssumption
  <2>2. CASE h = p
    BY <2>1, <2>2, <1>a
  <2>3. CASE h # p
    BY <2>3, <1>a
  <2> QED
    BY <2>2, <2>3
<1>3. ListInv'
  <2>1. pc'[Reporter] = "tell" => pc[Reporter] = "tell"
    BY <1>b
  <2>2. pending' # << >> => pc'[Reporter] = "tell"
    BY <1>b DEF ListInv
  <2> QED
    BY <1>2, <2>1, <2>2 DEF ListInv
<1>4. SeenInv'
  BY <1>2 DEF SeenInv
<1> QED
  BY <1>1, <1>3, <1>4

LEMMA TypeNext == BroadcastInv /\ [Next]_vars => TypeOK'
<1> SUFFICES ASSUME BroadcastInv, [Next]_vars PROVE TypeOK'
  OBVIOUS
<1> USE DEF BroadcastInv, TypeOK, Goto
<1>a. /\ {"idle", "lock", "store", "tell", "unlock", "registered"} \subseteq Labels
      /\ \A h \in Hosts : h \in Processes
      /\ Reporter \in Processes
  BY DEF Labels, Processes
<1>1. ASSUME NEW p \in Processes, Call(p) PROVE TypeOK'
  BY <1>1, <1>a DEF Call
<1>2. ASSUME NEW p \in Processes, Lock(p) PROVE TypeOK'
  BY <1>2, <1>a DEF Lock
<1>3. ASSUME NEW p \in Processes, CallHost(p) \/ GetExtensions(p) PROVE TypeOK'
  BY <1>3 DEF CallHost, GetExtensions
<1>4. ASSUME NEW p \in Processes, HostReturns(p) PROVE TypeOK'
  <2>0. p = Reporter => pending # << >>
    BY <1>4 DEF HostReturns, CallInv
  <2>1. pending' \in Seq(Hosts) /\ pc' \in [Processes -> Labels]
    <3>1. CASE p = Reporter
      <4>1. pending' = Tail(pending) /\ pc' = pc
        BY <1>4, <3>1 DEF HostReturns
      <4> QED
        BY <2>0, <3>1, <4>1
    <3>2. CASE p # Reporter
      BY <1>4, <1>a, <3>2 DEF HostReturns
    <3> QED
      BY <3>1, <3>2
  <2>2. Target(p) \in Hosts /\ Event(p) \in Nat
    <3>1. p # Reporter => p \in Hosts
      BY DEF Processes
    <3> QED
      BY <2>0, <3>1 DEF Target, Event
  <2>3. seen' \in [Hosts -> Seq(Nat)]
    BY <1>4, <2>2 DEF HostReturns
  <2> QED
    BY <1>4, <2>1, <2>3 DEF HostReturns
<1>5. ASSUME NEW p \in Processes, Unlock(p) PROVE TypeOK'
  BY <1>5, <1>a DEF Unlock
<1>6. ASSUME NEW h \in Hosts, Register(h) PROVE TypeOK'
  <2>1. hosts' \in Seq(Hosts) /\ replay' \in [Hosts -> Nat]
    BY <1>6 DEF Register
  <2>2. pc' \in [Processes -> Labels]
    BY <1>6, <1>a DEF Register
  <2> QED
    BY <1>6, <2>1, <2>2 DEF Register
<1>7. CASE Report
  <2>1. current' \in Nat /\ pending' \in Seq(Hosts)
    BY <1>7 DEF Report
  <2>2. pc' \in [Processes -> Labels]
    BY <1>7, <1>a DEF Report
  <2> QED
    BY <1>7, <2>1, <2>2 DEF Report
<1>8. CASE AllTold
  BY <1>8, <1>a DEF AllTold
<1>9. CASE Quiescent \/ UNCHANGED vars
  BY <1>9 DEF Quiescent, vars
<1> QED
  BY <1>1, <1>2, <1>3, <1>4, <1>5, <1>6, <1>7, <1>8, <1>9 DEF Next, Tells

\* Calls in which nobody is told anything.
LEMMA CallMoves ==
  ASSUME BroadcastInv, NEW p \in Processes, Call(p) \/ Lock(p) \/ Unlock(p)
  PROVE  CallInv' /\ ListInv' /\ SeenInv'
<1> USE DEF BroadcastInv, TypeOK
<1>1. pc[p] \in { "idle", "lock", "unlock" }
  BY DEF Call, Lock, Unlock, LockInv
<1>2. callback[p] = "none"
  BY <1>1 DEF CallInv
<1>3. p = Reporter => pending = << >>
  BY <1>1 DEF ListInv
<1>4. /\ UNCHANGED << hosts, current, replay, pending, callback, seen >>
      /\ \E l \in { "lock", "store", "idle", "registered" } :
           /\ Goto(p, l)
           /\ p # Reporter => << pc[p], l >> \in { << "idle", "lock" >>, << "lock", "store" >>,
                                                 << "unlock", "registered" >> }
  BY <1>1 DEF Call, Lock, Unlock
<1>5. PICK l \in { "lock", "store", "idle", "registered" } :
           /\ Goto(p, l)
           /\ p # Reporter => << pc[p], l >> \in { << "idle", "lock" >>, << "lock", "store" >>,
                                                 << "unlock", "registered" >> }
  BY <1>4
<1>6. l \in Labels /\ l # "tell"
  BY <1>5 DEF Labels
<1> QED
  BY <1>2, <1>3, <1>4, <1>5, <1>6, MoveKeeps

\* The host that is called is the one that waits, and is told nothing yet.
LEMMA CallHostKeeps ==
  ASSUME BroadcastInv, NEW p \in Processes, CallHost(p) \/ GetExtensions(p)
  PROVE  CallInv' /\ ListInv' /\ SeenInv'
<1>1. pc[p] = "tell" /\ (p = Reporter => pending # << >>)
  BY DEF BroadcastInv, CallHost, GetExtensions, CallInv
<1> QED
  BY <1>1 DEF BroadcastInv, TypeOK, CallHost, GetExtensions, CallInv, ListInv, SeenInv

\* The holder of the lock is alone with the lists.
LEMMA Alone ==
  ASSUME BroadcastInv, NEW p \in Processes, pc[p] \in { "store", "tell", "unlock" }
  PROVE  /\ \A q \in Processes : q # p => pc[q] \notin { "store", "tell", "unlock" }
         /\ \A q \in Processes : q # p => callback[q] = "none"
         /\ p # Reporter => pending = << >>
<1> USE DEF BroadcastInv, TypeOK
<1>1. \A q \in Processes : q # p => pc[q] \notin { "store", "tell", "unlock" }
  BY DEF LockInv
<1>2. \A q \in Processes : q # p => callback[q] = "none"
  BY <1>1 DEF CallInv
<1>3. p # Reporter => pending = << >>
  BY <1>1 DEF ListInv, Processes
<1> QED
  BY <1>1, <1>2, <1>3

\* What the end of a call to a host does: the host is told its upcoming event.
LEMMA ReturnTells ==
  ASSUME BroadcastInv, NEW p \in Processes, HostReturns(p)
  PROVE  /\ pc[p] = "tell" /\ current > 0
         /\ Target(p) \in ToSet(hosts) /\ Target(p) \in Hosts
         /\ seen' = [seen EXCEPT ![Target(p)] = Append(@, current)]
         /\ seen[Target(p)] # << >> =>
              seen[Target(p)][Len(seen[Target(p)])] = current - 1
         /\ ToSet(pending') = ToSet(pending) \ {Target(p)} /\ IsInjective(pending')
         /\ pc' = IF p = Reporter THEN pc ELSE [pc EXCEPT ![p] = "unlock"]
         /\ callback' = [callback EXCEPT ![p] = "none"]
         /\ UNCHANGED << hosts, current, delivery, replay >>
<1> USE DEF BroadcastInv, TypeOK
<1>1. pc[p] = "tell" /\ (p = Reporter => pending # << >>)
  BY DEF HostReturns, CallInv
<1>2. CASE p = Reporter
  <2>1. /\ Target(p) = Head(pending) /\ Event(p) = current
        /\ pending' = Tail(pending) /\ pc' = pc
    BY <1>2 DEF HostReturns, Target, Event
  <2>2. /\ Head(pending) \in ToSet(pending) /\ Tail(pending) \in Seq(Hosts)
        /\ IsInjective(Tail(pending)) /\ Head(pending) \in Hosts
        /\ ToSet(Tail(pending)) = ToSet(pending) \ {Head(pending)}
    BY <1>1, <1>2, SetOfTail DEF ListInv
  <2>3. current > 0 /\ Head(pending) \in ToSet(hosts)
    BY <1>1, <1>2, <2>2 DEF ListInv
  <2>4. seen[Target(p)] # << >> => seen[Target(p)][Len(seen[Target(p)])] = current - 1
    BY <2>1, <2>2 DEF SeenInv
  <2> QED
    BY <1>1, <1>2, <2>1, <2>2, <2>3, <2>4 DEF HostReturns
<1>3. CASE p # Reporter
  <2>1. /\ p \in Hosts /\ Target(p) = p /\ Event(p) = replay[p]
        /\ pending' = pending /\ pc' = [pc EXCEPT ![p] = "unlock"]
    BY <1>3 DEF HostReturns, Target, Event, Goto, Processes
  <2>2. seen[p] = << >> /\ replay[p] = current /\ current > 0 /\ p \in ToSet(hosts)
    BY <1>1, <2>1 DEF SeenInv, ListInv
  <2>3. pending = << >>
    BY <1>1, <1>3, Alone
  <2>4. ToSet(pending') = ToSet(pending) \ {p} /\ IsInjective(pending')
    BY <2>1, <2>3, SetOfEmpty
  <2> QED
    BY <1>1, <1>3, <2>1, <2>2, <2>4 DEF HostReturns
<1> QED
  BY <1>2, <1>3

LEMMA ReturnKeeps ==
  ASSUME BroadcastInv, NEW p \in Processes, HostReturns(p)
  PROVE  CallInv' /\ ListInv' /\ SeenInv'
<1> USE DEF BroadcastInv, TypeOK
<1> DEFINE t == Target(p)
<1>1. /\ pc[p] = "tell" /\ current > 0 /\ t \in ToSet(hosts) /\ t \in Hosts
      /\ seen' = [seen EXCEPT ![t] = Append(@, current)]
      /\ ToSet(pending') = ToSet(pending) \ {t} /\ IsInjective(pending')
      /\ pc' = IF p = Reporter THEN pc ELSE [pc EXCEPT ![p] = "unlock"]
      /\ callback' = [callback EXCEPT ![p] = "none"]
      /\ UNCHANGED << hosts, current, delivery, replay >>
  BY ReturnTells
<1>2. p # Reporter => t = p
  BY DEF Target
<1> HIDE DEF t
<1>3. \A q \in Processes : q # p => pc[q] # "tell" /\ callback[q] = "none"
  BY <1>1, Alone
<1>4. CallInv'
  BY <1>1, <1>3 DEF CallInv
<1>5. \A h \in Hosts : /\ h \in Processes /\ h # Reporter
                       /\ pc'[h] = IF h = p THEN "unlock" ELSE pc[h]
  BY <1>1, BroadcastAssumption DEF BroadcastAssumption, Processes
<1>6. ListInv'
  <2>1. \A h \in Hosts : h \in ToSet(hosts') <=> pc'[h] \in { "tell", "unlock", "registered" }
    BY <1>1, <1>5 DEF ListInv
  <2>2. pending' # << >> => pc'[Reporter] = "tell"
    <3>1. CASE p = Reporter
      BY <1>1, <3>1
    <3>2. CASE p # Reporter
      <4>1. pending = << >>
        BY <1>1, <3>2, Alone
      <4>2. pending' = pending
        BY <3>2 DEF HostReturns
      <4> QED
        BY <4>1, <4>2
    <3> QED
      BY <3>1, <3>2
  <2>3. pc'[Reporter] = "tell" => current' > 0
    BY <1>1
  <2> QED
    BY <1>1, <2>1, <2>2, <2>3 DEF ListInv
<1>7. SeenInv'
  <2> SUFFICES ASSUME NEW h \in Hosts
               PROVE  /\ pc'[h] \in { "idle", "lock", "store", "tell" } => seen'[h] = << >>
                      /\ pc'[h] = "tell" => current' > 0 /\ replay'[h] = current'
                      /\ seen'[h] # << >> =>
                           seen'[h][Len(seen'[h])]
                             = IF h \in ToSet(pending') THEN current' - 1 ELSE current'
    BY DEF SeenInv
  <2>1. CASE h = t
    <3>1. seen'[h] = Append(seen[h], current) /\ seen[h] \in Seq(Nat)
      BY <1>1, <2>1
    <3>2. seen'[h][Len(seen'[h])] = current
      BY <3>1
    <3>3. pc[h] \in { "tell", "unlock", "registered" }
      BY <1>1, <2>1 DEF ListInv
    <3>4. pc'[h] \in { "unlock", "registered" }
      BY <1>2, <1>3, <1>5, <2>1, <3>3
    <3> QED
      BY <1>1, <2>1, <3>2, <3>4
  <2>2. CASE h # t
    <3>1. seen'[h] = seen[h] /\ (h \in ToSet(pending') <=> h \in ToSet(pending))
      BY <1>1, <2>2
    <3>2. pc'[h] = pc[h]
      BY <1>2, <1>5, <2>2
    <3> QED
      BY <1>1, <3>1, <3>2 DEF SeenInv
  <2> QED
    BY <2>1, <2>2
<1> QED
  BY <1>4, <1>6, <1>7

\* A host that registers was not told anything, and reads the event that is current
\* until it is.
LEMMA RegisterKeeps ==
  ASSUME BroadcastInv, NEW h \in Hosts, Register(h)
  PROVE  CallInv' /\ ListInv' /\ SeenInv'
<1> USE DEF BroadcastInv, TypeOK
<1>1. /\ pc[h] = "store" /\ h \in Processes /\ h # Reporter
      /\ pc' = [pc EXCEPT ![h] = IF current = 0 THEN "unlock" ELSE "tell"]
      /\ hosts' = Append(hosts, h) /\ replay' = [replay EXCEPT ![h] = current]
      /\ UNCHANGED << current, delivery, pending, callback, seen >>
  BY BroadcastAssumption DEF BroadcastAssumption, Register, Goto, Processes
<1>2. /\ pending = << >> /\ h \notin ToSet(hosts) /\ seen[h] = << >>
      /\ callback[h] = "none"
  BY <1>1, Alone DEF ListInv, SeenInv, CallInv
<1>3. ToSet(hosts') = ToSet(hosts) \cup {h} /\ IsInjective(hosts')
  BY <1>1, <1>2, SetOfAppend, InjectiveAppend DEF ListInv
<1>4. \A g \in Hosts : g \in Processes /\ (g # h => pc'[g] = pc[g])
  BY <1>1 DEF Processes
<1>5. pc'[Reporter] = pc[Reporter]
  BY <1>1 DEF Processes
<1>6. CallInv'
  BY <1>1, <1>2 DEF CallInv
<1>7. ListInv'
  BY <1>1, <1>2, <1>3, <1>4, <1>5, SetOfEmpty DEF ListInv
<1>8. SeenInv'
  BY <1>1, <1>2, <1>4 DEF SeenInv
<1> QED
  BY <1>6, <1>7, <1>8

\* A new event is owed to all that have registered.
LEMMA ReportKeeps ==
  ASSUME BroadcastInv, Report
  PROVE  CallInv' /\ ListInv' /\ SeenInv'
<1> USE DEF BroadcastInv, TypeOK
<1>1. /\ Reporter \in Processes /\ pc[Reporter] = "store" /\ pending = << >>
      /\ pc' = [pc EXCEPT ![Reporter] = "tell"]
      /\ current' = current + 1 /\ pending' = hosts
      /\ UNCHANGED << hosts, delivery, replay, callback, seen >>
  BY DEF Report, Goto, Processes, ListInv
<1>2. \A h \in Hosts : /\ h \in Processes /\ pc'[h] = pc[h]
                       /\ pc[h] \notin { "store", "tell", "unlock" }
  BY <1>1, Alone, BroadcastAssumption DEF BroadcastAssumption, Processes
<1>3. CallInv'
  BY <1>1 DEF CallInv
<1>4. ListInv'
  BY <1>1, <1>2 DEF ListInv
<1>5. SeenInv'
  <2> SUFFICES ASSUME NEW h \in Hosts
               PROVE  /\ pc'[h] \in { "idle", "lock", "store", "tell" } => seen'[h] = << >>
                      /\ pc'[h] = "tell" => current' > 0 /\ replay'[h] = current'
                      /\ seen'[h] # << >> =>
                           seen'[h][Len(seen'[h])]
                             = IF h \in ToSet(pending') THEN current' - 1 ELSE current'
    BY DEF SeenInv
  <2>1. seen'[h] = seen[h] /\ pc'[h] = pc[h] /\ pc[h] # "tell"
    BY <1>1, <1>2
  <2>2. seen[h] # << >> => h \in ToSet(hosts)
    BY <1>2 DEF SeenInv, ListInv, Labels
  <2>3. seen[h] # << >> => seen[h][Len(seen[h])] = current
    BY <1>1, SetOfEmpty DEF SeenInv
  <2>4. (current + 1) - 1 = current
    OBVIOUS
  <2> QED
    BY <1>1, <2>1, <2>2, <2>3, <2>4 DEF SeenInv
<1> QED
  BY <1>3, <1>4, <1>5

LEMMA AllToldKeeps ==
  ASSUME BroadcastInv, AllTold
  PROVE  CallInv' /\ ListInv' /\ SeenInv'
<1>1. Reporter \in Processes /\ callback[Reporter] = "none"
  BY DEF BroadcastInv, TypeOK, AllTold, CallInv, Processes
<1>2. "unlock" \in Labels
  BY DEF Labels
<1> QED
  BY <1>1, <1>2, MoveKeeps DEF AllTold

LEMMA BroadcastNext == BroadcastInv /\ [Next]_vars => BroadcastInv'
<1> SUFFICES ASSUME BroadcastInv, [Next]_vars PROVE CallInv' /\ ListInv' /\ SeenInv'
  BY TypeNext, LockNext DEF BroadcastInv
<1>1. CASE Quiescent \/ UNCHANGED vars
  BY <1>1 DEF Quiescent, vars, BroadcastInv, CallInv, ListInv, SeenInv
<1> QED
  BY <1>1, CallMoves, CallHostKeeps, ReturnKeeps, RegisterKeeps, ReportKeeps, AllToldKeeps
  DEF Next, Tells

LEMMA BroadcastInvariant == Spec => []BroadcastInv
BY BroadcastInit, BroadcastNext, PTL DEF Spec

\* The types of the broadcaster's variables (receiver.go, statusBroadcaster).
THEOREM TypeCorrect == Spec => []TypeOK
<1>1. BroadcastInv => TypeOK
  BY DEF BroadcastInv
<1> QED
  BY <1>1, BroadcastInvariant, PTL

Delivering(p) == pc[p] \in { "store", "tell", "unlock" }

\* Whoever stores or delivers a status is alone with it: the delivery lock orders the
\* registrations and the Reports (statusBroadcaster.delivery).
THEOREM DeliveriesExclude ==
  Spec => [](\A p, q \in Processes : Delivering(p) /\ Delivering(q) => p = q)
<1>1. BroadcastInv => \A p, q \in Processes : Delivering(p) /\ Delivering(q) => p = q
  BY Alone DEF Delivering
<1> QED
  BY <1>1, BroadcastInvariant, PTL

-----------------------------------------------------------------------------
(* The refinement.                                                         *)

\* The end of a call to a host is the step Tell of the feed, a registration is Join and
\* a Report is Publish; nothing else changes what the hosts see.
LEMMA FeedStep == BroadcastInv /\ [Next]_vars => [Feed!Next]_(Feed!vars)
<1> SUFFICES ASSUME BroadcastInv, [Next]_vars PROVE Feed!Next \/ UNCHANGED Feed!vars
  OBVIOUS
<1>1. ASSUME NEW p \in Processes, HostReturns(p) PROVE Feed!Next
  <2> DEFINE t == Target(p)
  <2>1. /\ current > 0 /\ t \in ToSet(hosts) /\ t \in Hosts
        /\ seen' = [seen EXCEPT ![t] = Append(@, current)]
        /\ seen[t] # << >> => seen[t][Len(seen[t])] = current - 1
        /\ UNCHANGED << hosts, current >>
    BY <1>1, ReturnTells
  <2> HIDE DEF t
  <2>2. current \in Nat
    BY DEF BroadcastInv, TypeOK
  <2>3. Feed!Upcoming(t) = current
    BY <2>1, <2>2 DEF Feed!Upcoming
  <2>4. current \in 1 .. current
    BY <2>1, <2>2
  <2>5. Feed!Tell(t)
    BY <2>1, <2>3, <2>4 DEF Feed!Tell
  <2> QED
    BY <2>1, <2>5 DEF Feed!Next
<1>2. ASSUME NEW h \in Hosts, Register(h) PROVE Feed!Next
  <2>1. ToSet(hosts') = ToSet(hosts) \cup {h}
    BY <1>2, SetOfAppend DEF BroadcastInv, TypeOK, Register
  <2>2. Feed!Join(h)
    BY <1>2, <2>1 DEF Register, Feed!Join
  <2> QED
    BY <2>2 DEF Feed!Next
<1>3. CASE Report
  BY <1>3 DEF Report, Feed!Next, Feed!Publish
<1>4. ASSUME UNCHANGED << hosts, current, seen >> PROVE UNCHANGED Feed!vars
  BY <1>4 DEF Feed!vars
<1>5. ASSUME NEW p \in Processes, Call(p) \/ Lock(p) \/ CallHost(p) \/ GetExtensions(p) \/ Unlock(p)
      PROVE  UNCHANGED << hosts, current, seen >>
  BY <1>5 DEF Call, Lock, CallHost, GetExtensions, Unlock
<1>6. CASE AllTold \/ Quiescent \/ UNCHANGED vars
  BY <1>4, <1>6 DEF AllTold, Quiescent, vars
<1> QED
  BY <1>1, <1>2, <1>3, <1>4, <1>5, <1>6 DEF Next, Tells

\* Every host sees a stretch of one sequence of events, without gap, repetition or
\* reordering, that begins with the event that was the latest when it was first told one
\* (register, Report): the safety part of KeepsFeed.
THEOREM ImplementsFeed == Spec => Feed!Init /\ [][Feed!Next]_(Feed!vars)
<1>1. Init => Feed!Init
  BY SetOfEmpty DEF Init, Feed!Init
<1> QED
  BY <1>1, FeedStep, BroadcastInvariant, PTL DEF Spec
=============================================================================
