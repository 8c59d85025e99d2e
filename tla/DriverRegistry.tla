--------------------------- MODULE DriverRegistry ---------------------------
(***************************************************************************)
(* The registry of drivers (driver_list.go, driver_registry.go): a payload *)
(* is parsed into at most MaxEntries patches, which stage a registry of as *)
(* many entries sorted by number.  The first coherent snapshot freezes it; *)
(* from then on payloads only confirm or contradict it.  No runtime path   *)
(* calls these reducers yet.                                               *)
(*                                                                         *)
(* A field is a value, Absent or Bad.  The unused rest of the array is     *)
(* left out: the drivers are the sequence of the first count of them.      *)
(***************************************************************************)
EXTENDS Naturals, SequencesExt

CONSTANTS
  MaxEntries, \* maxDriverRegistryEntries: 32
  NoNumber,   \* a key that is no driver number
  Absent, Bad,
  Fields,     \* what a payload may give for a field
  Payloads

ASSUME RegistryAssumption == MaxEntries \in Nat \ {0} /\ Absent # Bad

ASSUME PayloadsAssumption ==
  Payloads \subseteq
    [ object  : BOOLEAN,
      members : Seq([ number : Nat \cup {NoNumber},
                      value  : [object : BOOLEAN, tla : Seq(Fields), racing : Seq(Fields)] ]) ]

VARIABLE registry \* driverRegistryState

Sources == { "feed", "snapshot" }

Init == registry = [drivers |-> << >>, frozen |-> FALSE, synchronized |-> FALSE]

-----------------------------------------------------------------------------
(* The parser.                                                             *)

\* The issues are a set.
Misshapen == { "shape", "identity" }

\* One value is taken as it is, several are Bad.
TheOnly(given) == IF given = << >> THEN Absent ELSE IF Len(given) = 1 THEN given[1] ELSE Bad

\* parseDriverListEntry
Patch(m) ==
  [ number |-> m.number, object |-> m.value.object, duplicate |-> FALSE,
    tla    |-> IF m.value.object THEN TheOnly(m.value.tla) ELSE Bad,
    racing |-> IF m.value.object THEN TheOnly(m.value.racing) ELSE Absent ]

EntryIssues(m) ==
  LET given == m.value.tla \o m.value.racing
  IN  IF ~m.value.object \/ Len(m.value.tla) > 1 \/ Len(m.value.racing) > 1 THEN Misshapen
      ELSE IF Bad \in ToSet(given) THEN {"identity"} ELSE {}

ParseResult(entries, overflow, issues) ==
  [entries |-> entries, overflow |-> overflow, object |-> TRUE, issues |-> issues]

Nothing == ParseResult(<< >>, {}, {})

\* Where the entry of n was stored, or 0.
Position(entries, n) == SelectInSeq(entries, LAMBDA e : e.number = n)

Duplicate(entry, m) ==
  [ number |-> m.number, object |-> entry.object /\ m.value.object, duplicate |-> TRUE,
    tla |-> Bad, racing |-> Bad ]

\* The visitor of parseDriverList.
AddMember(parsed, m) ==
  LET e == parsed.entries
      o == parsed.overflow
      i == Position(e, m.number)
      issues == parsed.issues \cup EntryIssues(m)
  IN  IF m.number = NoNumber THEN parsed
      ELSE IF m.number \in o THEN ParseResult(e, o, issues \cup Misshapen)
      ELSE IF i # 0
      THEN ParseResult([e EXCEPT ![i] = Duplicate(@, m)], o, issues \cup Misshapen)
      ELSE IF Len(e) = MaxEntries
      THEN ParseResult(e, o \cup {m.number}, issues \cup {"limit"})
      ELSE ParseResult(Append(e, Patch(m)), o, issues)

ParseDriverList(payload) ==
  IF payload.object THEN FoldLeft(AddMember, Nothing, payload.members)
  ELSE [ParseResult(<< >>, {}, {"shape"}) EXCEPT !.object = FALSE]

-----------------------------------------------------------------------------
(* The reducer.  A reduction is [state, disposition, issues].              *)

Reduction(state, disposition, issues) ==
  [state |-> state, disposition |-> disposition, issues |-> issues]

Unsynchronized(state) == [state EXCEPT !.synchronized = FALSE]

\* driverRegistryEntryIndex: where n is or belongs.
Index(drivers, n) ==
  LET i == SelectInSeq(drivers, LAMBDA e : e.number >= n)
  IN  IF i = 0 THEN Len(drivers) + 1 ELSE i

Found(drivers, n) == Index(drivers, n) <= Len(drivers) /\ drivers[Index(drivers, n)].number = n

\* What a patch says over an entry: a field that is Absent stays.
Overlay(entry, patch) ==
  [ number |-> entry.number,
    tla    |-> IF patch.tla = Absent THEN entry.tla ELSE patch.tla,
    racing |-> IF patch.racing = Absent THEN entry.racing ELSE patch.racing ]

\* Seeded fault: a full registry refuses what replaces an entry, too.
ApplyUnlessFull(reduction, patch) ==
  LET drivers == reduction.state.drivers
      i       == Index(drivers, patch.number)
      entry   == [number |-> patch.number, tla |-> Absent, racing |-> Absent]
  IN  IF Len(drivers) = MaxEntries THEN [reduction EXCEPT !.issues = @ \cup {"limit"}]
      ELSE IF Found(drivers, patch.number)
      THEN [reduction EXCEPT !.state.drivers[i] = Overlay(@, patch), !.disposition = "staged"]
      ELSE [reduction EXCEPT !.state.drivers = InsertAt(@, i, Overlay(entry, patch)),
                             !.disposition = "staged"]

\* applyStagedDriverPatch, on a reduction; the disposition becomes "staged" when
\* something changed.
ApplyStagedDriverPatch(reduction, patch) ==
  LET drivers == reduction.state.drivers
      i       == Index(drivers, patch.number)
      entry   == [number |-> patch.number, tla |-> Absent, racing |-> Absent]
      With(updated, disposition) ==
        Reduction([reduction.state EXCEPT !.drivers = updated], disposition, reduction.issues)
  IN  IF Found(drivers, patch.number)
      THEN With([drivers EXCEPT ![i] = Overlay(drivers[i], patch)],
                IF Overlay(drivers[i], patch) = drivers[i] THEN reduction.disposition ELSE "staged")
      ELSE IF Len(drivers) = MaxEntries
      THEN Reduction(reduction.state, reduction.disposition, reduction.issues \cup {"limit"})
      ELSE With(InsertAt(drivers, i, Overlay(entry, patch)), "staged")

\* A patch for a frozen registry that does not agree with it.
Disagrees(drivers, patch) ==
  \/ ~Found(drivers, patch.number) \/ ~patch.object \/ patch.duplicate
  \/ patch.tla # Absent /\ patch.tla # drivers[Index(drivers, patch.number)].tla
  \/ patch.racing = Bad

\* reduceDriverRegistryFeed
ReduceFeed(state, parsed) ==
  IF ~parsed.object THEN Reduction(Unsynchronized(state), "unavailable", parsed.issues)
  ELSE IF ~state.frozen
  THEN IF "limit" \in parsed.issues THEN Reduction(state, "noUpdate", parsed.issues)
       ELSE FoldLeft(ApplyStagedDriverPatch, Reduction(state, "noUpdate", parsed.issues),
                     parsed.entries)
  ELSE IF \/ "limit" \in parsed.issues
          \/ \E i \in DOMAIN parsed.entries : Disagrees(state.drivers, parsed.entries[i])
  THEN Reduction(Unsynchronized(state), "conflict", parsed.issues \cup {"conflict"})
  ELSE Reduction(state, "noUpdate", parsed.issues)

Sound(patch) == patch.object /\ ~patch.duplicate /\ patch.tla \notin {Absent, Bad} /\ patch.racing # Bad

\* coherentDriverListSnapshot
Coherent(parsed) ==
  /\ parsed.object /\ parsed.entries # << >> /\ "limit" \notin parsed.issues
  /\ \A i \in DOMAIN parsed.entries : Sound(parsed.entries[i])

\* Seeded fault: the frozen entries stay in the order of the snapshot.
FrozenUnsorted(parsed) ==
  [ drivers |-> [i \in DOMAIN parsed.entries |->
                   [number |-> parsed.entries[i].number, tla |-> parsed.entries[i].tla,
                    racing |-> "own"]],
    frozen |-> TRUE, synchronized |-> TRUE ]

Insert(drivers, patch) ==
  InsertAt(drivers, Index(drivers, patch.number),
           [number |-> patch.number, tla |-> patch.tla, racing |-> "own"])

\* frozenDriverRegistry
Frozen(parsed) ==
  [ drivers |-> FoldLeft(Insert, << >>, parsed.entries), frozen |-> TRUE, synchronized |-> TRUE ]

\* sameFrozenDriverRegistry
Same(left, right) ==
  /\ Len(left.drivers) = Len(right.drivers)
  /\ \A i \in DOMAIN left.drivers :
       /\ left.drivers[i].number = right.drivers[i].number
       /\ left.drivers[i].tla = right.drivers[i].tla

\* The issues of a snapshot that is not coherent.
SnapshotIssues(parsed) ==
  IF /\ parsed.object /\ "limit" \notin parsed.issues
     /\ \/ parsed.entries = << >>
        \/ \E i \in DOMAIN parsed.entries : ~Sound(parsed.entries[i])
  THEN parsed.issues \cup {"identity"} ELSE parsed.issues

\* reduceDriverRegistrySnapshot
ReduceSnapshot(state, parsed) ==
  IF ~Coherent(parsed)
  THEN Reduction(Unsynchronized(state), "unavailable", SnapshotIssues(parsed))
  ELSE IF ~state.frozen THEN Reduction(Frozen(parsed), "frozen", parsed.issues)
  ELSE IF Same(state, Frozen(parsed))
  THEN Reduction([state EXCEPT !.synchronized = TRUE], "refreshed", parsed.issues)
  ELSE Reduction(Unsynchronized(state), "conflict", parsed.issues \cup {"conflict"})

\* reduceDriverRegistry
Reduce(state, source, parsed) ==
  IF source = "feed" THEN ReduceFeed(state, parsed) ELSE ReduceSnapshot(state, parsed)

-----------------------------------------------------------------------------
Update(source, payload) ==
  registry' = Reduce(registry, source, ParseDriverList(payload)).state

Next == \E source \in Sources, payload \in Payloads : Update(source, payload)

Spec == Init /\ [][Next]_registry

-----------------------------------------------------------------------------
Roster == INSTANCE DriverRoster

\* The registry as a roster.
View(state) ==
  LET drivers == state.drivers
      Of(n)   == CHOOSE i \in DOMAIN drivers : drivers[i].number = n
  IN  [ entries |-> [n \in { drivers[i].number : i \in DOMAIN drivers } |->
                       [tla |-> drivers[Of(n)].tla, racing |-> drivers[Of(n)].racing]],
        frozen |-> state.frozen, synchronized |-> state.synchronized ]

\* Whatever came before, a payload does to the array what it does to a roster: a
\* full registry still takes what replaces an entry and refuses newcomers in their
\* order, a payload with too many drivers changes nothing that is staged, the frozen
\* identities are final, and only a coherent snapshot of exactly these restores the
\* synchronization.  A driver left out for want of room is reported, and a change
\* goes with a disposition that says so (driver_list.go, driver_registry.go).
KeepsRoster ==
  \A source \in Sources, payload \in Payloads :
    LET r == Reduce(registry, source, ParseDriverList(payload))
    IN  /\ View(r.state) = Roster!After(View(registry), source, payload)
        /\ IsInjective([i \in DOMAIN r.state.drivers |-> r.state.drivers[i].number])
        /\ "limit" \in r.issues <=> Roster!LeftOut(View(registry), source, payload)
        /\ r.disposition = "noUpdate" => r.state = registry
        /\ r.disposition = "staged" => View(r.state).entries # View(registry).entries
        /\ "conflict" \in r.issues => r.state.frozen /\ ~r.state.synchronized
=============================================================================
