# Verification of the F1 live-timing receiver

TLA+ models, model-checking configurations and machine-checked proofs for
bargeboard: an OpenTelemetry Collector distribution whose own code is the
receiver under `receiver/f1livetimingreceiver`, plus its release scripts. Line
numbers below are lines of files in that directory unless a path is given.

## The system

A Collector starts the receiver, perhaps under several signals. One shared
object connects to Formula 1's SignalR endpoint, reads hub records, normalizes
and reduces them, and reconnects with a capped backoff until it is shut down or
fails for good. A reporter turns what happens into log lines, component
statuses and metrics.

| Component | State | Operations | Hard part |
|---|---|---|---|
| Operational reducer (`operational.go`) | `operationalState`: connection evidence, outage, counters, countdown | one reduction per event | what ends or begins an outage over any sequence of events |
| Reporter (`operational_reporter.go`) | the state, its mutex, the ticker, the instruments, a worker count | `apply`, `beginAttempt`, `start`, `beginStop`, `stop` | two goroutines reduce and write; the mutex covers both |
| Input run (`receiver.go`, `run`) | backoff, Retry-After, last failure, the open connection | read, classify, report, wait, attempt, finish | cancellation at any line; terminal against transient failures |
| Status broadcaster (`receiver.go`) | hosts, last event, a delivery lock | `register`, `Report` | replay to a new host against a concurrent report |
| Lifecycle (`factory.go`, `receiver.go`) | the shared receiver, once-guards, a receiver map, start and shutdown results | `Start`, `Shutdown`, creation per signal | half-failed start, shutdown with a deadline, late workers |
| SignalR connection (`connection.go`, `liveness*.go`) | socket, reader and ping goroutines, budgets | connect, subscribe, read, close | which of several simultaneous failures is reported; joining |
| Hub protocol (`protocol.go`, `json_tokens.go`) | the record buffer, the Subscribe manifest | next record, decode | separators on fragment boundaries |
| Normalization (`normalize.go`) | none | inflate, compact, count | packed and plain topics, an answer that leaves one out |
| Connection setup (`bootstrap.go`, `http_*.go`, `connection.go`) | one attempt: open bodies and socket, cookies, timers | preflight, negotiate, upgrade, handshake, Subscribe | who is to blame when an answer and a deadline meet; what stays open; arithmetic at the limits |
| SessionInfo (`session_info*.go`, `state.go`) | current session, route, schedule, tokens, ring of retired sessions | reduce a batch | stale descriptors, token reuse, the ring's wrap |
| Driver list and registry (`driver_*.go`) | registry of drivers | parse, reduce | capacity, freezing, conflicts; no runtime path calls them yet |
| Release publication (`../../scripts/publish-release.cjs`) | a GitHub draft | create, upload, publish, clean up | an outcome that is not known |

Interaction: `Start` connects, then hands the connection to `run`. `run` calls
`connection.read`, which calls back per normalized batch; the callback reduces
the state and calls the consumer. `run` and the reporter's ticker both call
`apply`. `apply` reduces under the mutex, stores the new state (which metric
callbacks read without the mutex), and delivers the log line and the status
before it unlocks. `Shutdown` cancels the run, then the reporter, and waits for
both.

## Modules

| Module | What it is |
|---|---|
| `Operational` | the reducer: one operator per event, `[state, notice]` as result |
| `InputRun` | the run goroutine, the ticker, Shutdown's cancellations and the clock over `Operational` |
| `InputHealth` | what the receiver promises a watcher: health, what the host was told, and the two counters |
| `MCInputRun` | constants for TLC |
| `InputRunProofs` | theorems about `InputRun` and `Operational` |
| `Lifecycle` | the receivers of one configuration: creation through the map, Start and Shutdown by several signals, the cleanup worker |
| `Reservation` | the phases the instances promise to go through, one instance at a time |
| `LifecycleProofs` | theorems about `Lifecycle` |
| `StatusBroadcast` | registration of hosts and reports over the delivery lock |
| `StatusFeed` | the sequence of events a host sees |
| `StatusBroadcastProofs` | theorems about `StatusBroadcast` |
| `Connection` | reader, ping writer, budgets, contexts and outcome of one connection |
| `HubSession` | what the owner of a connection may rely on |
| `MCConnection` | messages, handoffs and deadlines for TLC |
| `ConnectionProofs` | theorems about `Connection` |
| `HttpPolicy` | status classes and Retry-After in the width of its arithmetic, and what it should be |
| `ConnectSetup` | one attempt to connect: requests, timers, cookies, the negotiation body, handshake, Subscribe |
| `HubRecords` | records over the messages a server cuts its stream into |
| `HubConnect` | the attempt and the reader after it over one stream: `ConnectSetup` with `HubRecords` |
| `MCHubConnect` | answers, hints, bodies and clocks for TLC |
| `HubConnectProofs` | theorems about `HubConnect`, `ConnectSetup`, `HttpPolicy` and `HubRecords` |
| `SessionInfo` | the SessionInfo reducer, its ring, its tokens and the gate of a batch |
| `SessionLedger` | the same without the ring: a log of retired sessions |
| `HubMessages` | the decoders of a hub record and the normalization of a batch |
| `SessionPayload` | the parser of SessionInfo objects and the catalogue of sessions |
| `HubFeed` | records decoded, normalized, parsed and reduced, over disconnects: `HubMessages` and `SessionPayload` with `SessionInfo` |
| `MCHubFeed` | the records a server may send, with what it means by them, and symmetry |
| `HubFeedProofs` | theorems about `SessionInfo`, its ring and `HubFeed` |
| `DriverRegistry` | the parser of driver lists and the reducers over the sorted array |
| `DriverRoster` | the same over a function from numbers to drivers |
| `MCDriverRegistry` | payloads for TLC |
| `DriverRegistryProofs` | the array does what the roster promises |
| `PublishRelease` | the release script, GitHub, the maintainers and reruns |
| `MCPublishRelease` | constants for TLC |
| `PublishReleaseProofs` | theorems about `PublishRelease` |

### InputRun

`pc` is the line of `run` (and of `Start` before it). One action is one stretch
of code between two points where another goroutine can be seen: a call to
`apply` is two actions, the reduction under the lock (`Apply`) and the output
that ends in the unlock (`Emit`). The mutex is therefore held exactly while
`notice[p]` is pending for a process `p`, and metrics see the new state in
between, as they do in the code. A reduction without a notice releases the
mutex at once.

A connection is reduced to what `read` returns (`ReadReturns`), the batches its
callback gets (`ObserveBatch`) and whether the callback's consumer fails; the
setup of one to the class of its error (`ConnectFails`). `read` returns nil
only when it is cancelled (`Poll`), and a cancelled setup may still succeed.
`socket` counts open connections, and the history variables `snapshot` and
`data` hold what the open connection really delivered, so that the published
evidence can be compared with it. `outageTime`, `delay` and `quiet` are history
too: they record what properties speak of and no guard reads them.

The clock is a counter. It is bounded by `Horizon` except while a wait is
armed, when it may always reach the deadline; `deadline` and `retryAt` are
clock readings. Backoff values are those of the code.

Seeded faults: operators marked so in the modules are plausible bugs. They are
used by no specification; each is put in place of the operator it varies to
show that the property named for it in `PROJECT.json` can fail.

### Lifecycle

Every receiver that was ever constructed is an instance, so that an old one and
its successor can be looked at side by side; the functions over instances are
the fields of `sharedReceiver`, `liveTimingReceiver` and `operationalReporter`.
`pc` is, per signal, the line of the call the Collector makes for it, with the
result of the last call in the idle labels: `"started"` and `"stopped"` are a nil
from Start and Shutdown. Each call has a context that may end at any time. The
worker of `beginStop` has a line of its own; `"draining"` is the pending write
lock of `callbackMu`, which keeps new observations out. The map's mutex is held
across actions only by a construction that waits for the cleanup of a partial
registration (`MapUnlocked`).

Two things are taken from the Collector: it does not call Start while it
initiates a Shutdown, nor Shutdown while a Start is under way, so the unlocked
fields `cancel` and `done` are not raced on; and a signal asks for a new receiver
only when it has none or its old one is stopping. The input run is reduced to
running until it is cancelled or fails for good, which `InputRun` justifies; the
consumers that a signal registers are called by no code yet. Entries of other
configurations share only the map's mutex.

### StatusBroadcast

Events are numbered as they are reported. A host is one registration (a call of
Start); while it is told an event it asks for the extensions before it returns,
the worst it may do to the locks. The mutex `mu` is held within single actions.

### Connection

`reader` is the line of `read`, `writer` that of `writeHubPings`. The reader owns
the buffered records, the manifest and the budgets, the writer the time of the
last write; they share the socket and `run`, the context that `read` derives
from its caller's. A step is a stretch of code without a call that can block and
without a second look at a context: where the writer looks twice (lines 32 and
36 of `liveness_runtime.go`) there are two steps. Decoding is reduced to what
`decodeHubRecord` tells apart; a message completes any number of records, none
included.

Times are countdowns and elapsed times, so a server may send for ever in a
finite model. `Tick` is disabled while a timer is due or a waiting goroutine has
been woken, as in the bubbles of `testing/synctest` in which the repository tests
this code; what is due at one instant happens in every order, a late message
included. Local processing takes time in the callback and elsewhere in the loop.
Modelled from the library's contract: a Read or Write whose context ends closes
the socket, and a Write may still win against that end. Only connections with a
written Subscribe are modelled; others exist in tests alone.

`silence`, `outstanding`, `evidence`, `overdue` and `interrupted` are history.
`HubSession` is what `InputRun` assumes of a connection: batches one at a time,
one completion at most, one verdict. `KeepsSession` shows that `Connection`
provides it.

### SessionInfo

A parsed object is a descriptor with a tuple, a route and a schedule, each
resolved or absent (`SessionPayload`). A tuple is the season, the meeting's key and
the session's canonical name; the type is a function of the name. `Describe` stands for a feed or a completion that contains
SessionInfo, `OmitSessionInfo` for a completion that requested it and lacks it,
`OtherBatch` for the batches that have no authority, `RejectBatch` for the ones
out of contract, which leave the state alone. The counters have the width given
by constants and wrap in the model as Go's do; only the reducer's guards keep
them from it. `issued` collects every token that was ever current with what it
stood for, and `log` every session that was retired.

### HubMessages, SessionPayload and HubFeed

A record is a sequence of members, each with its name, whether the name is spelled
exactly, and a value of a JSON kind; that is what the decoders of `protocol.go`
tell apart, and the scanner below them is not modelled. Names are compared as they
are written, except to find a known name that is misspelled. A text may inflate to
another value, or be broken (a lone surrogate), which only an error or a result may
be. Normalization strips the suffix of a
packed topic, refuses what does not inflate and two requested topics that would
become one.

`SessionPayload` reads the same members. Session, route and schedule each depend on
their own ones, and a member that is there twice, misspelled or of another kind is
as good as absent (`TheOnly`). `Sessions` is the catalogue of `classifySessionInfo`:
the titles that stand for a session at a meeting in a season. Which texts are local
times or offsets, and what they come to, is given by `Locals` and `Offsets`; the
schedule is computed from them in UTC. The findings that the parser returns beside
the descriptor reach the reduction and are read by no path of the runtime.

`HubFeed` is one record at a time on its way from the reader through the callback
to the reducer, with the manifest of the pending Subscribe (`requested`), and
`Drop`, the loss of a connection and the Subscribe on the next one; the session
state survives it. `Wire` pairs each record with what the server means by it, and
`said` is what a listener knows who understands the meaning and never looks at the
record; `GateFollowsTheWire` compares the two, so that a flaw in any of the four
stages shows. The pairs are written by hand in `MCHubFeed`: well-formed feeds and
answers in every form, records the client ignores, two dozen with one flaw each,
which must stop the input, and SessionInfo objects with one flaw each, which must
cost what depends on the flawed member, and nothing else. The flawed objects name
sessions of the model (`Overlooked`), so that a parser that overlooks a flaw opens
the gate for a session nobody described.

### ConnectSetup, HttpPolicy and HubConnect

`at` is the step of the attempt that waits: a request, the body of the negotiation,
the handshake, Subscribe. `result` is what `setupHTTPTransport.RoundTrip` gave to
`http.Client`, and the call that waits for it returns in another step, so that the
caller's deadline, its end and the request's own timer can come between. A caller
whose deadline has passed and whose context is not yet done is `"elapsed"`, which
is the case `setupContextError` is written for. `bodies` and `socket` count what is
open. `seen` and `named` are history: the last answer when the transport observed
it, and the affinity that the server's answers so far left under each path, kept at
the moment an answer arrives. `AffinityFollows` owes the negotiation and the upgrade
what `named` says; `cookies`, what the code keeps and filters, is compared with it
and takes no part in the statement.

Cookies are reduced to what the jar and `cookiesForEndpoint` compare: the affinity
cookie or another one, with the name of a backend or without a value, a path that
covers one endpoint, both or none, the Secure attribute, and an expiry. An answer
sets one cookie, and no cookie has a Domain attribute. The preflight and the
negotiation name different backends. The initial states are those that
`Config.Validate` admits. `http.Client` fails on a redirect that it was given a
Location for, and `RoundTrip` takes the Location off the answers it accepts.

`HttpPolicy` computes Retry-After as the code does, digit by digit with the
overflow tests of `AddDigit`, in Durations of `MaxInt64` ticks, and `Due` computes
it without a width; a date is compared by the wall clock and due by the monotonic
one.

`HubConnect` joins the handshake to the stream: the response is the first record
of `HubRecords`, and the records behind it wait in the same storage until the
subscription is written and `read` begins.

### HubRecords

A byte is the separator or it is not, so the stream is a sequence over two values
and the server cuts it into messages as it likes. `contents`, `scanned` and
`needsCompaction` are the fields of `hubRecordBuffer`, and in the handshake the
local variables of `readHandshakeResponse`, whose rest becomes the buffer.
`retained` counts the consumed bytes that the storage behind `contents` still
holds, which Go's slices hide. The history `received`, `consumed` and `largest` is
what the records are compared with. What a record says, and a decoder that
refuses it, end the connection and with it the framing; that part is in
`Connection` and `HubFeed`. The module is run as a part of `HubConnect`.

### DriverRegistry

The registry is the sequence of the drivers in use, sorted by number, as the fixed
array of the code keeps them. The parser goes over the members of a payload in
order with its two lists, of entries and of numbers that found no room, and its
issues. The roster has neither: it is a function, and who gets the last places is
said by the order of first mention. No path of the runtime calls these reducers at
this commit.

### PublishRelease

`pc` is the next request of `uploadRelease` or `publishRelease`, or how the run
ended. Every request may fail before or after it took effect, and the one that
publishes may also take effect later (`late`). `evidence` is `published.data`:
what GitHub had when it answered, and whether the answer had all its fields.
Between any two requests a maintainer may edit, publish, take back or delete a
release and switch immutability on or off, and main may move. `Dispatch` is a
further run for the same tag; the concurrency group of `release.yml` admits one at a
time. GitHub itself is not in the repository: what its requests do is taken from
how the script uses them and from what it checks in the answers. `removed`,
`invalidated` and `vouched` are history.

## Runs

| Run | Question | Bounds |
|---|---|---|
| `input_run_safety` | do statuses, accounting and terminal states stay consistent over every interleaving; does no attempt come early, does a hint postpone only its own attempt, does silence only lengthen the backoff | 3 reconnects before transient failures cease, 3 batches, 1 failing consumer, clock to 2 and on while waiting, completions of 0 or 1 update, hints of 0 and 3 |
| `input_run_liveness` | does Shutdown complete, does the run keep retrying, does it implement `InputHealth` with its liveness | 1 reconnect, 2 batches, clock to 2, under `FairSpec` |
| `hub_feed` | do updates pass only for what the server said last, in whatever form; do tokens, gate and ring stay sound when tuples return and counters run out | 4 tuples and those of flawed objects, ring of 2, 5 generations, 2 epochs, 1 route, 1 schedule, missing together, 2 topics, records of every kind, 17 SessionInfo objects with a flaw |
| `lifecycle_safety` | is the map's entry held as long as its receiver has anything at work, can nil results be relied on, and does a Shutdown return at its deadline whatever is stuck | 2 signals, 2 instances, 1 observer each, under `CallerSpec` |
| `lifecycle_release` | is every stopped receiver released, and does the lifecycle implement `Reservation` | 1 signal, 2 instances, under `FairSpec` |
| `status_broadcast` | does every host see one sequence to its end, whenever it registers and although it calls back | 3 hosts, 3 events, under `FairSpec` |
| `connection_safety` | do timeouts blame the server alone, are pings paced, does the outcome keep its cause | interval 2, timeout 4, 9 messages, handoffs of 0 and 5, caller deadlines of none, 4 and 6 |
| `connection_liveness` | is a useless connection given up on, and does read keep its contract | interval 1, timeout 2, 4 messages, a deadline of none or 3, under `FairSpec` |
| `connection_cleanup` | can the clean-up of a connection pass for the failure of a ping (it can) | as `connection_liveness` |
| `hub_connect` | does an outcome blame the server only for what it said, is nothing left open, does the affinity follow the server, is a hint exact or none, does every attempt end; are the records and the limits independent of how the stream is cut | answers of every class with every flaw of a cookie, 14 bodies, two clock readings, Durations to 95 half-seconds; handshake of 2 bytes, records of 3, messages of at most 5, a stream of 10 |
| `driver_registry` | does the sorted array do what a roster does | room for 2 of 3 drivers, payloads of at most 4 members |
| `publish_release` | is a reported success true for good, is nothing removed that was right, is the decision taken on a main that is current | 2 releases, 2 subjects, 2 runs, 2 acts of maintainers |

The exact constants are in the `.cfg` files. Two reconnects are enough for an
outage to persist over a failed setup, end, and be followed by another; three
batches for a subscription and its data in either order and on different
connections. A hint of 3 lies beyond the first backoff steps of 1 and 2 seconds, so
that it postpones an attempt and could outlive it; to see that takes a failure
after the one that gave the hint, and a shortened backoff takes a silent
connection after a failed setup, hence the third reconnect. In `hub_feed`
five replacements go round a ring of two and evict tuples that then come back.
In the lifecycle an instance can only be harmed by its predecessor, hence two
(one of them may be a failed construction), and a caller by one other, hence two
signals; the release of an instance does not depend on who asks for it, hence one
signal in the second run. Neither uses symmetry, since both check liveness.
In `Connection` the timeout is twice the interval, as 30 is to 15 seconds, and the
deadlines fall on the end of a budget and of a ping's write; nothing else about
the durations is compared. Messages of two records suffice for a record that
waits behind another, or must not be reached. Tuples are only compared for
equality, hence the symmetry. Absence counts as a second route and schedule;
the instance lets both come and go together, the theorems any of them.
In `hub_connect` the limits differ, each is small enough that a record may fall
short of it, meet it or exceed it, one message may hold the response, whole records
and a fragment, and a record may take three messages; 95 ticks make 47 seconds fit
and 48 not, so that a hint may meet the limit, exceed it by one or by far, and the
two clock readings put dates on both sides of it. A registry is full with two
drivers and a third one is refused; four members suffice for a payload that
mentions more drivers than the parser has room for. In `publish_release` two
subjects let an upload end half way, a second run meets what the first left, and
two acts of maintainers suffice to change a draft and the setting that would have
locked it.

`InputRun`, `Connection`, `StatusBroadcast`, `HubConnect` and `HubFeed` may stop:
`Terminated`, `Returned`, `Quiescent`, `Over` and `Stopped` are explicit stutters
for that, so deadlock is checked in every run; for `Connection` that includes the
reader and the writer waiting for each other.

`connection_cleanup` is a disagreement between code and comment. The writer looks
at its contexts in line 32 of `liveness_runtime.go` to tell a ping's failure from
the clean-up of its connection, and `sanitizedTransportError` looks again in line
36. If a peer's drop fails the Read and a ping together and the reader's `stop()`
comes between, `read` returns "write SignalR ping: context canceled" to a caller
that is alive. The run loop retries in either case.

### Fairness

`FairSpec` assumes that both goroutines are scheduled (weak fairness of the
steps that need no lock), that Go's mutex starves nobody (strong fairness of
those that need it, since the other process takes it time and again), that
logging and status callbacks return (`Emit`), that a select with two ready
cases does not always pick the same one (strong fairness of `TickerStops`),
that a cancelled read or setup returns, and that time passes. Nothing is
assumed of the network: no fairness makes it deliver, answer or fail. No
fairness makes the ticker fire or Shutdown be called.

`Lifecycle` has two. `CallerSpec` assumes only that the calling goroutines are
scheduled: what they wait for need not happen, and a Shutdown must return at its
deadline all the same. `FairSpec` adds that what was cancelled ends: the input run
(`ShutdownCompletes` of `InputRun`), a periodic report, an admitted observation
and the SDK's Unregister return, the worker is scheduled, and mutex and select
are fair. No fairness makes a context end or anybody call. `StatusBroadcast`
assumes that hosts return and that the delivery lock starves nobody; that is
what lets it keep the promise of `StatusFeed` that a registered host is told
every event to the last. `HubFeed`, `DriverRegistry` and `PublishRelease` are checked
for safety alone and assume no fairness; nor do the records of `HubConnect`, which
a server need not send.

`SetupFairness` of an attempt assumes that the code between two waits runs on, that
a timer which was set fires, that a deadline which passed ends the context, and
that I/O under a context that is done fails. No answer, handshake response or write
need succeed, and no caller need go. Subscribe has no timer, so `SetupEnds` promises
that an attempt gets there or fails, and that one whose caller is gone ends.

`Connection` assumes that both goroutines proceed, that callbacks return (they
are synchronous and `read` waits for them), that timers fire and that the library
obeys contexts. The strong fairness of what happens while a Read waits says that
Reads take time: without it a server that always answers in no time at all would
never spend the budgets. Nothing makes the server send, a write succeed or the
caller cancel.

## Proofs

TLC checks the instances above; the theorems hold for every value of the
constants under the named assumptions of the modules: `BoundsAssumption`,
`SessionAssumption`, `LifecycleAssumption`, `ConnectionAssumption`,
`BroadcastAssumption`, `WidthAssumption`, `AnswersAssumption`, `SizesAssumption`,
`RegistryAssumption`, `PayloadsAssumption`, `PublicationAssumption` and
`WireAssumption`. They say only that bounds are natural numbers, that the absent
values are none of the present ones, that the ring and the registry have room for
one, that a second has a tick, that GitHub's release numbers are positive, what an
answer's hint and a payload consist of, and that a session which a server may
describe is one of the model's. The type invariants of `SessionInfo`, `Lifecycle`,
`Connection`, `DriverRegistry` and `PublishRelease` are proved and therefore not run.

`InputRunProofs`
- `TypeCorrect`, with a lemma per reducer event and `BackoffBounds` (a delay is
  between 1 and 30 seconds and never shrinks as the exponent grows).
- `OpChanges`: a step leaves the published state alone or makes it one of ten
  reductions, and only an uncancelled run counts an attempt. From it follow
  `AttemptsAreAdmitted`, `EpisodesBalance` and, with the invariant that an open
  outage began in the past, `OutageTimeIsMeasured`.
- `HostKnowsState`, `TerminalEndsTheRun`, `LastWordStands`. None is inductive:
  `StatusMatchesState` speaks of an idle reporter only. `StatusInv` adds what
  holds while an output is pending (`StatusWillMatch`: delivered, it will make
  the host know the state), that the ticker never reports a status, and that a
  permanent status, told or pending, belongs to a stopped state.
- `OutagesAreAccounted` joins the two facts about outages. `SocketsAreClosed`: one
  connection is open from a successful setup to `run`'s close, and none otherwise.
- `HintsAreLatest`, `AttemptsAreDue`: neither the hint nor the deadline speaks of
  the time between a failure and the wait it leads to; `PacingInv` adds what the
  countdown, the armed deadline and the hint are on the lines in between.
- `ImplementsHealth`: every step is a step of `InputHealth` or leaves what is
  shown alone, from `StatusInv` and from the summary being the run's last word.
- `SilenceIsBackedOff`, by `SilenceInv`: while nothing arrives, the last delay is at
  most the one that comes next, and the flag that would reset the exponent is not set
  between a read and the classification of its end.
- `EvidenceIsFresh`, by `EvidenceInv`, which adds what the published state may be on
  the lines between a connection's end and the report of it.

`HubFeedProofs`
- `Reductions`: a reduction rejects, keeps, installs or replaces, and what each
  does to the fields; `SlotValue`, `AddMirrors` and `ContainsRecent` say that
  the ring holds exactly the last `Limit` entries of the history, oldest first.
- `TypeCorrect`; `TokensIdentify`, by the invariant that every issued token is
  behind the current one or equal to it and then stands for the same;
  `TokensAdvance`; `RetiredStayRetired`; `ImplementsLedger`.
- `GateStaysCurrent` (the gate is open only for what the last authoritative batch
  named) and `SessionIsNeverLost`: the retained tuple is never among the retired, so
  that it can be synchronized again whatever the counters are.
- `ImplementsSessionInfo`: whatever a record says, its decoding, normalization and
  reduction are a step of `SessionInfo` or none. It needs `ManifestKept`: an
  invariant that the manifest is the whole of it or empty, which is what
  `WireAssumption` speaks of. Hence its theorems hold on the wire:
  `TokensIdentifyOnTheWire`, `SessionSurvivesTheWire`.
- `GateFollows`: `GateFollowsTheWire` for every order of records and disconnects,
  under one hypothesis, `Understood`: that each record by itself, before the answer
  and after it, is decoded to what it means. `Wire` is a set of pairs written by
  hand, so this is a statement about data and stays with TLC, which checks it in
  `hub_feed` as the first conjunct of `GateFollowsTheWire`. The invariant, `InStep`,
  says that what a listener has heard and what the reader holds (the manifest, the
  gate, the retained session) go together.

`LifecycleProofs`
- `TypeCorrect`, and `LifeInv`, the inductive invariant: the entry is published
  and the only published instance not cleaned up (`EntryInv`); whatever an
  instance runs ends at the line of the worker that joins it (`ExtentInv`);
  Starts and initiations of Shutdown exclude each other and `startOnce` admits
  one signal (`TurnsInv`, `StartInv`). Neither safety property is inductive: that
  the entry covers an instance says nothing of where its worker is.
- From it `EntryCoversLife`, `ShutdownIsClean`, `StartIsTrue`, `StopLasts`, and
  `ImplementsReservation`: every step is a move of one phase or moves none.

`ConnectionProofs`
- `ConnectionInv`, the inductive invariant: the checked invariants with who ended
  the run's context (`ContextInv`), what `result` may be at which line
  (`LoopInv`), that a Read never outlasts its budget (`WaitInv`) and that evidence
  and an overdue ping stay on record until they are read (`EvidenceInv`). It is
  needed because `OutcomeIsItsCause` speaks of a read that has returned, and
  `ServerWait` is kept by `Tick` only while the Read's deadline is ahead.
- From it `TypeCorrect`, `TimeoutsAreTheServers`, `PingsArePaced`, `OutcomesRank`,
  `InterruptionIsFinal` and `ImplementsSession`.

`HubConnectProofs`
- `SetupInv`: which bodies and socket are open at which step, and what `result` says
  of the answer that was observed. From it `AttemptsCleanUp` and `VerdictsAreJust`; the
  latter speaks of the step that ends an attempt, and that an answer came in time is
  known there only because the invariant carries it from `RoundTrip`.
- `RecordsInv`: the stream is what was taken followed by the buffer, the searched
  prefix holds no separator, a refused rest begins with a record over its limit. It
  rests on lemmas about sequences: what the first separator of a sequence is
  (`SeparatorIs`), that a search may resume behind a clean prefix (`SearchResumes`),
  and that taking n bytes moves them (`TakenIs`).
- `ImplementsRecords` carries it over to `HubConnect`: `StreamIsReadWhole`,
  `LimitsAreOnRecords`.
- `AffinityIsFollowed`, by `AffinityInv`: the cookies that the attempt keeps, with the
  one of the answer at hand, agree with what the server named (`Agree`), from the
  moment the transport observes the answer until the next request carries them. The
  lemmas are about a jar that grows by one cookie: which of the others it replaces
  (`JarAppend`), and that it goes on agreeing with a record kept path by path
  (`NamesKeeps`). An upgrade that forgot the negotiation's cookie breaks the
  invariant at `ReadBody`.
- `HintsAreExact`: the code's digits with their overflow tests and the definition
  without a width agree for every sequence of digits (`SecondsIs`): either the
  amount so far, or an amount that is over the limit and stays so. `HintInv` carries
  the hint from the answer to the outcome.

`StatusBroadcastProofs`
- `BroadcastInv`, the inductive invariant: at most one call stores or delivers, and
  what each host was told, in whichever line its call is, ends at the current event
  or at the one before it while the host is still to be told. From it `TypeCorrect`,
  `DeliveriesExclude` and `ImplementsFeed`: every step is a step of `StatusFeed` or
  shows no host anything.

`DriverRegistryProofs`
- `ArrayIsKept`: the array is sorted by number, each driver is in it once, and it
  holds no more than there is room for. `RosterIsKept`: in such a state each payload
  does to the array what it does to the roster (`KeepsRoster`).
- The parser, the staging and the freezing are folds over a sequence of any length.
  `ParseInv` is what holds after k members: the entries are the numbers in the order
  of first mention, each is a patch or a duplicate, and what overflowed is what came
  when the array was full. `Staging` is what holds after k patches: who was admitted
  counts those who came before, and no patch undoes another. `Freezing` is the same
  for the first coherent snapshot.
- `SamePlaces`: two sorted arrays of the same numbers have them at the same places,
  which is why comparing them place by place compares the rosters.

`PublishReleaseProofs`
- `TypeCorrect`, and `SettledStays`: a published, immutable release that is as
  built stays so until it is deleted, whoever acts.
- `SuccessIsBuilt`, `RemovalIsJustified`: the verdict is on an answer, not on
  GitHub as it is by then. `VerdictInv` ties them: a complete answer that is right is
  about a release that is settled, and one that is published and wrong about a
  release that was invalid at some time.
- `DecisionsAreCurrent`, by `DecisionInv`: at the second reading of main the draft
  has been read for the last time.

The prover instantiates no theorem with an operator parameter, so the library's
induction is out of its reach. Where a computation over a sequence had to be
compared with its definition, induction is derived from `WFMin` (`LeastExists`: a
nonempty set of numbers has a least one; `Induction`, for sets), a fold is shown to
have a value (`FoldExists`) and unfolded into its steps, once for each operator that
is folded (`SecondsFold`, `AddMemberFold`, `StageFold`, `FreezeFold`).

Only model-checked: the liveness properties with the liveness parts of `InputHealth`,
`Reservation`, `HubSession` and `StatusFeed` (fairness is out of the prover's reach),
and `Understood`, which is about the records of `MCHubFeed`.

## Plan

What is left, in order of importance to a user of the receiver:

1. The other action properties and invariants that are proved in no theorem of their
   own, as consequences of the inductive invariants above.
2. The token scanner (`json_tokens.go`), if a property is found that is about more
   than a grammar.

## Not modelled

- The grammars of local times and offsets and the diagnostic findings
  (`session_info.go`), compression (`normalize.go`), token scanning
  (`json_tokens.go`), and the payloads of topics other than SessionInfo: data, of
  which the models keep the outcome.
- In an attempt to connect: a race of `http.Client`'s timer with an answer inside
  the library, of which the model keeps both outcomes; and an answer other than 101
  that reaches `Dial`, which `RoundTrip` does not let pass. `http.Client` and the
  WebSocket library are modelled from how the code uses them.
- `config.go` but for its validation, which decides the initial states of an attempt;
  `main.go` and `components.go`: registration with the Collector, without state.
- Log wording, metric units, elapsed-time fields of log lines.
- The scripts that build archives, check references and collect licences
  (`scripts/release_archive.go`, `scripts/thirdparty`, the shell scripts): each is one
  sequential pass over files that keeps no state between runs, is not concurrent and
  fails as a whole, so that a model would repeat its text.
