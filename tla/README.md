# A verification project for nv-telemetry

TLA+ models of nv-telemetry: the parts that run concurrently or keep state
between requests, the way from a recipe to a report, the contract's data model
and the compiler that generates it; TLC runs that check them on small instances;
and TLAPS proofs of the properties that matter most for every value of the
constants.

Source paths below are relative to the repository (`orchestration/src/...`).
`PROJECT.json` maps every definition to the lines it stands for.

## The system

nv-telemetry collects telemetry from a fleet of management endpoints (Redfish
BMCs, gNMI targets) and hands a consumer one stream of typed reports.

```
 recipe, planner ──units──▶ collector ──Collected──▶ consumer
                               │  one task per endpoint
                               ▼
                    dispatcher runtime (external crate)
                       │                      │
                  polled leaf            stream leaf ◀──▶ StreamReports
                       │                      │
                  Acquire::acquire      StreamAcquire::connect
                       └───── Redfish / gNMI providers ─────▶ device
```

| Part | State it keeps | Operations | What is hard |
|---|---|---|---|
| Streamed acquisition (`orchestration/src/stream.rs`) | one locked record (phase, abort handle, opened stream, two wakers), the leaf's counter, the reports' current instance | bind, scan, take, connect, settle, poll, drop of either half | three parties on different threads, two critical sections per poll and per attempt, cancellation, wake-ups |
| Reconnect policy (`stream.rs`, `recipe.rs`) | none | delay, validation | shifts, caps and shares at their edges |
| Collector (`collector.rs`) | a registry under a lock, a bounded channel, per task: held reports, retiring flag | new, add, remove, shutdown, drive/run/retire, poll of the reports, drop | backpressure, retirement racing re-adds and shutdown, panics, dropped tasks |
| Redfish log walk (`sources/redfish/src/provider.rs`) | a cursor per log read, the learned filter support | acquire, collect, visit, doubt, probe, store | a device that changes between requests, guesses about its order, budgets, cancelled polls |
| Redfish event stream (`sources/redfish/src/stream.rs`) | resume cursor, run identity | connect, next item | a cursor that moves before delivery, gaps |
| Redfish transport (`transport.rs`, `failure.rs`) | cached platform classification | get, classify, forget | interleaved reads around a fault |
| Redfish firmware, sensor and chassis reads (`provider.rs`) | one walk's locals; none between polls | page loop, visit of a member, assembly of the batch | when an inventory is complete, over a listing that lies or moves |
| Redfish projection (`projection.rs`, `generated/`) | none | documents to records | – |
| gNMI provider (`sources/gnmi/src`) | one call's snapshot | Get, ONCE and STREAM calls, projection | sync before data, false or repeated sync, end with an error; which of two contributions to a leaf stands |
| Planner (`plan.rs`) | none | plan | needs matched with declarations |
| Recipe and admission (`recipe.rs`) | none after construction | validate, endpoint_subtree | hand-wired units, order of checks, contexts of one endpoint |
| Report assembly, status tables (`report.rs`, `status.rs`, `clock.rs`) | none | outcome to envelope | one status per outcome, breaker routing, a bound met twice |
| Source contract (`source/src`) | none | traits, stamping, issue bound | issues cut at a bound |
| Data model (`model/src`, `model/src/generated`) | a builder's fields | builders, checks, canonical order, digest, encoding, decoding | two ways in that must agree, a sort that decides identity, lengths computed before the bytes |
| Code generator and schema (`codegen/src`) | the tree it writes | lint, vocabulary, plans, lock; generate and check runs | an annotation lost in silence, a scan that needs a sort, a run that fails halfway |
| Projection compiler (`codegen/src/projection`) | none | manifest to projection code | – |
| Examples, exporters | none | wiring, output | – |
| Dispatcher (`nv-redfish-dispatcher`) | not in the repository | scans, admission, clock | – |

How they interact. `Collector::add` turns units into a subtree for the
dispatcher's runtime and spawns one task, which polls that runtime, the
endpoint's streams, a stop signal and the channel. A streamed unit is split: the
leaf lives in the runtime and yields connect attempts, the reports live in the
task; the two meet in `Shared`. A provider is called from an attempt or a polled
unit, and the log read keeps its cursor behind a mutex shared by successive
polls.

What makes each part correct:

* a stream: never two instances at once; a drop cancels a request in flight and
  leaves no stream open; nobody sleeps through an opened stream, a stop or an
  end; the ladder counts silent instances and nothing else; a stop is final;
* the collector: registry and tasks agree; a shutdown reaches everybody; per
  endpoint, reports in order, then one retirement, then perhaps another
  addition; a stalled consumer bounds what is held; removal, shutdown and drop
  come to an end;
* the log walk: nothing is passed over in silence, nothing is shipped twice, a
  log that fits is read whole, and the read catches up;
* the event stream: a reconnect passes over nothing in silence, a replayed event
  ships under the key it had and two events never share one, and the stream
  catches up;
* the platform slot: an endpoint that came back is not read as what it was;
* a firmware walk: a batch claims no more of the listing than the walk read;
* from needs to reports: a report belongs to the need it was planned for and
  carries one identity and one instant, whoever wired the units; no device data
  is lost to how much there was to report;
* the data model: builder and decoder accept the same, what is accepted is what
  its checks promise of the whole message, listing order carries no meaning, the
  digest is the content, and the consumer gets back what was held;
* the code generator: what the lint lets pass the generated checks enforce, no
  annotation is switched off in silence, the lock shows every enforced change,
  and a run says the truth about the tree;
* a gNMI call: a snapshot is published whole or not at all, a stream says
  everything and fails once, and no issue disappears at the bound.

The hazards behind these properties are listed with their lines in
`PROJECT.json`.

## Modules

| Module | Models |
|---|---|
| `Reconnect` | `ReconnectPolicy::delay`, `validate_reconnect` |
| `StreamUnit` | leaf, connect attempt and reports of one stream |
| `Subscription` | abstract: what a stream promises its endpoint |
| `StreamUnit_proofs` | theorems about `StreamUnit` |
| `Collector`, `Collector_proofs` | registry, endpoint tasks, channel, consumer; theorems |
| `Planner`, `Admission`, `ReportAssembly` | `plan`; `endpoint_subtree`; source answers to envelopes |
| `Pipeline` | composes these three (and `Reconnect`) into one endpoint's way from needs to reports |
| `Pipeline_proofs` | theorems about `Pipeline` and the modules it composes |
| `LogWalk`, `LogWalk_proofs` | one Redfish log read and its device; theorems |
| `EventCursor`, `EventCursor_proofs` | the Redfish event stream across its instances, and its device |
| `PlatformCache` | the platform slot shared by the reads of an endpoint |
| `FirmwareWalk` | one walk of a firmware inventory and its listing |
| `EndpointReads`, `EndpointReads_proofs` | composes the two: a walk among other reads of an endpoint; theorems about the parts and the whole |
| `GnmiSubscribe` | one Get, ONCE or STREAM call |
| `MappingRules` | gNMI specifications: which leaves they map, and the checks that let them through |
| `GnmiProjection` | one notification, to observations and issues |
| `GnmiFlow`, `GnmiFlow_proofs` | composes them: a call whose first notification has content; theorems about calls and about projection |
| `ModelSchema` | the contract's messages: fields, checks, decode order, as tables |
| `ModelCodec` | what the tables mean: canonical order, digest, encoding |
| `ModelEntry` | the way into a message and out of it: decode, build, the cross-field rules |
| `MessageFlow` | composes them: builder, `encode_to_vec`, the consumer's `decode` |
| `SchemaOptions`, `SchemaLint` | the annotation vocabulary; the lint rules |
| `ModelPlans` | field plans, wire types, limits and the lock |
| `GeneratedCode` | what the code written from the plans does with values |
| `Codegen` | composes vocabulary, lint and plans: authors, the tree, `generate` and `check` runs |
| `CodegenValues` | composes `Codegen` and `GeneratedCode`: what a compiled schema does with values |
| `Codegen_proofs` | theorems about `Codegen` and `CodegenValues` |
| `MC_*` | instances for TLC |

### StreamUnit

A step is one critical section of the `Shared` lock with the local work up to
the next one, so no assumption is made about which thread polls which party.

* The leaf: `UpdateReady` and `Schedule` are `update_ready` (an ended instance is
  scheduled in the scan that sees it), `TakeNext` is `take_next`, `DropRuntime`
  is the drop of the runtime with its leaf and its attempt.
* The attempt is `connect_future` cut at its locks: `Begin` or `BeginTooLate`
  (the phase check and the abort handle), `Answer` (the handle withdrawn),
  `Abandon` (the abort won), `SettleOpened`, `SettleFailed`, `SettleTooLate`.
* The reports are `poll_next` cut in two: what the open stream answers
  (`PollItem`, `PollFailure`, `PollClosed`, `PollPending`, or `PollShared`
  without one), then the lock (`TakeOpened`, `Finish`, `Park`). `DropReports` and
  `DropFinish` are the two halves of its drop; between them a provider may still
  answer.

Time is what is left to the due instant; `Horizon` is the longest delay an
`Instant` can still be added to. `wakes` is the set of parties woken and not run
since; `silent` and `delivered` are history variables the code does not have,
against which the ladder's counter is compared. Reports are polled by a task
only when woken, which is what makes a lost wake-up visible.

`Subscription` says what the endpoint sees: one request or one open stream at a
time, and after the stop neither a new request nor a newly opened stream.
`StreamUnit` refines it (`KeepsPromise`) with `link` computed from the attempt,
the opened and the current stream; `link` is "twice" when more than one of them
is there, a state no step of `Subscription` leads to, so the refinement also
says that instances never overlap.

### Collector

A step is one critical section of the registry, one arm of `run`'s biased
select, or one await of `drive`. The arms' order is in their guards: `StopArm`,
`ClosedArm`, `ReserveArm`, and, only when none of these is ready (`Quiet`), the
runtime's and the streams' arms. `Abandon` is `Drop for Seat`: the task dropped
at any await, or never spawned. `Retire` frees the id and sends its retirement
under one lock, as `Registry::retire` does; a slot reserved and not used counts
against the channel (`Room`).

Reports are serial numbers modulo `Serials`, and `last` records what was last
said of an id, so that the order of outputs is a property of two consecutive
values. The queue is a count: the channel is first in first out and outputs of
different endpoints are independent. The dispatcher is reduced to the number of
units due and in flight. `Advance` lets one unit fall due whenever the code shows
the runtime a new clock reading, which is not while a report is held; the
arithmetic of `Timeline` and the sleep arm are abstracted to that.

### LogWalk

One log read and its device. The device writes, rotates, clears and, if it is of
that kind, sets its clock back between any two requests. A poll is cut at its
requests: the service (`ReadService`), the filtered question (`AskFilter`), the
head (`OpenHead`), a `$skip` page (`Skip`), each link (`FollowLink`), each member
(`VisitMember`, `VisitRefused`), the probe. `Rewalk` and `ProbeFlips` start
another pass within the poll. `Ship` stores the cursor and hands over the
records, and `Fail` is any request that fails or the deadline, which leaves the
cursor alone.

Devices differ in how they list members, whether ids count arrivals, what they
do with `$skip` and `$filter`, whether they count, whether their links work, and
whether their clock may be set back.

`NoRepeat` is about devices that number their entries, list two members to a page,
have links that lead on and a clock that runs forward. The last two are no
convenience. Read off pages of one member, a newest-first order is taken for
oldest-first until a probe tells, and what shipped meanwhile ships again. Where
`$skip` is honored and links lead nowhere, a jump whose visit the time budget cuts
leaves the cursor above the window the next poll reads from the head; that window
holds older members, some of which had shipped. Both repeats end with the next
cursor that is met, and the code's docs claim nothing for such devices.

`PollAccounts` excludes the device that honors the filter and sets its clock back while
its service reports no clock: "a filter by stamp presumes the device's clock has not
moved back past the cursor's second" (1307-1312), and a poll says nothing of the entries
stamped before that second. `NoSilentLoss` includes the device: the cursor does not
pass those entries before the clock does.

Data abstractions: an entry is a serial number (never seen by the code), an id
and a stamp in seconds; every entry is stamped and projects at most one record;
message and field projection are left out. An entry in `Faulty` can be read and
projects nothing.

Some things a walk over separate requests cannot tell, and neither the code nor
its docs claims it can. The history variable `raced` marks them, and the
properties that would be about them exclude it: a log cleared or a clock set back
in the middle of a walk (`Race`); a page shifted by an arrival between two page
requests (`Shifts`); a clock that was set back and ran past the cursor again
before a poll saw it behind (`Strays`); a member the device will not serve that has
the cursor's id in a log refilled since (`Mistaken`); a probe that flipped an order
that was right (`ProbeFlips`). The last two are departures from the comments and
described under Findings. A log is cleared only on
devices whose clock never goes back and comes back with a later second, because
an id refilled on its very second is, as the code says, invisible. A device whose
clock steps without the service telling it is documented as blind and is not
among the instances.

### EventCursor

The provider's cursor (a run and the last SSE id) across the instances of one
event stream. `Begin` is `perform` up to the request, with `Cursor::start`;
`Opens` and `OpenFails` are its answers; `ReadEvent`, `ReadIssue`, `ReadMetric`,
`ReadGap` and `ReadBreaks` are the arms of `items`, each of which moves the
cursor before it makes anything of a payload (`Arrives`). `Keep` and `Reborn` are
the embedder that stores `resume_position` and hands it to the next process.

That only one instance exists at a time, and that an item is delivered unless the
process ends, is taken from `StreamUnit` and `Collector`. A payload carries one
record. The device numbers payloads from one at each boot and keeps the last
`Retain`; the serial number that tells two boots apart is the model's. A minted
run is the smallest one nobody names any more, which stands for a UUID.

`rewound` marks that a position older than the cursor was handed back; on a
device whose ids start over, `KeysTellApart` excludes it, since then an old id in
an old run can be met again by construction.

### PlatformCache

Any number of reads share one slot. `Compat` takes the platform from it,
`AskRoot`, `Answers` and `Classified` read the root and fill it, with no lock
held in between, and `Fault` empties it. The endpoint goes away and comes back on
other firmware. A root that is on its way to one read while another's fault
empties the slot can put the old platform back. The code accepts this (the slot
lasts until the next fault or event stream), so `FreshUnlessOvertaken` states
freshness with exactly this exception.

### FirmwareWalk and EndpointReads

One acquisition of `FirmwareKind` over a live collection: `Open` and
`ServiceArrives` are the requests before the walk, `PageArrives`, `Visit`,
`Exhausted` and `PageOver` the loop of `walk_firmware` cut at its requests,
`Ships` is `assemble_firmware`, and `Fails` every way a walk ends without a
batch. The listing is a graph of pages with links, counts and documents, so that
it can repeat a member, give two members one identity, link back or to nowhere,
or count wrong, and `Changes` puts another listing under the walk. A member
expanded inline cannot be refused by the device in the code; the model lets any
be refused. The states a walk ships follow its items one by one and are left out,
and every document is taken to carry a name.

Two reservations of `InventoryIsTold` are what the code does, not what its docs
say (see Findings): a member whose document has no usable id is named in an
issue only, and a member listed twice counts twice.

`EndpointReads` lets one reader of `PlatformCache` walk. The walk goes through
the layer it classified when it began; its requests need an endpoint that is up,
a fault that indicts the endpoint ends the walk and empties the slot, and the
other readers' faults empty it under the walk. Coming back on other firmware may
change the listing.

### GnmiSubscribe

One call. A message is reduced to what the loops tell apart: a notification that
projects cleanly, with an issue, or not at all; a sync that is true or false; the
legacy error, an empty response, a status, the clean end. `sent` is the history
of what was taken, and the properties compare the outcome with it. The failure
table is not kept, only that a failure discards the buffer.

### MappingRules, GnmiProjection, GnmiFlow

`MappingRules` holds `covers`, `mapping` and the subjects of `spec.rs`, and
`Accepts`, the checks of `MappingSpec::new`. `GnmiProjection` is `project`: every
update resolved, expanded and remembered by path from the last to the first (`Walk`),
then every leaf claimed and converted (`Projected`) and its identity entered
(`Choice`), then the chunks and the deletes. A path element is a name, in
two parts where a module may qualify it, and keys; a value keeps its sort and a
number that tells it from others. A JSON document is a function on its places, a
place being the numbers of the members on the way to it: `Extractor::walk` keeps its
parents in a list of its own and makes no calls, and the places it comes to are
those below objects it opens (`Visited`). Which of several flaws of one object is
reported, and the order of the leaves of one update, which are of different paths,
are arbitrary choices.

`GnmiFlow` lets a target say what is in the first notification of a call; the
others are told apart as in `GnmiSubscribe`, since each is projected for itself.
`NotificationIsTold` reads the same notification forwards, by the rules `lib.rs`
states for updates, objects, collisions and deletes, and compares.

### Planner, Admission, ReportAssembly, Pipeline

The first three are operators that follow `plan`, `endpoint_subtree` with
`validate`, and `Assembler` with the source crate's bounds, in the order of the
code's checks and early returns. Text is "empty", "fits" or "long", an endpoint
an id with a context, a wall clock reading a number.

`Pipeline` is what an embedder does with them: needs and declarations are drawn,
`MakePlan` plans, `Add` binds every planned acquisition to a unit by hand (to the
right one or to one of three wrong ones, `Identities`) and admits them, and the
polls and streams of the endpoint answer while the wall clock is set either way.
When an attempt starts is the dispatcher's choice. `Report` assembles the answer
of an attempt or of an open stream's item; only the former carries a breaker
sample. A report is delivered before the next step, which hides nothing: reports
of an endpoint are assembled one at a time by its task.

### ModelSchema, ModelCodec, ModelEntry, MessageFlow

The generated `model.rs` repeats one pattern for 25 messages: a struct with its
canonical order, digest and emitter, `check`, builder and decoder. `ModelSchema`
holds what differs, three tables per message in the order of the code, so that a
wrong order, a missing check or a wrong number of one message is visible there.
`ModelCodec` and `ModelEntry` say once what the tables mean, with the hand-written
parts (`value.rs`, `rules.rs`, `canonical.rs`, `digest.rs`) beside them.

A message is a record of sequences, a string of n bytes is its length and a sum is
a pair of arm and content. Encoded bytes are tokens: a key, a length, a scalar,
each with its width, so that every length prefix is a sum that can be wrong.
prost's decoder (`Parse`) is external and follows the wire format.

The tables reach `ModelCodec` as its constant `Tables`, which the configuration
gives `Contract`.

`MessageFlow` sets the fields of a builder in any order, any number of times,
builds, sends and receives.

### SchemaOptions, SchemaLint, ModelPlans, GeneratedCode, Codegen

A schema is a function from messages to annotated fields. `SchemaOptions` has one
row per option and says how the descriptors are read under a vocabulary the author
may have changed; `SchemaLint` lists violations; `ModelPlans` makes the plan of
each field, the wire types, the limits and the lock; `GeneratedCode` runs the
canonical order, the sort, the digest and the uniqueness check such plans compile
to on every small value of a message. A value is a function from fields to numbers:
absent, or which of the values of its kind the field holds, in the canonical order of
that kind; so a comparison is one of numbers, and a message in a field is its place
among the values of its kind.

`Codegen` has authors who edit schema and vocabulary, a tree whose files are
edited, deleted or left behind, and `generate` and `check` runs that may fail at
any file, at the directory of one, or in the scan for orphans when every file is
done. What `prost`, `protox` and `rustc` do is external; a projection manifest
has one output or is refused. Messages written by hand (`Value` and its kin) and
the values of oneofs are left out of `GeneratedCode`.

## Runs

Deadlock is checked except where the system really may stop: a stopped stream, a
collector after its shutdown, a finished call, a received message, and a schema
that has been edited as often as the bound allows (`stream_unit`, the collector
runs, `gnmi`, `model`, `codegen`), and an endpoint without units (`pipeline`).

| Run | Instance | Shows |
|---|---|---|
| `stream_unit` | one stream, delays 1, 1, 3, 4, counter saturating at 3 | every interleaving of leaf, attempt, reports and drops: `DropCancels`, `NoLostWakeUp`, `LadderCountsSilence`; under fairness `EndedReconnects`, `StopEndsReports`; and `KeepsPromise` |
| `collector` | two interchangeable endpoints, one channel slot, all modes, one unit, one in flight, serials modulo 4 | `SeatsAreTasks`, `ShutdownReachesAll`, `HeldBounded`, `InOrder` |
| `collector_live` | two streaming endpoints, one slot | `RemovalRetires`, `ShutdownEnds`, `DropEmpties` |
| `pipeline` | two endpoints, one under two contexts, at most 2 polls, 1 stream and 2 declarations of 6, nine policies, seven reconnect policies, issue bound 2, two in flight | `ReportsAttributed`, `DeviceDataSurvives`, `LadderSpreads` |
| `log` | twelve devices with and without filter (honoured, ignored, refused, a clock that steps, told and not), log of 4, pages of 2, budget 3, 5 entries, 2 seconds | `NoSilentLoss`, `NoRepeat`, `FitsIsWhole`, `PollAccounts` |
| `log_live` | the six numbered devices, log of 3, budget 2, 4 entries | `CatchesUp` |
| `events` | six kinds of device (with and without ids, refusing or replaying, some booting), 4 payloads of which 2 are kept, one undecodable, one metric report | `PassedIsAccounted`, `KeysTellApart`, `ReplaysCollapse`, `StreamCatchesUp` |
| `platform` | two reads and a walk, two firmware versions, ten listings of up to three members on up to two pages, budget 3 | `FreshUnlessOvertaken`, `InventoryIsTold` |
| `gnmi` | up to 6 messages, at most 2 issues; 36 specifications of 3 to 8 mappings; up to 2 updates of 25, or 3 of 5, pointers of 2 names, 2 readings or 1 state a payload | `CallsHandOverWhole`, `IssuesAccounted`, `NotificationIsTold` |
| `model` | all 25 messages, two to seven samples per field | `RoundTrip`, `BuildIsDecode`, `OrderFree`, `AcceptedIsSound`, `DigestIsContent` |
| `codegen` | a contract of three messages, two edits of the schema or the vocabulary, one more where a run follows, two changes of the tree | `UniquenessHolds`, `HashIsContent`, `NothingSwitchedOff`, `LockShowsIt`, `RunsTellTruth` |
| `events_keys` | smallest instance | the finding |

Why the bounds are enough. A stream's counter matters at 0, 1, between and at
its saturation, and its delays at "due now" and "later". One channel slot is the
tightest backpressure; two endpoints are what it takes to compete for it, to
re-add one id while the other retires, and for one to hold the slot the other
waits for. One unit and one acquisition in flight let an endpoint hold three
reports, so modulo 4 no two of them share a number. A log needs more entries
than it keeps (rotation), more members than the budget (truncation, entry at an
offset), more than one page, and two entries in one second; the instances have
all of these. An event stream needs a payload delivered, one overrun and one
behind the cursor; four payloads over a buffer of two give all of them, twice.
Three reads let one be overtaken by a second while a third fills the slot; the
listings have every irregularity `FirmwareWalk` tells apart, and the listing
changes at most once in a walk (`ChangesOnce`), which is what `InventoryIsTold`
excludes anyway. Six messages hold two syncs, an end and three notifications, one
issue more than the bound; the mappings of `MC_GnmiFlow` meet in every way `Accepts`
tells apart, three updates put an object between two leaves, and three leaves of one
identity collide twice. Two polls, a stream and two declarations let a need be
served twice, not at all, or by a provider of the other mode; three issues are one
above the pipeline's bound, and the policies stand on both sides of every
comparison; `MaxSilent` lies past the last doubling. A message's samples are the
values its checks tell apart: empty, longest and too long strings, twins, unsorted
lists, unrecognized and aliasing enumeration numbers, values at the depth limit,
numbers whose varints differ in width. Every lint rule and every plan relates at
most two annotations or shapes, so two edits from a schema that uses them all
reach each combination; a run is followed over one edit, since what it does
depends on whether its output changed and not on how. `MaxEntries`, `MaxClock` and
`MaxMeddles` only bound the environment's activity.

Symmetry is used in `collector` and `platform`, which check no liveness.

### Fairness

* `StreamUnit`: a woken party is polled, a step begun is finished, the runtime
  sleeps no longer than to the due instant, and a due leaf is admitted in the end
  (the admission stack is the dispatcher's). Nothing obliges a provider to answer
  a connect, to deliver or to close, nor anyone to drop a half.
* `Collector`: tasks are scheduled (weak), a waiter for a slot gets one (strong:
  tokio's semaphore serves waiters in order, and `run` gives up its place only
  for the units that were due when it began to hold), acquisitions finish
  (strong: every provider bounds its own), and the consumer reads until it drops
  the stream. Nothing is assumed of adds, removals or new work.
* `LogWalk`: the dispatcher starts a poll every cadence and a started poll runs.
  `Fail` is not fair; `CatchesUp` is conditional on failures ending and, like the
  safety properties, on no race the walk cannot see.
* `EventCursor`: a stream that ended is connected again (`StreamUnit` does it; one
  that ended for good is added again by its embedder), an open one is polled, the
  collector delivers. `StreamCatchesUp` is conditional on connects, ends and
  crashes ceasing.

## Proofs

All theorems hold for every value of the constants that satisfies the named
assumption of the module (`StreamAssumption`, `CollectorAssumption`,
`PlatformAssumption`, `FirmwareAssumption`, `WalkerAssumption`, `EventAssumption`,
`GnmiAssumption`, `FlowAssumption`, `LogAssumption`, `PipelineAssumption`,
`CodegenAssumption`, `KindsAssumption`):
numbers are naturals, positive where the code's are, the set of ids is finite, an
empty slot is no firmware, a contract has finitely many messages, whose names are
neither an enumeration's nor a scalar's, each with finitely many fields of different
names and numbers (a descriptor pool refuses others), and what embedders, schema authors and gNMI targets may
write has the shape the source gives it. `FlowAssumption` is the longest: a mapping
has a kind and a type of the schema, paths and updates are lists, and a document has
finitely many places, each below objects, which is what `serde_json` leaves of bytes
it accepts. It says nothing of names, repetitions, depth or order.

**StreamUnit_proofs.** None of the safety invariants is inductive alone. The
inductive invariant `IInv` adds to the types: `Shape` (which party may hold an
instance in which phase; `OneInstance` follows, and with it that `link` is never
"twice"), `Cancel` (a request in flight can
be aborted by the handle in `Shared` or by a drop that took it out; the middle of
the drop is what `DropCancels` alone does not describe), `Waking` (idle reports
are woken or have left their waker, so whoever opens or stops will wake them),
and `Ladder` (the flag of the open instance and the payload of an end agree with
the history). From it: `TypeCorrect`, `NeverTwoInstances`, `DropAlwaysCancels`,
`NoWakeUpIsLost`, `LadderIsHonest`, `StopForGood`, and the refinement
`KeepsItsPromise`, by one step per action.

**Collector_proofs.** `IInv` adds `Slots` (queued outputs and promised slots
fit the channel), `Idle` (what a task outside the loop no longer has), `Backlog`
(a holding endpoint's reports, due units and acquisitions together stay within
`Units + InFlight + 1`; `HeldBounded` alone says nothing of what may still
finish), `Chain` (held reports continue the last one sent without a gap) and
`Told` (what was last said fits where the task stands). From it: `TypeCorrect`,
`RegistryIsExact`, `NobodyMissesShutdown`, `HoldingIsBounded` and the action
property `OutputsInOrder`.

**EndpointReads_proofs.** Three parts. The platform slot: `FreshUnlessOvertaken`
speaks only of an endpoint that is up. `Settled` adds that after a seen outage the
slot stays empty while the endpoint is down, and that every root on its way is its
present one; without the latter `Classified` would break it. From it:
`FreshAfterOutage`.

The firmware walk: `InventoryIsTold` speaks of the idle walk and its batch.
The invariant of the walk says, as long as the listing has not moved under it:
`Paged` (every page seen but the current one is read: its members are listed and
its link leads to a page seen or nowhere), `Counted` (the count kept is the first
page's, and a walk that ended uncut has visited that many), `Accounted` (every
member listed is an item under the identity its document claims, or is told),
`Complete` (the claim is kept only with no cut, no refusal and no twin) and
`Numbered` (visits are members listed, unless one was listed twice).
At `Ships` the pages seen are closed under links, so they hold every page
a reader comes to, and the rest of the property is read off. From it:
`WalkTypeCorrect`, `WalkInvariant`, `BatchesTell`.

Both composed: `StepOfEach`, every step is a step or a stutter of `PlatformCache`
and one of `FirmwareWalk`. Both invariants therefore carry over: `ReadsKeepBoth`.

**GnmiFlow_proofs.** Two parts. Calls: `OncePublishesWhole`, the harder half of
`CallsHandOverWhole`, speaks of finished calls. `Reading`
adds what the loop knows while it runs: all messages so far belong in a snapshot,
`synced` tells whether a true sync is among them, and if so every notification
stands before one; the buffer holds every notification. From it, for calls of any
length: `CallsAreWhole`. `Counted` adds that `index` is the number of notifications
taken and that the issues are as many as the flawed ones, each under the number of
one of them, in rising order; that `bounded_issues` keeps or counts all of them is
`BoundedTells`. The issues of a Get come of a recursive function over its answer:
that the function exists (`TailsExist`) and that its value at `n` names the flawed
notifications from `n` on (`TailsName`) are inductions from the end of the answer,
by the least place at which they would fail. With both, calls of any length account
for their issues: `CallsTellIssues`. A call of `GnmiFlow` is one (`FlowIsCall`).

Projection: `NotificationIsTold` holds of one notification or does not, so the
invariant only says where a note comes from (`Noted`); the work is in `ProjectTells`,
which compares two accounts of a notification. One has no order of work: who is heard
is said by comparing updates, what stands by comparing words. The other is two
recursive functions, over the updates from the last and over the leaves from the
first, of which existence and value are again inductions (`WalkIs`, `ChoiceIs`). The
argument has four steps. An object: a name found twice, or a pointer too long, on any
branch that can reach a mapping has one that is met on the way down (`FirstRepeat`, by
the least object above it that repeats a name), so the walk rejects just what the
documentation discards (`FlawedIsDiscarded`); and where no name repeats, names tell
places apart (`NamesTell`), so the leaves found are the words said, and no pointer of a
leaf is one of an issue (`ObjectTold`). The updates: what is seen, issued and found when
the walk has come down to an update (`WalkSo`). The leaves: those that were the first of
their path, were worth something and met no other of their identity are the candidates,
all other firsts are issues (`ChoiceSo`). Last, the first leaf of a path is the last
word on it (`LeavesDecide`), since leaves come in the falling order of updates and one
update says one thing of a path. That at most one mapping has a say is had from
`Accepts` (`OneMatches`), and that the chunks hold every candidate once is arithmetic
on places (`AtCovers`, `SplitIs`). With all: `NotificationsAreTold`, for notifications
of any length, objects of any depth and every specification that is accepted.

**EventCursor_proofs.** The properties speak of what was passed or shipped, and say
nothing of what an open stream may send next. `IInv` adds `Placed` (an instance
keeps the run of the cursor, and neither the cursor, a stored position nor the
stream is before the first payload of the sequence), `Accounted` (all payloads
before the next one of an open stream are told of, or a gap is owed and the stream
stands no later than the oldest payload the device keeps), `Older` (the records of other runs are older than
anything that may come) and `Ahead` (the records of this run have smaller ids than
anything that may come, on an orderly device). That a run nobody named can always
be minted is `FreshIsNew`. From it: `NothingPassedOver`, `ReplayHasItsKey`, and
`KeysAreDistinct` for every device that does not boot, sends no ids, or refuses an
id it does not keep; the others are those of the finding below.

**LogWalk_proofs.** Three invariants. `IInv` is about numbers: the pages read are a
stretch of the collection, a link leads on only where the log goes on (`Window`); a
visit that neither met the cursor nor was stopped has seen its whole window
(`Visit`); a jump that missed is never what ships (`Judged`). It gives
`WhatFitsIsWhole`. `Tells` is about entries. `Numbered`: the entries held are
numbered without a gap, so an id names one of them and those missing below it were
rotated out. `Segment` and `Listed`: the ids to visit are an interval, and leave out
only what arrived above it, or lies before a jump. `Seen`: the visit takes them in
order and accounts for each. `Anchor`, which `NoSilentLoss` alone does not give
because the cursor's member may have rotated out or its id been reused: whenever an
entry held carries the cursor's id and stamp, all entries up to it are known, and no
entry to come can carry both (`Stands`). A device that honors the filter lists only
what is stamped at or after the cursor (`SincePicks`: in order, and all of it), so the
interval is one of the entries asked for, and of the others `Stamped` says that they
are known. That needs `Dated`: an entry nobody was told of is stamped no earlier than
those before it, unless it is `Low`, written after the clock was set back to a time the
clock has not passed since. A poll of a service that speaks of its clock then does not
filter; of one that does not speak, the low entries stay unread, but all that the
filter keeps comes before them, and the cursor does not pass them. A walk that ships either said it was cut,
and then all it listed is told, or has seen everything between the cursor's member
and its own newest, whichever way round it went; below is known by `Anchor`. From it:
`NothingIsLost` and `PollsAccount`.

`Once` is what `NothingShipsTwice` needs beside them, under the premises of
`NoRepeat`. `Behind`: whatever shipped and is held has an id no greater than the
cursor's member, and that member is held as it was shipped, or nothing that shipped
is held any more. That alone lets a window end below the cursor, and a visit of such
a window would ship everything again, so `Ahead` says how far a window reaches: on
an oldest-first device that can be entered at its end, to the count the first page
gave, or a budget's worth above the offset; on one that cannot, to the last link or to
the first whole page with which the members read reach the budget, and the cursor's
member, which was once visited in such a window, lies `Within` it, because entries
only ever move towards the start. `Sided`: of two members on a page the order is read
right (`HintIs`), so a walk the wrong way round has at most one member. `Closing`: the
visit goes down from above everything that shipped, so it records nothing that had
shipped before it meets the cursor, and its newest becomes a cursor for which `Behind`
holds again; a member under the cursor's id and another stamp shows that the log was
cleared, and then nothing held has shipped. A device that honors the filter is asked
by stamp as long as an entry that shipped is held (`Headed`): it advertises and never
refuses, and a filtered pass is walked again from the head only when nothing that shipped is
held any more. Its window is shorter than the log, so that `Reached` counts the
cursor's place from the first entry stamped as it is.

**Pipeline_proofs.** `ReportsAttributed` and `DeviceDataSurvives` speak of the last
report. `IInv` follows it back: needs and declarations are lists of the right kind
(`Asked`), what is seated was planned for its need and validated (`Placed`), what
runs or is open is seated (`Attempts`), and the last report is what `Assemble` made
of some answer for a seated unit (`Reported`). `PlanIs` says what a plan without fault
is (each need served by exactly one declaration of its mode, in the order of the
needs), `SubtreeIs` what a validated recipe is, `AssembleIs` what the assembler keeps,
counts and drops. From them: `ReportsAreAttributed` and `DataSurvives`.
`StreamsSpread` is about numbers: the shift in the code is a power of two
(`ShiftedIs`), each rung doubles the last until the cap (`LadderDoubles`), and the
stagger adds at most its share and never the same to two endpoints whose places
differ (`Spreads`). That the
powers exist and are unique is an induction over numbers; it is made by a least
counterexample, from the library's theorem that the naturals are well-founded
(`PowersExist`, `PowersAgree`).

**Codegen_proofs.** `Tree`: the output in hand is what the compiler makes of the
schema and the vocabulary of the moment. With it `RunsSayWhatIs` compares, for each
way a run ends, what it says with what it left, file by file (`Truth`, `AfterIs`).
`SchemaHolds` says that editing keeps a schema a schema; with it a vocabulary that
resolves reads every annotation back as written (`ReadsBack`, `SeenIsWritten`), and
`NoneSwitchedOff` follows. `LockIsTheContract` says that two schemas with one lock
compile alike. `LockSame` reads off a lock what it shows of each field (name, number,
kind, options, whether presence can be told) and of each oneof (its arms by number);
which oneof a field belongs to is not in the field's own line and has to be had from
the arms (`OneofStands`, `ArmStands`). One lemma for each part of the compiler then
says that the part depends on no more than that: nesting,
keys, plans, the lints, the wire types, the limits, up to the gate (`GateIs`).

What the generated code does with values is proved for every schema the lint lets
pass. `AscendingIs` says that a finite set with a total order is listed once each, in
that order; plans (`CanonicalIs`), the values of a message (`ValuesOrderly`,
`ListingIs`) and a list that is canonicalized (`SortedIs`) are three uses of it.
`UniquenessIsChecked` rests on two facts: the lint finds each key among the visible
fields (`KeysFound`), so where `adjacent_scan_sound` says yes the keys are the first
plans of the canonical order (`KeysLead`); and of three values in order, if the outer
two agree on leading fields the middle one does (`BetweenAgrees`). `ContentIsHashed`
asks of what is told of a message, from the inside out, whether content says what is
hashed (`Follows`), whether it determines the value (`Sharp`), and whether it says
where a value stands among those of other content (`Steady`). `MessageSteady` is the
step that needs the exception of `HashIsContent`: every visible field but the last
must be `Sharp`, the last only `Steady`.

Only model-checked:

* every liveness property: the prover does not reason about fairness or ENABLED;
* everything in `MessageFlow`: `ModelCodec` and `ModelEntry` are recursive over values
  that nest;

Induction over natural numbers is within reach, by a least counterexample as for the
powers of two, the issues of a Get, the loops of `project` and the closures of the
lint; induction over the
structure of a value is not, since the library's theorems for it take an operator as
parameter. A JSON document is a function on places for this reason.

## Findings

One run violates what the documentation says. `events_keys`: the module doc of
`stream.rs` says the dedup key never collapses distinct events; a device that
booted and replays what it has ships new events under the run and the ids of old
ones. What holds is `KeysTellApart`.

Other disagreements of comments and code, met while modelling and not kept as
runs. Where one bears on a property, the model follows the code and the property
names the exception.

Orchestration:

* The module doc of `collector.rs` (lines 14-16) says a full stream stops each
  endpoint's clock; only endpoints that hold a report stop theirs, as the comment
  on `run` says. What is bounded, and proved, is `HeldBounded`.
* `report.rs` (161-162) says a stream's terminal item goes through the same breaker
  routing; `collector.rs` (440) delivers it directly and the breaker samples
  nothing of an open stream.

Redfish reads (`provider.rs`):

* A far member the order probe is refused leaves no issue (1628), though the doc of
  `newer_at_other_end` says it is reported, and the grown count is stored all the
  same (1645). Where the first page does not tell the order (unnumbered ids, or
  pages of one member), a newest-first log then stays unread until it grows again;
  this is why `log_live` has numbered devices with pages of two.
* A newest-first log larger than the budget is called truncated on every poll
  (1669), although the doc of `truncation` (1659-1660) excepts walks that met the
  cursor.
* A member with the cursor's id that cannot be read ends the walk, since "everything
  past it was shipped" (1804-1806, and LogCursor's doc, 1371-1374). Unread, it has no
  stamp to check, and after the log was cleared and refilled past that id nothing past it
  was shipped: as soon as a newer entry ships, those below are neither read nor reported.
  The same doc (1376-1378) says the whole window then ships once. The properties except
  such walks (`Mistaken`).
* A walk stopped by the time budget counts as one whose cursor's member is gone
  (1608), against the condition LogCursor's doc names (1390-1391).
* After a clock was set back, the order check of a filtered answer (1603) can flip
  an order that was right.
* A firmware member whose document has an empty or overlong `Id` projects no item,
  only an issue, and `complete` stays true, so a complete batch can omit a component
  that is there, against the doc at 454-460. A member listed twice counts twice
  towards the collection's count, so a listing of `A, A` that counts two passes for
  complete. `InventoryIsTold` admits both and no more.

Data model and code generator:

* With a bad map key the decoder may name another first violation than `build()`
  does; both refuse (`BadKeys` in `BuildIsDecode`).
* `canonical.rs` (8-16) says metadata only breaks ties. In an unordered list whose
  element has a message field that hides metadata before another visible field,
  metadata decides the order and with it the digest (`HidesMetadata` in
  `HashIsContent`). No message of the contract has that shape.
* The lint that keeps metadata out of keys looks at the key field's own annotation
  (`lint.rs` 692-702), not at metadata inside a message used as a key.
* `lib.rs` (60-61) promises to name whatever lies beside the generated files;
  `generated_orphans` scans `sources/` only.
* `wrapper/mod.rs` (146-149) promises an error for shapes it does not know; lists of
  bool or u64, maps, and scalars without presence are written with a type that does
  not match the wire, and the generated crate does not compile (`Builds`).
* `collection_metadata` on a member of a oneof is accepted and ignored, and
  `max_depth` only writes a constant that nothing generated reads.

## Not modelled, and why

* The dispatcher is another repository; the models keep what `stream.rs`,
  `collector.rs` and `recipe.rs` rely on. Whether a recipe that validates is ever
  admitted by its token bucket cannot be read off this code.
* The sensor and chassis reads of `provider.rs`: one request and a projection each,
  without state between two polls. Their use of the platform slot is modelled.
* Redfish projection (`projection.rs`, `sources/redfish/src/generated`) and the
  projection compiler that writes it: text and numbers moved field by field, with
  no state; the walks take its outcome as data.
* The requests a gNMI call sends (encodings, sampling, heartbeats): written once from
  the specification, and the answers do not depend on them here.
* The conversion of a clock reading to a timestamp (`clock.rs`), and
  `refused_status`, which nothing in the repository calls.
* Examples and exporters: wiring; the exporters are placeholders.

## Plan

What is left:

1. Proofs: the builder and decoder of `MessageFlow` for messages
   without nested ones.
