# AgentMonitors in TLA+

AgentMonitors watches files, commands, APIs and schedules on behalf of coding
agents. A per-workspace daemon ticks its monitors, turns what they observe into
durable events, projects each event to the agent sessions it concerns, and lets
transports (a Claude Code hook, an MCP channel server, direct CLI claims)
surface pending events to the agent without losing one or telling of one twice.
This project models that system in TLA+, from the change in the watched world to
the message an agent reads, with the processes, files and scripts around it;
checks it with TLC; and proves all of the safety properties it checks, but one,
with TLAPS for every value of the constants.

## The system

| Part | State it keeps | Operations | What must be right |
|---|---|---|---|
| Runtime service (`libs/core/src/runtime/service.ts`) | nothing but the reservation registry and watcher table | `tick`, `ingest`, `dispatchNotify`, `claimDelivery`, `reserveDelivery`, `commitDelivery`, `releaseDelivery`, `acknowledgeSession`, session calls | a row is surfaced before it is consumed; no double surface; nothing held for ever |
| Store (`store.ts`, SQLite) | `monitor_events`, `session_event_state`, `session_object_cursor`, snapshots, monitor state, suppressions, retry outbox | `insertEvent`, `markClaimed`, `collapseNetForClaim`, `acknowledgeEvents`, ... | one recipient's deltas follow what that recipient was shown |
| Reservations (`delivery-reservations.ts`) | leases in daemon memory, 30 s | `add`, `take`, `remove`, prune on access | leases exclude each other, and lapse |
| Transports (`commands/channel.ts`, `commands/hook.ts`) | a reservation id in a process that may die | preview, reserve, size, push or write, commit or release | at least once; the claimed set is the rendered one |
| Notify dispatch (`dispatchNotify`, `dispatchRollup`) | held debounce and rollup batches, throttle stamp | called by each tick | held observations come out once and in order |
| Watchers and checkpoints (`watchMonitors`, `consumeWatch`) | async iterators, promise chain of checkpoints | watch, ingest, checkpoint | a change is ingested once, baselines never go back |
| Sessions, ephemeral monitors, suppression | session rows, declarations, tombstones | open, close, declare, cancel, dormancy reap, retract, sweep | isolation; nothing reaped that is in use |
| Retry outbox | pending retries per monitor | enqueue, list | capacity is all-or-nothing |
| Daemon and transport health (`commands/daemon.ts`, `reap-decision.ts`, `transport-heartbeat.ts`) | pid and socket files, heartbeat records | boot, idle stop, reap, beat, clear | no live daemon reaped, no dead transport shown alive |
| Sources (`plugins/source-*`) | previous state of each monitor | `observe` | the reported difference is the difference |
| IPC (`daemon-ipc.ts`) | one buffer and one admission per connection | connect, chunk, dispatch, respond, stop | a request taken is answered, whatever another does |
| Files between processes (`local-permissions.ts`, `local-state.ts`) | hook-state, heartbeat and coordination files | rewrite whole, rename over | readers see whole and current files |
| Database opening (`inbox/db.ts`), legacy inbox | tables of an older version, inbox items | upgrade, split held batches; ack, start, complete, fail | nothing lost or misplaced by racing processes |
| `verify`, `doctor`, `monitor explain` | stages, deadlines, the reads they combine | trigger, observe, claim, clean up; report | a verdict matches its evidence; no trace is left |
| Scripts (`scripts/*.mjs`, `release.yml`) | registry and changesets; shell text | gate, version, publish; accept or refuse | every release arrives; what is accepted cleans |

All IPC calls run in the one daemon process: a service method without an
`await` is one atomic step, so an action here is one such method. Interleaving
happens between IPC calls of different transports, at the awaits of a tick
(`observe()`, the interpret adapter), and through time.

The hard behaviours, with the line where each bites and the properties that
watch it, are the `hazards` of `PROJECT.json`.

## Modules

Every module translates one part of the source; `map` in `PROJECT.json` names
the lines of each definition.

**Delivery to one session**

* `Delivery` - one lead session's rows and everything that moves them.
  `born`, `kind`, `age` are the projected rows (`monitor_events` joined with
  `session_event_state`); `claim`, `acked`, `gated`, `folded` its
  `first_notified_at`, `acknowledged_at`, `interpret_decision` and
  `net_suppressed_at`; `lease` and `plan` the reservation registry; `client` the
  process that holds each reservation id; `advert` the bands the hook-state file
  says are pending; `judging` and `ticking` where the tick stands; `told` a
  history of what the agent was told. The operators `Decide`, `HighPlan`, ...
  follow `decideDelivery` branch by branch, `Apply` is `applyDelivery`, and the
  actions are the service methods: `Materialize`, `Interpret`, `TickEnds`,
  `DirectClaim`, `AckAll`, `AckOne`, `Reserve`, `Commit`, `Release`, plus the
  transport's own steps (`Surface`, `ClientGone`) and the environment's
  (`Elapse`, `DaemonRestart`).
* `DeliveryPromise` - what delivery owes a session, without urgencies, leases
  or time. `Delivery` implements it: a row is *owed* while it is pending and
  *held* while it is also leased (`Promise`, `KeepsPromise`).
* `Cursors` - extends `Delivery` with the store's per-object cursor and the
  delta kept with each row, composed into the actions that touch them
  (projection, claim, commit).
* `Diagnosis` - extends `Delivery` with the hold classifiers of
  `hook deliver --debug` and `doctor` and the transports' previews, each a
  second computation of what `Decide` decides.
* `Sizing` - the loop by which channel and hook choose `maxEvents`: preview,
  reserve, measure, release and try again while rows settle and move.
* `HookDeliver` - the process of `hook deliver` around it: resolve, reserve,
  write, commit, and a stdout that breaks in the middle.

**From the world to the chain**

* `Ingestion` - one monitor's tick: `observe()` awaited, `dispatchNotify` and
  `dispatchRollup` (debounce, throttle, rollup, escalation), the stored row,
  then `materializeSpan` with an interpret call between two rows. `row` is the
  `monitor_state` row, `chain` the shared chain, `tick` each tick in flight;
  `lost`, `forgone` and `overlapped` are histories for the properties.
* `Explain` - extends `Ingestion` with the newest `observation_history` row and
  the staged verdict of `monitor explain`.
* `Watchers` - a continuous watcher beside the tick: the slot of
  `activeWatchers`, the chain of ingests and checkpoints, supersession.
* `Sessions` - sessions, the ephemeral monitors they declare, dormancy, and
  ticks that list a watch and evaluate it later.
* `Sources` - what each polling source reports and keeps (`kind` selects the
  plugin), beside a follower who applies the reports to the first baseline
  (`replica`). file-fingerprint reads a file twice, for its hash (`HashFile`,
  which `cur` and then `base` keep) and for the text it reports (`TellPresent`);
  `raced` are the files that changed in between. incoming-changes may move its
  baseline without a report (`Rebaseline`) or tell a removal as a rename.
  `astray` are the keys of which the follower was so misinformed, until they are
  told of again. `CommandRun`, `FetchBody`, `Composite` - the command process and its
  timers, the bounded fetch, the pool that fetches a composite snapshot.

**Processes and files**

* `Daemon` - racing boots around the startup lock and the socket path, stop,
  signals and `daemon run --detach`, one system call a step.
* `IdleReaper` - the loop that stops a deserted daemon, beside channel servers
  whose heartbeat records are leases on it.
* `Ipc` - connections of the daemon's server: framing, admission, dispatch.
* `HookState` - `writePrivateFileAtomic` under several writers that may die in
  any step, for the two kinds of file it writes. The hook state (`own = FALSE`)
  is a copy of what the database says, refreshed each tick by the daemon's loop
  (`Loop`) and now and then by others, under one temporary name. A heartbeat
  (`own = TRUE`) has no other copy: `Beat` reads `lastDeliveryAt` from the record
  on disk (`LastDelivery`) and carries it over, `BeatsDelivery` sets it, `Reaped`
  removes it; the temporary name is the process's own. A version stands for the
  database's state in the first kind, for the last delivery in the second.
* `LocalState` - the coordination file between `session start`, `init` and the
  user. A session start keeps what it read (`mine`) while it waits for a daemon
  and then writes that back; each write is a truncation (`Truncates`,
  `BeginEnable`) and the text (`Writes`, `Enable`), between which others read
  an empty file or the writer dies. `init` reads twice, as the state and as text.
  `record` merges a dormant session with one that is not there.
* `DbOpen`, `RetryOutbox`, `Inbox` - what processes do to the shared database:
  its upgrade, the retry outbox, the inbox commands.

**Commands that judge**

* `VerifyRun`, `VerifyObserve`, `Verify` - `agentmonitors verify`: its stages,
  deadlines and isolated daemon; the evidence for its verdict; its clean-up
  beside the workspace's daemon (retraction, tombstones, sweep).
* `Doctor` - the three reads of `doctor`, the findings and the exit code.

**Scripts and computations**

* `Release`, `CleanScripts` - the release gate and publisher over failing and
  reordered runs; the guard of `clean` scripts against the shell.
* `Diff`, `Durations` - the structural difference against change detection; the
  duration pattern against its parser. (Recursive operators: only checked.)

**Instances and proofs**

* `MCDelivery`, `MCCursors` - constants for TLC.
* `MCProcesses`, `MCProgress`, `MCParts` - each runs several components in one
  model. The components do not interact; a behaviour picks one (`part`) and is a
  behaviour of that component alone, stuttering on everything else. The
  components are instances over the shared variables `v1`, `v2`, ..., which hold
  nothing but that component's state. A property `part = "x" => P` is therefore
  `P` of module x. Weak and strong fairness is stated per component action,
  several components sharing one conjunct, since only one of them has steps in a
  behaviour.
* `Processes`, `Progress`, `Parts` - the instances of those models that theorems
  speak of, with names for the shared variables as each component uses them, the
  assumptions on the constants, and the combined properties. The MC modules
  extend them and the `.cfg` files give the constants.
* `DeliveryProofs`, `CursorsProofs`, `IngestionProofs` (with `Explain`),
  `DaemonProofs`, `SessionsProofs`, `ProcessesProofs` (reaper, run of verify, IPC,
  commands, fetches, heartbeat and coordination files), `ProgressProofs`
  (watchers, releases, verify's clean-up), `PartsProofs` (inbox, hook, sizing,
  doctor, verdict of verify, sources, composite, outbox, database, and the types
  of all of them) - theorems and proofs.

How they fit: `Ingestion` ends where rows are inserted and `Delivery` begins
there, with `Materialize` placing a row as late or early as `Ingestion` may;
`Sessions` says to which sessions; `Sizing` and `HookDeliver` are the clients of
`Reserve`, `Commit`, `Release`; the boots of `Daemon` are `DaemonRestart` of
`Delivery`, `Crash` of `Ingestion` and `Restart` of `Watchers`.

### What the model abstracts

* An event is its place in `(createdAt, id)` order. A debounced observation
  keeps the time it was observed at, so `Materialize` may place a row before
  rows that exist; of the same object only when the held row is high and the
  newer ones are not, since high observations are debounced by default and
  others are emitted at once.
* Time advances in units of 15 s: the settle window is 1 unit, a lease 2.
* Titles, bodies, digests and layout are left out; a body is the row it shows.
  A plan's `bodies` are the rows whose bodies the message carries. A recap tells
  only of those (and of what was folded under them); any other message tells of
  all it claims, its coalesced reminder included.
* The sizing loops of the channel and the hook (preview, reserve, measure,
  release, retry with a smaller cap) appear as `Reserve` with any limit followed
  by any number of `Release`s. `limit = MaxEvents` stands for no cap.
* A direct claim's reply counts as the message. If it is lost, so are the rows:
  the source has no remedy for it on this path, and the transports do not use it.
* A rejected commit or release call, a crashed transport and a hung push are one
  action, `ClientGone`: nobody knows the reservation any more. A commit that was
  applied although its reply was lost is `Commit`.
* Releasing a lapsed reservation refreshes the hook state only if nothing has
  pruned it from the registry yet; both outcomes are allowed.
* Ticks do not overlap (the daemon's loop awaits each tick).
* A cursor's artifact and a delta's baseline are rows: `base[e]` is the artifact
  the delta of `e` spans from, 0 the snapshot before the session's first row.
* Beyond delivery: an object's content is a version number, a source an arbitrary
  answer, a size a small number, a time a small count of the polling interval or
  of minutes. Timers fire late as well as on time where the code sets no order.
* One monitor, one object, one workspace stand for each, except where code reads
  across them (`DbOpen`, `RetryOutbox`, `Sources`).
* A file-system call is one step. `writeFileSync` is two, creation and write,
  where another process may look in between (`Daemon`, `HookState`,
  `LocalState`). The two halves of a heartbeat's clean-up (look, remove) are one
  step, and the removal of a record may come at any time.
* There is one daemon process. `daemon once` ticks in a process of its own, with
  an empty reservation registry (`runtime-client.ts:348`): run beside a daemon it
  would claim and advertise past the daemon's leases. It appears only as another
  writer of the hook-state file.
* A service method is one step also where it makes several writes that commit one
  by one: a daemon that dies inside `closeSession` (`service.ts:667`, `674`) could
  leave the watches of a closed session active, and reopening the session would
  revive them.
* A channel server is the only writer of its heartbeat record; the several writers
  of `HookState` are hooks.

## Runs

| Run | Bounds | What it shows |
|---|---|---|
| `delivery_race` | 2 rows, 2 reservations (symmetric), three kinds: a net object at normal and high, a prose object at low; recap of 1 | `LeasesDisjoint`, `AdvertisedIsClaimable`, `KeepsPromise` |
| `delivery_fold` | 3 rows of one net object at normal and high, 1 reservation | `TypeOK`, `ClaimedWasTold`, `DiagnosisMatchesClaim`, `FoldedHasSurvivor` |
| `delivery_live` | 2 rows, 1 reservation, fair | `PendingIsTold` |
| `cursors` | 3 rows of one net, prose object, always high, first seen | `FreshDeltaMovesForward`, `AwayKeepsItsBaseline` |
| `ingestion` | 2 changes, each normal, high or gated; the four strategies; 2 ticks; 1 fault (edit, crash, failed insertion or overlap); a rollup window every 2 minutes | `Conserved`, `IngestedOnce`, `ChainInOrder`, `FineMeansNothingHeld` |
| `processes` | 3 daemon processes, one detached, 1 fault; reaper with 2 channel servers, TTL 2; 2 sessions, 1 watch; 2 calls; 2 writers; verify with and without a settle time; 1 fault each; 1 change or delivery of a file and 2 visits (`MaxVisits`: deaths, refreshes by others than the loop); fair | `WhatIsToldIsTrue`, `OneDaemon`, `SomeoneServes`, `AttachedKeepsAlive`, `DesertedIsReleased`, `AdmittedIsAnswered`, `NothingHangs`, `FilesCatchUp`, `RunIsClean`, `EnabledIsWired` |
| `progress` | 2 watchers, 2 versions, 1 restart; 2 changes, 1 fault; 2 packages, 1 version; verify with 2 faults; fair | `DoneMeansDone`, `BaselineNeverRewinds`, `AlwaysDriven`, `HeldIsEmitted`, `Reconciles`, `LeavesNoTrace` |
| `parts` | 2 sessions, 2 watches, 2 ticks; 3 hooks; 3 rows of 3 sizes; 2 keys, 3 versions; 3 composite parts; 2 beats; 2 processes and workspaces; 47 JSON values; scripts of 5 tokens | `Types`, `WatchesEndWithTheirSession`, `ReleasedIsSilent`, `RecordedIsShown`, `ObservationsAddUp`, `ReportsAreNews`, `VerdictsAreTrue`, `TransactionsAreWhole`, `NoStepSkipped`, `ComputationsAgree` |
| `recap_overflow` | 2 rows, recap of 1 | violation of `ClaimedIsRendered` |
| `cursor_regress` | 2 rows | violation of `CursorAtNewestClaimed` |
| `empty_delta` | 2 rows | violation of `DeltaSaysSomething` |
| `two_daemons` | 2 processes, 1 theft of the lock | violation of `NeverTwoDaemons` |

`Types` (in `parts`) and the conjuncts `Types` of `WhatIsToldIsTrue` and
`DoneMeansDone` hold the type invariants of the components; a component of `Parts`
or `Processes` is not checked twice.

**Why the bounds are enough.** Two reservations make every pairwise race (two
reserved, one lapsed while the other commits); three rows an object with a
folded middle; a recap of one row makes two unread rows an overflow, as eleven
are in the code. Two changes are a held one and the one that overtakes,
escalates or joins it; with two ticks one may read the stored row while the
other awaits. Three boots are the two that race and the one that comes when
something was cleaned from under them. A second writer, caller, session or
watcher is the smallest other party, and these components treat every other
party alike. Times are as short as keeps each comparison's outcomes apart: a
settle time below, at and above a window. Faults are bounded to one or two per
behaviour so that what follows a fault is checked undisturbed; the composite
limit, the byte caps and the row limits are small so that they are reached.
Two visits of the hook-state file are another writer that overlaps the loop's
refresh and one that dies and leaves its temporary file.
The state spaces are finite because rows are never removed and counters are
bounded. Behaviours may end (rows are consumed, a process ends), so deadlock
is not checked.

**What the properties leave out.** Some speak of behaviours up to a named race,
because past it the code does break them: `BaselineNeverRewinds` up to a watcher
started over a tick in flight (`raced`), `IngestedOnce` and `ChainInOrder` up to
overlapping ticks, `OneDaemon` until a lock is stolen, a process dies or is
stopped. The exclusions are in the formulas and the hazards name each.

* `ObservationsAddUp` and `ReportsAreNews` hold a follower of the reports to the
  baseline, key by key, except where the code itself parts them. A file that
  changes between its hashing and its reading is told with a text nobody hashed;
  if it then goes back to what was hashed, the follower keeps the wrong text for
  ever. But it is never wrong about the file's presence. After a quiet rebaseline,
  or for the old path of a rename, the follower knows nothing of a change until
  the path is told of again.
* `FilesCatchUp` is, for the hook state, that the file says in the end what the
  database says, and stays so, whatever partial, failed or abandoned writes came
  before: with one temporary name readers can see partial files on the way
  (contrary to a heartbeat, `WhatIsToldIsTrue`). For both kinds of file,
  `SoundAlone`: a write that overlaps no other puts out what it meant to, and
  keeps the last delivery. Two heartbeats that overlap may lose it, since the
  later rename may carry the older read.
* `EnabledIsWired` contains `InitKeeps`: `init` overwrites an enabled file only if
  a session start wrote it while `init` was looking (`raced`). Such an overwrite
  loses the socket, and the next session start puts it back. A start that waited
  while the user switched monitoring off writes "enabled" back; nothing in the
  code prevents that and no property forbids it.
* `DiagnosisMatchesClaim` is checked for two urgencies of the three; the low band
  is covered by its theorem only.

The theorems below lift the bounds for every safety property of the passing
runs but `ComputationsAgree`.

### Findings

* **A recap consumes what it does not show.** `post-compact` renders the last
  ten delivered rows but claims all unread ones; the older rows are then
  "surfaced" and no later hook or channel delivery names them.
  `docs/specs/006-agent-integration.md` 5.5 forbids it in general terms. The
  rows stay unread, so a later recap after acknowledgements can still show them.
* **A cursor can move back.** `advanceCursorsForClaimedEvents` takes the newest
  row of the claimed set, whatever the cursor says. An older reservation
  committed late, or a lower-band row claimed after a newer high one, rewinds
  it.
* **A delta can become empty.** Two rows of a net object claimed one after the
  other and then recapped are a group of two, so the newest one's delta is
  rebuilt from the cursor, which stands at that very row.
* **Two daemons can serve one workspace.** The startup lock's pid file is empty
  between its creation and its write. A second boot that reads it then takes the
  lock for stale and steals it from a live holder, and the two unlink and bind
  in turn. The comment above `acquireStartupLock`'s call says the lock is there
  to prevent exactly that. (A stopping daemon's late `cleanupSocket` can lead to
  the same end with a third boot.)

### Fairness

`FairSpec` of `Delivery`: time passes, ticks end and interpret calls settle (the
adapter has a timeout), so `Elapse`, `TickEnds` and `Interpret` are weakly fair.
The channel server's self-scheduling loop keeps polling (`Poll`), and a
transport that holds a reservation does something with it. Two assumptions are
strong: a push that is tried again and again succeeds in the end, and not every
commit comes after its lease has lapsed. Both are about the world, not the code:
no delivery protocol with leases tells anybody anything without them.

`processes` assumes weak fairness only, of what the operating system and the
event loop guarantee: a process that is alive takes its next step, an armed
timer fires, an event that was emitted is handled, a frame that has arrived is
dispatched, the tick loop goes on. Nothing is assumed of users, commands,
servers, faults or of which boot wins. In `HookState` only the daemon's loop is
fair: nobody else has to refresh, and a hook need not end its beat.

`progress` adds strong fairness where something is tried again and again and
must work in the end: a source that is asked answers, also in the minute of a
rollup window (polls are shorter than a minute); an adapter's call returns; a
watcher that sees a change yields it; later commits land, their CI passes, the
gate and the registry answer, a publish goes through. Time passes at the end of
every poll of verify's monitor.

## Proofs

A theorem holds for any values of the constants that satisfy the assumptions of
its module: any number of rows, reservations, ticks, processes, sessions, hooks,
keys, records, and any times and limits. The bounds (`MaxFaults`, ...) are
constants too, so that it holds for any number of faults or restarts. TLC
checked the less obvious inductive invariants (ingestion, the verdict and the
clean-up of verify) on the instances of the runs first.

### Delivery (`DeliveryProofs`; any kinds, settle and lease length, recap limit)

* `TypeCorrect` (`[]TypeOK`). `DecideGivesOK` says what any decision returns:
  rows of the session, and, unless it is a recap, only pending ones in nobody's
  lease. The rest is one step per action.
* `Deduplicates` (`[]LeasesDisjoint`). Inductive with `TypeOK`: `Reserve` adds a
  plan disjoint from every lease, and no other action adds a lease
  (`FewerLeases`).
* `SurfacedBeforeClaimed` (`[]ClaimedWasTold`). Not inductive alone: `ToldInv`
  adds that a surfaced delivery has told of all its rows (what `Commit` needs)
  and that only rows of the session are claimed (what `Materialize` needs).
* `FoldingKeepsTheNewest` (`[]FoldedHasSurvivor`). A plan may be committed long
  after it was decided and contain rows that were folded meanwhile. The survivor
  of a newly folded row is the newest of its group in the plan, or, if that one
  is folded already, the survivor it was folded for, which cannot be in the plan
  (`ApplyKeepsSurvivor`). That a finite set of rows has a newest
  (`NewestExists`) comes from the well-foundedness of strict inclusion.
* `AdvertisesTheClaimable` (`[]AdvertisedIsClaimable`). Inductive with one more
  conjunct: a verdict is awaited only inside a tick, whose end refreshes the
  file. What makes rows claimable (time, a lease that ends) can only add bands;
  every service call that takes rows away refreshes.
* `DiagnosisIsTrue` (`[]DiagnosisMatchesClaim`). No invariant beyond the types:
  the classifiers and `Decide` agree on every state.
* `DeliveryKeepsPromise` (`Spec => KeepsPromise`). With `ToldInv` and
  `PromiseInv` (one verdict awaited at a time; a recap shows a row at least as
  new as any it claims; a surfaced reservation has accounted for its rows), each
  action is one action of `DeliveryPromise` or a stutter (`StepPromise`).

### Cursors (`CursorsProofs`)

* `CursorsOnlyFollow` (`CSpec => Spec`). A step of `Cursors` is one of
  `Delivery`, so all of the above holds with cursors.
* `AwayBaselineKept` (`[]AwayKeepsItsBaseline`), with `CursorInv`: a cursor
  stands at the snapshot or at a row of its object, and a row to come has
  neither a delta nor a claim.
* `FreshDeltasMoveForward` (`[]FreshDeltaMovesForward`) under `ObservedInOrder`,
  the situation of the run: an object is always high or never, so its rows are
  projected in the order they were observed in. Without it the property is not
  claimed: a debounced high row is projected behind newer ones.

### Ingestion and `monitor explain` (`IngestionProofs`)

* `IngestionTypes` (`[]TypeOK`), with what a tick in flight may hold: a span
  being inserted is not empty, and a baseline that was read is not ahead of the
  world that was seen.
* `NothingIsLost` (`[]Conserved`: `NothingVanishes` and the types, by which
  nothing is made up either). `Accounted` adds that what a tick has
  read as the baseline is accounted for too: an overlapping tick that stores its
  row late takes the baseline back to a point the invariant must cover.
* `NoChangeTwice` (`[]IngestedOnce`) and `HeldFirst` (`[]ChainInOrder`) are two
  cases of one invariant. `Linked(R)` says that the chain, what is about to be
  inserted and what is held follow each other in the relation R; it is kept by
  every step for R = "differs" while ticks do not overlap, and for R = "earlier"
  under one authored strategy that is not edited. `OneByOne` and `OneStrategy`
  say what these two conditions mean for the ticks in flight.
* `FineHidesNothing` (`ESpec => []FineMeansNothingHeld`): `explain` only reads
  (`ExplainOnlyReads`), its verdict is at least as severe as every stage
  (`VerdictIsWorst`), and nothing vanishes.

The gate (`Passing`) and the loop of `dispatchNotify` (`PlaceAll`) are recursive
functions. `FoldExists` builds a function that satisfies the recursion, and
`CountUp` carries a property of a loop's state from round to round: the least
round that broke it would break it itself. So loops over data can be reasoned
about here after all, as long as they are functions on `0 .. n` rather than
`RECURSIVE` operators; `PartsProofs` does the same for the batches of the
database upgrade.

### Processes

* `DaemonProofs`: `BootTypes` (`[]TypeOK`) and `BootsExclude` (`[]OneDaemon`), for
  any number of boots. `LockInv`: while nobody died or stole, the one process
  between its `mkdir` and its `rmdir` is the one the lock names, and nobody takes
  it for stale. `ServeInv`: until a daemon is stopped as well, what listens is
  what the path names, and who is about to unlink the path knows that nothing
  listens. `StopsInOrder` and `FreshIsUnreported` carry the rest.
* `SessionsProofs`: `SessionTypes`, `WatchesEnd`
  (`[]WatchesEndWithTheirSession`, with: an active watch has an owner) and
  `ReleasedWatchesAreSilent` (`ReleasedIsSilent`, an action property: the tick
  re-reads the owner when it projects).
* `ProcessesProofs`: `AttachedDaemonLives` (`AttachedKeepsAlive`): the age of the
  heartbeat record is at most the number of missed beats, and one more while a
  beat is due, so a TTL above the number of misses suffices. `BootHasItsGrace`: a
  daemon that has seen a session has one on its books, and has not been idle for
  longer than it has been up. `VerifyCleansUpAndWaits` (`[]RunIsClean`):
  `TimeIsLeft` relates the wait's deadline to what must still happen in it.
* `NobodyIsMisled` (`[]WhatIsToldIsTrue`, also in `ProcessesProofs`) joins five
  theorems. `RequestsRunOnce`: once a frame was admitted no other is, so that a
  reply of success has one run of the handler behind it. `ResultsAreExits`: only
  the exit of the leader settles a command with its code, and before the wall
  clock fires. `OutcomesAreTrue`: where a fetch stands bounds what it has read,
  and an abort before the body is refused has the deadline or the outside behind
  it. `HeartbeatsAreWhole`: a process that writes has the inode behind its own
  temporary name, which nobody else renames or opens; that there always is an
  unused inode to create follows by counting those in use (`FreshExists`), for
  any finite set of writers. With one common temporary name, as the
  mutant has it, this fails. `SocketsWereAnswered`: who is about to write a
  socket, or has read one to write it back, does so after an answer.
* `LoneWritesAreSound` (`SoundAlone`, part of `FilesCatchUp`): with `AloneInv`, a
  process that no other overlapped (`met`) has behind its temporary path, shared
  or not, the inode it created, with what it means to say in it (`LoneWriter`);
  and a lone heartbeat has read the record it replaces.
* `InitOverwritesNothing` (`InitKeepsWiring`, part of `EnabledIsWired`), with
  `LookInv`: from the moment `init` has found no enabled file, the file is not
  enabled unless a session start wrote it, in which case `raced` says so.

### Watchers, releases, clean-up (`ProgressProofs`)

* `WatcherTypes` and `NoRewind` (`BaselineNeverRewinds`). A chain only holds what
  lies between the baseline and what its own watcher has seen, in order
  (`OrderInv`), and one chain at a time has tasks, the slot holder's or the one
  its last holder left (`SlotInv`, `IngestInv`, `OneChain`); so a late checkpoint
  cannot carry an older state over a newer one.
* `ReleasesAreTrue`: what a publishing run has yet to do is just what the
  registry lacks of its commit (two conjuncts of `ShipInv`), whatever packages
  landed, failed or were left unanswered meanwhile. So nothing is published
  twice, and an empty list means all of it is there.
* `VerifyLeavesNoRows` (`LateRowsGo`): once verify's session has ended, no row of
  its scratch file outlives the tick that inserted it. `Late` is the number of
  intervals until the last row that can still come: one for a tick that saw the
  file in another state, one for a change not seen yet, the settle time for one
  held. Each interval lowers it by one (`LateComes`), no tick raises it
  (`LateStays`), and `TombOutlasts` keeps the tombstone above it; a tick that
  started before the tombstone ends under it. A session that is reaped instead
  has been quiet for longer than anything can be late (`SessionInv`,
  `ReapedIsRid`): this is where `CheckAssumption` is needed.
* `WhatIsDoneIsDone` (`[]DoneMeansDone`) joins the three.

### Parts (`PartsProofs`)

* `InboxSkipsNothing` (`[]NoStepSkipped`): a command that checked a status has
  grounds for its move that no other command can take away (`MovesAreChecked`).
* `TransportsRecordWhatTheyShowed` (`[]RecordedIsShown`). The hook
  (`WriteInOrder`): only a broken write has signals to come, and a process that
  commits has shown its batch or had nothing to show. The sizing loop
  (`WasValidated`, `LastAskForOne`): a claim that was validated is rendered
  whole, and the last attempt asks for one row, which always fits.
* `VerdictsFollowTheEvidence` (`[]VerdictsAreTrue`). Doctor's verdict is a
  function of its three reads. "No change" of verify rests on two idle rows past
  the trigger: `Seen`, `InFlight`, `Idle` and `Shown` say which idle rows there
  can be when the trigger did change something. With two evaluations in flight
  at a time this fails (TLC shows it), hence `ObserveAssumption`: the daemon's
  loop awaits a tick before it starts the next.
* `SourcesAddUp`, `SourcesTellNews` (`ReportsAreNews`), with `SourceInv`: in
  mid-poll a present file that was told differs from its hash only if it is in
  `raced`, and an absent one not at all; what the files told and those left to
  tell cover is all that changed. So after a poll the follower and the baseline
  differ only at `astray` keys, and for files only in the text.
* `SnapshotsAreWhole`: a worker ends early only on an abort (`PoolInv`), so a
  batch without one has taken every piece; the total that is compared with the
  budget never lags behind the pieces accepted (`BudgetInv`), and the rendered
  artifact, which adds the separators, is compared once more at the end. With
  `SourcesAddUp`: `ObservationsAreComplete` (`[]ObservationsAddUp`).
* `OutboxKeepsItsBounds`: what `Admit` found to fit stays so until `Commit`,
  since the write lock keeps every other process from the rows; and the records
  of a call belong to no earlier one (`CallsApart`, `OneWriter`).
* `UpgradeLosesNothing`: the rows made of an old batch are its partition, each in
  order (`PushedLists`); who has the transaction works on a copy of what is
  committed; a row is dispatched whole, so each key is either as it was upgraded
  with none of it told, or empty with all of it told. With the outbox:
  `TransactionsKeepWhatTheyHold` (`[]TransactionsAreWhole`).

* `PartsAreTyped` (`[]Types`, nine components). Most types are conjuncts of the
  invariants above. Beyond them: no ask of the sizing loop exceeds the rows there
  are (`AsksForRows`); two heartbeat records of a transport for one session are one
  (`DocTypeStep`), since a beat replaces the record it renews; a body is read on
  only while it is within its limit (`WholeTyped`); a report is made of keys and
  versions, also where a removal is paired with a creation (`SourceTyped`).

Theorems about a component of `Parts`, `Processes` or `Progress` read "a behaviour
of the component that stays in its part", which is how a behaviour of the MC
module looks.

Sums over sets (`SumFunctionOnSet`) are recursive too. `SumAdds` and `SumOfUnion`
are proved from the definition: a function that satisfies the recursion exists
(`SumsExist`), and a least set whose sum depended on the order of its elements
leads to a contradiction (`MinimalSet`, `AnyOrder`).

### Assumptions

All are named, in the module that declares the constants, and evaluated by TLC in
a passing run. Besides typing: `ReaperAssumption` (a record outlives the beats
that may be missed), `RunAssumption` (`marginMs` is never 0), `ObserveAssumption`
(above), `SizeAssumption` (at least one attempt), `WholeAssumption` (pieces are
numbered, at least one worker), `DatabaseAssumption` (held observations are
numbered in the order they were found), `SourceAssumption` (version 0 is absence),
`IngestionAssumption` (a stored time is told from the horizon), `FileAssumption`
(finitely many writers, the loop one of them), `CheckAssumption` (verify's detection budget is two
intervals or more, as its default of an interval, the hold and a margin is; its
session goes dormant only after the run's budget, the hold and three more
intervals), and that markers such as `"none"` are not names of
processes, sessions or watches. `CallAssumption`, `FetchAssumption`,
`ShipAssumption` and `DoctorAssumption` are typing only.

`CheckAssumption` is one about the deployment: dormancy is 30 minutes
(`DEFAULT_SESSION_DORMANCY_MS`) and verify may go for a whole run without a call
that renews its session, so it holds for monitors polled every few minutes or more often, the case verify
is made for. For a monitor with an interval near the half hour the theorems on
verify's clean-up say nothing, nor does the run.

### Only model-checked

* Liveness, which the prover does not reach: `PendingIsTold`, `SomeoneServes`,
  `DesertedIsReleased`, `AdmittedIsAnswered`, `NothingHangs`, `FilesCatchUp`,
  `EnabledIsWired`, `AlwaysDriven`, `HeldIsEmitted`, `Reconciles`,
  `LeavesNoTrace`.
* `ComputationsAgree`: `Diff` and `Durations` use `RECURSIVE` operators over
  nested values and digits, which the prover cannot open, and `CleanScripts`
  folds a script and runs it: what these compute for every input takes an
  induction over the data.

## Not modelled

* Parsing, schema generation, validation, prompts, templates, rendering and the
  website: text in, text out. Where a text decides something (sizes, the shell
  words of a clean script, a duration) that decision is modelled.
* The shape and transform stages beyond their gate, the adapters and the hook
  bridge: stateless conversions of one payload.
* Cron's field grammar: `Ingestion` uses a periodic window. The schedule source
  compares a minute with the last one it fired in; it adds nothing to `Ingestion`'s
  rollup window, which does the same.
* The observation audit, `events list`, `monitor test` and the runtime client:
  filters and wrappers around calls that are modelled.
* File modes and access control, and the notifiers, which only print.
* SQLite, the file system, sockets, Git, npm, GitHub and shells are external and
  appear through what the code may observe of them.
