# Verification of rolloor

rolloor keeps containers on the digests their image tags point at. It is one
process: a reconcile loop that plans and executes rollouts batch by batch
through operator-supplied programs (`update`, `inspect`, `ready`, `soak`), a
disruption budget shared by every rollout, and people who sync, pause, promote,
abort and retry through HTTP.

This directory holds TLA+ modules translated from the Go source under `src/`,
TLC configurations that check them on small fleets, and proofs that TLAPS
checks for every fleet. `PROJECT.json` maps every definition to the lines it
stands for and names, for each property, a plausible bug (a "mutant" operator
beside the original) that makes TLC refute it.

## The system

| Component | Source | State it keeps | Operations |
|---|---|---|---|
| Reconcile loop | `internal/reconcile/{controller,rollout,advance}.go` | rollouts, live digests, quarantine ("degraded"), aborts, desired digests, environment verdict | `Tick`: resolve, then under the lock supersede / open / plan, then programs without the lock, then apply results under the lock |
| Verbs | `internal/reconcile/actions.go` | policies, suspensions, flags on rollouts | `Sync`, `Refresh`, `Suspend`, `Resume`, `Pause`, `Promote`, `Abort`, `Retry`, `SetPolicy` |
| Inspector | `controller.go` (`InspectAll`, `setLiveLocked`) | live digests | inspects every target beside the tick |
| Registry scans | `controller.go` (`resolveIfDue`, `resolveAll`), `internal/registry` | desired digests, tokens, revisions | scans by the tick and by syncs, `Refresh` |
| Persistence | `controller.go` (`restore`, `flush`, `commit`), `store.go`, `internal/store` | SQLite tables, dirty marks | save and delete per record, flush at the next tick, restore |
| Targets files | `internal/targets`, `cmd/rolloor/main.go` | the set in force, a fingerprint | `Load`, `NewWatcher`, `poll`, the reload callbacks, selectors |
| Strategies | `internal/config/{fraction,config}.go` | none | `Fraction.Of`, `Strategy.BatchFor` |
| Soak | `advance.go` (`planSoak`, `applySoak`) | per-batch records: failures, streak, evidence time | schedule, pass, halt |
| Event stream | `internal/api/{events,server}.go` | subscribers with 64-event buffers | publish, replay from the store, gap |
| Runner, auth, UI, metrics | `internal/{hooks,auth,ui,metrics,observability}` | none that a decision reads | I/O |

How they interact. Everything the loop and the verbs change is guarded by one
mutex. A tick holds it twice: once to decide, once to apply results; programs
run in between, and a verb, an inspection or a reload can happen there. The
watcher replaces the targets set *without* that mutex, and afterwards asks the
controller to forget what left the set. The registry scan of a tick (and of a
sync) happens without the lock. An update program that was started keeps
working in the world after its rollout was aborted or superseded.

What makes this hard:

* results of programs arrive for rollouts that were aborted, superseded, forced
  or whose targets were removed or moved meanwhile;
* several rollouts cut batches from one budget, where a node in flight, in
  quarantine, without weight or heavier than the rest is counted differently;
* a halt quarantines nodes, a retry lifts the quarantine and puts them in
  flight again in the same step;
* a rollout that ends while its update is landing must still be charged;
* an abort is remembered by what the group wanted, and tags move back;
* writes fail, and the process stops between two of them;
* two clocks (deadline, soak) race late answers;
* files are written while they are read, and a tag moves between the requests
  that find out what it points at.

What makes each component correct: nodes go out only within the budget; one active
rollout per group; a finished rollout stays as it finished; an abort holds
until its digests change; no update program is given a digest its rollout is
not for; two programs never run for one target at once; waves go in order; a
pause is honoured; quarantine is lifted only for a reason; and a quiet registry
ends in a converged fleet. For persistence: a controller that owes the store nothing
can be stopped at no loss, and what a person was told survives. For the soak: a
batch passes on recent evidence of its whole duration, and every attempt stays on
record. For the watcher and the inspector: a directory that was looked at is in
force or reported, and an older reading never replaces a newer one. For the
registry: digests never go back, and a sync acts on current ones. For the stream: no event lost, repeated or
reordered. `PROJECT.json` lists the hazards behind these line by line.

## Modules

| Module | What it is |
|---|---|
| `Strategy` | `Fraction.Of` and `Strategy.BatchFor` |
| `Fleet` | the surroundings: files, what nodes weigh and the budget by each of them, policies, selectors, with named assumptions |
| `Rollouts` | a rollout as a value, and every change the controller makes to one |
| `Controller` | state, one action per step of the tick and per verb, fairness, properties |
| `BudgetLedger` | abstract: nodes go out while they fit the budget of the file in force, and come back; a reload weighs anew what is out |
| `Lifecycle` | abstract: which rollout state follows which; one active rollout per group |
| `ControllerRefines` | the refinement mappings from `Controller` to both |
| `Soak` | the soak of one rollout with a clock: checks, evidence, records, restarts |
| `SoakProofs` | a batch passes on evidence and halts on failures, every attempt stays on record, for all times, programs and restarts |
| `Watcher` | the targets directory and the goroutine that follows it |
| `Inspector` | `Watcher`, and what is known of running digests beside it |
| `InspectorProofs` | a set in force is what the files say or an error is shown; records of running digests are never replaced by older ones |
| `Registry` | scans by the tick and by syncs, and the registry client's requests |
| `RegistryProofs` | digests are true and never go back, revisions are their digest's, refreshes and refused digests are not lost |
| `ControllerProofs` | batch sizes; type correctness, one rollout per group, aborts hold, finished stays finished; the budget, the quarantine, the shape of rollouts, and the refinement of `BudgetLedger` |
| `RolloutProofs` | pauses, waves, quarantine, what updates deploy, one program per target, and the refinement of `Lifecycle` |
| `LandingProofs` | nothing lands that the budget does not know of |
| `Durable` | `Controller` with its store, writes that are refused, a process that stops, and `restore` |
| `DurableProofs` | what the store has: types, aborts that survive a stop, and what a clean controller has saved |
| `EventStream` | the broadcaster, the stream handler with its replay, the event ids, and the clients |
| `EventStreamProofs` | types, channels closed once, nothing lost |
| `MCController` | fleets, strategies and policies for TLC |
| `MCDurable` | the same for `Durable` |
| `MCInspector` | what files may hold, for `Inspector` |
| `MCEventStream` | the stream with every fault but a restart after a failed record |

### How `Controller` corresponds to the code

`pc` is where the tick goroutine is:

| `pc` | Code | Actions |
|---|---|---|
| `idle` | between ticks, and before the tick's lock | `TickStart` (`lapseSuspensions`, `supersede`) |
| `open` | `openRollouts` | `OpenGroup` per group of the file, `OpenDone` |
| `plan` | `planRollouts`, `planRollout` | per active rollout one of `PlanNothing`, `PlanRetry`, `PlanStart`, `PlanOpen`, `PlanLate`, `PlanSoak`; `PlanDone` |
| `exec` | `execute`: the lock is free | `ExecDone` |
| `apply` | `applyResults` | `ApplyStale`, `ApplyUpdate`, `ApplyInspect`, `ApplyReady`, `ApplyCheckStale/Passed/Failed`, `TickDone` |

While `pc` is `open`, `plan` or `apply` the tick holds the lock, so verbs,
inspections and `Forget` require `Unlocked`. The steps inside one locked
section are separate only so that the order in which the code ranges over a Go
map (groups, rollouts, results of different rollouts) is a nondeterministic
choice; within one rollout results are applied in batch order, as the job list
is built. `Resolve` is the registry scan of a tick or a sync; `CheckEnvironment`
the environment program. `Land` and `Fizzle` are the world: `running` is the
digest a container really runs, `landing` the one a dispatched update is
bringing it to.

The verbs are atomic because the code holds the lock throughout:
`Sync` (with and without force, with a strategy override), `Suspend`, `Resume`,
`SetPolicy`, `Pause`, `Promote`, `Abort`, `Retry`. `Verbs` and `Faults` choose
which of them, and which failures, a run offers; the proofs hold for any choice
unless they say otherwise. The names in `Verbs` are those of the operations,
plus `rollback` (a tag may move back), `lapse` (a suspension may run out),
`force` and `strategy` (options of a sync), `pause` (with promote), `suspend`
(with resume). The names in `Faults`: `update` (the program fails, or a
dispatched update comes to nothing), `late` (a deadline passes), `inspect` and
`ready` (those programs fail), `soak` (a check fails), `env` (the environment
check flips).

### How `Durable` corresponds to the code

`disk` is a function from records (a rollout, a target's quarantine, a marker of
an abort, ...) to values, of the shape memory has; `dirty` is the controller's.
Every action is an action of `Controller` and what it writes:

| Code | What reaches the disk | Actions |
|---|---|---|
| `flush` | a dirty controller writes every decision, in one transaction; refused, the tick does nothing | `SavingStart`, `Refused` |
| `setState`, `end`, `halt`, `saveRollout` | the rollout as it is then, and the quarantine | `Saved` |
| `planRollout`, `retryBatch`, `planBatch` | a batch as it was cut, a retry as it reopened its batch; what is dispatched is not saved | `SavingPlan`, `PlanSaved` |
| `applyResults` | a rollout with the last of its results, and where it halts | `SavingResult`, `SavingCheck` |
| verbs | the store first (`commit`); a refused verb changes nothing | `Accepted`, `Refused` |
| `Abort` | the marker, then the rollout; a refused rollout takes the marker back, which may be refused too | `AbortRefused` |
| `Sync` | closes changed rollouts and lifts the abort in memory, then writes; when refused, the abort is lifted in memory only | `SavingSync`, `SyncRefused` |
| `restore`, `Load` | a marker wins over an active rollout; an update that never reported back runs again | `Crash`, `Restored`, `Requeued` |

A step of `Controller` may write several records. A refusal hits any subset of
them, which covers stops as well: a process that stops between two writes of a
step is that step with the later writes refused, then `Crash`. `MaxFailures`
bounds the steps that meet a refusal, `MaxCrashes` the stops. The process stops, the
machine does not: SQLite runs with `synchronous=NORMAL`, and a write it accepted
counts as kept. After `Crash` a program that was under way may or may not have
begun to change its target.

### How `EventStream` corresponds to the code

The module is on its own: nothing the controller decides depends on who
listens, so an event is only its position in the order of issue, and the number
the controller gave it.

| Action | Code |
|---|---|
| `Record`, `Publish` | `Controller.event`: number the event, `AppendEvent` (which may fail), then `Broadcaster.Publish`; two steps, because the store can be asked in between |
| `Connect` | `Subscribe`, and `last` from the client's `Last-Event-ID` |
| `Query`, `QueryFails` | the query of the store for what was missed, oldest first, one page |
| `Replay`, `Receive` | `send` for what the query gave, then for what the channel gives: an event is skipped if the client is past its id |
| `Gap` | the channel is closed and empty: the gap event, and the handler's deferred stop |
| `Leave` | the client goes, or a write times out |
| `Crash` | the process stops and starts: no subscribers, and ids from `MAX(id)` of the store |

`closed` counts how often a channel was closed, which in Go may happen once.
`seen` is the client's side: what it will send as `Last-Event-ID`. An event
written but not received is a `Leave` before it was written. Heartbeats and
encoding are left out.

### How `Soak` corresponds to the code

`Controller` leaves open when a check is due and when a soak has lasted. `Soak` is
one rollout with the times in it. The code compares `now` of a tick with times
that are `now` of earlier ticks, so a time is kept as its *age* at the start of the
newest tick; ages stop at `LongAgo`, beyond both bounds the code compares with
(`Duration`, and two intervals), so that time needs no bound. `elapsed` is how long ago
the newest tick began. A tick may be as late as it likes, before and after a stop.

| Action | Code |
|---|---|
| `BatchReady` | `batchReady`: no soak, or a soak that begins |
| `PlanSoak` | `planSoak`: force, no programs left, not due, recent evidence, or a check, without targets that became ineligible |
| `ApplySoak` | `applySoak` with any subset of programs failing: count, then force, failures, duration, in that order |
| `RetryBatch` | `retryBatch`: the attempt so far joins `PriorSoaks` |
| `UpdateFails`, `StartBatch`, `Supersede` | the batch around it: `halt`, `startBatch`, `end` |
| `Sync`, `Pause`, `Abort`, `Retry` | the verbs, which take the lock between `PlanSoak` and `ApplySoak` and save the rollout as it is then |
| `Change` | the target of a program is suspended, moves, leaves or comes back |
| `Crash` | restart from `disk`; what `planSoak` changed since the last save is gone |

`truth` records, beside the program's own fields, when the newest soak began, which answer
was the last, and how many failed. `PassedOnEvidence` and `HaltsOnFailures` are about
`truth`, so a record that is lost or rewritten is noticed. A soak is identified by
a number, 0 standing for a soak that never began. Its verbs are offered in the states
that matter to a soak.

### How `Watcher` and `Inspector` correspond to the code

| `stage` | Code | Actions |
|---|---|---|
| `down` | `NewWatcher`: `Load`, file by file | `ReadFile`, `FirstLoad` |
| `up` | between that `Load` and `fingerprint` | `FirstStamp` |
| `idle` | between polls | `Poll`, `PollFails` |
| `load` | `load`, file by file | `ReadFile`, `Loaded` |
| `report`, `reload`, `forget` | `onError`; `ReportTargetsError(nil)`; `forgetRemoved`, `Forget` | `Report`, `Reloaded`, `Forget` |

`Edit` may fall between any two of them, also between two files of one reading,
which is then neither the directory before nor the one after. A file's edits are numbered, and a
fingerprint is the numbers of the files' newest edits: names, sizes and modification times
are taken to tell two versions of a file apart. `missed` is history: an edit fell
between the first load and its fingerprint.

`Inspector` puts inspections beside that. A program begins (`Begin`), looks at its
target (`Look`), and its result waits for the lock (`SetLive`), in any order; the inspector
begins one per target of its pass, the tick at most one per target. `SetLive` is
`setLiveLocked`: a result counts if its target is in the set in force at that moment and
no newer one is recorded. Of the failures in a row the model keeps whether there are any.
Live digests are saved as they are set, so a restart keeps them.

### How `Registry` corresponds to the code

A scan has a caller (the tick, or a sync) and runs one resolution per image, each as
the requests `Resolve` makes: `Head`, `Manifest`, `Platform` (only for an index), `Config`. A
push can fall between any two. `Challenged` is `do` on a 401: a new token, once per
request. `RequestFails` is everything else that can go wrong; where the code goes on without a revision, so does the model.
`BeginScan` takes `resolveMu`; `Publish` is the locked end of `resolveAll`, `Act` what its
caller does next. `saved`, `dirty`, `Flush` and `FlushFails` are the store's side, `Crash` forgets
tokens, revisions, errors and the refresh flag. `asked` and `owed` are history: what
the tag pointed at when a sync was asked for, and a refresh no scan has begun after.
A registry that asks for no token behaves as one whose token never runs out.

### Abstractions

* *Time.* No clock in `Controller`. A deadline passes when `late` is in `Faults`; a soak's
  length and interval are a choice; a hold lapses at any moment after its
  update has landed or come to nothing. The code lets it lapse when the program
  can no longer be running (`HoldUntil`), and a program that outlives its own
  deadline is outside what the code promises.
* *Inspection* in `Controller`: a reading is taken when it is applied (`Inspector` has the rest). `FailureThreshold`
  consecutive failures before a digest is forgotten become "may be forgotten"
  (`Doubted`).
* *Batches.* A rollout keeps only the number of its newest batch and whether it
  is open; targets keep the number of theirs.
* *Dispatch.* `landing` is set when the plan dispatches the update, not when
  the program starts later in the same tick.
* *Soak* in `Controller`: all targets with a soak program share one; the record keeps the
  number of failures and whether the last check passed.
* *Sync.* A selector that spans groups is several `Sync` steps. It acts
  on any file of `HeldFiles`: the one it read before its scan, which a reload may
  have replaced since. Which file that was is not recorded, so it may be any.
* *Ids.* Rollout ids are a finite set. When it is used up no rollout opens any
  more; all other behaviour goes on.
* *Weights* and the budget are those of the targets file in force, as in
  `startBatch` (`rollout.go:350`, `rollout.go:370`): `W[file]` and `Budget[file]`. A node the file does
  not name weighs nothing, and a budget in percent is a share of that file's total. Weights are
  whole numbers, and a share of the total is rounded down, which decides the same.
* *Digests* in `Registry` are numbered in the order of their pushes, and every image
  carries its revision label.
* An operator pauses and promotes an ended rollout as the code lets them: only
  its flags change.
* *Left out:* reasons, names of actors, events, hook-run records, logging,
  metrics. Nothing decides on them.
* *The store* never fails and the process does not stop in `Controller`; both are
  in `Durable`, where SQL and JSON store what they are given and `policies` and
  live digests are records like the others.

## Runs

Targets and nodes are numbers in the order of their names, since batches sort
by name. `Spec` runs check safety; `FairSpec` adds fairness.

| Run | Fleet and bounds | What it shows |
|---|---|---|
| `budget` | groups a (nodes 1, 2) and b (node 1), budget one node, 2 digests, 2 rollouts; one group soaks and tolerates no failed check; failing checks and readiness, late programs, retries, syncs, force | budget held, halted targets in quarantine, phases fit the state, `BudgetLedger` implemented |
| `abort` | one group on two nodes, 2 digests in both directions, 2 rollouts; aborts, syncs, automated, manual and pinned policies, two strategies | types, an abort holds, every update that may still land is accounted for and told its rollout's own digest, one rollout per group, ended rollouts do not change |
| `pause` | three nodes in two waves, node 3 weighs two, budget two, a canary batch of two nodes (so that a degraded target of the later wave, which sorts first, meets a batch with room for more), 3 digests; pauses, promotes, failing updates, retries, a failing environment | waves in order, a pause outlives halts and retries, quarantine lifted only for a reason, `Lifecycle` implemented |
| `reload` | two targets and four files: a target leaves, changes group (and keeps its image), changes node; the budget is half of the weight of the file in force; syncs that act on any of the files; suspensions that come, lapse and are resumed | `BudgetLedger` implemented: whatever a reload did to weights, budget and what is out, nodes go out only within the budget of the file then in force; one program per target and tick |
| `live` | two groups, soaks, batches of one percent, budget one node, fairness | `Converges`: a tag that stops moving is rolled out everywhere |
| `stream` | two clients, channels of one event, three events, records and queries that fail, clients that leave, restarts, fairness | types, channels closed once, nothing lost, repeated or reordered, and a client that reconnects catches up |
| `restart` | one target with a soak, 2 digests, 2 rollouts; aborts, syncs, retries, failing checks, doubtful inspections; one refusal, one stop | clean between ticks means a stop loses nothing; an abort survives; types |
| `soak` | two batches of two programs, interval 1, duration 2, one failure allowed, two soaks, one stop; late ticks, all verbs, one target that comes and goes | passes on evidence, halts on failures, every attempt on record, a soak ends |
| `inspector` | two files, one target, two edits or an edit and a stop, two inspections | a directory is in force or reported, and followed; what left is forgotten; the reading begun later stays |
| `registry` | one image of two builds, the second an index; the tick and one sync; two faults, one stop | digests never go back, revisions match, a sync is current, no refresh is lost, digests reach the disk, the controller catches up |
| `revive` | one target, aborts and syncs; one refusal, two stops | a violation: see Findings |
| `return` | group a on node 1, group b on nodes 1 and 2, budget one node, the same weights in both files; a target leaves the file and comes back, failing updates, retries | a violation: see Findings |

*Why the bounds are enough to be interesting.* Two groups on a shared node with
a budget of one node is the smallest fleet in which rollouts compete, one waits
and one proceeds, and a target can be free on account of another group's
quarantine. Two nodes per group give batches that follow one another. Two
rollout ids let one rollout end while updates land and another begin; three
digests (in `pause`) let a rollout be superseded and its successor again. The
heavy node of `pause` makes the walk skip a node and take a later one. What
grows beyond these bounds is the subject of the proofs. For the stream a channel
of one event overflows, is read after it was closed and overflows again
within three events; a page that holds all events stands for 1000 events
that are not exceeded. For the store one target is enough, since what is lost is
lost per record: a rollout, its target's quarantine and its group's marker are
written one after the other, and one refusal with one stop, or one stop with
another, separates any two of them. For the soak an interval of one and a duration of two is
the shortest soak in which a check is due more than once, evidence can be too old (three
ticks) and a failure can be made good; two programs let one fail while the other passes. For
the watcher two files make a torn reading, and two edits one that falls in each of two
places. For the registry two pushed builds make a tag that moves once, which can be between any two
requests of any scan; two faults are a token that runs out and a write that is refused.

*Deadlock* is checked everywhere: a tick is always possible, and when every
group is content the next tick changes nothing but `pc`.

*Fairness*. In `live`: `WF(TickStep)`: the loop runs on a ticker and each
phase ends. Two strong conditions per rollout say that time passes in a soak:
when a check can come due again and again it is dispatched, and a soak that can
keep passing runs out of time (`planSoak` compares clocks; without them the
model could choose "not due" for ever; `SoakEnds` is that assumption, checked with a clock). They are strong because the tick visits
the rollout only now and then. `WF(Land)`: an update that was dispatched and
does not fail takes effect. `WF(InspectAll)`: the inspector's ticker.
`WF(HoldLapse)`: holds end by the clock. Nothing is assumed of people, the
registry or the watcher. The run has no faults: with a failing update the loop
halts and waits for a person, by design.

`stream` assumes that publishing ends, that a client reconnects and a handler
sends the gap event (weak fairness), and that a query, a replay and a receive
that are possible again and again happen in the end (strong fairness, since the
client may break off at each point): someone whose connection never lasts for one
event cannot catch up.

`soak` (`SoakEnds`): weak fairness of the tick's two steps of a soaking rollout (`Run`'s ticker, and
a timeout for every program) and of time. `inspector` (`Follows`): weak fairness of the
watcher's goroutine, whose ticker does not depend on anything else; nothing is assumed of editors or inspections. `registry` (`CatchesUp`):
the poll interval runs out, ticks and flushes happen and requests end (each has a
timeout), all weakly; `BeginScan` is strongly fair, because two callers alternate on
`resolveMu`, and Go's mutex hands itself to the one who has waited longest.
## Findings

* `revive` (`PlannedAlone`): `restore` (`internal/reconcile/controller.go:195`) ends a
  rollout whose abort marker it finds, in memory only; it does not mark itself
  dirty, and disk still has the rollout active. A sync, or a new build, lifts the
  marker on disk. At the next restart the aborted rollout is active again, beside
  the one that was opened since, and both are planned. `tasks/prd.md:197` promises "at
  most one active rollout". The marker is without its rollout whenever the process
  stops between the two writes of an abort.
* `return` (`BudgetHeld`): `retryBatch` (`internal/reconcile/advance.go:134`) puts
  a failed target in flight without asking the budget, and makes it free only
  if it is in quarantine at that moment. Its comment (`advance.go:110`) says that
  "A retried target's update begins while it is quarantined". `Forget`
  (`controller.go:644`) lifts the quarantine of a target that leaves the file,
  while its rollout stays halted: if the target comes back and a person retries,
  its node is charged on top of what other rollouts took meanwhile, against
  `tasks/prd.md:220`. Both files of the run weigh the nodes the same, so that the reload alone
  changes neither what is out nor what may be.

`BudgetHeld` itself is claimed only while the file stays, in the run `budget` and in the proof below,
as the repository's own property test asserts it only "on a fleet whose targets file does not change"
(`property_test.go:81`): a file with less weight, or other weights, may leave more out than its budget
allows. With reloads the claim is about each step, `ImplementsLedger`.

Differences met while modelling and not run, each where the model follows the code:

* `tasks/prd.md:216`, "Targets on the same node are adjacent and always land in the
  same batch": `startBatch` (`rollout.go:339`) stops at the first target of another
  wave, so a node whose targets are in two waves is taken by two batches.
* `server.go:281`, "everything since is replayed from the store": the handler asks
  once, and a query returns at most 1000 events (`store.go:522`); the first live event
  moves the client past the rest of the gap. The theorem assumes one page (`Kept`).
* `controller.go:266`, decisions refused "are written again before any new ones are
  made or any program runs on their behalf": the tick whose own writes are refused
  still runs the programs it has planned.
* An update that was under way when the process stopped is not held: `planBatch`
  (`advance.go:163`) does not save what it dispatches, and `restore` (`controller.go:205`)
  turns an update that never reported back into a pending one. If a new build
  supersedes the rollout at the first tick after the restart, `end` (`rollout.go:67`) finds nothing to
  hold, and the update lands on a node nobody counts, where `tasks/prd.md:244` says that
  the "target's node stays counted against the disruption budget for the update deadline".
* `passBatch` (`advance.go:380`), `halt` (`advance.go:430`) and `Abort` (`actions.go:321`) copy the rollout's
  soak to the batch they end, and nothing clears it when the next batch opens: only `batchReady`
  (`advance.go:245`) and `retryBatch` (`advance.go:114`) set it anew. A batch that passes by force, halts on a
  failed update or is aborted before its soak keeps a copy of the soak of the batch before it, where
  `model.go:153` says "Soak is the batch's soak once it has ended". `EverySoakKept` says that every
  soak is on record, not that it is on the record of its own batch alone. What is deployed does not depend on it.
* `NewWatcher` loads before it takes the fingerprint (`watch.go:41`, `watch.go:46`), the other way
  round than `poll` does: an edit between the two is not loaded until the next one.
* A target that leaves the files while no process runs keeps its live digest and its
  quarantine (`main.go:446` compares two sets of one process), although `tasks/prd.md:182` has them
  dropped; and a halt that ends after `Forget` quarantines a target that is no longer listed.
* `targetsError` stays when a fingerprint could not be taken and the directory then reads as before
  (`watch.go:102`): only a reload clears it.
* Of two inspections the one that *began* later wins, although the other may have looked
  later (`controller.go:557`). The next pass corrects it.
* `resolveAll` saves a digest only when it has changed (`controller.go:361`): a revision
  learnt later for the same digest reaches the disk with the next flush only.
* `planSoak` (`advance.go:308`) saves a target it skips for a suspension only with the next result; a restart in
  between forgets the skip, and the next tick decides it again. With suspensions TLC finds `CleanSaved` violated so.
* An abort can be lost where a restart has left a group two active rollouts (the save of the first one's end was
  refused, a sync opened the second, the process stopped: the run `revive`): one of them is
  aborted, then the store refuses the abort of the other, and `Abort` takes the group's marker back
  (`actions.go:327`) although the first abort is in force in memory. A stop before the next flush forgets it.

## Proofs

Theorems are about `Spec` (`DurableSpec` for `Durable`) for every value of the constants that meets the named
assumptions. In `Fleet` and `Controller`: names and digests are natural numbers
(only their order matters), every file lists known ids with well-formed entries,
the weights of every file are additive, `StrategyOf` and the policies are well-formed. In the others:
`BoundsAssumption` (there is a digest, and neither the tick nor "nobody" is the
name of a sync), `ContentsAssumption` (a file is broken or lists targets),
`TimesAssumption`, `ClockAssumption`, `SizesAssumption` and the `BoundsAssumption` of `Durable` (times, bounds and buffer sizes are numbers).
TLC evaluates every one of them.

| Theorem | Statement | Argument |
|---|---|---|
| `TypeCorrect` | `Spec => []TypeOK` | every operator of `Rollouts` gives a rollout back (one lemma each), then one step per action |
| `OneActive` | `Spec => []OneActivePerGroup` | inductive together with `AbortHolds` (`OneInv`: a group opens a rollout only after its abort is lifted, and an abort comes only with the end of the group's one rollout); a step either changes rollouts without making one active or opens one in a group that has none (`Evolves`, `Opens`) |
| `AbortsHold` | `Spec => []AbortHolds` | part of `OneInv` |
| `FinishedStays` | `Spec => FinishedStaysFinished` | the same case split: `Evolves` says that an ended rollout keeps its state, batches and phases (`Kin`) |
| `BudgetSafe` | `Spec => []BudgetHeld` | the inductive invariant `BInv` below |
| `QuarantineHolds` | `Spec => []HaltedQuarantined` | two conjuncts of `BInv`: failed targets are in `degraded`, and a halted batch has nothing but failed and skipped targets |
| `ShapedAlways` | `Spec => []Shaped` | a conjunct of `BInv` |
| `LedgerImplemented` | `Spec => ImplementsLedger` | every step leaves the nodes in flight a subset of what they were, or adds nodes and stays within the budget (`Ledgered`) |
| `StreamTypeCorrect` | `Spec => []TypeOK` of `EventStream` | a type lemma per action |
| `ChannelsClosedOnce` | `Spec => []ClosedOnce` | inductive with the types: who is subscribed is who has a connection and an open channel |
| `NothingLost` | `Kept` implies `Spec => NoneLost` | the inductive invariant `StreamInv` below |
| `LedgerSuffices` | `ImplementsLedger /\ [](file = InitialFile) => []BudgetHeld` | while the file stays, the ledger alone implies the budget |
| `PassesOnEvidence` | `Spec => PassedOnEvidence` of `Soak` | the inductive invariant `SoakInv` below |
| `HaltsWhenFailed` | `Spec => HaltsOnFailures` | the same |
| `RecordsTrue` | `Spec => []SoakInv` | one lemma per action |
| `AllSoaksKept` | `Spec => []EverySoakKept` | the inductive invariant `KeptInv` below |
| `PauseIsHonoured` | `Spec => PauseHonoured` | `FInv` below and what a step does to a rollout (`Pauses`) |
| `QuarantineKept` | `Spec => QuarantineLifted` | the same (`Lifts`) |
| `WavesAlwaysInOrder` | `"strategy" \notin Verbs` implies `Spec => []WavesInOrder` | `Ordered` (the same of every rollout, and no waves where the strategy has none) is kept by every move |
| `OneProgramEach` | `Spec => []OneProgramPerTarget` | `JobsFit` of `FInv` and `OneInv` |
| `UpdatesDeployDesired` | `"reload" \notin Verbs` implies `Spec => []UpdatesForDesired` | the inductive invariant `UInv` below |
| `LandingsAccounted` | `"reload", "suspend" \notin Verbs` implies `Spec => []LandingAccounted` | the inductive invariant `LInv` below |
| `DiskTypes` | `DurableSpec => []DiskTypeOK` | inductive with "rollouts on disk fit their files" and "what is counted is within its bound" (`DInv`) |
| `AbortsSurvive` | `DurableSpec /\ []OneActivePerGroup => AbortSurvives` | the inductive invariant `AbortSaved` below |
| `AbortsSurviveStop` | `MaxCrashes <= 1` implies `DurableSpec => AbortSurvives` | the same, up to the first stop |
| `CleanIsSaved` | `DurableSpec /\ []SoakersWhole => []CleanSaved` | the inductive invariant `Kept` below; `SoakersWhole`: no soaking rollout has lost a target |
| `CleanStaysSaved` | `"reload", "suspend" \notin Verbs` implies `DurableSpec => []CleanSaved` | the same, and `Homes`: without reloads and suspensions no rollout loses a target |
| `LifecycleImplemented` | `Spec => ImplementsLifecycle` | a step closes the superseded, and then at most moves one rollout or opens one (`Stepped`) |
| `LifecycleSuffices` | `ImplementsLifecycle => []OneActivePerGroup` | the lifecycle alone implies one active rollout per group |
| `KnownTrue` | `Spec => []RInv` of `Registry` | one lemma per action |
| `TypesKept`, `RevisionsMatch`, `SyncsCurrent`, `RefreshesKept`, `AllDigestsSaved` | `Spec => []` of `TypeOK`, `RevisionMatches`, `SyncIsCurrent`, `RefreshKept`, `DigestsSaved` | conjuncts and consequences of `RInv` |
| `NeverGoesBack` | `Spec => NeverBack` | `NotBehind` of `RInv`, in the step that publishes |
| `KnownWell` | `Spec => []IInv` of `Inspector` | one lemma per action |
| `InspectorTypes`, `InForceOrReported`, `ForgottenStays` | `Spec => []` of `TypeOK`, `LoadedOrReported`, `Forgotten` | consequences of `IInv` |
| `NewerObservationWins` | `Spec => NewerWins` | `OneRecord` and `FlightsTrue` of `IInv` |
| `ShareRoundsUp` | `Of(f, total)` is the least whole number of nodes that makes up a percentage | two facts about the ceiling |
| `BatchesNeverEmpty` | `BatchFor(st, k, total) \in 1 .. total` for a usable strategy | the theorem above, and the case of a count |
| `BatchesGrow` | `a <= b => Of(f, a) <= Of(f, b)` | the same |

Those of `ControllerProofs`, `RolloutProofs` and `LandingProofs` hold for any `Verbs` and `Faults`, reloads
of the targets file included, but for three. `UpdatesDeployDesired` is about a file that stays:
the digest a program is told comes from the file in force when the program is dispatched, and
a reload between supersede and the dispatch may change an image. `WavesAlwaysInOrder` is
about strategies that come from policies: a sync may give an active rollout a strategy
without waves, and that ends their order on purpose. `LandingsAccounted` is about targets
that stay: one that is suspended or leaves while its update is landing is skipped at once
(`advance.go:157`, `advance.go:543`; `tasks/prd.md:226` wants it so), and nobody
counts its node while the program runs on; with suspensions TLC finds the property violated. The theorems about the budget (`BudgetSafe`, `QuarantineHolds`, `ShapedAlways`, `LedgerImplemented`)
assume `"reload" \notin Verbs` too;
the run `return` shows that the budget needs it.

*The argument of `BudgetSafe`.* `BudgetHeld` is not inductive: three kinds of
step could put nodes in flight, and two of them do not look at the budget.

* Cutting a batch looks: the greedy walk (`GreedyCut`) adds a node only while
  the sum fits. The nodes it was charged for
  have a last one in the walk's order (`FiniteFirst` of `ControllerProofs`: a finite set has
  a first element under a strict order), and that one was weighed against the
  nodes in flight and all the others (`GreedyLemma`); free and weightless nodes
  add nothing.
* A retry does not look. It charges nothing because its targets are free, and
  they are free because they are in quarantine: `Quarantine` says that of every
  halted rollout. Other rollouts leave that quarantine alone because their
  targets are of their own group (`Homed`) and the group has no other active
  rollout (`OneInv`).
* An end (abort, supersede) does not look either: it turns updates under way
  into holds. It charges nothing new because only targets of the open batch can
  be under way (`Shaped`), and those were charged already.

So `BInv` is `TypeOK`, `OneInv`, `BudgetHeld` and `Steady`, which is `Shaped`,
`Homed`, `Quarantine` and "nothing has left the file". For each operator of
`Rollouts` a lemma says that the new rollout is well-shaped and charges nothing
more (`Sound`). A step of the tick moves one rollout that way (`VisitedMoves`) or
opens a batch first (`StartedMoves`); every other step changes rollouts so that
the others cannot tell (`Quiet`) or adds one that charges nothing (`Fresh`), which
`QuietStep` turns into the invariant.

*The argument of `EventStreamProofs`.* `Kept` says that the page holds the
history (with a page of one event TLC finds an event lost), and that records do not
fail in a process that also restarts. The second is needed too: `event` publishes
an event whether or not it could be recorded (`controller.go:467`), and `restore`
takes the next id from the newest recorded one (`store.go:211`), so the id of an
unrecorded event is given again, and a client that saw the first event is never
sent the second. Under `Kept` ids follow the order of issue (`Numbered`), a channel holds events
in that order (`Queued`), the handler's `last` is the id the client has seen
(`Placed`), and `Gapless` says that nothing kept is missing between what a
connection has shown and what it has still to show. The last one is stated from
every event the client may be at (`Before`), because a client that joined without
an id may start anywhere in its channel; and it promises later events only while
the client is subscribed, since a closed channel ends in a gap. The query can be
late: what was published meanwhile is in the channel as well, and `send` skips
what the replay has shown. The theorem holds for any number of clients and any
buffer.

*The argument of `SoakProofs`.* The property speaks of what happened (`truth`), the code of
what it has recorded. `SoakInv` says that while a rollout soaks the two agree, in memory
and on disk: the age of its beginning, the age and the outcome of the last answer, and the number of
failures, which is never above the limit while the soak goes on. Disk is included
because a restart continues from it, and it holds although a check that was
dispatched is not saved: only `LastCheckStartedAt` is lost by that, which paces checks
but is no evidence. Ages add up across ticks and stop at `LongAgo` (`LaterIsTrue`), beyond which no comparison
can tell. The theorems hold for any programs, interval, duration, limit and number of restarts.

*The second argument of `SoakProofs`.* That no attempt is lost is not inductive alone: whether
a new soak may replace the last one depends on whether that one was filed. `Whole` says when
it was (a rollout that runs or is halted has filed it), that an open batch has nothing in the
place its soak will take, and that no later batch has. `KeptInv` adds that a restart finds the same
(`Alike`): state, batches and filed attempts are saved by every step that changes them. The
theorem holds for any number of batches and soaks.

*The argument of `RolloutProofs`.* A rollout's fields constrain each other: a batch is open only
while the rollout runs or soaks, a pause waits only for an open or halted batch, only a halted
rollout waits for a retry, a target is ready only when inspect saw its digest (`Fine`). For each operator
of `Rollouts` one lemma says that it keeps `Fine`, moves along an edge of the lifecycle, keeps
the digests it is for, the waves' order, the request to pause, and what inspect has seen
(`Moves`, `Pauses`, `Keeps`). `NextStepped` then says of every step of the specification that it
closes rollouts whose digests moved on (`Trimmed`) and moves or opens at most one (`Shifts`), or plans one
and adds its jobs (`Planned`). Every theorem of the module is read off that. `FInv` is `TypeOK`,
`OneInv`, `Fine` of every rollout, and `JobsFit`: while the tick plans, the jobs are those of rollouts
already planned, and a rollout plans only targets of its own group. With one active rollout
per group two jobs cannot name one target.

`UInv` adds to it what `UpdatesForDesired` needs. A job's digest is looked up when it is
dispatched, and the rollout's was fixed when it was opened. They agree because supersede has closed
every rollout whose digests moved on in the same locked section (`Agreed`: from then to the end
of the plan nobody else has the lock), and because an image of the file was resolved before and
stays resolved (`Resolved`): for an image without a digest `Moved` decides nothing.

*The argument of `LandingProofs`.* A landing is accounted for while its rollout tracks the target, so the
question is who stops tracking one. An end does not: it holds what may land. A pass does, and a
lapse of the hold or of the quarantine: all wait until inspect has seen the target on the digest. So
`LInv` adds to `UInv` that what may land on a target of a rollout is what the rollout is for, and that
nothing may land any more on a target inspect has seen updated (`Lands`). That one survives the next steps
because a rollout's targets stay where they were when it opened (`AtHome`), so none is skipped, and because a
landing is never of what runs already.

*The argument of `DurableProofs`.* A step of the controller leaves each record on disk as it was, as
memory had it or as memory has it (`Recorded`), planning and the flush included. `AbortSaved` says that the
marker of every abort in memory is on disk; `restore` ends whatever is active under a marker, so after a stop the
group has nothing active and the abort is still there. An abort is the only step that takes a marker away without
lifting it in memory: it is refused, and takes back what it wrote (`actions.go:327`). It cannot be the marker of an
abort in force, because a group whose abort is in force has no active rollout to abort (`AbortHolds`) - as
long as a group has one active rollout at most. The controller alone keeps it so (`OneActive`), a restart from a store that
refused a write may not (the run `revive`). Hence the two forms: for behaviours in which
groups have one active rollout, through any refusals and stops, and without that hypothesis up
to the first stop.

`CleanSaved` holds between ticks; `Kept` says what holds at every step of a clean controller. Disk has each
rollout as memory has it, or as a restart made memory have it (`SavedAs`: an update without a result
queued again, or an abort ended that disk still has active), unless a result of the rollout is
still to be applied: the last one saves it (`Owed`). Every other record of a decision is on disk as in memory.
`Tidy` places the programs in the tick, so between ticks nothing is owed, and what `restore` decides is the same of a
record and of what a restart made of it (`SavedDecides`, `RequeuedOnce`). One step of the code breaks `Kept`:
a soak check that skips a target its rollout has lost, as it saves nothing until its result
(`advance.go:308`); when no soaking target has a program left there is no result to come. `SoakersWhole`
excludes it, and TLC shows that it must be excluded: with suspensions `CleanSaved` fails (see
"Differences"). `CleanStaysSaved` discharges that hypothesis where the targets file stays and nothing is suspended:
every rollout in memory and on disk has its targets in the file, in their group and on
their nodes (`AtHome`, as in `LandingProofs`), a step keeps a rollout's targets, nodes and digests (`Roots`), and a
restart brings back rollouts that were at home.

*The argument of `RegistryProofs`.* What a resolution knows of an image its tag has pointed at
(`Sound`), at each of its requests; a scan that publishes is at least as new as what is desired
and as what the tag pointed at when the sync asked (`NotBehind`), because nobody else publishes
while it holds `resolveMu` and it began with the HEAD. `RInv` is these, the types, and three of the properties.

*The argument of `InspectorProofs`.* For the watcher, `AtStage` says for each point of a load what was
read, or was put in force, is worth if the fingerprint it is remembered by is still
the directory's: edits only count up, so a fingerprint an edit has left behind never comes
back. For the inspector, a program in flight saw what ran when it looked (`FlightsTrue`), a target
has one record (`OneRecord`), and a record is of a target in force, one still to be forgotten, or one
that was not in the files when the process started (`Placed`).

Model-checked only:

* liveness (`Converges`, `CatchesUp` of both, `SoakEnds`, `Follows`): out of the prover's reach;
* that nodes go out only within the budget of the file in force under reloads (run `reload`, without retries);
* `AbortSurvives` where a restart has left a group two active rollouts.

Proofs need no finite set of rollout ids; `Targets` and `Nodes` are assumed finite.

## Plan

Done: the core (`Strategy`, `Fleet`, `Rollouts`, `Controller`), its two abstractions, `Durable`,
`EventStream`, `Soak`, `Watcher`, `Inspector`, `Registry`, the runs above, and the theorems above.

Next, in this order:

1. Theorems: the ledger under reloads that neither move a target between groups or nodes nor bring one back
   (the runs `reload` and `return` mark the limits); `CleanSaved` for every record but those of soaking rollouts, with suspensions.
2. The program runner: deadlines, process groups and output limits (`internal/hooks`).

Not modelled and why: authentication and sessions, HTTP decoding and pages,
metrics and logs, registry references and credentials, process groups, YAML and flag
parsing, SQL. They are I/O around the decisions modelled here, or pure functions
that the unit tests reach.
