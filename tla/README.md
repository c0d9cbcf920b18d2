# Sapien: a verification project

TLA+ modules of the Sapien API workspace engine, the TLC configurations that
check them on small instances, and TLAPS proofs of what matters most for every
instance. Paths below are relative to the repository; line numbers are those of
the code the modules were translated from.

## 1. The system

Sapien is one Go binary. `sapien serve` is a per-workspace daemon that owns the
workspace's SQLite catalog, indexes services (OpenAPI and Markdown in local or
git-managed folders), watches them, executes flows (multi-step HTTP tests) and
serves an HTTP API with server-sent events, browser terminals and an MCP
endpoint. The CLI and the MCP server talk to a running daemon or open the
workspace themselves.

| component | state it keeps | operations | who it talks to | what is hard |
|---|---|---|---|---|
| workspace lock (`internal/daemon/lock.go`) | `.sapien/daemon.lock`: a pid | Acquire, Holder, Release | serve, restart | create, write, probe and remove are separate system calls of several processes; crashes leave files |
| daemon discovery (`internal/daemon/daemon.go`) | `.sapien/daemon.json`, token | Write, Read, Remove, Alive, Find | CLI, MCP, serve | stale records, removal of another daemon's record |
| serve and daemon control (`internal/cli/serve.go`, `daemonctl.go`) | the running server, the idle guard | start, restart, stop, idle shutdown | lock, discovery, server | replacement races, timers firing while a request enters |
| flow runner (`internal/runner`) | one run: phase, outcomes, stop and cancel flags | Run, Cancel, resume, loop blocks, polls | run store, runtime client, event bus | cancellation at any await, two contexts, store errors, resuming from partial rows |
| run store (`internal/runs`, `internal/store`) | rows of runs and steps | Create, AppendStep, Update, Pin, Purge, Get | SQLite | whole-row updates from stale structs, purge of a run in progress |
| event bus (`internal/events`, SSE handlers) | subscribers' buffers, a ring of recent events | Publish, Subscribe, Unsubscribe | every writer, SSE clients | full buffers, drop-oldest, publish during unsubscribe |
| registry (`internal/registry`) | fingerprints, file watcher, ingest cache | Sync, Remove, Watch | catalog | debounce, overlapping syncs, removal during a sync |
| local engine (`internal/engine/local`) | staleness fingerprints, the semantic index in use | every engine operation | all of the above | staleness check-then-sync, hot swap of the semantic index under readers |
| remote engine (`internal/engine/remote`) | none | the engine interface over HTTP | daemon | the client side of a lost daemon |
| workspace manager (`internal/workspaces`) | open engines by workspace | Open, CloseOne, CloseAll | lock, local engine | open and close of one workspace at once |
| terminal sessions (`internal/terminal`) | sessions, idle timers | Start, Attach, Close, reap | PTY, WebSocket | idle timer against activity, session caps |
| HTTP server (`internal/server`) | routes, restart hook | requests | local engine, manager | restart while runs are active |
| semantic index (`internal/semantic`) | vectors by document hash | Upsert, Clear, Search | embedder | jobs of an index already swapped out, readings written late |
| git sources (`internal/gitsrc`) | managed clones | Clone, Checkout, Describe, Ship | git | failure between two git commands |
| memories and examples (`internal/memory`, `example`) | files in tiers, index rows | Create, Update, Move, Delete, Reindex | catalog, watcher | file and row written apart, editors and reindexes in between |
| flows on disk (`engine/local/flows.go`, `internal/catalog/flows.go`) | files in tiers, one row per id, a fingerprint per tier | CreateIn, Update, RescopeWith, Move, Delete | catalog, watcher | a whole tier is rebuilt by every operation, files that do not parse |
| flow text (`internal/flow`) | none | AllSteps, Validate, Materialize | engine, runner | what the validator says about a reference against what a run finds |
| MCP (`internal/mcp`) | permission grants | tools | engine | grants checked then used |
| self update (`internal/selfupdate`) | cached release, the binary | Check, Apply | GitHub | replacement of a running binary |
| migrations (`internal/store/migrate.go`) | schema version | Migrate | SQLite | crash between two migrations |
| parsing, search, rendering (`expr`, `ingest`, `search`, `retrieval`, `catalog`, `spec`, ...) | none or rebuildable | pure functions, SQL | everything | data, not protocol |

`PROJECT.json` lists every component with its status, and under `hazards` the
places where a test would hardly reach, each with the properties that cover it.

What makes each of them correct, in a sentence: one process owns a workspace;
discovery never leads to a process that does not own it; a run records what it
did, runs its teardown, stops where the policy says and ends with the status its
steps imply; a resumed run skips nothing it needs; what the user pinned stays;
a subscriber sees events in order and losing the oldest only; the index
converges to the files, those of services, memories, examples and flows alike;
no operation loses a text somebody wrote; the vectors follow the texts and the
settings, and nothing writes them after the database is closed; an expression
finds the result it names, or the validator has said that it may not; a session
or an idle daemon is reaped only when idle; a workspace is open at most once.

## 2. Modules

| module | models | code |
|---|---|---|
| `WorkspaceClaim` | the abstract exclusive claim: claim, give up, die | the contract in `lock.go:13-20` |
| `DaemonLock` | Acquire, Holder, Release, one action per system call | `daemon/lock.go` |
| `DaemonLifecycle` | serve, serve --restart, daemon stop and restart, find-or-start, over an atomic lock and `daemon.json` | `cli/serve.go`, `cli/daemonctl.go`, `cli/daemon_restart_hook.go`, `daemon/daemon.go` |
| `DaemonProofs` | proofs about `DaemonLock` and `DaemonLifecycle`: the lock implements `WorkspaceClaim`, and the lifecycle asks no more of it | |
| `FlowRun` | Run: phases, stop policy, cancellation, teardown, resume, the store's rows | `runner/runner.go`, `runner/resume.go`, `runs/*.go`, `store/store.go` |
| `LoopBlock` | one loop block, its iterations, steps, polls and cancellation | `runner/block.go`, `runner/step.go` |
| `RunnerProofs` | proofs about `FlowRun` and `LoopBlock`, the two levels of the runner | |
| `EventBus` | Subscribe, unsubscribe, Publish with its drop-oldest loop | `events/bus.go`, the reader of `server/handlers_events.go` |
| `EventBusProofs` | proofs about `EventBus` | |
| `IndexSync` | the watcher, the syncs, the fingerprints and the stops that keep a service's index at its files | `registry/watch.go`, `registry/sync.go`, `engine/local/services.go`, `watch.go`, `staleness.go`, `catalog/apply.go` |
| `IndexSyncProofs` | proofs about `IndexSync` | |
| `SemanticSwap` | the index worker, its queue, reindexes, settings requests and Close | `engine/local/semantic.go`, `settings_semantic.go`, `semantic/index.go` |
| `SemanticSwapProofs` | proofs about `SemanticSwap` | |
| `KnowledgeStore` | one memory or example: its files, its row, requests and reindexes | `memory/*.go`, `example/*.go`, `engine/local/memories.go` |
| `KnowledgeStoreProofs` | proofs about `KnowledgeStore` | |
| `FlowTiers` | flows in the local and workspace tiers, their rows and the rebuilds | `engine/local/flows.go`, `catalog/flows.go`, `engine/local/staleness.go` |
| `FlowTiersProofs` | proofs about `FlowTiers` | |
| `FlowScope` | the validator's check of references, and what runs and resumed runs put in `steps` | `flow/validate.go`, `flow/materialize.go`, `runner/runner.go`, `resume.go`, `block.go` |
| `FlowScopeProofs` | proofs about `FlowScope` | |
| `MC...` | the instances TLC checks | |

### DaemonLock

The file at the lock path is two variables: `inode`, the process whose
exclusive create made it, and `content`, the pid written in it, so that a write
after somebody removed the path goes to a file nobody sees, as it does in the
file system. `pc[p]` is the system call process `p` is at. `stubborn` says
whether `os.Remove` may fail on this system: both the write-failure path
(`lock.go:47`) and the takeover (`lock.go:62`) ignore its error. A process may
crash at every step. Processes are incarnations: a pid is never reused.

`Overlap` says whether two processes may be inside Acquire at the same time.
The code does nothing to prevent it, and with it the lock is not exclusive (run
`overlap`, a finding): Acquire takes a file that was created and not yet written
for stale.

Acquisitions that follow one another are not safe either. `Holder` answers that
nobody holds the lock when it cannot read the file, for whatever reason
(`lock.go:92-95`), and when `kill(pid, 0)` fails, also with "not permitted" for a
live process of another user (`daemon.go:169-174`); Acquire then removes a live
holder's file. `ReadHolder` and `ProbeHolder` do both, so that `Exclusive` alone
is false of the model, as it is of the code, without any overlap. The history
variable `misjudged` says that it has happened to a live holder; up to then the
lock is exclusive, names its holder and implements `WorkspaceClaim`, and that is
what `serial` checks and the theorems say. `ReadableLockIsExclusive` and
`ReadableLockImplementsClaim` restate them without the history for runs in which
it never happens.

### DaemonLifecycle

The level above the lock: one process from start to exit per daemon, and the
commands that deal with it. The lock is what `WorkspaceClaim` promises, one step
to take and freed by release or death (`DaemonProofs` shows that `lock.go`
implements it when acquisitions follow one another and no live holder is taken for
none; otherwise it does not, as run `overlap` shows and section 5 explains, and
then `OneEngine` falls with it). `daemon.json` is the pid in it. `at[a]` is where
a daemon or a command is: a daemon goes from the check of the record over the
lock, the engine, the listener, the record, the handshake and the signal handler
to serving, and back down in the order of `serve.go:243-253`. Reading the record,
asking for the holder, a health probe, a signal and the wait after it are steps of
their own. A health probe of a daemon that answers may still fail (`daemon.Alive`
gives it two seconds); a process that has not installed its handler dies of
SIGTERM; one that does not die in the grace period is killed; one that outlives
that too makes the stopper give up. `Older` are the daemons of another build,
which findOrStartDaemon replaces. The locals of a process are forgotten after
their last use. Errors of reading and removing `daemon.json` and the lock file
other than their absence are left out; so is the idle guard, whose shutdown is one
of the causes of `Shutdown`. The deferred release of the lock (`serve.go:106`) and
the exit of the process are two steps. After a handshake that nobody hears
(`serve.go:219-222`) nothing else cleans up: the daemon releases the lock while it
still runs and `daemon.json` still names it. `RecordNamesOwner` says so as an
exception. It allows a missing record too, because a daemon that serves may have
none: a stop, or a find that meets a dead process, removes `daemon.json` by its
path, whoever's it is by then.

### FlowRun

A step is its position: setup, then main, then teardown steps. What a step does
(request, poll loop, loop block, UI step) is abstracted to the outcome
`executeStep` or `executeBlock` returns. Every other branch of `Run` is an
action: reuse, skip outside the window, skip after a stop, refuse a step whose
input was skipped, begin, end, `finishStep`, return. The step row is written in
`FinishStep` with the context the code uses (the run's, or teardown's own), so
that a cancellation between a step's answer and its row is a behaviour of the
model. `Start` covers `Run`'s preamble with every combination of options: fresh
with `from_step`, resumed at the default point, resumed at a chosen step, with
or without `until_step` and `continue_on_failure`.

`Faults` selects what the environment does: `cancel` (Runner.Cancel), `gone`
(the caller's context ends), `timeout` (the teardown context expires), `crash`,
`store` (a write fails for its own reasons), `pin`, `purge`. The theorems hold
for every subset unless they say otherwise.

What happens inside a loop block or a polled step is `LoopBlock`'s: that it ends as
cancelled only after a cancellation (`OutcomeTellsTruth`) and that it ends
(`BlockEnds`) are the guard and the fairness of `StepEnds` here. A crash
forgets the state of the run in progress, which lives in the daemon's memory, and
leaves the rows.

The history variables `asked`, `inTime` and `wanted` record that Cancel was
called, that it was called while a step was left to run, and what the user
pinned; no action of the code reads them.

### LoopBlock

One call of executeBlock: a `for`, `while` or `repeat` block with its limit, its
iterations in order, the steps of each, and for a polled step the requests, the
naps between them and the poll's deadline. `elapsed` is the poll's clock, in
ticks; the context may be cancelled between any two steps. What a step answers,
whether its poll condition holds and whether `while` is true or fails to evaluate
are choices. The counters saturate: time one past the timeout, calls after a
cancellation at two. The saving of an iteration's rows, whose failure makes the
run errored, is in `FlowRun` (`NoteWrite`). Two things of the code to know when
reading it: an iteration cancelled before its first step counts as an iteration,
and an error of the `while` expression hides a cancellation.

### EventBus

A subscriber is its place in the map, its buffer of `Capacity` events, its
counter of dropped events and whether its channel is closed. A publisher takes a
snapshot of the subscribers under the bus's lock and walks it in any order;
inside `send` it holds the subscriber's lock, and each select is a step: put, see
a full buffer, drop the oldest, try again. Readers take from the channel between
any two of these. An event is its publisher and its number.

### IndexSync

A service's package is one value: good ones, and broken ones that do not build.
Five goroutines sync: the watcher's loop, the loop of a watcher that
`restartWatch` has replaced and which is still in a sync, a request handler, the
git timer and Open's staleness check. Each fetches, reads, applies (or marks the
row with the error) and stores the fingerprint in steps of its own, because no
lock spans them. The watcher has its pending set, its debounce timer and the age
of the oldest pending change, in ticks. `Stop` is a shutdown or a crash: what
the goroutines were doing is lost, the database is not.

The index does not always converge, and the module names where it does not.
`excused` collects the services a change of which went unseen: the daemon was
not told (a service the watcher does not watch), the event queue overflowed, a
write or fetch failed and nothing retries it, an older reading was applied after
a newer one, a rebind threw away the pending set, or a fingerprint vouched for
another package than the one indexed (`raced`). A later reading of the service
takes it out again. `SettledIsIndexed` says that there are no other ways.

### SemanticSwap

A configuration of semantic search is `Off` or a model value that names a model.
The worker takes jobs from its bounded queue; a settings request writes the
file, loads it, takes `semSwapMu`, cancels the worker and waits for it, installs
the new embedder, queue and worker under `semMu`, and spawns a reindex when the
change asks for one; reindexes exclude each other by `semReindexMu`. A reading
and its upsert are separate steps with the embedder's call in between. Close
drains the worker, waits for the reindexes and closes the database.

A writer first stores its text (`Change`), then looks up the queue there is
(`CaptureQueue`), then sends (`SendJob`): three steps, so that the order of two
jobs is not that of their texts, and a job may go to a queue that a swap has
replaced. A job of a service, or for all memories, names what is to be read when
its turn comes; that of a memory just written carries the text. The memory of the
module is one no watcher follows, a personal one or a service's; for the others
the watcher enqueues all memories by name some time later. A full reindex gives
up when a deletion fails or the services cannot be listed (`Clear`), with some
vectors gone and some not.

`lost` holds the items whose job was dropped (a full queue, one that was
replaced) or failed; `overtaken` those of which an older reading was written
last; `skipped` says that two overlapping settings requests compared with a
configuration that was no longer applied and spawned no reindex; `late` that a
request installed a worker or spawned a reindex after Close had drained them. A
vector brought up to date takes its item out of `lost` and `overtaken`.
`VectorsAreCurrent` says that nothing else is behind at rest. Of `overtaken` the
comment at `semantic.go:32-35`, where only a dropped job leaves an item behind,
knows nothing (section 5).

### KnowledgeStore

Both stores treat every id apart, so the module follows one item: a file or none
per tier and folder, a row or none, and the steps of a request between them
(write, remove the old file, index). `kind` says which of the two stores it is: a
memory may be personal, a row without a file, and its directories are watched; an
example is read back from its file. A reindex walks the files in path order
(`PathRank`, any order of the places) and drops the rows it has not seen. Editors
and git write, break and remove files, a removal may fail with its error ignored,
a database write may fail, the process may die. `missed` says that no reindex to
come will read a change; `alone` that no two requests have overlapped on the item,
nor an editor and a request; `owed` the texts one of which must still be stored.
While the item has only files that do not parse, the settled row may be there or
not: `memory/store.go:379-381` and `example/store.go:402-404` say that such a file
"keeps whatever was last indexed for it", and the code deletes the row (section
5), so that the property takes neither side.

### FlowTiers

A flow file is in a place, a tier and a folder; the row is keyed by the id alone.
Every operation ends with `reindexOwnerFlows` of the tiers it touched: list the
files, read the rows, parse one file after the other, replace the tier's rows in
one transaction, which fails when an id is in another tier too. A file that does
not parse keeps the row the rebuild has read, when the row is found by the file's
path or by the id its name says. `Named` are the places whose file name is the
flow's id; a flow created with an explicit path may be in another
(`flows.go:328-337`), and a move keeps the name. When the rows cannot be read the
rebuild goes on without any (`flows.go:929`). `FoundFilesStayListed` is what
remains of the promise to keep the row: a flow under another name loses it when
it is moved unparsable, and every unparsable flow of the tier does when the rows
cannot be read (section 5). In the instance TLC checks every place is named by
the id; the theorems hold for every choice of `Named`. A rescoping
rebuilds the tier left behind first, so that an unparsable flow loses its row
there whatever its name. A move is a rename, or a copy and
a removal between two volumes. The watcher and Open rebuild both tiers; Open does
so when the fingerprint of a tier is not the one an earlier Open recorded.
`touched`, `missed`, `alone` and `owed` are history, as in `KnowledgeStore`. Not
modelled: two different flows that collide on one explicit path, and a file whose
name is another flow's id; every place belongs to one id.

### FlowScope

Two descriptions of one thing, each translated from its own code. `Verdict` is
what `checkStepRef` says about an unguarded reference `steps.<target>` in the
fields of a step. `AllSteps` is the set of the flow's steps with their places in
the validator's list; the verdict is one of unknown, out of order,
maybe skipped, or nothing. The actions are the walk of `Run`, `executeBlock`,
`runBlockIteration` and `reuseBlock` as far as they decide what is in
`stepsSoFar`: every branch that puts a value there, puts an empty one, or
leaves the step out. Outcomes, conditions and the end of a loop are choices. The
properties range over all references the current step could make, so that no run
has to carry expressions. A resumed run may be of an edited text: a flow of the
set `Flows` may move a step into a block or out of it (`Relocated`). A reused
record keeps the phase it had in the earlier run here and in `FlowRun`, where
`finishStep` stamps the phase of the step as it is now (`runner.go:585`); only
the default resume point of a third run reads it.

## 3. Runs

| run | instance | what it shows |
|---|---|---|
| `serial` | 3 processes, one inside Acquire at a time, removals that may fail | exclusion, two attempts suffice where files can be removed, refinement of `WorkspaceClaim` |
| `overlap` (violation) | 2 processes | both acquire the lock |
| `lifecycle` | 2 daemons, one of another build, and 2 commands of any kind | one engine at a time, a `daemon.json` that leads to the owner or to a dead daemon, and a stop or restart that rids the workspace of the daemon that owned it, whatever `daemon.json` says |
| `single` | 1 setup, 2 main, 1 teardown step, one run, every fault | teardown, complete rows, cancellation, and that the run comes back |
| `resume` | 2 main steps, two runs, cancel, crash, pin, purge | the default resume point is covered; pins on finished runs last; the outcomes recorded stay, and a purged run does not come back |
| `block` | 2 steps, at most 2 iterations, one step polled, a budget of 2 | a truthful result, bodies kept in a prefix, bounded polls, prompt cancellation, and that the block ends |
| `bus` | 2 publishers with two events and one, 2 subscribers with one place | order per publisher, the newest kept, nothing withheld, exact drop counts, no send on a closed channel, and a Publish that ends without readers |
| `index` | 1 git-sourced service, three packages of which one is broken, 2 edits, 2 operations, 1 fault | the settled index is the files' or the loss has a name; no flush is put off past the cap |
| `semantic` | 1 memory, 1 writer with 1 change, 2 configurations with a model each, 2 settings requests, 2 reindexes, a queue of 1 | vectors current at rest, a clean Close, and settings requests and a Close that return |
| `knowledge` | 1 item of either kind, 2 tiers with 2 folders, 2 requests at a time, 1 edit, every fault | the settled row is the files'; no text that was promised is lost |
| `tiers` | 1 flow, 3 places (both tiers' roots and a folder of the workspace tier), 2 requests at a time, 1 edit, every fault | the settled row is the file's; nothing is overwritten; a file that does not parse stays listed |
| `scope` | 3 flows (a `when` on a setup step; on a loop block and the second of its steps; the block with a step moved out of it), 2 runs with every option, 2 iterations | a reference the validator accepts finds its step, one it rejects could not, and values are the latest |

Bounds. Three processes are enough for a holder, a claimant and a process that
died before both; the theorems drop the bound. Two main steps give a step that
stops the run and one it must stop, and a gap before a recorded row; one setup
step reaches every branch of the setup loop; one teardown step that needs the
first main step reaches refusal, timeout and normal execution. Two runs are
enough for a run and its resumption, because a run reads only the rows of the
one it resumes. Deadlock is not checked where the bound on runs, requests or
edits, or the death of every process, ends the behaviour.

Two daemons and two commands are enough for a predecessor, a successor and two
commands that meet both, which is what each race of the lifecycle needs; the
commands are interchangeable, so the run uses symmetry on them. Two iterations of
two steps give a step before and after a failure or a cancellation in the first
and the last iteration. A buffer of one place is full after one event, so that
every second publication meets the drop-oldest loop.

Services do not share rows, watches or fingerprints, so one service meets every
interleaving of the syncs; two operations and two edits give a change during the
sync of another change, and a fault between them. A debounce of two ticks under a
cap of three makes the cap bind at the second event. A queue of one is full after
one job, and two settings requests overlap in every order, each with a reindex;
their swaps need only one item. One change is read before and after it by a worker
and two reindexes, and its job may name the memory or carry the text. Two changes,
whose jobs may be sent in the other order, and more items, services among them,
are beyond what TLC finishes together with the two requests; the theorems cover
them. Memories, examples and flows are stored by id: one id in two tiers, with a
folder besides a tier's root, reaches every move, within a tier and between the
two; two requests and the engine's rebuild are three writers of one row; the
requests are interchangeable (symmetry). Two texts tell the new from the old; a
third writer would only replace one of them again. In `scope`, two runs give a run
and its resumption, edited or not in between, two iterations a value of this
iteration and of the one before. The loop block has a nested step with a `when`
and one without, so that the references between them get every verdict, and a
resumption of the second flow as the third reuses a block's record for a step that
has left the block.

Fairness. `EveryRunReturns` assumes weak fairness of the runner's own steps: its
goroutine is scheduled, and a step ends because requests have a client timeout
and polls a deadline (`runner/step.go:196-231`). Cancel, crashes, the caller, the
user and the store are not fair. `BlockEnds` assumes it of the block's steps and
of its clock: requests carry a timeout and timers fire. `PublishNeverBlocks`
assumes it of the publishers alone, since no reader owes the bus anything.
`EverybodyReturns` assumes it of the worker, the reindexes, the settings requests and
Close: an embedding call has a client timeout (`semantic/embedder.go:56`).

The runs leave out some invariants that are proved for every instance: the types
of `DaemonLock` (`LockTypeOK`), `DaemonLifecycle`, `FlowRun`, `LoopBlock`
(`BlockTypeOK`), `EventBus`, `IndexSync` and `SemanticSwap`, `LockNamesHolder`,
`NothingRunsAfterAStop`, `RunsInOrder` and `LatestExecution` are theorems.

## 4. Proofs

Checked by TLAPS, for every value of the constants. Every invariant and every
action property of a passing run is a theorem; the assumptions are those the
modules state of their constants. The two levels of the daemon share a proof
module, and so do the two of the runner.

`DaemonProofs`, the lock (assumption: no overlap). Mutual exclusion is not inductive:
it needs that a process about to write still owns the file, that what was read
before the probe still names the holder, and that nobody holds the lock that is
about to be written or cleared. `LockInv` is the conjunction; until a live holder
is taken for none (`misjudged`) it is preserved by every action, crashes and
failed removals included. The invariants follow, and so does the step simulation
to `WorkspaceClaim` (a write is a claim, a release or its failure gives up, a
crash is a death, everything else stutters). Where `misjudged` never turns true
exclusion and the refinement hold without exception (`ReadableLockIsExclusive`,
`ReadableLockImplementsClaim`). That two attempts suffice needs none of this.

`DaemonProofs`, the lifecycle (assumptions: daemons, commands and "no process" are
different things). `ClaimInv`: the owner of the lock is exactly the daemon between
acquiring and releasing, and there is one at most, gives `OneEngine`. `Onwards`:
no step takes a daemon back to before the lock or back from the dead, so the owner
a command found when it began can only disappear. `StopOK` says what a stop knows
at each place: once it has asked the lock for the holder, the owner it started
with is on its list until it is gone; a pid is taken off the list only when the
process is dead, hence no owner. It needs `RecordInv`, a record names a process
that was born, for the pid that was alive when the record was read. `StopStops`
follows. `NamedInv`: the record is of a daemon that has the lock, or had it when
it died, and a daemon past writing its own finds that or none, because whoever
writes has the lock and only writers get there; a daemon that has released the
lock and is not yet gone is either past removing its record or is one whose
handshake was not heard; gives `RecordNamesOwner`. `LifecycleUsesClaim`: the lock
as the lifecycle uses it is `WorkspaceClaim`, the specification that `DaemonLock`
implements, so that the two levels fit.

`RunnerProofs`, a run (no assumption but the constants' types). Seven
strengthenings over the type invariant `Typed` and `RunsInv` (the run in
progress has not returned; later runs have left nothing):

- `StopInv`: steps not reached have no outcome, and an outcome that stops the run
  is remembered in the flag, gives `StopIsFinal`;
- `TeardownInv`: the teardown steps passed so far were handled, gives
  `TeardownRuns`;
- `CancelInv`: a cancellation in time is on record or a step is left that will
  notice it, gives `CancelledInTime`;
- `RowsInv`: without an engine error every step behind has its row, gives
  `SettledIsComplete`;
- `GapInv`, while step rows can be written: recorded main steps have no gap, so
  that a position computed by counting them is the right one; gives
  `ResumeIsCovered` with a counting lemma about `DefaultResumePoint`;
- `PinsHaveRows` gives the action property `PinsSurvive`;
- `FreshRows`: a step has no row before it is finished, and a purged run has none;
  gives the action property `RecordsStay`, without an assumption about the store.

`RunnerProofs`, a block. `OrderInv` (an iteration's executed steps are a prefix of the
block's) gives `RunsInOrder`, `LatestExecution`; `PollInv` bounds the calls of a
poll by its clock, `LateCallsInv` the calls after a cancellation, and `OutcomeInv`,
with it, ties the result to what the iterations did. `IterationsAreBooked`: the
counters are sums over the iterations. Such a sum is a recursive function of
numbers, and the library's induction takes a predicate, which the provers here
cannot instantiate; `NatLessThanWellFounded` and `WFMin` give a least element of
a set of numbers, which is induction enough (`LeastNat`).

`EventBusProofs`. `LockInv` (a subscriber's lock has one holder, whose channel is
open) gives `NoSendOnClosed`; `OrderInv` bounds what may still be sent by what was
sent and gives `InPublisherOrder`; `NewestInv` aligns a buffer with the tail of
what its subscriber was sent and gives `NewestKept`; `CompleteInv` follows a
publication through its snapshot and gives `CompleteStream`. `LostInv` says which
events the counter has counted: those a subscriber was sent and has neither read
nor in its buffer, but for the one a publisher is about to put there; no event is
counted twice because nobody is sent one twice (`SentInv`). Gives `DropsAreCounted`.

`IndexSyncProofs` (assumptions: the window is positive and no longer than the
cap). A goroutine in the middle of a sync has a service, which `TypeOK` needs.
`Punctual`: the clock of the oldest pending change runs only while something
pends, and what the timer has left ends within its budget. Both restarts and
stops clear the timer with what pends; gives `FlushWithinMaxDelay`.
`SettledCatalogIsIndexed`: the index of a service is what its files say, or
somebody is on the way to read them again, or the loss has a name
(`IndexedOrAhead`). It needs that the latest reading is of the files as they are
(`LatestMatches`), that a fingerprint vouches for what is indexed
(`PrintsAreTrue`), since Open believes it, and that a removed service's rows
stay gone (`GoneIsAbsent`, for which `RemovedFirst` has the registry changed
before the catalog).

`SemanticSwapProofs` (assumption: the goroutines are different ones).
`CloseIsClean` needs that swaps exclude each other, so that the worker a swap has
drained is still gone when it is installed; that a worker which is gone has no
job; and that after Close has drained, a worker or a reindex appears only through
`late` work. `CleanInv` is the conjunction. `VectorsEndCurrent`: every item has
the current vector, or waits in the catch-up, in a queue or with a writer for a
job that reads or carries its current text, or is at hand, listed by a reindex,
or a full reindex is ahead, or is on record (`EverythingCovered`); what a job
carries is never newer than the text (`JobsAreOld`), so that a vector written
over the current one is an older reading; the worker embeds under the applied
model because every swap drains it, and a reindex that still holds a vector of a
replaced model has another reindex behind it (`OldModelIsRedone`).

`KnowledgeStoreProofs`. Rows: while no change waits and at most one reindex is
in progress, which began in a quiet moment (`Sure`), a reindex has the last of
the readable files it is done with in the row (`Scanned`), because it takes them
in the order of their paths and nobody else writes the row; when it is through,
that is the file a fresh reindex would choose, or there is none that parses.
Gives `SettledItemMatches`. Texts: as long as requests
have not overlapped, the one in progress finds what it looked at (`Relies`), and
a text that is owed is in a file, or in the row of a personal memory while no
reindex is about to drop it (`Kept`). Gives `TextStays`.

`FlowTiersProofs` (assumption: finitely many ids and places). Texts: the target of
a request that nothing overlaps is free until it writes it (`TargetFree`), and
between the halves of a move across volumes both places have the text; gives
`TextsStay`. `FoundInv`: a rebuild has, for every row it has read of a file it has
listed at the row's path or under the flow's name, the file still to parse or a
row of its flow found; gives `FoundStayListed`. `RowInv`: what a rebuild has read
of its tier is what the files say (`Fresh`), or the tier was touched since and
somebody will read it again; a tier nobody touched since its fingerprint was
stored matches its rows, which is what lets Open skip it. Gives
`SettledTiersMatch`.

`FlowScopeProofs`. The validator's order is shown to be the order in which a run
passes the steps. `BehindInv`: a step without a `when` that the run has passed
has a value or was left out, and likewise inside an iteration
(`BehindInLoopInv`). `AheadInv`: what has a value is behind the run, in the loop
it is in, or was reused with a block it is no longer in. Both restarts of the
walk, a new phase and a new iteration, keep them, and so does the reuse of a
block, which restores records in a batch. They give `CleanReferencesFind` and
`RejectedReferencesFindNothing`; `ValuesAreOfLatestResult` needs, for the batch,
that the last record of a step is the one that stays.

Only model-checked: the liveness properties `EveryRunReturns`, `BlockEnds`,
`PublishNeverBlocks` and `EverybodyReturns`, since fairness is out of the
prover's reach; and what the violation run refutes.

## 5. Findings

Refuted by a run of its own, `overlap`: two daemons that start together both
acquire the workspace (`lock.go:62` removes, as stale, the file the other has
created and not yet written), against `lock.go:13-20`.

Met while modelling, in the models as the code does it, and left out of the
properties on purpose, so that what remains is what the code does promise. First
where a comment of the repository says otherwise:

- The lock of a live daemon is taken over by one that cannot read the lock file
  or may not signal its holder (`lock.go:92-95`, `daemon.go:173`; `misjudged`),
  against `lock.go:19` and `:33-35`.
- A daemon serves without a record. A stop removes whatever `daemon.json` is
  there once the one it stopped is gone (`daemonctl.go:147`), its successor's
  too, and so does Find after it met a dead process (`daemon.go:249`), against
  `serve.go:80-81`.
- A memory or an example whose file does not parse loses its row at the next
  reindex (`memory/store.go:396-420`, `example/store.go:410-440`), against
  `memory/store.go:379-381` and `example/store.go:402-404`.
- A flow whose file does not parse loses its row when its file's name is not its
  id and it is moved (`flows.go:942-946`), or when the rows cannot be read
  (`flows.go:929`), against `flows.go:923-927`.
- Of two updates of a memory the older one's vector may stay with no job dropped,
  because the job carries the text and is sent after the store's write
  (`memories.go:57`), against `semantic.go:32-35`. The watcher embeds the
  memories of the workspace and local tiers again some time later; personal ones
  and those of services wait for the next update, start or full reindex.

And the others:

- Starting daemons. find-or-start kills a daemon that holds the lock and has not
  yet written `daemon.json` (`daemonctl.go:258`, whose comment above speaks of an
  orphan), for instance the one another `sapien mcp` just spawned: the lock is
  taken at `serve.go:102`, the record written at `serve.go:211`. Two commands that
  both met a daemon of an older build stop each other's replacement, because the
  second look at `daemon.json` (`daemonctl.go:349`) does not compare versions.
- Runs. A synchronous run whose client disconnects leaves its row `running`
  (`runner.go:468` uses the caller's context). A pin set during a run is
  overwritten when the run finishes (`runs/runs.go:124`), and a purge can then
  take it. A teardown step that uses up the teardown timeout cannot write its row
  (`runner.go:453`) and makes a run errored that had passed, where
  `docs/flows.md:300-302` says that teardown outcomes "never change the run's
  status". With a step row the store failed to write, the default resume point
  skips that step (`resume.go:178`).
- Resuming. A step its own `when` had skipped is reused as present with an empty
  value (`runner.go:302`, `:345`), so that `has(steps.x)` turns true in the
  resumed run, where `resume.go:250-252` wants references to "resolve exactly as
  they did in the earlier run"; inside a block such a record replaces the value
  of an earlier iteration (`ReadsLatestResult` counts it as a result). A step before
  the resume point that the earlier run had no row for is absent without the
  error `forwardRefError` gives, which is for runs without an earlier one. A
  block is reused with the records of every step the earlier run had in it
  (`block.go:309-339`): a step an edit has moved out of the block, behind it, has
  the earlier run's value before the resumed run comes to it, and a reference to
  it that the validator rejects as out of order finds that value.
  `RejectedReadsFindNothing` leaves it out (`Relocated`).
- References. A nested step may name its own block, which has no value before its
  last iteration; the validator is silent (`validate.go:1054-1074`).
  `CleanReadsFind` leaves it out (`OwnBlock`). `ReferencedSteps`
  (`flow/templates.go:135-191`) does not look inside a block's nested steps.
  Steps skipped by a stop, a cancellation or `until_step` are present and empty,
  so `has()` in a teardown step holds for a step that never ran.
- Services. `Add` never restarts the watcher (`services.go:73`; `Bind` does), so
  edits of a service added to a running daemon are not seen. Fingerprints are
  computed after the sync they vouch for. `Open` alone records the fingerprints
  of the memories', examples' and flows' directories (`staleness.go:167`): a flow
  created under a daemon and removed without one has the directory look as it
  did, and stays listed.
- Memories and examples. The directories of examples are not watched. A
  rescoping to personal removes the only file before the row is written. Two
  requests that overlap on one item may remove each other's file; a failed
  `os.Remove` is ignored. `Move` writes the text it read before another request
  changed it.
- Flows. A flow moved by hand from the local to the workspace tier wedges the
  rebuild of both until the next change: the workspace tier is rebuilt first,
  fails on the id's other row, and the local tier is left out (`flows.go:875-880`).
  Two `CreateIn` of one id in different tiers pass their checks together
  (`flows.go:344-352`); an `Update` racing a `RescopeWith` creates the old file
  again.
- Semantic search. Overlapping settings requests may leave out a reindex, and one
  that loaded the configuration before another wrote it may install it last
  (`settings_semantic.go:173-183`): semantic search then stays on where the file
  turns it off, until the next request or start. A settings request that overlaps
  Close may start work that Close does not wait for. A full reindex that fails
  after its first deletion leaves the index without those vectors
  (`semantic.go:624-635`), and nothing retries it.

## 6. Plan

Done: ten components, each with a module, a run and proofs; every invariant and
action property a run checks is a theorem. Next:

1. the sessions of the daemon: browser terminals and their idle timers, the idle
   guard and the restart handler;
2. operations whose state is in one table: recent events, environments, friction
   entries.

Not modelled, and why: the parsers, the schema and field checks of flows, the
binding of inputs, the expression language, search ranking, rendering and SQL
reads are functions of data without a protocol; devices, embedders and git are
external programs. The workspace manager holds one mutex through open and close,
and what two openers could break is the lock's. Terminal sessions are the life
of an external shell; the idle guard's decision to shut down is one of the
causes of `Shutdown` in `DaemonLifecycle`. The remote engine and the MCP server
pass operations on. Migrations are applied in a transaction each by the lock's
owner; the self update is one process's download and rename.
