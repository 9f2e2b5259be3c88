# A TLA+ verification of memorize

`memorize` keeps a project's shared memory for coding agents: every command,
hook and background process appends to an event log (one SQLite file per
project), folds it into projection tables, distils observations into memories
and, when asked to, replicates the log between machines through a shared file
or an HTTP Hub. There is no server process: many short-lived OS processes work
on the same files, and almost every guarantee rests on the order in which they
read and write them. That is what these modules model.

Paths below are relative to the repository's own `src/` directory
(`PROJECT.json` writes them from the root of the checkout, `src/src/...`).

## Inventory

| component | state it keeps | operations | what makes it hard |
|---|---|---|---|
| Event log: `storage/event-store.ts`, `storage/db.ts` | rows `(seq, id, ...)`; `seq` = max + 1 | appendEvent(s), insertExternalEvents, readEventsSince/UpTo, readHeadEventId | watermarks name rows by id; an unknown id means "everything"; rows are deleted by gc and their numbers reused |
| Sync: `services/sync-service.ts`, `auto-sync-service.ts` | `sync.json`: status, push and pull watermark | autoPush, autoPull, updateSyncState, clone | unlocked read-modify-write; crash between the relay's answer and the watermark; a status that locks later pushes out |
| Transports: `adapters/sync-transport-*.ts` | relay file / Hub log | push, pull, account calls | line-by-line appends, duplicates, lost answers, dedup by id |
| Lockfile: `storage/file-lock.ts` | `<name>.lock` | withFileLock | forced reclaim after a timeout, double entry, crash inside |
| Directory lock: `storage/fs-utils.ts` | `<file>.lock/owner` | withFileLock, writeJson | stale break, bounded retries |
| Consolidation: `services/consolidate-service.ts` | event watermark, transcript offsets, trigger | consolidate | minutes-long extraction while captures go on; several writes in no transaction; lost meta table |
| Capture: `services/capture-service.ts` | (the log) | captureObservation | runs in many hooks at once |
| Personal store: `services/personal-store-service.ts`, `personal-sync-service.ts` | a log and a sync state of its own | route, list, sync | best-effort write in the middle of a boundary |
| Reclamation: `services/gc-service.ts` | (the log, both watermarks) | gcUnpushedRetracted | deletes history that other components point into |
| Projection: `projections/projector.ts`, `services/projection-store.ts` | tables, FTS, topic files | rebuild, reads | fold depends on row order; a slow rebuild overwrites a newer one |
| Sessions and hooks: `services/session-service.ts`, `hook-service.ts`, `storage/cwd-session-store.ts` | session rows, cwd pointers | start, resume, pause, end, reap, heartbeat | several agents in one directory; crash between event and pointer |
| Watcher: `services/watcher-service.ts` | `watcher.lock` lease, inbound marker | acquire, renew, release, tick, loop, spawn | takeover of a stale lease by two processes |
| Live sharing, conflicts: `services/realtime-share-service.ts`, `conflict-service.ts` | a watermark per session | build and deliver update, promote and resolve conflicts | watermark advanced before delivery, over a window read earlier |
| Tasks, task requests: `services/task-service.ts`, `task-request-service.ts` | (projection) | create, update, handoff, items, checkpoint; request, accept, decline | validated against a projection, appended later; two projects and several replicas |
| Decisions, retraction, revert, contradictions: `services/project-service.ts`, `contradiction-service.ts` | (projection) | record, supersede, retract, revert, detect | several rows say which memory is valid, from replicas that have not met |
| Projects, bindings, migration: `services/project-service.ts`, `setup-service.ts`, `repo-identity.ts`, `migrate-service.ts`, `storage/bindings-store.ts` | `bindings.json`, genesis, sync file, NDJSON files and marker | init, setup, relocate, clone, genesis repair, migrate, cleanup | unlocked file of all projects; several writes in no transaction; folders move |
| Workspaces, credentials: `services/workspace-service.ts`, `storage/credentials-store.ts` | remote, role cache, registration (in `sync.json`); token per host | create, join, invite, bind, reconcile, refresh, register, gate; login, logout | state read before a call to the Hub and written back after it; roles change there |
| Install, init, update, doctor: `services/install-service.ts`, `update-service.ts`, `onboarding-service.ts`, `repair-service.ts` | agents' configuration files, instruction files | install, uninstall, init, setup, update, doctor | edits of files that belong to others, over every form older versions wrote |
| Search, retrieval, embeddings, context | derived indexes | - | ranking; no protocol of their own |
| CLI, MCP, renderers, export and import, encryption, content safety, telemetry | none or one file | - | text and pure functions |

Processes share the log, `sync.json`, `bindings.json`, lockfiles and the meta
table; hooks spawn detached consolidations and a watcher; the watcher and session
boundaries call autoPull and autoPush; these first reconcile the workspace
binding; gc rewrites the log under all of them; every command rebuilds the tables
that every other one checks.

## Modules

| module | models | role |
|---|---|---|
| `EventReplication` | what sync promises: sets of events, published and learnt | abstract specification |
| `SyncService` | push, pull and updateSyncState of several processes on several machines, with the relay | detailed specification; `AbstractSpec` is its refinement |
| `FileLock` | `withFileLock` of `storage/file-lock.ts` | in ticks of one retry interval |
| `Consolidation` | one project's boundaries, with captures and rebuilds around them | composes the lock's outcomes (acquired, reclaimed, stolen) with the boundary |
| `Consolidation_proofs` | | theorems |
| `Gc` | one store's sweep, with the boundary, push and pull it races | composes log, consolidation watermark, both sync watermarks and the sweep |
| `Gc_proofs` | | theorems |
| `Watcher` | the watcher's lease, takeover, loop and exit, with the sessions that keep it alive | in units of one poll interval |
| `Lockfiles_proofs` | | theorems about `FileLock` and `Watcher` |
| `Sessions` | SessionStart, SessionEnd, reap and heartbeat over one directory's pointers | composes the session events, the lagging sessions table, the pointer files and the 'session-start' lock |
| `Sessions_proofs` | | theorems |
| `Projector` | the fold: lanes, task and request status, decisions, conflicts, validity of memories | operators, used by `Projection` |
| `Projection` | the commands that write through the tables, and live sharing, over stores that exchange logs | composes log, tables, workspace, share watermarks and `Projector` |
| `Replicas_proofs` | | theorems about `SyncService` and `Projection`, which share no state |
| `Projects` | which project a folder belongs to: bindings, creation, setup, relocation, clone, sync, genesis, migration | composes bindings, logs, the relay, sync files and the user's moves |
| `Projects_proofs` | | theorems |
| `Workspace` | where a project is synced to: remote, role cache, registration, credentials, Hub | composes `sync.json`, the Hub's view of this account, both stores' watermarks |
| `Workspace_proofs` | | theorems |
| `Install` | the edits of agents' configuration and instruction files | with the user editing the same files |
| `Install_proofs` | | theorems |
| `MC...` | | instances for TLC: constants that are functions, symmetry |

An action is the code between two `await`s (or between two system calls, where
another process can get in between). Names follow the source: `PushGate` is
autoPush's test of `syncStatus`, `Load`/`Store` the two halves of
`updateSyncState`, `TryCreate`/`Reclaim`/`Recreate` the three attempts of
`withFileLock`, `ReadWindow`, `Extract`, `Rebuild`, `RoutePersonal`,
`WriteMark`, `WriteOffset` the sections of `consolidate`, `Eligible`, `Needed`,
`Doomed`, `Target` the sets `gcUnpushedRetracted` computes, `Judge` and
`Relocating` are `decideRelocation` and `relocateProject`, `Heal` is
`ensureProjectGenesis`, `Reconcile` and its three outcomes
`reconcileWorkspaceBinding`, `Gate` is `requireOwnerForGlobalRetract`, `WithHooks`
and `WithoutHooks` the writers and the strips of `install-service.ts`. `PROJECT.json`
gives the lines of every definition.

### SyncService

`seq[r][e]` is the row number of event `e` on machine `r`; `sync[r]` the three
fields of `sync.json` that sync steers by; `relay` the lines of the relay;
`job[p]` the locals a process carries between two steps, `base` among them: the
copy of `sync.json` a process is about to write back. Rows of type
`sync.state.updated` are not kept, because push filters them out and no step
here reads them. `Hub` chooses between the file relay (append every line, under
a lock) and the Hub (skip known ids, report only the added ones). A live holder
of the relay file's lock is assumed to finish its batch before the lock counts
as stale (30 s); encryption changes payloads, not ids, and is left out; the
one-time self-binding of a remote and the projection rebuild of a pull do not
touch this state.

### FileLock

`phase` is where a process is in `withFileLock`, `LetGo` its `finally`. `wait` and
`held` count ticks; `Tick` passes only when nobody can take a step
within the current one, so file operations are fast against the 50 ms interval.
The tick of the deadline test is the waiter's, as in the code. A process is
killed at most inside its body: elsewhere it holds no file.

### Consolidation

A row of `log` is an observation or all the memories of one extraction
(`appendEvents` is one transaction). `built` says how much of the log the
memories table reflects; `OtherRebuild` lets any process set it to what it read
at any earlier moment. `distilled`, `routed` and `told` are history variables.
Raw segments are taken as enabled and as stored with the memories, in one step;
embeddings, contradiction detection and attempt telemetry, which are best effort
and touch neither watermark, are left out; one transcript is modelled. What
`Killed` stands for is a lockfile that FileLock's `Reclaim` takes from a dead
process; `Steal` is its reclaim from a live one.

### Gc

Events are tagged tuples and a watermark is an event. The log and the relay are
orders: functions that number the events they have from 1 (a row's `seq`, a place
on the relay) and give 0 to the others, for every decision here compares two such
numbers or asks for the last. A new row takes the number after the highest, as
SQLite gives it (`INTEGER PRIMARY KEY`), so the numbers of deleted rows come back
when they were the last. The memories table follows the log at once (its lag is
Consolidation's subject), one sweep runs at a time, and the relay dedups by id.
`premise` is a history variable: it stays true as long as every deletion
happened in a state in which what the sweep takes for granted was so, namely
that no row above the push watermark is on the relay, that no push and no
boundary is under way, and that the sweep was not killed before its repair.

### Watcher

`lock` is `watcher.lock`: who wrote it, whether its body is there yet, and the age
of its lease in poll intervals. `Create` and `Fill` are the open and the write of
`writeFile(.., { flag: 'wx' })`; `Verify` and `Renew`, `Release` and `Drop` the
read and the write of a renewal and of a release. A reader's verdict on a holder is
`MayBeStale` or `MayBeLive`; they overlap where the clock or a reused pid decides.
`session` sums up the cwd's pointers as `watcherShouldExit` reads them; `TickDone`
is a whole `watcherTick`, whose pull and push are SyncService's. A tick takes up to
`MaxTick` intervals; every other step happens within one. The renewal's write
replaces a file atomically, as `writeJson` does. `evicted` and `lost` are history.
`MEMORIZE_WATCHER_MAX_TICKS`, a test's knob, is left out.

### Sessions

`log` holds the session events, `built` how much of it the sessions table was folded
from: `RebuildRead` and `RebuildWrite` are the two halves of every
`rebuildProjectProjection`, and a slow one may put an older table back. `ptr` is the
directory's pointer files. `job[p].at` is where a process is between two file or
database operations. `Age` lets the staleness threshold pass for a session; hooks
and commands end well within it, so it happens between processes. The lock of
`session-start` excludes, and a killed holder's file is reclaimed: FileLock shows
under what circumstances (a body within the horizon). A session that SessionEnd or a
heartbeat resolves by environment, process tree or terminal is any one that has a
pointer. `forced`, `lapsed`, `overwritten` and `crossed` are history variables: tasks
given out when none was free, sessions that at some time did not claim, a table
replaced by an older one, and a reap that overlapped a resume or a pause of a session
it had listed. `OnePointer`, `ClaimedOnce` and `PointersMatch` fail without the
provisos made of them: the races behind them are real, and nothing in the code closes
them. Ambient sessions (no project), the legacy pointer file and `endSession`, which
nothing calls, are left out.

### Projector and Projection

`log[s]` is a store's rows in the order of their `seq`; a row names the entity it
creates (`id`) or the ones it changes (`ref`, `to`), its lane (`src`, `proj`) and the
one field of its payload a decision reads (`tag`). The reducer walks over the rows;
`Projector` says what it arrives at: a row stands for its entity, and the rows after
it that name it tell what became of it, within a lane or from any lane as the code
has it. `tables[s]` is how many rows the tables were folded from, so that a command's
check reads `Table(s)` and a slow rebuild may put an older number back. A command
checks, appends (one batch or two), reads the log and replaces the tables, with steps
of other processes between; the read is taken with the append, since a later one
only sees more. A pull brings the rows of the workspace in the order the Hub has
them, which is what keeps a retraction behind the memory it names.

Live sharing is one hook: `Compose` scans, caps and notes what it leaves out,
`Advance` moves the watermark, `Promote` makes a collision a conflict, `Deliver`
shows. `since`, `shown` and `passed` are history. A row's age (what counts as recent)
and the warning about simultaneous git operations are left out. Two reductions
are made. Commands of two stores touch nothing in common, so they are taken one after
the other (`Free`), and only those of one store overlap. And a behaviour runs one of
ten mixes of commands (`Mixes`): tasks with tasks, memories with contradictions,
hooks with consolidation and so on, because a task changes nothing a memory
command reads. A memory distilled from a window stands for all of that window's
with one kind and text.

### Projects

`place` is where the user keeps each checkout; `bindings` is `bindings.json`, read and
written in two steps (`ReadBindings`, then `BindFolder` or `UnbindFolder`); `log`,
`row` and `sync` are a project's database, its row in the tables and its sync file. A
command is a list of steps that may stop after any of them (`Kill`). Project `Old` is
of the NDJSON era, with two legacy files and no row until it is migrated; `Shared` is
on another machine. What git says of a checkout is a constant (`Origin`, `Commit`), so
that forks and twins are a matter of the instance. Import of instruction files is one
step with its rebuild. `Has`, `Fold` and `IsGenesis` are the reducer's treatment of a
genesis: the last one stands. `relay` is what other machines have put on the remote of
a project that this one shares by its own id, be it `Shared`, cloned here, or a project
from here after its first push: the real genesis of `Shared`, a genesis some clone made up
while it could not pull (`MadeUp`) and a relocation there (`Moved`); `PeerPushes` may
add the last two at any time. `Pull` puts all of it that is not in the log yet at its
end, as `insertExternalEvents` does, for a clone, for `project sync` and for a session
start alike. Other events of other machines change nothing this module looks at and are
left out, and so are the later pushes of auto-sync, which change nothing here. A
remote that is a workspace (`wsp_`, or bound by hand) gives a store the geneses of other
projects, which the fold treats as labels: that belongs to `Workspace` and `Projection`.
`displaced`, `raced`, `cut`, `overtaken`, `adopted` and `silent` are history.

### Workspace

`file[l]` is what the workspace code, push and pull keep in `sync.json`, for the
project and for the personal store ("diary"); `hub[w]` what the Hub says of this account in a
workspace; `received` how much of a store each remote has. A command reads the file
(step `x`), calls the Hub and writes back what it read with its change (step `x!`).
The call may be refused, fail, or change the Hub and lose its answer. Other members
change roles, remove this account or claim the project's id; a key may be revoked.
How push and pull move their watermarks in detail is `SyncService`'s subject; here each is
one call. `astray` marks watermarks that came from another remote than the one bound:
`Published` speaks of all others. `lent` are workspaces bound by hand while the role
cache held another workspace's role.

### Install

A configuration file is a set of entries `<<event, what>>`, where `what` is a form of
memorize's own command, one of the user's hooks, or the MCP server; an instruction
file is a sequence of tokens (markers, rule, the user's text). An installer is its
list of steps, each a read and a write with others between. `Recognised` are the
forms the token of memorize stands for, `Refreshable` those update looks for. `stamped`
says that the last write to a file was an install, `raced` that somebody's write
landed on a change it had not read. Codex's home, Gemini's and Hermes's files are one
for all projects, Claude's and Cursor's one in each. `doctor` is two operators, since
it changes nothing: `OneHookEach` requires that it finds nothing wrong in what an
install leaves.

## Runs

| run | instance | states | shows |
|---|---|---|---|
| `SyncRelay` | 2 machines, 2 events, 2 pushers, 1 puller, relay of 2 lines, 1 fault | 262,216 | `SyncInv`, sound watermarks, history kept, refinement of `EventReplication` |
| `SyncLive` | Hub, 1 event, 1 pusher, 2 pullers, 1 fault | 13,834 | `Delivery` |
| `FileLock` | 3 contenders, horizon 1, bodies up to 2, 2 calls each, 1 crash | 35,036 | `LockInv`: exclusion until a reclaim, bounded waits; `Progress` |
| `Consolidation` | 2 boundaries, 1 observation, 1 turn, 2 batches, 1 fault | 263,240 | `DistillInv`, `NothingSkipped`, `DistilledOnce`, `RoutedOnce`, `EventuallyDistilled` |
| `Gc` | 1 observation, 2 memories, 1 event of another machine | 1,340,814 | `ProvenanceKept`, `NoRevival`, `MarkOnLog`, `SharedKept` |
| `Watcher` | 2 watchers, 2 session starts, ticks up to 1 interval, 2 failures in a row, 1 kill | 67,138 | `WatcherInv`, `LostBounded`, `SessionBound` |
| `Sessions` | 3 processes, 4 hooks or commands, 2 conversations, 2 tasks, 1 kill, 1 ageing | 473,263 | `SessionsInv`, `OnePointer`, `ClaimedOnce`, `PointersMatch` |
| `Install` | 2 commands, 2 machines (3 and 4 agents), 1 project, 1 edit, break or move on PATH | 654,674 | `OneHookEach`, `HooksKept`, `TextKept`, `ApprovedHooks` |
| `Projects` | 2 processes, 3 runs, 4 projects, 4 folders (one inside another, two of one name), 2 checkouts, 1 move, kill or push of another machine | 866,236 | `BoundComplete`, `StaysBound`, `Followed`, `TrueGenesis`, `LegacyKept` |
| `Workspace` | 2 processes, 3 runs, 2 workspaces to mint and 1 of another account, 1 event, 1 upset | 1,389,608 | `Published`, `OwnerRetracts`, `Attributed` |
| `Projection` | 2 clones and another project, 2 processes, 2 sessions, ten mixes of up to 3 commands, 1 kill in two of them | 233,783 | `ValidityConverges`, `TruthStands`, `RequestBacked`, `ShareComplete` |
| `Retraction` | the same | - | violation: a retracted memory's twin comes back |

Bounds. Two events are the least for a batch with an order and a hole in it; two
machines for a row that is on a relay and not here; one pusher on each machine
for two batches on one relay file; a relay of two lines for a batch that is cut
by a failure; one fault for each kind of crash point, since a fault returns a process
to where it started. In `FileLock` a body of two ticks outlives a horizon of one, so
reclaims of live holders happen; three contenders are the least for two reclaimers of
one file. Two boundaries overlap once a lock is stolen; two batches are the least for
a double distillation; one observation that is captured at any moment is enough for a
window to miss it, and the instance with a second one takes TLC far longer. Two memories of
one observation are the least for a survivor that shares an observation with a
reclaimed memory. Two watchers are the least for a takeover, a lease of two intervals
expires under a tick and a failure in a row, and one kill leaves a lock whose pid
another process may have. In `Sessions` two conversations compete for two tasks, and
four operations are a start each, a reap, and a resume of what it removed.

In `Install` the files start with every form older versions wrote and every kind of
entry a user may have, so that two commands (install over install, uninstall over
update, any pair interleaved) reach every combination of a read with a foreign write;
all seven agents are there, on two machines: agents share nothing but `AGENTS.md`, which
on each machine several of them write. In `Projects` four projects are the two there are and two new ones,
three runs let a command follow two that raced, and one upset is a move, a kill or a push
of another machine, so that no behaviour has two of these; the session start, setup or
pull that follows any is there. In `Workspace` the second
minted workspace is the one minted by a boundary that raced the first; one event is
enough because a watermark is either behind it or past it. In `Projection` two clones
distil the same window before they meet; three commands are two that differ and one
that judges them; `MaxLive` 1 and `MaxScan` 3 let a delta be cut by either limit. The
proofs remove the bounds from the safety properties they cover.

Fairness. `SyncService`: each boundary recurs and a started round keeps running
(`WF` of a process's steps; kills and failures stay possible until the bound),
because session starts, compactions, commands and the watcher's poll keep calling
autoPush and autoPull; a dead holder's lock directory is removed by the next
contender. `FileLock`: timers fire and a running process runs. `Consolidation`:
boundaries recur, and an extractor asked again and again answers in the end
(`SF` of `Extract`): without that assumption a model that always times out never
distils anything, by design of the retry. `Watcher`: a hook that has begun spawns,
a running process runs and intervals pass; ticks may throw for as long as the
failure limit lets them. No fairness is assumed of captures, commands, other machines
or faults, and none in `Gc`, `Sessions`, `Install`, `Projects`, `Workspace` and
`Projection`, whose properties are all about safety: their commands are run by a user
or an agent, whom nothing obliges to run another.

Deadlock is not checked: all of these systems may stop, since events, calls and
faults are bounded and nobody has to run a command.

## What the code does that its reader may not expect

One run contradicts a text of the repository. `Retraction`: the
documentation of `retractMemory` promises that a retracted memory "stops surfacing in
list/search/injection". When two replicas had distilled one window into the same
memory, the fold shows the earlier one and hides the later; it applies retractions
first and skips what they closed when it looks for duplicates, so that retracting the
one that shows brings the hidden one back, with the same text. Supersession of the
winner has the same effect.

The properties above hold with the provisos their comments state. These are the
behaviours behind the provisos, all of which the modules contain:

- Sync: a pull that changes nothing still writes the sync state when another pull of
  the machine has moved the watermark. When the Hub already holds a whole batch (its
  answer to the first attempt was lost), it accepts nothing, the push watermark stays,
  and the same batch is sent at every boundary until a new event is appended.
- Lockfile: a waiter's deadline runs from its own start, so the third process in a
  queue reclaims the second's lock as soon as the two bodies together take the
  horizon. For 'consolidate' that is a second extraction of the same window.
- Reclamation: rows pulled from another machine count as un-pushed until the next
  push; retracted here in the meantime, they are deleted for good while the relay and
  the others keep them.
- Watcher: `wx` opens exclusively, but the body is written afterwards, and an empty
  body counts as no holder: two SessionStarts may both acquire the lock. The renewal
  ends one of the two, at most `MaxTick` + `MaxFailures` intervals later.
- Projection: two accepts of one request, on clones that have not met, mint two tasks,
  and the last answer names one; an accept and a decline are resolved the same way.
  Commands on a task of another project append a row that the fold ignores. Two
  supersessions of one decision leave two accepted ones; one collision may be promoted
  to two conflicts; a status may follow one it could not follow. A hook killed after
  the watermark loses the update; two hooks of one session may deliver it twice, and
  the slower may move the watermark back.
- Projects: two setups of one unbound folder create two projects. Of two bindings
  written at once one is lost, and a relocation may remove the binding another project
  has just taken; two opposite relocations may leave a project with none. A project of
  the NDJSON era has no row before it is migrated, so a move of its folder leaves it
  behind with no word. `createProject` killed before the sync file, in a folder that is
  then moved, leads to a bound project without one. A migration killed between two
  renames, or a log that anything was appended to before it, fails the comparison at
  every later attempt, though the events are safe. A workspace cloned into a project of
  its own has no git identity, so a move of it is never followed.
- Genesis: `ensureProjectGenesis` (project-service.ts:106) and `hasGenesisEvent`
  (event-store.ts:66) are there so that no second genesis with one id overwrites the real
  title, goals and folder "with reconstructed defaults" under the later-wins rule. They
  look at the local log only. A clone whose first pull failed, captured something and
  failed to pull again makes one up; its next push sends it like any other event, since
  `buildPushPayload` leaves out only `sync.state.updated`, and every machine that pulls it
  inserts it behind the real genesis and reads the project through it, the machine the
  project is from included. The module has all of that (`MadeUp`, `PeerPushes`, `Pull`):
  asked of it, `\A id \in Ids \ overtaken : Has(id, "created") => Fold(log[id]).kind =
  "created"` is refuted by a clone whose one pull brings both. `TrueGenesis` is what does
  hold: no genesis made up *here* stands behind the real one, unless the repair and the
  arrival of the real one overlapped.
- Workspace: every command that reads the sync state before a call writes all of it
  back afterwards, over what others wrote. `create`, `join`, `sync --bind`, `remote` and
  a change of transport keep the watermarks of the remote before, so that the new one
  may never get the events below them. A binding by hand keeps the cached role of
  another workspace, which the gate trusts when the Hub is silent, as it does when
  the key was revoked. Two boundaries at once each mint a workspace, of which one is
  left with nothing. `auth login` killed while the file is rewritten leaves no
  credential, for any host.
- Install: entries of other tools that have no command are dropped from the files
  Claude, Codex and Gemini share a writer for, and options beside the command (a
  timeout) with them. A start marker without its end, once a new block is appended,
  takes the text between the two with it at the next install. `memorize update` does
  not recognise the form of a Windows launcher. Two commands that write one file at
  once lose one of the two changes, the user's too.

## Proofs

Checked for every value of the constants that satisfies the named assumptions
(`SyncAssumption`, `FileLockAssumption`, `ConsolidationAssumption`, `WatcherAssumption`,
`GcAssumption`, `SessionsAssumption`, `ProjectsAssumption`, `WorkspaceAssumption`,
`InstallAssumption`, `ProjectionAssumption`: that bounds are numbers, special values are
not among the ordinary ones, and sets of ids, projects, stores and folders are finite; of
`Install` also that no older version had wired Hermes, whose hooks and approvals came
together). Every invariant and every action property the passing runs check is a theorem
of its specification. Two modules of proofs speak of two components each, which have
nothing in common but the room: `Lockfiles_proofs` of the watcher's lockfile and of
`FileLock`, `Replicas_proofs` of `SyncService` and of `Projection`. That is why `FileLock`
and `Projection` name their specification `LockSpec` and `ProjectionSpec`, and their
initial states, steps and variables likewise.

- `SyncCorrect`: `SyncInv` is inductive. `PushWatermarkSound` alone is not: a stale
  copy of `sync.json`, a payload or an answer becomes a watermark later, so
  `RoundSound` says of each point of a round that what it carries is as sound as
  the watermark it will become. The key lemma is monotonicity: a log and a relay
  that only grow keep every such fact, so overwriting a watermark with an older one
  is harmless. `PushedIsShared`, `PulledIsLogged` and `HistoryIsKept` follow.
- `SyncImplementsReplication`: under `have[r] = Logged(r)` and `shared` = what is on
  the relay, each step is a `Create`, `Publish`, `Learn` or a stutter. A sent line
  is an event of the sender's log by `BatchSound`.
- `LockExclusive`: `LockInv` is inductive; exclusion is stated until a lockfile is
  taken from its writer, because after that the code admits two bodies.
- `DistillCorrect`, `NothingIsSkipped`: as for sync, `RunSound` says of each section
  of a boundary that its window continues what was distilled; the lemma behind it is
  that `distilled`, `told` and the log only grow, and that an observation before the
  window's last row is distilled or in the window.
- `DistilledOnceHolds`, `RoutedOnceHolds`: `OnceInv` is about the opposite mistake.
  While nobody is killed and no lock stolen, the boundary under way is alone
  (`Orderly`), so what is behind either watermark, what the memories on the log name
  and what was routed or told differ by exactly what that boundary has done so far.
  A watermark lost with the meta table makes the window the whole log; the guard that
  reads the tables is then what keeps a second distillation off, which needs
  `imported <= built`: the tables are never older than the import.
- `WatcherExclusive`: `WatcherInv` is inductive. `evicted` turns true exactly when a
  step replaces or removes a lockfile whose writer is past its create and still
  running; until then whoever is there is the lockfile's writer. `Counted` bounds
  what the types alone do not.
- `LostEnds`: a watcher that lost the file has spent its intervals in the tick it is in,
  or in sleeps that each cost it a failure (`LostFrom`); it cannot take the file back.
- `PublishedHolds`, `OwnerRetractsHolds`, `AttributedHolds`: a command writes back a
  whole copy of the sync state it read before a call. `WorkspaceInv` says of every copy
  held what it says of the file (`Copies`), and of the steps a command has left that
  those which use a copy follow the one that read it (`Lists`). What the Hub received
  and whom it attributes a project to only grows, so old copies stay true.
- `LegacyKeptHolds`, `TrueGenesisHolds`, `FollowedHolds`, `StaysBoundHolds`,
  `BoundCompleteHolds`: a command is a list of steps, and a step is right because of
  what came before it. `ListInv` says of each list what its steps rely on: a file is
  moved when its events are in the log, a genesis is made up where none was read; lists
  that insert are followed by the one that compares. `GenesisInv` adds in which order the
  geneses of a log stand: a genesis made up here comes after a real one only where the
  two overlapped (`Ordered`), whatever pulls bring, which is all that `TrueGenesis`
  can say; and which checkout a genesis names, for `Followed`. The invariants
  behind `StaysBound` and `BoundComplete` add that a binding comes last in its list, after the events, the tables and the sync file, and what each copy of
  `bindings.json` that is about to be written back still says of the others.
- `SessionsInvHolds`, `OnePointerHolds`, `ClaimedOnceHolds`, `PointersMatchHolds`: `Inv`
  says what a process has on its hands at each point (`Shape`, `Jobs`), that the
  critical section of SessionStart excludes (`Locked`), that a session belongs to one
  conversation for good (`Owned`) and that nobody else knows of one being started
  (`Newborn`); on that, what a reap and a resume spoil for each other (`Uncrossed`),
  what a picker sees of those before it (`Claimed`) and how log and pointers differ
  while a hook is under way (`Matched`). `overwritten` is needed because a table put
  back to an older state hides a session from the picker.
- `ProjectionCorrect`, `ReplicasAgree`, `SomeMemoryStands`, `AcceptanceBacked`,
  `NothingUnseen`: none of the four properties is inductive, because each speaks of what
  the fold makes of a log, and the next row comes from a command that decided long before.
  `ProjectionInv` says three things instead. *Of rows* (`LogsInv`, `IdsInv`): an id names
  one row wherever its copies are, in a log, on the Hub or in a process that has yet to
  append it; a log holds a row once; and a row that answers another stands behind it
  (`Grounded`, `Firm`): a supersession behind an older and a newer memory of one lane, a
  retraction behind its memory, an acceptance behind the request and the task made for it.
  *Of commands* (`ProcOK`): the batches a process still has to append are firm on the rows
  of its store followed by its own earlier batches (`Sound`), and go on being so whatever
  is appended meanwhile (`FirmMore`); a rebuild replaces the tables by a prefix that holds
  every genesis (`TablesInv`), so a command that decided from old tables decided from rows
  that are still there. Push and pull keep all this because they hand rows on in the order
  of the sender's log (`Missing`, `Sorted`). *Of hooks* (`SharesInv`): what a watermark has
  passed is shown, left out or in the hands of a hook past its advance, and a hook about to
  advance holds all of its window that was not. Then `AcceptanceBacked` reads off `Firm`,
  and `NothingUnseen` off `SharesInv`. `SomeMemoryStands`: the newest memory of a
  lane is not superseded, since what supersedes it would be newer, so some memory of it is
  open, and of the open ones the oldest loses to no duplicate.
  `ReplicasAgree`: with ids unique and every row behind what it names, what a row closes
  depends on the set of rows and no longer on their order.
- `ProvenanceKeptHolds`, `NoRevivalHolds`, `MarkOnLogHolds`, `SharedKeptHolds`: `GcInv`.
  Under the premise nothing a sweep deletes is on the relay: its rows are above the push
  watermark, and those above it are on this machine alone. So no pull brings a deleted
  event back, neither watermark of sync names one, and a memory that arrived over the
  relay between the sweep's reading and its deleting has all its observations there,
  hence none of them among the deleted. What was captured in between is not in `Doomed`,
  which only names rows the sweep read. `Marked` is the repair: the row chosen is before
  the watermark's and not deleted, and the genesis row is always one.
- `OneHookEachHolds`, `HooksKeptHolds`, `TextKeptHolds`, `ApprovedHooksHolds`:
  `InstallInv`. A write is a function of what was read, and `raced` says whether that was
  still there, so it is enough what each update keeps of its input: whatever entries went
  in, one form of memorize's comes out (`Stamped`) and the user's stay (`Kept`). Of a text
  it is that each marker has its partner two tokens on and that there is one block
  (`Shape`): on such a text the first start and the first end after it are the block, and
  the tokens counted before and after correspond one to one. For Hermes, every approval
  stands right behind its hooks in every list of steps (`Lists`), also after a failure has
  cut a list and a judgement has filled one; only one command is between the two writes
  (`Alone`), and what it has written is what it will approve (`Approving`).

Only model-checked: the liveness properties (`Delivery`, `Progress`,
`EventuallyDistilled`, `SessionBound`) and everything about fairness; the violation
(`RetractionSticks`) and the mutants. Out of the prover's reach are liveness (it has no
rule for fairness and ENABLED) and what operators over sequences compute for inputs of
every length by induction; where a fact of that kind was needed (the last element of a finite set, the
number of events before another), it is derived from well-foundedness of the subsets of
a finite set, or the model states it as a choice among the values that satisfy it.

## Plan

Built, in this order, the most important behaviour first: replication, the lock that
serialises boundaries, consolidation, reclamation, the watcher, the sessions; then the
files of agents, projects and their folders, workspaces, and the commands that write
through the projection, with live sharing. Proved, in this order: replication and its
refinement, the lock, consolidation, the watcher, workspaces, projects, sessions,
reclamation, the files of agents, the commands and live sharing. What is left is to model
the checks of a status change against the tables (`services/task-service.ts`) as a property
of sequences of legal moves, and the retry loop of the directory lock.

## Not modelled

- Rendering, argument parsing, search ranking, embeddings and retrieval: text and
  numbers without state of their own. What they feed back (the pair a contradiction
  pass picks, the observations a delta shows) is a choice in the modules.
- Encryption and content safety: pure functions of a payload; ids and order, which the
  protocols rest on, pass through unchanged.
- Prompts and replies of extractors and judges: external.
- Telemetry: counters that no decision reads. DDL migrations: one transaction each.
  The account layout: one rename of a directory.
- Export and import of memories: a conversion of one file, then an append like any other.
- `memorize doctor` beyond its verdict on hooks: each check reads one place and prints
  a line. Listings of workspaces, members and sources show the Hub's answer.
- The directory lock's retry loop: it may run out while it retries a broken lock and
  enter without it; `SyncService` assumes the lock excludes.
- The threshold trigger of consolidation: `Consolidation` starts a boundary at any time.
