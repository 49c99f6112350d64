# Verification of AgentSpace

AgentSpace runs AI agents in containers behind one durable control plane. This
directory holds TLA+ models of its control plane, the TLC configurations that
check them on small instances, and TLAPS proofs of what matters most about them.
`PROJECT.json` lists components, runs, mutants, the map from definitions to
source lines, findings, hazards and theorems.

## 1. The system

| part | state | operations | talks to |
|---|---|---|---|
| **client_service** (`services/client_service_rs`) | SQLite rows of sessions, messages, workspaces; configuration document and its snapshots; in memory `active_turns`, the session lifecycle locks, `apply_lock`, observed gateway status | sessions: create, ensure, reset, delete, cleanup, kill; turns: send, stream, attach; configuration apply; gateways: create, update, delete, start, stop, reconcile at start-up; terminal and VS Code proxies | agent_host and memory over HTTP; browsers, CLI and gateways are its clients |
| **agent_host** (`services/agent_host_rs`) | in memory: session registry, gateway records, terminal leases; on disk: skills | create/adopt/replace/reset/destroy of kernel containers and volumes, orphan cleanup, gateway containers, PTY attach, skills | Docker; kernel_host over HTTP |
| **Docker** (external) | containers and volumes, by name, with labels | run, start, inspect, list by label, remove | |
| **kernel_host** and **kernels** (`kernels/`) | one kernel process, its history; a tmux session in CLI mode | stream a message, reset, terminal start/stop | the harness program |
| **memory** (`services/memory_rs`) | a file tree | read, write, rename, run | |
| **gateways** (`gateways/`) | chats and their sessions | bridge a chat service | client_service |
| **clients** (`clients/`, `channels/`) | none that lasts | send, reconnect, attach | client_service |

What is hard in this system, and therefore what the models keep:

- client_service awaits agent_host in the middle of almost every handler, with a
  timeout after which the call *goes on* in agent_host, and a browser that
  disconnects drops its handler at an await;
- agent_host's registries are in memory and Docker's objects are not: after a
  restart only labels tell what is whose, and names are truncated;
- configuration is changed by interactive requests that take no lock while an
  apply or the start-up reconciliation works through an older document;
- a turn belongs to the server: browsers leave and come back while the kernel
  streams, the store is written and the stream ends;
- whole records are read before an await and written back after it;
- files are replaced in several steps (skills, memory pages, workspace copies),
  any of which may fail or be the last one before a crash;
- values, bundles and event streams are converted on their way, by several hands
  that have to agree on what they mean.

Per component, what makes it correct: a session's operations do not overlap and
its files survive everything but a delete or reset; deletion leaves nothing
behind and never touches another session; cleanup takes only what no row owns;
a reconciliation ends with the containers the document asks for and destroys
only what the document does not have; a turn's messages are stored before they
are shown, one turn writes at a time and every turn ends; a tmux client serves a
socket that knows of it; what a skill route or a memory route acknowledged is not
lost; document, snapshots, secrets and staged skills agree whatever fails during
an apply; a workspace that is offered is whole; a value, an event or a file
arrives as it was sent. The hazards in `PROJECT.json` give the
source line at which each of these is at stake.

## 2. Modules

| module | models | checked by |
|---|---|---|
| `SessionLifecycle` | session handlers and lifecycle locks of client_service, session registry and Docker runtime of agent_host, Docker | `sessions_kept`, `sessions_reset`, `handlers_end`; `SessionLifecycle_proofs` |
| `Gateways` | gateway handlers, apply and start-up reconciliation of client_service, GatewayHost of agent_host, Docker | `gateways_kept`, `handlers_end`; `Gateways_proofs` |
| `Turns` | turns, streams, store and readers of one chat session | `turns_streamed`; `Turns_proofs` |
| `Terminal` | CLI sessions: control requests and sockets of client_service, leases of agent_host, tmux in kernel_host | `terminal_served`, `terminal_ends`; `AgentHost_proofs` |
| `SkillHost` | abstract: what the skill routes of agent_host promise | as a property of `streams_kept` |
| `SkillStore` | SkillsService on its file system | `streams_kept`; `SkillStore_proofs` |
| `ConfigApply` | document, snapshots, secrets, apply and every configuration route; the skills of agent_host at the level of `SkillHost` | `config_applied`; `ConfigApply_proofs` |
| `MemoryPages` | the page store of the memory service | `memory_served`; `Memory_proofs` |
| `MemoryRun` | one streamed command of the memory service | `memory_served`; `Memory_proofs` |
| `ConfigBundle` | YAML sources and bundles, skill validation, skill files | `data_passed` |
| `ConfigValues` | values, secretRefs, environments, edits, launches | `data_passed`; `Data_proofs` |
| `EventPipe` | the event stream of a turn over two HTTP bodies | `data_passed`; `Data_proofs` |
| `ToolCalls` | the message made of the events of a turn | `data_passed` |
| `Workspaces` | rows, volumes, copies and editors of reusable workspaces | `data_passed`, `mounts_saved`; `Data_proofs` |
| `SessionRecords` | the history of one session in agent_host and its kernel host | `streams_kept`; `AgentHost_proofs` |
| `VscodeProxy` | the editor connection through both services | `streams_kept` |
| `Options` | an optional value as a sequence of at most one | |

The `MC*` modules give the instances. Where a run asks the same kind of question
of parts that share no state, its MC module has *scenes*: a variable `scene` is
chosen at the start, one part moves and the others stand still, or one module
moves with other constants (`INSTANCE ... WITH`). A scene is never left.

### SessionLifecycle

A request slot `h` is an HTTP request: `pc[h]` is where its client_service
handler is, `step[h]` where the agent_host job of its upstream call is, `reply[h]`
the response in flight. `BeginLocked`, `LockGate` and `LockSession` take
`SessionLifecycleLocks` (a gate every handler reads and cleanup writes, and a
mutex per session). One group of actions per handler (create, ensure, reset,
delete, kill, cleanup) and one action per Docker call of a job, because that is
where agent_host interleaves. `cont` and `vol` map *truncated* names to objects
that carry the label of a session: `RunContainer` on a name without a volume
creates an unlabelled volume, as Docker does. Faults, each counted against
`MaxFaults`: a missing configuration, a refused write, a failed call, an exited
container, a restarted agent_host, a handler that gives up (timeout or
disconnect), which leaves a detached job. Session ids are never reused, a row
that was deleted stays `"deleted"` so that properties can speak about it.

### Gateways

A process `p` is an interactive request, an apply or the start-up task. `doc` is
the document's gateways, `rec` the records of `GatewayHost`, `cont` the
containers. `todo` is the work that a reconciliation has left (`ListUpstream`
computes it from the document it saw and the list it got, `NextTask` takes the
next item in the code's order), `tries` the attempts of a retry loop, `jobs` the
calls in service. A create holds the records mutex until the container is ready
(`RecordsFree`); a destroy takes the record first (`TakeRecord`) and removes the
container later (`DropContainer`). 409 leads to destroy and create again
(`Replace`, `Recreate`), 404 on destroy counts as success (`TakeReply`).
A create ends with the status that the gateway itself gives when it is asked
(`AskStatus`): "running", "starting", or "error", also when the question fails. A
gateway whose container is there may report any of them (`Reports`); one whose
container is not there cannot be reached. Whatever is reported, the start counts as
done, in the code as in the model.

### Turns

`turn[t].pc` follows the handler or task of a turn: `Send`, `Ensure`, `Begin` or
`Refuse`, `MarkBusy`, `AppendUser`, `Placeholder`, then for a streaming turn
`OpenStream`, `NextEvent`, `Broadcast`, `EndOfStream`, `Finalize`, `GetUpstream`,
`SendFinal`, `DropGuard`; a synchronous one goes from `AppendUser` to
`SyncReply`. `stored[t]` is the assistant message as the number of events in it
(0: no message, 1: the empty placeholder). `subs[t]` and `final[t]` are the
stream's subscribers and final payload, `reader[r].queue` the bounded channel of
a subscriber. A returning browser takes `ViewRead` (row and messages, under the
lifecycle lock), `ViewEnsured` (agent_host), `ViewReply` (the turn active *now*)
and `Attach` or `TurnNotFound`. `upstream` is the status in agent_host's record,
which is only taken from the kernel when a stream ends or the runtime is ensured.
`Ensure` whose row cannot be written destroys the runtime it has just ensured, which
cuts the turn that reads from it.
The early return of each of these steps is a disjunct of its action; dropping the
`ActiveTurnGuard` is `Release`. Sessions without a recoverable volume
(`legacy-unrecoverable`) refuse a turn before it starts and are left out.

### Terminal

One CLI session. `row` is client_service's row with the runtime generation,
`registered`, `lease` and `told` are agent_host's record, attachment leases and what
a socket was told, `pane` and `client` are tmux. Because every operation of
`TerminalService` but resize and `forget_session` holds `boundary_lock`, the
operation at work is the single variable `job`, with one action per call to the
kernel (`GetStatus`, `Reconcile`, `Unhook`, ...). The names of tmux clients
(`Ptys`) are reused, as tmux reuses them. Faults: a failed call, a missing
configuration, a slow client, a pane that exits, a kernel that is down, a
restarted agent_host, a browser that departs, a refused write.

### SkillHost and SkillStore

`SkillHost` has two variables, the directory of each skill and the contents its
history holds, and one action per outcome of a route. `SkillStore` has the files:
removing a directory, writing file after file and writing a version file are
separate steps, each of which may fail or be the last one before a crash that may
also tear the file. The refinement mapping hides the operation under way (its
skill is shown as it was before) and drops the numbers of the versions.

### ConfigApply

`doc`, `active` and `snaps` are the document, the active generation and the
snapshots; a snapshot found again becomes active under its old generation
(`insert_and_activate`). `apply_lock` and `secret_ops` are variables. An apply is
`prepare`, one call per staged skill, `commit` or `commit_fails` with its
roll-back calls. The interactive routes read, await and write where the code
does. A call of agent_host may fail, be answered and lost, or land after the
client has gone.

### MemoryPages and MemoryRun

A page is its raw links and a stamp. `write`, `move`, `remove` hold the flock;
a move stages new files, renames every page it touches to a hidden backup,
installs, and restores the backups when a rename fails. `relative_target` is the
computation of a link between two pages. `MemoryRun` follows bytes through child,
OS pipe, copy task, duplex, forward task, channel and client, with the limit, the
timeout and the cancellation of `drive`.

### Data modules

`ConfigBundle`, `ConfigValues` and `ToolCalls` are mostly operators with the
names of the functions they stand for; their behaviours read an input, convert it
and pass it on, and the properties compare the outcome with an independent
definition (`StartedAsWritten` says which value wins for each name, the code
overlays maps; `ToolCallsMatch` looks at all events at once, the code folds over
them). `StartedAsWritten` is about what client_service asks agent_host with. Its own
variables (`AGENTSPACE_AGENT_ID`, `AGENTSPACE_CLIENT_SERVICE_URL`,
`AGENTSPACE_SKILLS_API`, the recovery flag) win over what the document writes under
those names, a connection always comes with `CONNECTION_API_FLAVOR`, and every other
variable is as written. What agent_host adds for the container is not in it, nor are
the other `COPILOT_*` variables of a CLI launch. In `ToolCalls` a raw output, when an
event has one, wins over its content; a null takes an earlier input away but leaves
an earlier output. `RECURSIVE` operators occur only in `ConfigBundle` and `ToolCalls`. A path
is the sequence of its segments, a text the sequence of its characters where order
matters, a value a token.

`EventPipe` has the bytes of two HTTP bodies: `wire[h]` is on the way, `buffer[h]`
what the reader of hop `h` has received and not used, `written` the lines of the
kernel host, `got` the numbers of those that `next_event` returned. `Chunk` takes
any part of what is on the way, `Cut` breaks a body and loses any part of it;
`stream_message` and `StreamRemains` relay a line, `next_event` and `NextRemains`
return one. `MCData` puts `ToolCalls` behind it: `ToolCallsMatch` is about the
events that arrived.

### Workspaces, SessionRecords, VscodeProxy

In `Workspaces` every call of the store and each copied entry is a step, and a
copy goes on when its caller has timed out. `Scratch` is the session's volume: what
the user left, what AgentSpace staged, and the directories on which the session
mounts other workspaces. A session mounts the list it was created with, whereas
`session_workspace_exclude_paths` reads the agent's record at the moment of the save;
so a save excludes any of `Lists`, and nothing is assumed about how that fits the
session. In `SessionRecords` a stream may be
dropped at each of its awaits; a call clones the record before it awaits Docker
and inserts the clone afterwards. In `VscodeProxy` four parties are joined by
three hops with bounded queues; each of the two loops in the middle reads nothing
while it sends.

## 3. Runs

Bounds are the smallest with which the interleaving in question happens: two
sessions, two requests, two turns or two sockets are what a race needs; one fault
may come at any step, and faults of one kind twice where a retry is in question.

| run | instance | shows |
|---|---|---|
| `sessions_kept` | 2 sessions, 2 requests, 1 fault, 2 scenes: all locked operations, both sessions under one truncated name; give-ups and kill, two names | jobs of locked handlers never overlap, reports and cleanup are sound, a running kernel mounts its own volume, deletion leaves nothing and spares the namesake |
| `gateways_kept` | 2 gateways; 2 applies and start-up from every document and every set of containers; one operator with 2 failed calls | reconciliations converge and destroy only orphans; retries start what is enabled; a status of running is true |
| `handlers_end` | 1 session and 2 requests; 1 gateway, apply, delete and start-up; fair | every request is answered, every task ends |
| `turns_streamed` | 2 browsers, 2 turns, 1 event, channels of 1, any 1 fault, fair | what was shown is stored, turns are apart, status settles, every turn ends |
| `terminal_served` | 2 sockets, 1 control request, 2 client names, any 1 fault | a served browser is attached under its lease's name, an adoption leaves no client unaccounted for, a known generation is not forgotten |
| `terminal_ends` | 1 socket, 1 control request, any 1 fault, fair | sockets of ended execs close, handlers return |
| `config_applied` | 2 requests and start-up, 2 user skills and a builtin, 1 secret, one holder of each kind, 1 fault | the stores agree, agent_host follows the document, If-Match protects |
| `memory_served` | 2 clients, 3 pages at 3 depths, 1 fault; 2 bytes per stream, limit 3, pipes and channel of 1 | pages and updates survive, links follow a move, a run ends and reports exit only with all output |
| `data_passed` | bundles of up to 6 files, odd archive entries, file maps of up to 3 paths; 36 documents and 2 edits; 4 events of either style, or 3 lines cut anywhere; 3 requests on 2 workspaces | conversions agree with their reference, copies are whole |
| `streams_kept` | 2 streams, 2 calls, 1 shutdown; 2 frames each way, queues of 1; 1 skill, 2 files, 4 versions, 2 faults | a turn is recorded exactly once; editor loops end; acknowledged files stay recoverable and `SkillStore` implements `SkillHost` |
| `sessions_reset` | 1 session | violation: the first finding |
| `mounts_saved` | 2 requests, 1 workspace, a session that mounts another, two lists of the agent | violation: the second finding |

A channel, pipe or queue of one item is enough to have it full, and one event to
have a message that grows after the placeholder. `Attempts` (5 in the code) is 2
or 3 so that giving up happens within the faults of an instance. In
`streams_kept` the second caller only creates and refreshes; that a destroy and a
reset overlap is in `sessions_kept`. Symmetry is used only in runs without
liveness, over values that no formula tells apart. Deadlock is checked in
`sessions_kept`, `gateways_kept`, `handlers_end` and `sessions_reset`; in the
others requests are finite in number and there is nothing left to do at the end.

**Fairness.** `SessionLifecycle` and `Gateways`: a handler or job that can go on
goes on (tokio runs ready tasks, and each call ends at the latest by its 60 s
timeout), and a waiter that is offered a lock again and again gets it (tokio's
mutex and RwLock queue their waiters), hence strong fairness for locks. `Turns`:
only weak fairness of the server's own steps: the kernel ends its stream or fails
(agent_host's connection to a dead container breaks). No reader has to read:
`send_stream_item` never waits. `Terminal`: handlers and the holder of
`boundary_lock` go on, and the tokio mutex is fair; nothing is assumed of browsers
or panes. `MemoryRun`: tasks that can go on do, and the timeout of `drive` fires; the
caller need not read. `SessionRecords`: a finalizer is polled by its stream or by
the executor it was spawned on, and a turn of a harness ends. `VscodeProxy`: the
loops go on and the two ends read what reaches them.

**Mutants.** Every property of a passing run has a mutant in `PROJECT.json`: a
variant of one mapped definition, next to it in the module, with a plausible bug
(a lock not taken, a retry that ends too early, a skipped restore), under which
TLC finds the property violated.

## 4. The findings, and promises that do not hold

*Reset* (`sessions_reset`). The recovery flag kept in the record makes the create
of a reset refuse the volume that the reset has just removed: such a reset never
succeeds.

*Mounts in a saved workspace* (`mounts_saved`). docs/WORKSPACE_FEATURE.md says that a
save excludes mounted workspace ids. The code excludes what the agent lists at the
save; the session mounts its own list, frozen when it was created, with the mounts of
the request that created it. The directory of a workspace that only the session
mounts, or that the agent has stopped to list, is saved with the session's files.
The other way round, what a user left under an excluded name is not saved, which
`WorkspacesKept` states.

The following are statements of documents or comments that the models refute.
Each is a definition of its module with the statement it comes from; adding it to
the configuration named here shows a trace.

| statement | where | what happens |
|---|---|---|
| `NeverRemovesForeign` with `kill` (docs/OVERVIEW.md: truncated names are never sufficient for deletion) | `SessionsReset.cfg` with two sessions, `ShortName <- SameName` and kill | labels are inspected, removal goes by name, and kill holds no lock |
| `OrphansOnly` with interactive operations (comment on the start-up reconciliation) | `GatewaysKept.cfg`, `Ops` with create | a gateway created after the document was listed is destroyed as an orphan |
| `OrphansDestroyed` | `GatewaysKept.cfg`, one failed call | the record goes before the container, and the retry gets the 404 that counts as success |
| `ReconnectSeesAll` (docs/STREAMING_DOC.md) | `TurnsStreamed.cfg` | messages are read before agent_host is awaited, the active turn after it |
| `OthersStay` (CLI_PLAN.md) | `TerminalServed.cfg` | a lease names a tmux client by a name that is reused |
| `NoDanglingSkill` (api.rs, `delete_skill`) | `ConfigApplied.cfg` | `update_agent` checks skills, awaits, and writes without `apply_lock` |
| `ReadersSeePages` (memory store.rs, `with_lock`) | `MemoryServed.cfg` | readers take no lock, and a move first renames its pages away |
| `CreatingIsUnderWay` (docs/WORKSPACE_FEATURE.md) | `DataPassed.cfg` | a rename writes back the status it read before the save finished |
| `ValidatedIsAccepted` (skill_validation.rs) | `DataPassed.cfg` | a file and a file below it both validate |

Three things are no promise of a document, but a reader of the properties should know
them. A gateway start counts as done with "starting" and "error" too, and is not tried
again (gateways.rs 210-218, 552-580), so `EnabledRun` promises a record and a
container with the document's settings and not that the gateway works. Deleting
a gateway whose last status is "stopped" or "error" asks agent_host for nothing, so a
container that is up although its start answered "error" stays until a reconciliation
finds it. A lease may
outlive its tmux client; `LeasesMatchClients` is about served browsers and adoptions.
`BundleIsConsistent` has every file of a sourced skill in the bundle, but
`skill_validation` looks at one skill at a time, see `ValidatedIsAccepted`.

## 5. Proofs

Each theorem holds for every value of the constants that satisfies the module's
`ASSUME`: the "nothing" values differ from the real ones, bounds are numbers, and
in `Workspaces` what AgentSpace stages in a session's workspace is marked as its own
or in `.agents` (`snapshot_workspace.py` drops marked artifacts, and every save names
`.agents`); nothing is assumed of mounts or of what an agent lists. In `ConfigApply` the document the service starts
with is valid (`FirstDocsValid`): it is the active snapshot, and no document
becomes one without having been validated. In
`ConfigValues` the documents to begin with and the requests have the shape that
serde's types and the validation of a document enforce
(`DocumentsAssumption`, `RequestsAssumption`), and `ParseAssumption` says what the
parser of environment text, a fold over lines, makes of the texts that occur. In
`MemoryPages` the relative target of a page resolves to that page
(`ResolveAssumption`, a fact about sequences and a fold) and links may be as long
as a move makes them (`LinkAssumption`). In `EventPipe` a line has one of the five
forms of `Bytes` (`FormsAssumption`). TLC evaluates each of these on the values of
its runs. What a theorem assumes beyond that is in its `ASSUME`.

- `SessionLifecycle_proofs`: `TypeCorrect`, `LocksSerialiseJobs`,
  `ReportsAreSound`, `CleanupSparesOwnedSessions`, all from one inductive
  invariant `IndInv`. `JobsSerialised` is not inductive: that two jobs are apart
  follows from *who holds the locks* (`LockInv`: a handler past the gate is in
  `gateReaders`, one past the mutex owns it), and from the fact that a job still
  awaited belongs to such a handler (`JobInv`). A report is sound because rows
  are inserted under the gate that cleanup holds for writing
  (`RowsInsertedUnderGate`), rows only move forward (`RowsKeepHistory`), and
  nothing in Docker or the registry is labelled with a session that never had a
  row (`RowInv`, `LabelInv`), abandoned jobs included. `CleanupInv` says of a
  deletion in progress that what it plans to take is not owned.
  `CleanupSparesOwnedSessions` assumes that no two sessions share a truncated
  name; section 4 says what happens when they do.
  `KernelsMountOwnWorkspace` (`WorkspaceMounted`), `DeletedLeaveNothing`
  (`NothingLeft`) and `ForeignResourcesKept` (`ForeignKept`) assume what the scene
  "locked" of `sessions_kept` assumes (`Attended`): no handler gives up and no
  kernel is killed without the lock. They are proved of the scene and of `Spec`,
  for every assignment of truncated names, collisions included. `AttendedInv` adds
  to `IndInv` where each job is: from finding its session's volume to removing it
  the volume is there (`InPlace`), a record stands for a volume until the job
  that removed the volume forgets it (`Recorded`), containers sit on the volume of
  their session and volumes belong to sessions with a row (`Mounted`); a delete
  whose answer is "ok" or "not_found" has left nothing. A step then disturbs only
  its own request and session (`JobsLeaveOthers`, `SameStays`), because a job's
  handler has the session's mutex (`JobsHoldMutex`).
- `Gateways_proofs`: `TypeCorrect`, and `AppliesDestroyOrphansOnly` under the
  assumption that `Ops` has only "apply" (with interactive operations it is
  false, see section 4). `JobInv` ties a call in service to the process that
  awaits it and to the gateway it works on; `ReconInv` says that whoever works
  through a list holds `apply_lock`, that the document has not changed since, and
  that each destroy still to do is of a gateway the document does not have.
  `StartupStartsEnabled` (`EnabledRun`), `AppliesAlwaysConverge`
  (`AppliesConverge`) and `OperatorsToldTruthAlways` (`StatusTruthful`, which the
  run checks as `OperatorsToldTruth`) are about where gateways end up. They
  assume what the runs' scenes assume: no call is given up and neither service
  restarts, and operators wait for their answers or there are only applies
  (`Orderly`); the first allows fewer failures than attempts, the second none,
  the third any number of failed Docker calls. Then one process is at work at a
  time (`TurnInv`: by `apply_lock`, or because operators wait), so that its job
  and its answer tell what record and container are (`CallInv`), and the tasks
  it has left fit the document (`PlanInv`). The rest is an account of every
  gateway: it is as the document has it, or some process still has a task for it
  (`StartupInv`, `SettledInv`, `TruthInv`). `StartupInv` also counts: attempts
  on a task never exceed the failures so far. That a start was done means that its
  answer came, whatever status it carried. `RecordInv` says that records and
  containers agree except between the two halves of a create or a destroy.
- `Turns_proofs`: `TurnsTyped` (the channels' bound included), `StreamedIsStored`
  (`SeenIsStored`), `OneTurnWrites` (`TurnsApart`), `EndIsDelivered`
  (`LetGoWithFinal`) and `StatusIsSettled` (`StatusSettles`), from one inductive
  invariant `IndInv`. `active_turns` has
  exactly the turn at work (`ActiveInv`); a request and its turn know each other
  until the task is spawned (`CallerInv`, `PostInv`), so that what ends a turn
  answers the right reader; a subscriber reads that turn and has no final payload
  yet (`SubsInv`), and whoever is not attached has an empty channel (`QuietInv`);
  `StreamOf` says when a stream may have subscribers, the last of them before
  `final_payload` is set; `StoredOf` ties the stored message to the events read,
  the one about to be broadcast included. `SeenIsStored` alone is not inductive:
  an event is stored one step before it is sent, and what is stored must not
  shrink when the turn is finalized. The steps are reduced to four shapes, each
  with a lemma: a turn goes on by itself (`GoesOn`), a turn is over with its
  request (`Finishes`), a reader without a stream does something else
  (`LooksOn`), a stream gets or loses its reader (`StreamStep`).
  `StatusIsSettled` adds that a reader who looks at the runtime or deletes holds
  the lifecycle lock (`HolderInv`) and, as long as nothing failed, that
  agent_host's record is gone only under a delete, that a reading turn is cut off
  exactly then, and that the row is not busy once no turn is left that will write
  it (`SettleInv`).
- `ConfigApply_proofs`: `ConfigTypeCorrect`, `StoresStayInStep` (`StoresAgree`),
  `SkillsFollowDocument` (`HostFollowsDocument`) and `ApplyClobbersNothing`
  (`IfMatchNotClobbered`). Who is between the steps of an apply or of a skill
  route holds `apply_lock` and knows the document as it is (`LockInv`, `StageOK`,
  `MatchOK`); secrets are declared and references resolve in the document, in the
  snapshot and in what is about to be published (`SecretOK`, `ValidOK`); and
  agent_host's user skills are those of the document once what is still to be
  staged or taken back is accounted for (`HostOK`, `Restores`), unless an effect
  went unknown. The steps have few shapes, each with a lemma: nothing shared
  changes (`QuietStep`), a request goes on (`TaskStep`), one skill changes in
  agent_host (`HostStep`), a mutation replaces the document (`DocStep`), an apply
  publishes one (`PublishStep`).
- `SkillStore_proofs`: `StoreTypeCorrect`, `AcknowledgedIsRecoverable`
  (`AckedRecoverable`) and the refinement `StoreImplementsHost`
  (`ImplementsSkillHost`). The invariant says for each stage of an operation what
  the directory and the history of its skill hold, so that the directory is only
  ever incomplete while what it held is in the history, and that a version number
  is free when it is written. Every file operation is then shown to be a step of
  `SkillHost` or a stutter; a crash that tears a file maps to `FailWrite`.
- `Memory_proofs`: `RunTypeCorrect` and `ExitCarriesAllOutput`
  (`ExitedMeansAll`) about `MemoryRun`. The heart of it is a conservation law,
  `FlowInv`: what the child printed on a stream is what the caller has plus what
  is in each place on the way. How much the frames of the channel carry would be a
  recursive sum; `Carries` states it by the existence of a sequence of partial
  sums, which each send and receive extends or shortens, so that no induction over
  data is needed. `EndInv` and `HoldInv` say which places are empty when the
  terminal frame is sent, `ChannelInv` that nothing follows it.
  `PagesTypeCorrect`, `PagesAlwaysSurvive` (`PagesSurvive`) and
  `MovesAlwaysKeepLinks` (`MoveKeepsLinks`) are about `MemoryPages`. `pages` is
  what the completed operations amount to. Files and pages agree when no move is
  under way (`QuietInv`), and at any moment a page is its file or a backup next to
  it (`KeptInv`), also when the service ends between two renames. That is not
  inductive: `MoveInv` says for each stage of a move (staging, taking files away,
  installing, restoring, cleaning) which files are where, and that the request at
  that stage is the holder of the lock, so no other request disturbs it.
  `LinksInv` says of a planned move that it rewrites exactly the pages with a link
  to the source, from what they are under the lock.
- `AgentHost_proofs`: `RecordsTypeCorrect` and `TurnsRecordedOnce`
  (`RecordedOnce`) about `SessionRecords`. `create_session` and `history` put back
  a copy of the record they took before an await, so the invariant `CopiesInv`
  speaks of every copy that a call holds: a turn is in it at most once, and only
  when its stream is done, and a stream that is done writes no more.
  `TerminalTyped`, `GenerationsRemembered` (`RecoveryRemembered`) and
  `AttachmentsAccounted` (`LeasesMatchClients`) are about `Terminal`. A row of
  client_service is written back after an await; it does not lose its generation
  because whoever read one writes one (`ReadInv`), and whoever read none and makes
  a runtime holds the lifecycle lock, so that the row still has none (`RowInv`,
  `StartInv`). `JobInv` says that the job under `boundary_lock` is one whose
  handler waits for it. From the discovery of its client on, a socket is attached
  under the name of its lease, or was told of the end, or its exec is over
  (`AttachInv`), although `forget_session` takes no lock; and an adoption has
  detached, or accounted for, each client it saw (`AdoptInv`). Nothing is said of a
  lease whose browser is not served: it may name a client that is gone.
- `Data_proofs`, three modules. `Workspaces`: `WorkspacesTyped` and
  `WorkspacesStayKept`, the action property `WorkspacesKept`. `OwnerInv`: a row
  that came with a copy names the request that made it, and until it is deleted
  under an unfinished request no other request works on its volume. Hence a
  workspace that is `Whole` stays so (`WholeInv`), and whoever holds a record and
  says "ready" says it of a whole one (`HeldInv`), also a rename that writes back
  what it read before. `CopyInv` and `CleanInv` follow the copy entry by entry, with the list that its save
  excludes;
  `EditorInv` ties the steps of an opening to its lock.
  `ConfigValues`: `EditsChangeNothingElse` (`EditChangesOnlyIt`),
  `LaunchesStayFrozen` (`LaunchIsFrozen`) and `StartsAreAsWritten`
  (`StartedAsWritten`, the names that client_service sets itself included). Every
  document is well formed and every environment in it
  is one the first document had or the text of a request (`DocInv`), a CLI session
  has the snapshot of the document it was made of (`MadeInv`), and resolving a
  map, overlaying maps and expanding an environment are characterised key by key
  (`Resolves` and the lemmas before it), which is the form the properties have.
  `EventPipe`: `EventsAlwaysArriveWhole` (`EventsArriveWhole`), for any number of
  lines and any chunks. `PipeInv`: there are a number `k` of lines that agent_host
  has relayed and a list `r` of those it made events of, such that buffer and wire
  of the first hop hold exactly the lines after the `k`-th, and those of the second
  the lines of `r` that `next_event` has not returned, either short of what a break
  took away (`Carries`). The concatenation of lines would be a recursion; `Lays`
  states it by the existence of a function from positions to suffixes, which a new
  line extends (`LaysMore`) and a used one shortens (`LaysFirst`). Since a line ends
  at its only newline, the first newline of a buffer ends its first line
  (`FirstLine`), however the chunks came.

The proofs are hierarchical, one step per action and lemmas for the helpers
(`Call`, `End`, `Goto`, ...) that several actions share.

**Only model-checked**: liveness (`EveryRequestReturns`, `EveryTaskEnds`,
`ActiveEnds`, `SocketEnds`, `HandlersReturn`, `RunEnds`, `DroppedIsRecorded`,
`EndsUnlessJammed`), which is out of TLAPS' reach with fairness and `ENABLED`; and
`BundleIsConsistent`, `ValidatedIsStored` and `ToolCallsMatch`, which compare
`RECURSIVE` operators and folds over archives, file lists and events with their
reference definitions: what these compute for every input takes an induction over
data, which the installed provers cannot instantiate. Every other safety property
and action property that a passing run checks is the subject of a theorem above.

## 6. Not modelled

Harness adapters, the Discord gateway and telemetry translate for external
programs whose behaviour the repository does not fix. The web UI's rendering, the
command-line clients, image, network and environment handling of Docker, routing,
error texts and build scripts have no state of their own that a property could be
about. Of the store, schema and row conversion are left out; each call is one
transaction. Terminal bytes and the contents of files, pages and messages are
tokens, except where `ToolCalls` counts characters and `MemoryRun` bytes.
