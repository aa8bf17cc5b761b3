# A TLA+ model of autosk

autosk runs coding agents on tasks. A daemon (`autoskd`, TypeScript on Bun)
keeps tasks and sessions as files under `.autosk/` of each project, schedules
tasks onto agents, and serves a Go command line and a desktop GUI over a unix
socket. This directory holds TLA+ modules for the parts of it where order,
concurrency and failure decide what is correct, the TLC configurations that
check them, and proofs of the safety properties of every part modelled.

To check everything by hand: `tlc -config <run>.cfg <module>` for each run
below, and `tlapm <module>.tla` for each of the modules named `*Proofs`.

## Inventory

| Part | State | Operations | What is hard | Module |
|---|---|---|---|---|
| Scheduler engine (`core/src/engine/engine.ts`) | projects, worker queue, `active`, `scanning`/`rescanRequested`, runtimes by session | `kickScan`, `drainScans`, `dispatch`, `pump`, `runJob`, `enroll`, `resume`, `recoverProject`, `stop` | decisions on rows read before an await; lost wake-ups; leaked slots; what a crash leaves | `Engine` |
| Task session (`session.ts`, `transition.ts`) | `settled`, abort flag, transit under way | `run`, `transit`, `abort`, `commitTransit`, `finalize*` | several terminal paths race for one settle; position before seal | `Engine` |
| Chat session (`session.ts` interactive) | activity, inputs | input, end, abort, detach | end against a run that settles; who is told that the agent is idle | `ClaudeAgent` |
| Agent drivers (`extensions/pi-agent`, `claude-agent`) | a mirror of the child's run flag, the gate, pending target, coalesced snapshot | `onRun`, prompts, turns, steer, followup, abort | a child that is told things while it decides; late settle signals; a child that dies | `PiDriver`, `ClaudeAgent` |
| RPC methods (`rpc/daemon.ts`) | subscriptions of the connections | enroll, resume, done, cancel, reopen, abort, comments, extensions, projects | check, await, write against a scanner that does the same | several |
| Session store (`store/sessionStore.ts`) | `<id>.json` metas, live index | create, claimQueued, setStatus, seal | two writers of one meta | `Engine` |
| Transcript writer (`engine/transcript.ts`) | a promise chain, `<id>.jsonl` | log, partial, flush | order of lines and partials | `SessionFeed` |
| Subscriptions (`rpc/connection.ts`) | per connection: cursor and chain of each tail | subscribe, unsubscribe, fan-out | replay overlapping with appends; events queued behind it | `SessionFeed`, `Desktop` |
| Task store (`store/store.ts`, `taskStore.ts`, `atomic.ts`, `watcher.ts`) | `task.json`, record cache with signatures | mutate, reconcile, restore, rescan | people edit the same file; every step is several file calls | `TaskFile` |
| Task graph and its tools (`mcp/`, `pi-tools/`, `store.ts`) | edges, step visits, comments | create, update, enroll, done, unblock, comment | one tool call is several operations, others fall between them | `Backlog`, `Desktop` |
| Extensions and projects (`extensions/`, `project/`) | `settings.json`, npm packages, imported modules, open projects, registries | bootstrap, reconcile, add, remove, update, load, hot reload, hazard guard | registry swapped under running sessions; three queues | `Extensions` |
| Sandbox (`extensions/sandbox`, shipped workflows) | worktree, branch, container of a task | workspace, spawn, stop, cleanup | the tail of one session overlaps the next | `Sandbox` |
| Single instance (`rpc/uds.ts`, `bootstrap.ts`) | lock, breaker and socket files | claim, reclaim, bind, release | separate processes, one system call at a time, killed anywhere | `SingleInstance` |
| Client auto-spawn (`internal/daemon/rpcclient/connector.go`) | `spawned` | Dial, ensureSpawn, waitConnect | several callers and clients start the daemon at once | `AutoSpawn` |
| GUI store (`gui/src/state/store.tsx`, `reducer.ts`) | projects, slices by project, selection, transcripts, subscriptions | bootstrap, select, refresh, fold of replies and pushes | replies of a project that is no longer active; pushes that overtake replies; a lost connection | `Desktop`, `SessionFeed` |
| GUI host (`gui/src-tauri/src/commands.rs`, `client/rpc.rs`, `state.rs`) | the connection, its epoch, requests without an answer | `daemon_request`, `ensure_connection`, the reader of a connection | requests are tasks of their own; each may install a connection, and announce or silence the loss of the last | `Desktop` |
| Daemon idle shutdown (`rpc/daemon.ts:358`) | connections, timers | checkIdle, requestShutdown | shutdown against a connection that arrives | |
| Go note stream (`rpcclient/notify.go`, `stream.go`) | buffered notes | Next, Close | a slow consumer | |
| RPC plumbing, CLI, TUI, website | | | adapters and presentation | |

How they interact: clients call RPC methods; those and the sessions write
through the stores; every store change and every session end kicks the engine's
scan; the scan claims a free task by creating a session file, and a session file
that is live is the lock of its task. A session runs the `onRun` of an
extension, which drives a child process in the task's worktree and ends the
session with `transit`. Engine events fan out to the subscriptions of every
connection and from there to the front ends. Extensions can be swapped while
all this runs. A second daemon process is kept out by the pidfile lock, and the
first client to find no daemon starts one.

What makes each part correct: a task never has two live sessions and each entry
into a step is dispatched once (engine); a session ends once, and only after its
task has moved on (session); no wake-up and no worker slot is lost (engine); a
driver never loses track of its child's turns, and its `onRun` returns
(drivers); what is reported as installed is what runs, and no task is left
waiting for code that is gone (extensions); engine-owned fields survive editors,
people's fields survive the engine, edits are noticed (task store); what a tool
call answered is there, and blockers are waited for (task graph); a tail misses
nothing and the end is learned (feed); the screen is up to date and belongs to
one project, comments are kept (GUI); work is handed from step to step and
nothing is left behind (sandbox); one daemon owns the socket and every dial
ends (single instance, auto-spawn).

## Modules

| Module | Models | Reads |
|---|---|---|
| `Engine` | one project of the engine, its task sessions, the client requests, recovery, stop, kill, restart | `engine.ts`, `session.ts`, `transition.ts`, parts of `daemon.ts`, `sessionStore.ts`, `manager.ts` |
| `SessionClaims` | abstract: a session is the exclusive claim on its task until it is sealed | what `docs/daemon.md` and clients rely on |
| `EngineProofs` | theorems about `Engine` | |
| `PiDriver` | one `onRun` of the pi agent and its `pi --mode rpc` | `pi-agent/src/driver.ts`, `index.ts`, parts of the context |
| `ClaudeAgent` | one session of the claude agent, task or chat, with its runtime | `claude-agent/src/driver.ts`, `index.ts`, `session.ts`, parts of `engine.ts`, `mcp/` |
| `Extensions` | settings, packages, project registries and their reload, one task at a step of an extension | `extensions/`, `project/manager.ts`, parts of `daemon.ts` and `engine.ts` |
| `Backlog` | the task graph under the tools, the clients, sessions and the scheduler | `mcp/`, `pi-tools/`, `store.ts`, `taskStore.ts`, parts of `daemon.ts` |
| `Desktop` | the app's store, its host and their connection, comments and the connection's subscriptions | `store.tsx`, `reducer.ts`, `services/`, `commands.rs`, `rpc.rs`, `connection.ts`, `daemon.ts` |
| `Sandbox` | worktree and container of one task across its sessions | `sandbox/src/`, the shipped workflows, the agents' use of them |
| `SingleInstance` | the lock, breaker and socket files among processes | `uds.ts`, `bootstrap.ts` |
| `AutoSpawn` | EXTENDS `SingleInstance` with the dialling clients | `connector.go` |
| `SessionFeed` | writer, subscriptions and GUI view of one session | `transcript.ts`, `connection.ts`, `store.tsx`, `reducer.ts` |
| `TaskFile` | one `task.json`, its cache, editors, a live session | `store.ts`, `taskStore.ts`, `atomic.ts` |
| `StoreProofs` | theorems about `TaskFile` and `SessionFeed` | |
| `DaemonProofs` | theorems about `SingleInstance`, `AutoSpawn` and `Extensions` | |
| `PiDriverProofs`, `ClaudeAgentProofs`, `BacklogProofs`, `SandboxProofs`, `DesktopProofs` | theorems about the module of that name | |
| `MC*` | instances for TLC; a module without one is its own | |

`PROJECT.json` maps each definition to its lines. Definitions commented
"Mutant" are not part of a specification: each is a plausible mistake in one
definition, and the property it is listed with catches it.

The modules meet at a few interfaces and each assumes of the others only what
they show: `Engine` says when a session runs and what a transit does, and the
drivers and `Sandbox` take a running session as given; `TaskFile` says what one
file operation on a task does, and `Backlog` composes such operations;
`SessionFeed` delivers what a driver logs; `Desktop` takes tasks to be moved by
others at any time.

### Engine

JavaScript runs without interruption from one `await` to the next, so an action
is one such stretch; an awaited file operation takes effect when it completes.
`scan`, `rec`, each session's `run` and `fin`, and each client's `req` are the
program counters of the asynchronous functions under way; `meta`, `status`,
`step` and `visits` are what is on disk and survive a crash.

- `ScanList` to `ScanEnd` are one turn of `drainScans` over the project. The
  reads of a fresh row, the decision on it and the start of `create` are one
  action (the reads come from the store's memory); the write that completes
  `create` is another. The read of a task's view in `park` and the write that
  uses it are two.
- `RunClaim`, `TransitCall`, `TransitSettle`/`TransitReject`, `OnRunReturns`,
  `AbortCall`, `AbortHookReturns` are the steps of `TaskSession`; `FinCommit`,
  `FinView`, `FinPark`, `FinSeal` the writes of whoever settled it; `RunOut` the
  `finally` of `runJob`, which pumps the queue and kicks a scan.
- `Enroll`, `Resume`, `Close*`, `Reopen*` are the RPC methods.
- `Crash` ends the process at any point, `Stop` is `engine.stop()`; both are
  followed by `AddProject` and the `Recover*` steps of the next process.
- `Rescan` is a kick from outside the project, the safety timer included. It
  may happen at any time and is never assumed to happen.
- A failing store operation is the second disjunct of the action concerned.
- `claim[s]` is history: the task's visit count when the session was created.
- `Claims` instantiates `SessionClaims` with the session metas and their
  owners; the rest of the state is hidden by that mapping.

Abstracted: a workflow is a set of steps, a step's agent is a choice of
transits and returns; transcript, comments, MCP and steering do not decide
anything here. `Targets` and `Requests` choose what agents and clients do in a
run. A registry swap may drop steps of the workflow at any time; the guard that
refuses some of them is in `Extensions`.

### PiDriver

One `onRun`, for a task (`runTurns`) or a chat (`runChat`). `view` and `life`
are the driver's fields, `target` the pending transit, `part` the `Coalescer`;
`loop` is the program counter of `onRun` and `inp` that of each call of
`input`. `ReadLine` is the stdout handler with everything it does synchronously;
what awaits its result (the gate, a response, a turn's end) goes on in an action
of its own, as a promise does. `GraceFires` is the grace timer, `ShortPause`
marks that it fired while pi only paused. pi is external: it reads a command,
runs, speaks, retries, compacts, ends and settles as the driver's own comments
say of it; a *legacy* pi never says `agent_settled`. Abstracted: a message is
its number; prompts, tool results and token counts are left out.

### ClaudeAgent

The claude driver together with the session runtime, as their races are the
interesting ones: `rt`, `call`, `patches` and `meta` are the runtime's flags,
the calls of `end` and `abort`, the activity writes that wait for the session's
lock, and the file. `run` is `onRun`, `drv` the driver, `servers` the open MCP
servers. claude's stdin tells nothing back: whether a message starts a turn,
joins one or waits is claude's choice. `Detach` is the stop of the daemon, which
a finaliser under way does not notice; `RecoverProject` is the end of the
process, stopping or killed, and what the next one does to the session. An
outcome that was claimed and not yet sealed by then is `lost`.

### Extensions

`installs` and `opens` are the queues of `installLocks` and `openLocks` and the
head of each holds the lock; `body` is what the head of `opens` is doing. `boot`
is the bootstrap, outside both. `cache` holds the version of each module the
process has imported: a module is imported once, so a reload runs the cached
code of a package whatever is on disk. `engine` is the engine's copy of the
registry, which may be behind the handle's. `ScanProject` to `DispatchCreates`
repeat the decisions of `Engine` for one task, because the guard's parks race
with them. The step of a task is what the registered version of its workflow
may lack: `StepUntil` is the last that has it.

### Backlog

A tool call is a sequence of store operations (`View`, `Lock`, `Write`); each
takes the task's lock, reconciles and rewrites, and others act in between.
`Kill` ends the CLI process of a pi tool between two of its operations. `Vanish`
and `Repair` make a task file unreadable and readable again. `sess` and `scan`
are what the engine does to the same records. A position is written whole: a
done, a reopen, a park (`Park`) and the put-back of `taskTerminal` write the
workflow and the step they saw in a view. `waits`, `cut`, `entries` and `erased`
are history: the blockers a task had before it was put to work, the edges
somebody took away, the counted entries into the step, the tasks whose enrolment
such a write took.

### Desktop

Every request of the app is a task of its host: `up` and `replies` are bags, and
requests are served and their replies folded in any order. `events`, what the
host emits, is in order. `serve` is the request a connection of the daemon works
on (`Connection.feed` takes one at a time) and `pushing` the task changes whose
view is still being read. One action of the app is one handler with the reducer
step it dispatches and the effects that run before the next message.

`Drop` loses a connection with the requests and some of the events on it. After
that the reader of the connection and a request that waited may each announce
the loss (`owed`, `SayLost`), unless a request has installed the next connection
first (`Dial`, which may be before or after they have looked at the epoch). A
request without an answer is asked again or fails (`Fail`); the code asks once
more and the model any number of times, which includes it. A failed request
changes nothing in the app, which reports a failed list and passes over a failed
subscription.

History variables say when the code does not promise anything: `unheard` (a new
connection was announced while the loss of the last still might be), `crossed`
(the active project was subscribed to while an unsubscribe from it was on its
way), `read` (the comments of a task as the daemon last read them for the app
under the subscription), `overtaken` (another reply than that is on screen).
`told` is the comments as whoever wrote them was answered. Sessions and
transcripts are in `SessionFeed`.

### Sandbox

`ses` are the sessions of one task in order, each at a point of its `onRun`;
`box` and `tree` are what they share by name. Every git and docker command is
one action. The engine seals a session by its transit or abort and may start the
next before the first has wound down its harness, which is what the module is
about. The cleanup step of a session that is aborted goes on. A docker command
that cannot reach docker changes nothing and is passed over (`Fails`), but for
the cleanup of a daemon that has not reached docker before; `missed` is the
history of such sessions. The agent steps of the shipped workflows are one step,
`review`, that may go on to itself, to a human or to cleanup.

### SingleInstance and AutoSpawn

One action is one system call of one process. `Gone` is the pid of an owner that
died before the model starts. The pid of a process that ended may answer for a
while (`ghosts`, `Haunt`, `Fade`): as a zombie of a client that lives, or as
another program that was given it. The deadline of the claim
loop is `Patience` rounds, `acquireBreaker` makes `BreakerTries` attempts (8 in
the code). Bun's bind never reports the address in use, as `bootstrap.ts` says.
The reclaim of a dead lock is not safe against every starter (What does not
hold), so the properties except a race, and each as little as it can: the safety
properties hold until a process takes the free lock while another is between its
second look at it and its last unlink (`TakeoverRace`); the liveness properties
also except a starter that gives up behind such a reclaim (`ReclaimRace`) and
one that finds the pid of a dead owner answering (`Mistaken`).
In `AutoSpawn` a caller's `waitConnect` gives up only when no process is on its
way up or down: its five seconds are taken to outlast those. A daemon may also
be started by hand; `PidsLeft` keeps a pid for each connector that has yet to
spawn.

### SessionFeed

`wjobs` is the writer's chain, `jobs[s]` the chain of a subscription, and each
job is the code from one await to the next. A subscription object is used once.
The front end is the GUI: it resets its state when a live session is selected,
loads the transcript of a terminal one if it has none, and folds frames by
sequence. A session that failed or was aborted (`failing`) ends with an `error`,
of which the GUI puts up the text and nothing else. A line is its number and
kind. Not modelled: a read that fails, a last line torn by a crash, the
project-wide channel.

### TaskFile

`file` and `cache` are pairs of a signature and a body; a body is a position
(status, workflow and step, the engine's) and a text (everything people own).
`op` and `at` are the critical section under the task's lock, which holds
`probe`, `stat`, `read`, `rename` and `restat`, each one file operation. `talk`
is the path of a comment, which fills the cache outside that lock and announces
the task only if there was a comment to add, edit or delete. Editors
write, damage or remove the file between any two operations. A signature is
unique to a content; the store is open and has a listener.

## Runs

All runs pass with the listed properties. Each property has a mutant in
`PROJECT.json`, a plausible slip in one definition that breaks it.

| Run | Instance | Properties | Shows |
|---|---|---|---|
| `engine_core` | 1 task, 3 sessions, an agent step and a status step, 3 visits | `NoDoubleDispatch`, `SessionOnItsStep` | the task a session holds stays where it was claimed; an entry is dispatched once |
| `engine_crash` | 1 task, 2 sessions, a stop or crash, a fault, a reload | `OneLiveSession`, `ScannerParksNoLiveTask`, `ImplementsSessionClaims` | exclusive claim, sealed once, the scanner's unguarded park, the abstract specification implemented |
| `engine_live` | 2 tasks, one blocked by the other, 2 sessions, 1 worker, a crash | `PoolAccounting`, `QueuedSessionIsServed`, `EverySchedulableTaskIsClaimed`, `SettledIsSealed`, `OrphansAreReaped` | slots, queue, no lost wake-up (the blocked task is claimed once its blocker is done), settled sessions end, orphans are reaped |
| `pi_driver` | 1 input, 1 correction, 2 attempts, 1 message, 2 extras, modern and legacy pi, task and chat | `TurnPerCycle`, `NeverToldBusy`, `NoStalePartial`, `RunReturns` | the driver's turns are pi's cycles, no snapshot outlives its message, `onRun` returns |
| `claude_agent` | task and chat, 1 correction, 2 blocks, 2 extras | `EndMeansDone`, `NoServerLeft`, `ShownIsTrue`, `EndedIsSealed` | a chat ends as asked if the process lives to seal it, its activity and bubble are learned, servers are closed |
| `extensions` | 1 npm and 1 local extension, 2 calls, 2 versions, a restart, first run or not | `AppliedIsLive`, `OrphanIsParked` | what was reported as applied is what runs; a task without code is parked |
| `backlog` | 3 tasks of which one is created, 2 callers, 3 calls, 1 session, 1 vanishing file | `AnswerIsTrue`, `VisitsCounted`, `WaitsForBlockers` | edges and visits survive every interleaving of tool calls; blockers are waited for |
| `desktop` | 2 projects with a task each, 4 comments, 3 inputs (clicks, comments, moves, changes of the registry, an agent's writes, 2 drops) | `CommentsKept`, `ActiveIsWatched`, `ScreenIsTrue` | comments, subscriptions and screen through switches, pushes, failed requests and reconnections |
| `sandbox` | 3 sessions, 2 faults, every set-up | `DoneIsClean`, `WorkIsHandedOver`, `ContainerEnds` | nothing is left behind but by a docker that failed, work is handed over |
| `spawn` | 2 processes, 2 callers of one client, a daemon by hand, a stale lock or none, a kill, a shutdown | `OneOwner`, `SocketReachesDaemon`, `LoneStarterListens`, `EveryDialConnects` | one owner; the socket reaches it; leftovers are taken over if their pid is dead; all connect |
| `feed_tail` | 1 subscription from line 1 or beyond the tail, 2 messages, 1 note, 1 partial, 1 failing append | `CursorAtTail`, `ShownIsPrefix`, `EndIsLearned` | no line missed, prefix on screen, the end, done or not, learned |
| `task_file` | 2 positions, 2 texts, 3 edits, 2 mutations, 1 comment | `EngineOwnsPosition`, `HumanFieldsKept`, `ChangesAreTold`, `EditsAreSeen` | who owns which field, edits noticed and announced |

Bounds and why they are enough:

- `MaxVisit`, `MaxCrash`, `MaxFault`, `MaxReload`: the code treats every visit,
  crash and fault alike, so what matters is that one falls at every point: two
  entries into a step distinguish a new dispatch from a repeated one, and a
  second crash only meets again what the first can leave.
- Sessions of `Engine`: three let a task be held, moved and claimed again with
  the queue behind it; ids are symmetric in the safety runs and are kept apart
  in the liveness ones. When all are used up `create` does not complete, which
  `EverySchedulableTaskIsClaimed` allows for. `Workers = 1` makes the pool full
  with one session; the counting does not depend on the size.
- `PiDriver`: one message suffices for a snapshot before, across and after its
  commit; `MaxExtra` lets two of an update, a post-run phase, an input and a
  death meet in one run; `MaxPipe = 1` still lets the driver be a line behind
  pi. One correction shows a second prompt of the same run.
- `ClaudeAgent`: two blocks and two extras let an input fall into a turn, at its
  end and after it.
- `Extensions`: two calls meet in each queue in both orders, with the bootstrap
  as a third writer; the second version is the one that lost the step.
- `Backlog`: the created task waits for one neighbour and holds up the other, so
  each of its operations races with a close, an enroll, an edit and an unblock;
  three requests leave one for the task after its blocker moved.
- `Desktop`: something new begins while at most one thing is under way
  (`MaxWaiting`), which still lets a click send four requests at once and meet a
  reply, a push or a lost connection; three inputs are a switch away and back
  with a drop, two drops with a switch, or a drop with two writes. The parts of
  the inductive invariant were checked on the same instance.
- `Sandbox`: three sessions are an agent that winds down, its successor, and the
  cleanup.
- `MaxStarting = 2`: two starters race with each other, an owner that closes and
  a killed one.
- `SingleInstance`: any pid that is in a file or was read from one may answer for
  its dead process, at any time and any number of times.
- `SessionFeed`: two messages and one note are the least that show an order;
  `FromLine = 4` is beyond the tail of the initial file.
- `TaskFile`: `MaxEdit = 3` is an edit before, within and after a critical
  section.

Deadlock checking is off in all runs: tasks may all be done, processes ended, a
session over, bounds used up.

Distinct states, in millions: `desktop` 6.2, `feed_tail` 2.6, `backlog` 1.4,
`task_file` 0.7, `claude_agent` 0.7, `spawn` 0.6 and `sandbox` 0.4 took the
longest, up to three minutes each on two cores.

Fairness:

- `Engine`: the event loop runs each completion that is pending (weak fairness
  of scanner, recovery, settlers and runtimes), a stopped daemon is started
  again, and `onTransit` and `onAbort` return. Neither the rescan timer nor a
  client nor the return of `onRun` is assumed; `QueuedSessionIsServed` has the
  last as its premise, because no queue is served behind an agent that works
  for ever.
- `PiDriver`, `ClaudeAgent`: the event loop reads, fires timers and resumes what
  is ready; the child gets on with what it was told, and one whose stdin is
  closed or that was killed exits. No client sends, ends or aborts anything.
- `Extensions`: npm and the registry answer, the queues move on, the scanner
  runs (`scheduler.rescan` fires for ever), an agent finishes.
- `Backlog` and `Desktop` have no liveness property and state no fairness.
- `Sandbox`: git, docker and promises go on, a harness that was stopped exits.
- `SingleInstance`, `AutoSpawn`: the operating system runs every process and
  goroutine that can run. Nobody has to be started, killed or stopped.
- `SessionFeed`: started reads and writes complete. The agent may stop at any
  point, and a selection may last for ever.
- `TaskFile`: file operations complete and the rescan timer fires for ever
  (`watcher.ts`); watch events are not assumed.

## Proofs

A theorem holds for every value of the constants: any number of tasks,
sessions, callers, messages and faults. Each module of proofs uses the
assumptions on constants of the modules it extends and no others; four
theorems have a named hypothesis of their own, given below with what happens
without it. Every component follows one argument: an inductive invariant `Inv`
(`Init => Inv`, and `Inv /\ [Next]_vars => Inv'` with one step per action),
from which the theorems follow.

| Theorem | States | Hypothesis |
|---|---|---|
| `EngineProofs` `TypeCorrect` | `TypeOK` | |
| `ExclusiveClaim` | `OneLiveSession` | |
| `ParksFreeTasksOnly` | `ScannerParksNoLiveTask` | |
| `SealedOnce` | `SealedStays` | |
| `SlotsAccounted` | `PoolAccounting` | |
| `Implementation` | `ImplementsSessionClaims` | |
| `DispatchedOnce` | `NoDoubleDispatch` | `Undisturbed` |
| `HoldsItsStep` | `SessionOnItsStep` | `Undisturbed`, `OneClient` |
| `PiDriverProofs` `OneTurnPerPrompt` | `TurnPerCycle` | |
| `SnapshotsAreAhead` | `NoStalePartial` | |
| `IdleWhenPrompted` | `NeverToldBusy` | |
| `ClaudeAgentProofs` `EndedMeansDone` | `EndMeansDone` | |
| `ServersGo` | `NoServerLeft` | |
| `ClientsSeeItsAgent` | `ShownIsTrue` | |
| `BacklogProofs` `NoVisitLost` | `VisitsCounted` | |
| `AnsweredIsThere` | `AnswerIsTrue` | |
| `BlockersFirst` | `WaitsForBlockers` | `Apart` |
| `SandboxProofs` `NothingLeft` | `DoneIsClean` | |
| `NoWorkDropped` | `WorkIsHandedOver` | |
| `StoreProofs` `NoLineMissed` | `CursorAtTail` | |
| `NoHoleOnScreen` | `ShownIsPrefix` | `OneTail` |
| `PositionIsTheEngines` | `EngineOwnsPosition` | |
| `NoEditIsUndone` | `HumanFieldsKept` | |
| `ListenersAreTold` | `ChangesAreTold` | |
| `DesktopProofs` `CommentsAreKept` | `CommentsKept` | |
| `TheActiveIsWatched` | `ActiveIsWatched` | |
| `TheScreenIsTrue` | `ScreenIsTrue` | |
| `DaemonProofs` `OneProcessOwns` | `OneOwner` | |
| `TheSocketIsTheDaemons` | `SocketReachesDaemon` | |
| `WhatIsAppliedIsLive` | `AppliedIsLive` | |

`OneOwner` and `SocketReachesDaemon` except a `TakeoverRace` by themselves, and
are proved of processes started by hand (`OwnerSpec`) and by clients as well
(`SpawnSpec`). The hypotheses are about what the instance may do, and each run
that checks the property satisfies them:

- `Undisturbed`: no crash, no failing write, no `done` or `cancel`. A crash or a
  failing write does repeat an entry, and a close does let a session live on a
  task that is not in work (What does not hold, Engine).
- `OneClient`: one request at a time. A second one that looked at the task
  before the first wrote moves a task that was claimed since.
- `Apart`: no request closes or reopens a task that a `create` holds up. Such a
  task can be given a blocker between dispatch's look at its row and the
  creation of its session, and dispatch does not look again.
- `OneTail`: one subscription to the session. The frames an earlier one still
  had in its chain move the seen line.

The inductive invariants, and why each is needed:

- `EngineProofs`. `OneLiveSession` alone is not inductive: the scanner creates a
  session on what it read before an await, so `ClaimInv` adds that a task the
  scanner has found free stays free until the scanner lets go of it. That in
  turn needs that no meta comes back to life: `RuntimeInv` ties how far each
  runtime and its settler are to its meta (whoever still has something to write
  finds the meta live, a runtime that has not claimed finds it queued). `pump`
  moves several runtimes at once, so `QueueInv` says the queue holds waiting
  runtimes, each once; `RestInv` says that what recovery has still to reap has
  no runtime, and that nothing runs while the process is down. For
  `PoolAccounting`, `TakenFit` and `PumpCounts` count the runtimes `pump` starts.
- `EngineProofs`, second part, for `DispatchedOnce` and `HoldsItsStep`:
  `EntryInv` says an entry is one number of visits, used up once the session
  that claimed it has written the next position; until then the session is live
  and no scan finds the task free. `HoldInv` says that nobody else moves a task
  that is held.
- `PiDriverProofs`. `TurnInv` counts an open cycle of the driver's view among
  the prompts that were accepted. `CalmInv` is what `IdleWhenPrompted` needs, in
  three parts: `runTurns` has at most one prompt on its way and pi is idle when
  it goes out (`CallsInv`); the gate opens only on what pi says at the end of a
  cycle, and no such line is left behind a later prompt (`GateInv`); a grace
  timer that fires while pi pauses finds the pause announced or pi dead
  (`GraceInv`).
- `ClaudeAgentProofs`. `SettleInv`: one outcome is claimed, the claim heads the
  store's queue of the session and the seal is the last write asked for.
  `ChatInv`: a turn the driver takes to be streaming is owed a result by claude,
  and when none streams the last activity asked for is idle. `BubbleInv`: what
  is streamed and what is still unread is ahead of the transcript.
- `BacklogProofs`. `LockInv` makes the record a writer read under the lock the
  record it replaces, so no visit and no edge is lost; `CreateOK` says what a
  `create` has brought about at each of its operations. `WaitsInv`: a blocker a
  task waits for is on record, open and readable; `ScanInv`: a task dispatch
  found free waits for nobody until it is claimed.
- `SandboxProofs`. `OneAtWork`: the tail of a sealed session is past its
  workspace, unless it was aborted there. `TreeInv`: uncommitted work is in a
  checkout only. `CleanInv`: what the cleanup has done stays done, unless a run
  aborted in `workspace()` goes on (`cut`).
- `StoreProofs`, the feed. `TailInv`: a subscription that is behind has a job queued
  that catches up, or the writer is about to queue one. `PrefixInv`: its cursor
  is not past the first line the screen lacks.
- `StoreProofs`, the task file. `SignatureInv`: a signature names one content, but for an
  edit of a file just written. `PositionInv` and `TextInv` say of the section at
  each of its points what it is about to write.
- `DesktopProofs`. `CommentInv`: a writer past its lock holds it and has read
  the file as it is. `LoadInv`: before the registry is loaded nothing is
  unsubscribed from. `StatusInv`: the events that wait end with the state of the
  connection, unless a loss is still to be announced; a connection that is
  `unheard` is excused. `WatchInv` and `PickInv` except an app that will hear of
  a new connection (`Heals`): otherwise the active project is subscribed to, or
  a subscribe is under way, and no unsubscribe from it is; and of the task on
  screen the daemon's last answer is true and on screen or coming, or a push
  about it is coming, or it will be asked for. Requests have no order, so each
  part looks at what is in the bags and never at its place; lemmas `Added`,
  `Taken` and `Nothing` say what a bag holds after a step.

- `DaemonProofs`, the owner. `LockInv`: the lock names its owner, so there is one;
  a reclaimer that has read the lock again knows every owner there is; one about
  to unlink the lock or the socket finds none. The last two are what a
  `TakeoverRace` breaks, and nothing else does.
- `DaemonProofs`, extensions. `AppliedIsLive` speaks of moments when nobody is
  loading, so `ForceInv` speaks of all others: what the head of the open queue
  has read (or what is in force when nobody loads) is what is on disk, unless
  somebody behind it will read the disk again or a call that has committed owes
  its reload. `OpensInv` says who is in that queue, each once, and that nobody is
  in it before the bootstrap is over.

Only model-checked are the liveness properties (`QueuedSessionIsServed`,
`EverySchedulableTaskIsClaimed`, `SettledIsSealed`, `OrphansAreReaped`,
`RunReturns`, `EndedIsSealed`, `OrphanIsParked`, `ContainerEnds`,
`LoneStarterListens`, `EveryDialConnects`, `EndIsLearned`, `EditsAreSeen`):
liveness under fairness is out of the prover's reach, as are `ENABLED`,
inductions with an operator for their predicate and recursive operators. Every
safety property that a run checks is a theorem.

## What does not hold

TLC, or reading the code for a module, showed the following. They bound the
properties above: a property is stated so that it does not claim them. Where a
document, a comment or a test says otherwise it is named.

Engine
- A scan during recovery dispatches the interrupted entry of a task again
  (`engine.ts:534`, `111-112`; `docs/daemon.md:225-226`: interrupted work is
  never silently resumed).
- `task.done` and `task.cancel` check for a live session before and after their
  write, but the scanner may have passed its own check and not yet created the
  session: the session then lives on a closed task (`daemon.ts:803-817`, whose
  comment says it closes the claim race).
- Two resumes of one task may both pass the check and both move it, past the
  visits cap (`engine.ts:218-263`).
- A transit that settles while `onAbort` runs wins, and the abort is reported
  as handled (`session.ts:409-425`, against 418: abort always takes effect on a
  live session).
- When the position write after a settle fails, or the seal, nobody can settle
  the session any more and its meta stays running until the next start
  (`session.ts:294-318`). `SettledIsSealed` is checked without faults.
- A daemon that stops or is killed between the claim of a settle and its seal
  loses the outcome: `engine.stop` detaches settled runtimes too and
  `process.exit` does not wait for a finaliser (`engine.ts:162-167`,
  `bootstrap.ts:120-122`), so a chat its user had ended is failed with
  `daemon_restart` at the next start (`engine.ts:536-541`).
- A session created on a task that has meanwhile been dropped from the store
  never seals.
- A scan that throws ends the drain with a request still noted; it is served at
  the next kick, in the worst case the rescan timer (`engine.ts:397`).

Agents
- pi: a steer or followup that goes out as its own prompt ends a turn that
  `runTurns` takes for its own (`driver.ts:474`: exactly once per `sendPrompt`).
- pi: once lines are read after an abort, a snapshot may be streamed after the
  seal.
- A chat whose pi died stays open, and one whose claude died stays busy, until
  it is ended; a followup queued behind a turn of claude runs while the activity
  says idle.

Extensions
- The bootstrap and the reconcile take no install lock (`manager.ts:129` says
  npm runs are serialised): a first-run bootstrap overwrites `settings.json`
  and can lose a concurrent `ext add`.
- `update` lists what it updates outside the lock, so a concurrent pin is
  overridden.
- A change committed while a project is opening is not picked up
  (`daemon.ts:283-285` says it is).
- Adding a loaded extension at another version reports a reload but goes on
  running the cached code. `AppliedIsLive` is about which extensions are live.
- The hazard guard parks or revives what it listed, although the task may have
  been closed or claimed since (`hazard.ts:91`).
- When the first write of `taskTerminal`'s move throws at its view, the recheck
  for a live session is skipped.

Task graph
- A create that fails at its block or enroll, or whose CLI is killed there,
  leaves the task behind, and a retry makes another. `AnswerIsTrue` is about
  creates that were answered.
- Between dispatch's look at a task's row and the creation of its session the
  task can be closed or reopened and then given a blocker by a `create`;
  dispatch does not look again (`engine.ts:434-468`), and the session starts before
  the blocker is closed.
- `task.done`, `task.cancel`, `task.reopen`, the put-back after a done and the
  engine's park write the workflow and the step they saw in a view, over an
  await (`daemon.ts:533-535`, `807`, `817`, against 787: keeping workflow/step;
  `engine.ts:563-575`, against 563). One that saw a new task before its
  enrolment and writes after it erases the enrolment; `AnswerIsTrue` excepts it.
- An aborted tool call, or one in flight when its MCP server is closed, still
  runs to its end in the daemon.
- Cycles in `blocked_by` are accepted and block their tasks for ever. Closing a
  blocker or unblocking does not kick the scanner; the rescan timer does.
- An editor that saves a stale `task.json` while a session is live takes back
  `step_visits`.

SingleInstance and AutoSpawn
- The breaker exists before its pid is in it, so two racers may reclaim a stale
  lock together (`uds.ts:117`, against 129-130: two racers can never both), and
  one may unlink the other's lock. A reclaimer also unlinks the socket after the
  lock (`uds.ts:159-161`), between which a second process may have linked and
  bound: a daemon that is alive and unreachable. The safety
  properties hold until such a race (`TakeoverRace`); with another process in a
  reclaim a starter may also give up behind one that is then killed, so the
  liveness properties except more (`ReclaimRace`).
- The holder of a lock is looked up with `kill(pid, 0)` (`uds.ts:80-88`). The
  process a client has started and released is a zombie after its death for as
  long as that client lives (`connector.go:72-74`, against its comment that it
  leaks none), and a pid may be used again: a starter that is alone then exits
  as already running (`uds.ts:203`) and clients time out. The liveness
  properties except a starter that is told so (`Mistaken`).
- A daemon that is closing holds the lock with its listener gone: a process
  started then exits as already running and its client times out, where
  `docs/daemon.md:58-60` lets the client connect.
- `Connector.spawned` is never reset: a connector that once started a daemon
  starts no other when that one has gone (`connector.go:17-20`, `56`).
- The idle watchdog checks and then awaits (`daemon.ts:358`): a connection that
  arrives in between is closed.

SessionFeed
- After a quick re-selection, frames of the old subscription move the seen line
  and the GUI drops the replay of the new one (`store.tsx:126-140`).
- A session that fails or is aborted ends with an `error` event
  (`session.ts:488`, `511`), for which the GUI puts up a notice and does not
  fold the session (`store.tsx:531-533`): on the feed it stays at its last
  status until something else fetches it.
- `start()` reads the meta after its replay and before the events queued behind
  it, so `done` may reach the client before the last lines
  (`connection.ts:210-213`, against `store.tsx:163-167`).
- A partial may arrive after the line of its own message (`connection.ts:227`,
  against `rpc.subscriptions.test.ts:214-216`).
- A transcript whose tail was torn down before the session ended is taken for
  complete when the session is selected again (`store.tsx:171`).
- A crash in the middle of an append leaves a torn last line; the next append
  continues it (`sessionStore.ts:257`).

TaskFile
- An edit between the store's rename and its stat is cached under the store's
  own signature and is not seen (`atomic.ts:89-108`, against `19-22`).
- A comment on a task the cache does not hold takes an edited position over
  outside the lock, also while a session is live (`taskStore.ts:138-143`,
  `store.ts:566-569`).
- A comment that an edit or a deletion does not find announces nothing
  (`store.ts:613`, `627`), but the look for its task may have taken an edited
  file into the cache (`taskStore.ts:143`): the next reconcile finds the
  signature it knows and nobody is told. `ChangesAreTold` excepts it.
- An edit between a mutation's reconcile and its rename is lost
  (`store.ts:543`).
- A removal first noticed by a mutation that throws is never announced
  (`store.ts:561`).

Desktop
- `task-changed` upserts only its own row: what other rows derive from it
  (blocked, blocks) is stale until the list is fetched again. A vanished task's
  row stays, as nothing is pushed.
- A list reply with an older snapshot may replace a newer row; two views read
  for one task may be pushed in the wrong order. `ScreenIsTrue` is about the
  task on screen.
- External edits of `comments.jsonl` are never announced and a locked
  read-modify-write may overwrite them.
- The app opens a stale saved project at its first connection
  (`store.tsx:443`, against 545-548).
- The host repeats a request whose reply was lost, so a comment or task may be
  created twice; a request that is lost a second time, or finds no daemon, ends
  in an error (`commands.rs:92-113`), which a subscription passes over
  (`store.tsx:553-563`), as it does a refusal of the daemon.
- A request may install the next connection before the loss of the last is
  announced, which is then silenced (`rpc.rs:133-143`): the app sees no change,
  asks for nothing again and stays unsubscribed (`unheard`).
- A subscribe sent while an unsubscribe from the same project is under way may
  be served first, and the connection ends up unsubscribed (`crossed`).
- Two replies about a task may come in the other order than they were given; the
  older stays on screen (`overtaken`). Neither is a task followed whose reply
  was given before the subscription was served.
- A change of the registry during a lost connection is not fetched
  (`store.tsx:437-449`).
- A live session selected right after it was deselected is not tailed; two
  subscribes at once leak a subscription in the daemon.
- Two status events handled in one render are taken for no change, and the new
  connection is not subscribed. The model renders between two messages.
- The app does not listen to `registry-changed` (`daemon.ts:230-234` says a GUI
  does); it does not redial before its next request; a late reply re-creates
  the slice of a project that was dropped.

Sandbox
- The `docker stop` of a previous step's `finally` may hit the next step's
  container (`pi-agent/src/index.ts:203`, against `docker.ts:7`: a container
  lives exactly as long as one harness process).
- A run aborted in `workspace()` goes on and may create the worktree again after
  the cleanup (`cut`).
- With `force: false` the cleanup that leaves a dirty worktree says there was
  nothing to clean up and closes the task; a change between its check and the
  forced removal is lost.
- A `docker run -v` of a deleted worktree creates an empty directory that later
  steps refuse as stranded. A crash leaves pi's container until the next
  `workspace()` or cleanup.
- A docker command that fails is passed over: the exit codes of `docker stop` and
  `docker rm -f` are not looked at (`docker.ts:117-122`, `135-136`), an
  unreachable docker is swallowed by the callers of stop (`pi-agent/src/index.ts:203`,
  `215-217`), and a daemon that has reached docker once never asks again
  (`docker.ts:300-302`, `314`). A sealed session may so leave its container, and
  a task may be done by its cleanup with the container there (`missed`).

## Not modelled

- The idle watchdog: one check on a timer; its race is described above and
  losing it costs a reconnection.
- `extension.reload` as a request of its own (the reload is modelled as a step
  of every change), git sources, and which of two scopes has precedence.
- Request framing, the TCP listener, tokens, signals, log files, the PATH
  set-up: stateless or plain I/O.
- Filters and pages of the list methods, free metadata, paths, prompts, images:
  data that decides nothing here.
- The GUI's lists of sessions and their selection next to tasks, the project
  channel of sessions, its reconnect button, a change of the host's settings, the
  time-outs of a request, filters and layout. React's double bootstrap under
  StrictMode is a development aid.
- The Go note stream (a buffer between one writer and one reader), the CLI, the
  TUI, the website.

Assumed of what is outside: a docker client killed as it is spawned reaches no
docker daemon; React renders between two messages of the host, and what the host
emits comes in order; bind never reports the address in use; pi and claude
behave as their drivers say.

## Plan

Done, in this order: `Engine` with `SessionClaims` and its proofs,
`SingleInstance` with `AutoSpawn`, `SessionFeed`, `TaskFile`, `PiDriver`,
`ClaudeAgent`, `Extensions`, `Backlog`, `Desktop`, `Sandbox`, then the proofs
about each of them. What would come next, by what it could show:

1. The idle watchdog with the connections it counts: the only shutdown the daemon
   decides by itself.
2. `Undisturbed` of `DispatchedOnce` weakened to no crash and no failing write,
   with what a close leaves of a session on its task stated by itself.
3. The GUI's lists and selection of sessions next to tasks, so that `Desktop` and
   `SessionFeed` share one app.
4. `Backlog` with a failing `block` or `enroll`, and what a retry of the create
   finds then.
