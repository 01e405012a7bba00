# Avenrail in TLA+

Avenrail is a desktop app (Tauri: TypeScript and Rust) that runs coding agents of ten providers side by side,
and a headless host (`host/`, Node) that runs them on another machine. This directory holds models of the
parts where the order of events decides whether a message is lost, sent twice or left hanging, the TLC runs
that check them, and proofs of what matters most. `PROJECT.json` lists the components, runs, mutants,
findings, hazards and theorems, and maps every modelling definition to the lines it stands for. Paths below
are relative to the repository.

Contents: 1 the system · 2 the modules · 3 what each module says · 4 the runs · 5 fairness · 6 the proofs · 7
what the code does not do · 8 what is not modelled · 9 the plan

## 1. The system

| Component | State it keeps | Operations | Hard because |
|---|---|---|---|
| Host engine and store (`host/engine.ts`, `host/store.ts`) | SQLite: session rows, receipts. Memory: running turns, live snapshots, projects being switched, retry timers | nine client commands, title edit, delete, branch-switch guard, turns, batched flushes, settlement and retry, close, restart | every turn is a promise chain among commands, output callbacks, timers and process exits; any write may throw; the host may die at any point |
| Provider adapters (`host/providers.ts`, `src/integrations/harness/providers/*`) | live process per session, cancel marks, request ids | send, cancel, approve, answer, stop | launching is asynchronous: a cancel or stop can arrive before there is a process |
| Process table (`host/child-backend.ts`, `provider-guard.mjs`) | children by session | start, kill, exit watchers | a killed child leaves the table before it is dead |
| Transcript reducer (`core/apply.ts`) | none (pure) | one case per event | ids that restart with every process |
| Host HTTP server (`host/server.ts`, `sync-transfer.ts`) | device tokens, chunked transfers, a model catalog cache | RPC dispatch, sessions.sync, sync chunks | authorisation is checked again after the body arrived; transfers expire and are evicted |
| Remote client (`features/connections`) | cached snapshots, persisted outbox, one poll loop, the tab's binding to a conversation | sync, run a command, retry pending, try again, discard | lost answers, app restarts, replies that overtake each other |
| Tunnels (`src-tauri/src/remote*.rs`) | tunnels by connection | open, reuse, close | a tunnel replaced while requests use it |
| Harness registry (`core/registry.ts`) and the adapter's turn (`codex/codex.ts`) | per-session operation and steering queues, idle timers; the turn, its promise and cancel marks | send, steer, stop, park | an operation queued as its provider is parked; a stop, an answer and the end of a turn that cross on one connection |
| Native harness (`src-tauri/src/harness.rs`) and its windows (`core/child.ts`) | children with spawn epochs; handlers and parked exits in every window | spawn, write, kill, kill an account, kill all | a kill between the start of a spawn and its installation; an exit that overtakes the spawn's answer |
| Session persistence (`sessions/data/sessionStore.ts`, `session_store.rs`) | write queue per session, tombstones, transcripts pending and cached in the window | save, hide, close, reopen, delete | a save under way when its session is deleted |
| Quit and reopen (`window.rs`, `app/model/appLifecycle.ts`, `sessions/data/inFlight.ts`) | one quit at a time; each page's part in it; the table of chats in flight, the workspace snapshot | ask, poll, confirm, commit, abort; restore and continue | windows that do not answer, open or close during a quit; a crash instead of a quit |
| Orchestration (`features/orchestration`) | plan graph, worker states, checkpoints of a run | plan, dispatch, review, re-plan, resume | workers finish in any order, the app restarts in the middle |
| Agent control (`control.rs`, `control_cli.rs`) | grants, pending requests | request, reply, timeout | replies after the timeout |
| Automations (`automations.rs`, `features/automations`) | definitions, runs, event claims | claim due, claim event, update, recover | several windows; a crash with runs claimed |
| Checkpoints and worktrees (`checkpoint.rs`, `worktree_lifecycle.rs`) | refs per turn, reservations | capture, restore, reserve, remove | a worktree removed while a turn starts in it |
| Layout and tabs (`features/workspace`) | a tree of panes, tab groups | split, close, drop, move | pure tree algorithms with many cases |
| Quick composer, window transfer, terminals, reminders | small queues and timers | deliver, adopt, spawn, fire | delivery to a window that is not ready |
| Inbox, files, search, skills, MCP, settings, UI | caches | requests to disk or services | no protocol of their own |

How they meet on a remote machine: the client calls the server over HTTP; the server calls the engine; the
engine writes the store, calls an adapter and listens to its events; the adapter owns a process in the table.
Nothing but the store survives the host process.

What makes each correct is, in one line: the host settles every turn once and sends no prompt twice; the
client's picture of a session is one the host was in; a command takes effect exactly once; an adapter's output
goes to the turn that asked; a desktop save is never reordered; an automation is claimed once; a quit saves
what it closes and the next start continues what it cut; a worktree in use is not removed.

## 2. The modules

| Module | Models | Role |
|---|---|---|
| `HostEngine` | engine, store, adapter contract, process table, host process | the detailed specification, its properties, and the slips used as mutants (`Name_Slip`, each next to the definition it bends) |
| `TurnService` | what clients are promised about turns | the abstract specification `HostEngine` implements (`TurnsAreServed`) |
| `MCHostEngine` | | instances for TLC: command ids are interchangeable, so `Symmetry` permutes them where no liveness is checked |
| `HostEngineProofs` | | the engine's inductive invariant, its types, `RunningHasOwner`; what holds of the transcripts: seven invariants, `ManualTitleStays`, `SettledIsFinal`; `AtMostOneDispatch`; that the engine implements `TurnService` |
| `RemoteSync` | block revisions and syncs of the store, downloads in pieces, the tab's poll loop and its drafts | what a tab on another computer shows |
| `MCRemoteSync` | | instances for TLC: blocks of other devices and transfer ids are interchangeable |
| `RemoteSyncProofs` | | its inductive invariant, its types, `ViewIsAVersion`, `DeltasApply`, `FullSyncApplies`, `NeverGoesBack` |
| `Desktop` | | the constant `None` that the modules below share |
| `RemoteOutbox`, `MCRemoteOutbox` | `connections.ts`, `RemoteSession.tsx` | how a message typed into a remote tab reaches its host |
| `RemoteOutboxProofs` | | its four properties |
| `HarnessChild`, `MCHarnessChild` | `harness.rs`, `core/child.ts` | provider processes of the desktop, and who hears of their end |
| `HarnessChildProofs` | | its three properties |
| `HarnessSession`, `MCHarnessSession` | `core/registry.ts`, `codex/codex.ts` | one conversation: operations, turns, Stop, idle parking |
| `HarnessSessionProofs` | | its three safety properties |
| `SessionWrites`, `MCSessionWrites` | `sessionStore.ts`, the persist effect of `App.tsx`, `sessionRemoval.ts` | how a window keeps its conversations in the database |
| `SessionWritesProofs` | | its three properties |
| `AppQuit`, `MCAppQuit` | `window.rs`, `appLifecycle.ts`, `inFlight.ts`, the restore in `App.tsx` | quitting, and the start that follows |
| `AppQuitProofs` | | its three safety properties |
| `Automations`, `MCAutomations` | `automations.rs`, `automations.ts`, `automationEvents.ts`, the launch in `App.tsx` | claims, launches and their recovery |
| `AutomationsProofs` | | its two properties |

`RemoteSync` does not extend `HostEngine`: of the engine it needs only that each save takes the next revision,
in a transaction of its own, and the guard of the draft command. Composing the two would multiply their states
and add no step that either lacks. For the same reason the desktop modules stand alone: each takes of its
neighbours only what the code at their border promises (`RemoteOutbox` a host that answers a repeated command
with its receipt, `HarnessSession` a process that may die at any time, as `HarnessChild` reports it, `AppQuit`
a store to which a transcript was saved when its turn began).

## 3. What each module says

### HostEngine

**Steps.** Node runs one callback at a time, so an action is one callback: everything from a resumption to the
next `await`. `EventLoop` says that callbacks of the event loop (requests, timers, process output and exits)
wait until no promise chain is ready to resume after `await provider.stop()`, since microtasks run first. A
turn that was only queued does not hold the loop up: `run()` is called inside a request, and further commands
may be handled before its first microtask.

**State.**

| Variable | Code |
|---|---|
| `disk`, `receipts` | tables `sessions` and `receipts` of the store |
| `retired` | no table: the ids of deleted sessions, which `randomUUID` does not draw again |
| `running[s]` | `running.get(s)`: run id, `cancelled`, `persistenceFailed`, and `at`, the await its chain stands at; `retryWait` also stands for an entry of `retryTimers` |
| `live[s]` | `live.get(s)`: the snapshot events are folded into, whether it has unwritten events, whether the 120 ms timer is set |
| `switching` | `switchingProjects` |
| `naming` | calls of `generateFirstTurnNames` still waiting for a title |
| `prov[s]` | where the adapter's `send()` stands: launching, opening (handshake), turn, muted (cancelled), ended |
| `child[s]`, `dying[s]` | the process in `children`, and processes told to stop that are not gone |
| `marks` | `cancelledThreads` of the adapter |
| `sinks` | runs whose `onEvent` callback an adapter holds: it may fire late |
| `emitted` … `answered` | history for the properties |

**Commands.** `Create`, `Configure`, `Draft`, `RemoveDraft`, `Send` (send and compact), `Cancel`, `Approve`,
`Answer`: the branches of `command()`, each with its guards, its flush, the transaction that saves the row and
the receipt, and the call to the adapter. `CommandFails` is a command rejected after its flush;
`CommandFlushThrows` one whose flush failed. A repeated command id finds its receipt and changes nothing
(`Fresh`).
**Other requests.** `UpdateSession`, `DeleteSession`, `BeginSwitch`/`EndSwitch` (`withIdleProject`),
`TitleGenerated`.
**A turn.** `StartTurn` → `SendSettles` → `FinishTurn`, or `FinishTurnFails` → `RetryFires` →
`RetrySettles`/`RetryFails`. **Output.** `ProviderEvent` (text is batched; an approval, a question or a plan
is written at once), `TimerFlush`, `TimerFlushThrows`. **Adapter.** `Spawn`, `OpeningFails`, `ProviderReady`,
`TurnEnds`, `ChildExits`, `ProcessGone`. **Host.** `Close`, `Exit`, `Crash`, `Restart`.

**Abstractions.** A transcript is a set of blocks, each with the turn it is in, the command or turn that
produced it, and a mark (open, allow, building, …). Texts, models, attachments and tool calls are left out.
`randomUUID` run ids are unique and one is drawn per accepted send, so the command's id stands for the run.
Request ids do restart with every process, so they are numbers. The adapter is read from `codex.ts`; the other
nine have the same shape (a process per session, a cancel mark, a stop).

### RemoteSync

A tab polls: it asks with the revision of the snapshot on screen and gets "unchanged", a delta of the blocks
whose stamp is newer, or everything; a large answer is parked on the host and read in pieces. A React effect
owns the poll, and a refresh disposes of it and starts another while its request may still be under way.

| Variable | Code |
|---|---|
| `row` | the session's row as `store.find()` reads it: revision, blocks and busy flag (`version`), `blockRevisions` (`stamps`, missing in rows of older hosts) |
| `transfers` | `SyncTransfers.transfers`, in the Map's insertion order |
| `view` | the tab's `snapshot` state |
| `poll[p]`, `current` | one closure of the poll effect, with the snapshot it captured (`known`), and the closure not disposed of |
| `draft` | the draft command in the tab's outbox |
| `versions`, `taken`, `polled`, `view.patched` | history for the properties |

Host: `HostSaves`, `HostTakesDraft`, `HostAnswers` (`sessions.sync`), `ReadPiece` (`sessions.syncChunk` with
the loop that calls it), `OtherDownload` (another client's large sync evicts the oldest download), `Expire`,
`HostRestarts`. Tab: `PollStarts`, `Deliver`, `AskForAll` (the fallback of `loadRemoteSession`),
`DownloadIsGone`, `RequestLost`, `Refresh`, `AppRestarts`, `SaveDraft`, `DraftReceipt`. The check of the
host's identity before the first poll is folded into the request that may be lost. A request and its arrival
are one step where nothing reads in between (`ReadPiece`); where the host may save or the tab may refresh in
between, they are two (`HostAnswers`, `Deliver`).

A transcript is a function from block ids to contents: the order of the blocks is always the host's list,
which every sync carries whole. Any sync may be too large to send inline, and a large one takes `Pieces`
requests. The outbox's retry of a draft is `DraftReceipt` happening late: the host answers a repeated command
with its receipt (`Fresh` of `HostEngine`).

### RemoteOutbox

A message is written to the outbox in local storage before it is sent, under its command id, so that a lost
answer or a restart of the app leaves it there to be sent again. A message to a new conversation first needs
that conversation: `create` is sent under an id of its own, and its outbox entry carries the message that is
to follow. `Submit` puts the message up and prepares it (the worktree may fail: `PreparationFails`); `Asks`
sends; `HostHandles` is the host's transaction with its receipt; `SendReceipt` and `CreateReceipt` are the
answers, each with all that the code does with it: the entry leaves the outbox, the follow-up enters it, the
tab is bound. `RefusalArrives`, `LoseAnswer`, `Retry`, `TryAgain`/`AgainGivesUp`, `Late` (an answer for a tab
that has moved on), `Switch`, `Sync`, `OtherClient`, `Restart` and `DiesDuringReceipt` (between two writes of
local storage) are the ways in which it goes otherwise. The host is what `HostEngine` promises. `origin`
remembers in which tab and for which conversation a message was written: `OneConversation` speaks of the
messages that were written for a new one.

### HarnessChild

`harness_spawn` bumps the id's epoch (`Begin`), forks (`Fork`), looks once more whether it has been overtaken
and installs the child (`StampCurrent`, `Install`); `harness_kill` (`HandleKill`), `kill_all` (`Quit`) and
`kill_account` (`RemoveAccount`) run on other threads in between. `Reap` is the reader thread that sees the
end of stdout and reports the exit. A window hears answers and events in any order: `SpawnAnswers`,
`SpawnRejects`, `DeliverExit`, with `Park` for an exit that comes before the spawn's answer told which process
is the current one, and `Hears` for a line. Two windows may use one id: the text generators have fixed ones.

### HarnessSession

`Submit` queues an operation, `BeginTurn` starts the head; the adapter opens its connection (`Opened`,
`OpenFails`), sends `turn/start` and waits; `FinishTurn` returns and arms the idle timer, `Park` is its
firing. `Steer` sends a message into the running turn, `Stop` is the button: it interrupts a turn whose id is
known, or leaves a mark for one that has none yet. `Exit` is the process dying, with every pending request
rejected. Each direction of the connection is first in, first out; `CodexTakes`, `CodexAnswers` and
`CodexEnds` are the app server: it may end a turn before it answers the request that began it, and refuses or
delays a request while it runs another. `StartTimesOut` is the JSON-RPC timeout of `turn/start`.

### SessionWrites

A queue of writes per conversation, each invoked once the earlier settled (`Invoke`); `SaveLands`,
`DeleteLands` and `WriteFails` are the store's answers. `Effect` is the persist effect of `App.tsx`, which
looks at every mounted conversation that changed since it was last `observed`. What it finds waits in
`pending` for a 650 ms timer (`Flush`) if the chat is in no turn, has no tab, has a new prompt or a new
provider thread, or was never saved; the output of a turn that is shown does not (`due`), so that a copy put
there earlier stays as it was. The end of a turn is such a change, and is saved by the timer. A new prompt or
provider thread is also saved at once (`fresh` in `Change`). Whether a busy chat has a tab is a choice of each
step (`tabless`). `Edit` changes a transcript, `Begin`/`End` are a turn or a compaction. Saves past the timer
are `PersistNow` (closing a tab, renaming, side threads) and `Hide` (the window goes to the tray), neither of
which touches `pending`. `Close`, `Reopen`, `Prefetch` and `Discard` move transcripts between what is mounted,
cached and stored. A removal asks, drains the queue as it was when it began, deletes, and lets go of the
tombstone a minute later or when it failed (`AskRemoval`, `BeginDelete`, `Drained`, `EndRemoval`, `Expire`).
Deleting a lead clears its id in the transcripts of its workers, in the store and in writes that are still
queued (`Stripped`).

Some state is only watched: `withdrawn`, the edits the user discarded; `early`, the conversations loaded
before their last save was stored (what such a window shows may lack what the queue still holds); `dropped`,
those with a failed write, or with one a removal threw away; the mark `old` of a write that, when it was asked
for, held less than what was mounted, and `outdated`, the conversations whose row was last saved by such a
write. A move of a chat to another working copy is left out, and with it `switchingWorktrees`, under which
saves are skipped.

### AppQuit

The coordinator of `window.rs` has one run at a time and three stages: it polls the windows for work, lets one
of them ask (`Prompt`), and has every window save (`StartCommit`); a window that does not answer in time does
not hold the quit up (`TimesOut`), and one that refuses aborts it. A page handles events one by one (`Hears`:
`Poll`, `Confirm`, `Commit`, `Aborted`); its calls arrive as the coordinator gets to them (`HandleCall`).
`Begin`/`End` are turns, `NextWrite`/`WriteRows` the window's writes of the table of chats in flight, one
after the other, `SyncSnapshot` the workspace. `Start` is the app starting, after an exit or a crash, and
`Boots` a page that restores its snapshot and, in whichever window it is, takes the chats of the table for
interrupted ones.

### Automations

Each window makes passes: it lists what is due and claims occurrence by occurrence (`StartPass`, `ClaimDue`,
`EndPass`), where the database moves `next_run_at` on under the condition that it is still the one listed;
over the inbox it claims an event key for an automation (`StartInbox`, `ClaimEvent`) and keeps an item whose
claim failed for a retry. A claimed run is launched by the window that claimed it: `Mark` (running), `Submit`
(the prompt), `Settle`. A window that boots recovers first: runs left running are interrupted, pending ones
are launched (`Recover`, `RecoverFails`). `Edit` and `EditLands`, `Delete`, `RunNow`, `OpenWindow` and
`Restart` happen in between.

## 4. The runs

All bounds are CONSTANTS. `HostEngine`: `MaxEvents` per turn, `MaxFaults` failing transactions, `MaxCrashes`
ends of the host process (crash or clean exit), `MaxRenames`; `CommandTypes` and `EventKinds` choose what
clients and providers may do in a run, `OtherSteps` whether sessions are deleted, branches switched and the
host shut down, so that each run can afford the depth its question needs. `RemoteSync`: revisions
(`MaxRevision`), losses of any kind (`MaxFaults`), re-runs of the poll (`MaxRefreshes`). The desktop modules
name theirs for what is counted; `SessionWrites`, `AppQuit` and `Automations` draw all their happenings from
one budget (`MaxHappenings`), so that a run may spend it on whatever combination breaks something. Deadlock
checking is off: once every command, prompt or happening is used and everything has settled, nothing is left
to do, and the system rests.

| Run | Instance | Question |
|---|---|---|
| `host_turns` | 2 sessions of one project, 3 commands (create, send, cancel), text, 1 failing write, branch switches, deletion | has every running session exactly one owner; is output kept, and in its own turn; does no turn run while a branch is switched? |
| `host_crash` | 2 sessions, one of them existing, 2 commands (create, send, cancel), approvals, 2 failing writes, 2 crashes, deletion and shutdown, fair | is nothing sent twice, no acknowledged message lost, nothing settled twice; is this `TurnService`; does a stopped turn settle? |
| `host_documents` | 1 session, 3 commands (send, compact, approve, answer, configure, drafts), approvals, questions and plans, 1 rename | does a decision reach the turn that asked, once; does a settled session ask for nothing; does the live snapshot follow the row; do typed titles survive? |
| `sync_downloads` | 1 block, 3 revisions, 2 overlapping polls, room for 1 of 3 downloads, 2 pieces, 1 loss, 1 refresh | do deltas and pieces add up to what the host held; does each delta apply; does the tab never go back? |
| `sync_liveness` | another device's block and the tab's draft, 4 revisions, 1 loss, fair | does the second, full try always apply; does the tab reach the last revision? |
| `outbox` | 1 tab, 2 messages, 2 creates, 1 older conversation; 2 lost answers, 1 switch, 1 restart, 1 turn of another client | is a message prompted at most once; is no second conversation made for it; is every message saved kept, and does only an answer erase a request? |
| `child` | 2 windows sharing 1 id, 2 spawns on an account, 1 stop, 1 removal of the account, a quit | is no process left behind; does each handler hear of the end of its own process, and of no other's? |
| `session` | 2 prompts, 1 exit, 1 timeout, 1 steer, stops and parking, fair | is no turn lost or settled by another's end; does Stop stop; does every send return? |
| `writes` | a lead and its worker; 2 edits, 4 happenings (edits, turns, drafts, saves at once, closed chats, hidden windows, removals, refused writes) | do writes keep their order; are deletions final; is everything stored once it is quiet and in no turn? |
| `quit` | 2 windows, 1 chat, 3 happenings (quits, turns, windows, failing writes, starts), fair | is the exit agreed and saved; does the next start find what was cut; does no quit hang? |
| `automations` | 2 windows, 1 automation, 1 inbox item, 2 ticks without grace, 2 runs, 1 happening, 1 restart | is every occurrence claimed and submitted once; is none forgotten? |
| `quit_new_window` | as `quit` | ends in the counterexample of section 7 |

A property that names several facts is their conjunction. `OneChildRuns`: types, a running process that was
not told to end is in the table or about to ask for its place (`NoOrphans`), and a spawn that a kill overtook
is not installed (`OvertakenStaysDown`). `SessionConsistent`: types, the idle timer runs when the connection
is idle and never beside a turn (`IdleIsTimed`), and a send returns only with the end of its own turn
(`TurnEndsWithItself`). `OutboxConsistent`: types, and a message once saved stays in the outbox until the host
has taken or refused it (`SavedIsKept`). `DeletedIsGone`: types, a deletion is final (`DeletedStaysDeleted`),
no stored worker names a deleted lead (`NoWorkerOfADeletedLead`; but for a worker reopened before its last
save was stored, after a removal of the lead had failed: section 7). `SavedWhenQuiet` leaves out a turn under
way, whose output waits for its end; `NothingOverwritten` the write of a copy that was older than what was
mounted when it was asked for, and `SavedWhenQuiet` a row that is such a copy (`MCStaleCopy.cfg`, section 7).
Neither speaks of a conversation that was loaded before its last save was stored. `QuitConsistent`: types, and
a page that stays goes on saving on unload, or has still to handle the event that calls the quit off
(`StaysMeansPersisting`). `ExitIsSafe`: `ExitIsAgreed` and `ExitIsSaved`. `ReopensWhatWasCut`: what was cut by
an exit is restored and continued (`KeptForReopening`), and the table follows the chats in flight
(`TableFollows`). `RunsOnce`: types, `ClaimedOnce`, `SubmittedOnce`.

Why these bounds are enough to be interesting. On the host, a second turn of the same session is what a late
callback, a stale mark or a reused request id needs (two sends), and a third command is what cancels, decides
or repeats in between. One failing write reaches every catch block but one: the retried settlement must fail
as well to be retried again, hence the second failing write in `host_crash`. Two crashes let a restart itself
be cut short. Sessions share nothing but their project's switch flag and the host process. For the sync, a
block may change at each of two revisions after the one the tab has, so that a stamp one off matters; two
polls overlap; one place for downloads makes every second download evict the first (`MAX_TRANSFERS` is 8), and
two pieces put a save, an eviction or a restart between them. Blocks are stamped, sent and merged one by one,
so one block shows what deltas do to each. The fourth revision of `sync_liveness` is the change after a late
draft receipt that makes a delta miss a block, and so the fallback happen. In the outbox, two messages
overtake each other and two creates repeat each other; answers are lost, and the app dies, in between. What a
second tab does to the conversation of a message is the larger instance `MCOutboxTabs.cfg` (two tabs that
switch three times, one message), kept beside the runs. Two spawns under one id are a spawn and the one that
replaces it; two windows let neither know of the other's. Two prompts put every late answer, end and mark of
the first in the way of the second. A lead and a worker are the only two kinds of conversation; one write
waiting when another is made shows the order, and one refused write every catch block; a second edit makes one
copy older than another that was written before it. A quit meets at most one other quit, and two windows are
one that answers and one that does not. Two ticks are an occurrence and its missed predecessor, and two
windows two claims for it.

Every property of a passing run has a mutant in `PROJECT.json`: a plausible slip in one mapped definition (a
dropped guard, a forgotten reset, an inverted condition) under which TLC finds that property violated.

## 5. Fairness

`FairSpec` assumes weak fairness of: the engine's own callbacks and its retry timer; the launch (it succeeds
or fails) and the handshake, which times out after a minute; a provider's reply to an interrupt
(`turn/interrupt` has no timeout of its own, so this is an assumption about the provider); the end of a killed
process, which gets SIGKILL after three seconds; and the restart of the host by its service manager. Nothing
is assumed of clients, of output, of crashes, or of a turn nobody stopped, which may run for ever.
`StoppedTurnSettles` leaves out a host that is shutting down; see `MCHostLatePrompt.cfg` in section 7.

`FairSpec` of `RemoteSync` assumes that the tab's timers fire and that each request is answered, lost or
refused. At most `MaxFaults` answers are lost and downloads evicted; without that bound nothing could be
promised, since a large snapshot may be evicted each time. Nothing is assumed of the host's saves, of the user
or of other devices; there are at most `MaxRevision` saves, so "catches up" is about the time after the last.

`SessionFairSpec` of `HarnessSession` assumes that the window's event loop runs every continuation that is
ready (`TurnNext`) and every message that arrived (`Hear`), and of the provider that it reads its requests,
answers them and ends the turns it runs (`CodexTakes`, `CodexAnswers`, `CodexEnds`). The last is a fact about
the provider: a turn without an end would keep its send waiting, as the code means it to. Nothing is assumed
of the user, of exits, of timeouts or of the idle timer: a send returns without any of them.

`QuitFairSpec` of `AppQuit` assumes only that the threads of the coordinator wake up: `start_confirm` goes on
to ask, and a stage whose windows are silent times out. Nothing is assumed of the windows, which may never
answer: that is why the coordinator has its timeouts.

The other desktop modules state safety only. A request to the host or the database that fails there is either
repeated when the user or a later event asks for it, or not at all, so no step of theirs can be promised
without an assumption about users.

## 6. The proofs

TLC checks each property on the instance of its run; the theorems hold for any values of the constants: any
numbers of sessions, windows, messages, losses, failing writes, crashes and restarts. They rest on named
assumptions that TLC evaluates in every run: sets of different kinds are disjoint, bounds are natural numbers
(`ConstantsAssumption`, `SyncAssumption`, `OutboxAssumption`, `ChildAssumption`, `SessionAssumption`,
`QuitAssumption`, `WritesAssumption`, `AutomationsAssumption`; a parked exit needs at least one place), and
the constant `None`, which stands for a missing entry, is no entry (`NoneAssumption`, `RecordsAssumption`,
`JobsAssumption`, `CallAssumption`, `LiveAssumption`, `QuitRunAssumption`, `RowsAssumption`,
`WriteRecordsAssumption`, `PassesAssumption`). No proof assumes fairness.

Each proof has the same shape: an inductive invariant, which TLC checked first on the instance of the run; one
lemma per action that it is kept; and the theorems read off it. What follows is what had to be added to the
properties to make them inductive, and why.

**The engine** (`HostEngineProofs`)

* `TypeCorrect` (`TypeOK`), `NoOrphan` (`RunningHasOwner`). Types are not inductive by themselves: a
  settlement and a timed flush write `disk[s]` without looking whether the row exists. `IInv` adds that every
  promise chain belongs to the turn its row names and the row reads "running" (`ChainOnDisk`), that a live
  snapshot is one of that turn (`SnapshotOfChain`), and that a row reading "running" has a chain while the
  host is up (`RowHasChain`). Most actions are "quiet": no chain, row or snapshot appears, ends or changes its
  turn.
* `SnapshotsFollow` (`LiveFollowsDisk`), `OutputHasItsPlace` (`OutputStaysInItsTurn`),
  `SettledTurnsAskNothing` (`SettledAsksNothing`), `ReceiptsAreKept` (`ReceiptIsDurable`), `OutputIsNotLost`
  (`OutputIsKept`), `RequestsAreDecidedOnce` (`AnsweredOnce`). The engine has two versions of a running
  session, the row and the live snapshot, and either may be the next one written; so what is inductive is said
  of both. `TInv`: every version is in order (`VersionsOK`), the snapshot is the row or the row plus events
  not yet written (`SnapshotAhead`), what was taken in is in the later of the two (`OutputInLatest`), a
  decision is about an event that was emitted (`DecisionsOK`), and the adapter works for the chain that is
  sending (`AdapterOfChain`). The proof first says what a step can do to a session, eleven ways in
  `SessionStep` (flush, retitle, settle, send, take in, …), shows that every action is one of them, and from
  then on looks at those only.
* `TitlesStay` (`ManualTitleStays`) and `SettledStays` (`SettledIsFinal`) are action properties. A row is left
  or works on, rests, or starts another turn (`RowStep`), and a name that was typed is kept by each.
* `SwitchesAreIdle` (`NoTurnDuringSwitch`): the switch finds the project idle, and a send is refused while it
  lasts.
* `DispatchedAtMostOnce` (`AtMostOneDispatch`). The count alone is not inductive. `DInv` adds that a command
  without a receipt was not dispatched, and that a chain's command has a receipt naming the chain's own
  session, so that no two chains share a command; a queued chain has dispatched nothing.
* `ServesTurns`: `Spec => TurnsAreServed`, the refinement of `TurnService`. Under the mapping a turn is new
  until its message is on disk, dispatched once the adapter was called, settled once the row no longer runs
  it. Each step is a step of the service (accept, dispatch, settle; a restart settles several turns at once)
  or shows a client nothing new.

**The sync** (`RemoteSyncProofs`)

* `ShowsWhatWasThere` (`ViewIsAVersion`). `IInv` chains four facts. Stamps are honest (`StampsHonest`): a
  block stamped r has not changed since r. Hence every sync under way, parked or read, names a revision the
  host had and carries each block that changed after its base (`Honest`). Hence a snapshot put together from
  it and from a faithful one is faithful. And history only grows: `versions` of a past revision never changes.
* `NoNeedlessDownload` (`DeltasApply`): a block that does not travel was in the snapshot at the base.
  `SecondTryApplies` (`FullSyncApplies`): a sync without a revision is a whole snapshot.
* `TypesHold` (`TypeOK`), and `RevisionsOnlyGrow` (`NeverGoesBack`), an action property. A poll that is in use
  was started from the snapshot on screen (`KnownIsShown`), because every change of that snapshot disposes of
  the poll and starts another; so what it brings is no older.

**The outbox** (`RemoteOutboxProofs`)

* `MessagesArePromptedOnce` (`PromptedOnce`), `NoMessageIsForgotten` (`OutboxConsistent`),
  `AnswersEraseTheirOwn` (`OnlyItsAnswerErases`). `OutboxInv`: the entry of a create names no session and may
  carry the message to follow, that of a message names its session and carries none (`BoxOK`); a job that
  awaits an answer has a request, and one with a receipt has it from the host; what was prompted has a
  receipt.
* `NoSecondConversation` (`OneConversation`). `ConversationInv` follows a message that the host has neither
  taken nor refused (`Open`). At most one create of it is live. All that refers to it, in local storage or in
  memory, belongs to the tab it was written in, and while a create of it is live that tab has a request to
  retry, so that its Try again, which would make another, is not offered.

**Processes** (`HarnessChildProofs`)

* `OneChildAlwaysRuns` (`OneChildRuns`): a running process that was not told to end is in the table or belongs
  to a call that has yet to pass `Install`, and a spawn that was overtaken while it forked is never installed;
  its process may run beside its successor until that step kills it. `ExitIsAlwaysOwn` (`ExitIsOwn`).
  `HostInv`: a process nobody told to end is in the table or belongs to a call that has yet to look whether it
  was overtaken, and a call whose stamp is the current one was not. `WindowInv`: while a spawn has not
  answered, its window watches it or nobody; what was announced was a child.
* `DeathIsToldWhileThereIsRoom`: `ChildSpec /\ []ParkedHasRoom => []DeathIsTold`. The buffer of parked exits
  has eight places and a full one drops its oldest entry, whosever it is (`child.ts:159`), so `DeathIsTold`
  needs that an exit which has to be parked finds a free place; the theorem says so. TLC finds that it always
  does in the run, which has a place for each process.

**Conversations** (`HarnessSessionProofs`)

* `NoTurnIsLost` (`NoLostTurn`), for every user. `TurnInv`: the queue holds the operations under way, each
  once, and only its head is past waiting; a pending promise is that of the turn registered with the
  connection; without a connection nothing is on the way.
* `SessionIsConsistent` (`SessionConsistent`) and `StopsStop` (`StopStops`). But for the types, both speak of
  a user who does not hurry the app (`hasty` is chosen at the start and never changes; what a hasty one can do
  is the counterexample of `MCSessionEarlyStop.cfg`). For such a user `PoliteInv` says what is on the wire:
  with no turn under way, nothing is sent, owed or running (`Silence`); with one, all that is on is about that
  one, each note once and in order, the interrupt only of a stopped one, and nothing but a late answer to
  `turn/start` once its promise is settled (`Traffic`).

**Quitting** (`AppQuitProofs`)

* `ExitsSafely` (`ExitIsSafe`), `StayingPagesPersist` (`QuitConsistent`). The coordinator decides from answers
  that are out of date when it reads them, so the invariant follows an answer from the page to the decision:
  the turns of a window that said it had none began after it said so (`Told`, `Agreed`); a window that said it
  had saved has saved (`Kept`); an event on its way to a page is followed by the one that takes it back
  (`Recalled`); and every late answer names an older quit (`Numbered`).

* `WhatWasCutReopens` (`ReopensWhatWasCut`). The turns a save cut short are known only to that save, so the
  invariant says where it is: of the only window at most one thing is out for a quit, a commit to hear, a save
  or an answer, and each names the quit that commits (`CutKept`, `OneOut`). The save holds every turn it cut,
  and an answer that it succeeded means that those are in the table or in the snapshot. For a crash, the
  writes of the table end with the chats in flight, and behind the last one made for turns come only writes of
  the same chats (`TableKept`); a window that was never opened wrote none (`PagesWrite`).

**Desktop writes** (`SessionWritesProofs`)

* `DeletedIsGoneAlways` (`DeletedIsGone`). `DInv`: a tombstone matches the stage of its removal, a removal has
  one delete in the queue, and of a deleted conversation nothing is left that could be written once the
  tombstone is taken away. `NInv` is about workers: a write that names the lead is one `sessionWriteLeadById`
  knows, so that the removal of the lead waits for it, and none is left to name the lead when it is gone.
* `NothingOverwrittenAlways` (`NothingOverwritten`) and `SavedAlways` (`SavedWhenQuiet`). `MInv` orders the
  copies of a conversation: stored, being written, queued, and mounted, cached or read by a load, where each
  holds the edits of the ones before it, but for those the user discarded and for writes of `old` copies,
  which still hold no more than what is mounted. It needs `LInv`: a conversation is in one place, and nothing
  is queued behind what a load has read. `QInv` says that what the queue ends with is what the user sees,
  unless a turn is under way, something is pending, or that write is `old` (`FinalOld`, which is `outdated`
  once the queue is empty).
* A step changes one conversation, in one of the kinds listed in `Changes`; the parts of the invariant are
  kept kind by kind. What a step on the lead means to its worker is `LeadMoves`.

**Automations** (`AutomationsProofs`)

* `RunsOnceAlways` (`RunsOnce`). `TInv`: each run a page has claimed is in one place of that page (a pass, the
  queue of its recovery, marked, in a turn), and those of the recovery were there before the page. `RInv`: a
  scheduled run lies behind its automation's `next_run_at`, and a run for an inbox item has its claim, so
  neither can be claimed again. `SInv`: a pending run was never prompted, nor was one that the only page has
  still to submit.
* `NothingIsForgotten` (`NothingForgotten`). `HInv`: a run that waits or runs is in the hands of a page.
  `KInv`: the one page retries exactly what is stored, and an item its pass has done with is claimed or has
  failed and is kept.

With that every safety property that a passing run checks is a theorem (`DeathIsTold` as long as a parked exit
finds room). What stays with TLC is liveness under fairness (`StoppedTurnSettles`, `CatchesUp`, `SendsReturn`,
`QuitSettles`), which is out of the prover's reach.

## 7. What the code does not do

Several configurations end in a counterexample to what a document, a comment or a test says. `quit_new_window`
is a run; the others stand beside the runs (`tlc -config MCHostStaleMark.cfg MCHostEngine`, and so on).

* `quit_new_window` (`OnlyCutTurnsContinue`) — a page that saves for a quit is to "record that a real quit cut
  the turn short" (`inFlight.ts:78`). The table also holds turns that are merely under way, and each window
  that boots, a new one of the running app as well, takes every row of the table it can show for a turn that
  was cut: a window opened while a chat runs in another marks that chat as interrupted and, of its own accord,
  sends "Continue from where you left off." to it (`appLifecycle.ts:275`, `App.tsx:8245`).
* `MCHostStaleMark.cfg` (`QuietTurnWasPrompted`) — "Other remote prompts are sent directly to the provider"
  (`docs/remote-access.md:103`). Stop a turn while the engine is already awaiting `provider.stop`: the row
  still reads "running", so the cancel is accepted; the adapter has no live process any more and leaves a mark
  (`codex.ts:345`). The next message of that session finds the mark after its handshake and returns without
  prompting (`codex.ts:151`); the turn settles as if it had completed.
* `MCHostOldProcess.cfg` (`SettledMeansStopped`) — "Keep the session running until the old process has
  stopped" (`engine.ts:823`). When an urgent write fails, the provider is stopped without being awaited
  (`engine.ts:366`). The child leaves the table at once, so the awaited stop that follows returns at once, and
  the session accepts a follow-up while the old process is being killed.
* `MCHostOldDecision.cfg` (`DecisionIsFinal`) — "Approval request ids are live only for the turn that produced
  them" (`apply.ts:518`). A decision is written to every block with the request's number, and numbers restart
  with each process, which the host starts for each turn: allowing request 1 now rewrites how an earlier
  turn's request 1 was decided.
* `MCHostLatePrompt.cfg` (`NoPromptOnceClosing`) — "Stop the host and interrupt its running turns"
  (`host/cli.ts:85`). A turn whose binary is still being resolved has nothing to stop yet; it is prompted
  after `close()` began, and `close()` waits for it.
* `MCSyncOverlay.cfg` (`PolledIsTheHosts`) — "Accepted drafts are actionable before the next snapshot arrives"
  (`RemoteSession.tsx:585`), and the view "loads the host's latest persisted snapshot"
  (`docs/remote-access.md:67`). When a draft's receipt comes after that snapshot (a slow answer, or a retry),
  the tab puts the draft on the newer snapshot, marks it idle, and keeps its revision. Later polls ask with
  that revision and are answered "unchanged", so the tab shows a draft that was sent or removed, or a running
  session as idle, until the host saves again.
* `MCOutboxOtherConversation.cfg` (`StaysInItsConversation`) — what is answered late is dropped when the tab
  "has switched conversations" (`RemoteSession.test.ts:1065`). Try again is not: when its uploads end after
  the switch, the message is put up as failed in the conversation now shown (`RemoteSession.tsx:1052`), and
  trying again sends it there, or creates a conversation for it if the tab shows a new one. Repeated, that
  makes two conversations for a message that was written for an existing one, which is why `OneConversation`
  speaks of the others.
* `MCOutboxStuck.cfg` (`ShownIsOnItsWay`) — "An uncertain request retains its original command ID, including
  creation of a new session and its first message" (`docs/remote-access.md:67`). Retry puts the first message
  of a new session up as on its way (`RemoteSession.tsx:1027`); if the host refuses the create, the entry
  leaves the outbox with the message, which goes on reading as on its way with nothing to send it. A session
  that is opened before the answer to its create arrives loses sight of its first message in a similar way: it
  stays in the outbox, and no Retry is offered (`RemoteSession.tsx:583`).
* `MCChildLateOutput.cfg` (`LinesOfOwnChild`) — the tests of `child.ts` drop what a stopped child prints late
  (`child.test.ts:210`, `:287`). The reader thread emits lines under the id alone (`harness.rs:899`), so those
  that arrive once a new process was started reach the new process's handlers.
* `MCChildRemovedAccount.cfg` (`RemovedAccountIsNoticed`) — "any running turns for this account will stop"
  (`SettingsView.tsx:3285`). `kill_account` takes the child out of the table before it dies
  (`harness.rs:214`), so its reader does not find it there and reports no exit: the process is gone, and its
  window waits for the turn.
* `MCSessionEarlyStop.cfg` (`StopAlwaysStops`) — "Only turn/completed (and turn/aborted) settle sendCodexTurn,
  which is what the UI uses for busy / stop" (`codex.ts:791`). Stop before the answer to `turn/start` has
  named the turn sends no interrupt, and settles the send all the same (`codex.ts:352`): the provider's turn
  goes on, unseen.
* `MCStaleCopy.cfg` (`OnlyNewer`) — "two writes for the same session could otherwise land in either order and
  let an older transcript overwrite a newer one. Chain them per session" (`sessionStore.ts:211`). The writes
  are chained, but a copy may be old before it joins the chain. A prompt puts the transcript in
  `pendingPersist`; the output that follows does not replace it while the chat is busy and shown
  (`App.tsx:1983`). Closing the tab in the 650 ms before the timer saves the newer transcript at once
  (`App.tsx:2776`), as closing the window to the tray does (`App.tsx:1832`); then the timer saves the older
  one over it (`App.tsx:2012`). The row lacks that output until the chat changes without a tab or its turn
  ends; a crash before that loses it.
* `MCSecondRemoval.cfg` (`WorkersWritesFirst`) — "A lead with workers still has writes in flight. Finish those
  before the deletion transaction strips their ownership metadata" (`sessionStore.ts:507`). The removal of a
  lead finds its workers' writes through `sessionWriteLeadById`, which knows the lead of the save asked for
  last, not of those still queued (`sessionStore.ts:250`). A first removal fails after a save of the worker
  was stored without its lead. The worker, still naming the lead in memory, is edited, closed, and reopened
  before that edit is stored, so that it comes back without the lead; its next save takes it out of the map,
  and a second removal of the lead no longer waits for the first save, which names it.

Smaller observations, without a configuration:

* Host: a draft saved as a session's very first block replaces a title the user typed (`ManualTitleStays`
  excepts it); on Windows `kill` waits a second at most; a flush that throws keeps its events but not its
  timer, so they wait for the next event, command or settlement.
* Processes: a `harness_kill` that is handled late can kill a newer spawn of the same id; `kill_account`
  misses a spawn that has not been installed.
* Saved conversations: one reopened while its save is queued shows the older copy; an edit made less than 650
  ms before a removal that is called off is saved only with the next change; the failed deletion of a lead can
  leave a stored worker without its lead.
* Conversations: a Stop with no turn registered on the connection is remembered, and ends the next turn at
  once.
* Quitting: two windows overwrite each other's rows in the table of chats in flight and in the snapshot
  (`inFlight.ts:71`); a turn that begins or ends during a quit's save may leave the table; a page that is told
  to commit while it boots stops saving, and an abort does not undo that (`appLifecycle.ts:131`, `:184`); a
  late refusal of an older quit tells the windows that the newer one is off; a write of the table that failed
  is not repeated until the chats in flight change.
* Automations: the recovery of a second window interrupts runs that the first one has running; saving or
  toggling an automation that is overdue drops the occurrence; an edit in flight brings a deleted automation
  back; claims of a window that closes wait for the next start.

## 8. What is not modelled

In the engine: naming a new worktree's branch, binding of provider session ids, attachments, `session.error`
events. In the adapters: the wire protocols, and all adapters but Codex's. In the sync and the outbox:
attachment previews, the cache of closed tabs' snapshots, and commands without a message. In the registry:
compaction and rewinding, which wait and settle as turns do. In the processes: stdin, stderr and SSE. In the
store: archiving, pinning, linking, search, the repair of Claude rows, and the move of a chat to another
working copy, which sends its pending copy away and during which saves are skipped. In the quit: closing a
single busy window, and the tray. In the automations: time zones, schedules, folders and the trimming of
histories.

Components without a module yet, listed in `PROJECT.json` with the module planned for them: orchestration, the
agent control socket, checkpoints, the worktree lifecycle, layout and tabs, the quick composer and window
transfer, terminals, reminders and tunnels. The user interface, the inbox integrations, files, search, source
control, skills, MCP, settings and the host's git and attachment commands render, shape data or call external
services; they keep no state of their own that an order of events could break, and stay out.

## 9. The plan

Remote host first (a lost or repeated prompt costs the most), then its client, then the desktop. One run per
component, safety and liveness together where its state space allows it.

1. `HostEngine`, `TurnService` and their first proofs (done).
2. `RemoteSync` and its snapshot theorem (done).
3. `RemoteOutbox` (done).
4. `HarnessSession` and `HarnessChild` (done).
5. `SessionWrites`, `AppQuit`, `Automations` (done).
6. Proofs on the host: everything the runs check but liveness, and the refinement of `TurnService` (done).
7. Proofs on the remote client and the desktop: every safety property of `RemoteSync`, `RemoteOutbox`,
   `HarnessChild`, `HarnessSession`, `SessionWrites`, `AppQuit` and `Automations` (done).
8. Further modules: `Orchestration` (dependency graph, worker limit, re-planning), `ControlRequests`,
   `WorktreeLifecycle` (reservations), `QuickDelivery`, `Tunnels`, `Reminders`, `PaneTree` (the layout
   algorithms against a reference definition), `Checkpoints`.
