# NemesisBot: a TLA+ verification of delegation, team board, archives and cron

NemesisBot is an agent platform in Rust. One bot can delegate a task to another
(a *peer*): the conversation that delegated it is suspended, the peer works on the
task, possibly delegating further, and its answer resumes the conversation, minutes
or hours later and across restarts of either process. On top of it a team board hands
issues to peers, reviews what they deliver and merges their work into a project
repository, and a cron service starts work by the clock. These are the parts of the
program where several processes, threads, timers and files must agree, and they are what
this project models.

Everything below is relative to the repository: `nemesis-cluster/...` stands for
`src/crates/nemesis-cluster/src/...`, and likewise for the other crates;
`nemesisbot/...` stands for `src/nemesisbot/src/...`.

## 1. Inventory

### Components of the core

| Component | State | Operations | Interacts with |
|---|---|---|---|
| Requester task table: `nemesis-cluster/task_manager.rs`, `nemesis-taskstore/{runs,ledger}.rs` | SQLite `runs` and `attempts`; the route dedup set in memory | `submit`, `assign_task`, `complete_task`, `fail_task`, `delete_task`, `cleanup_completed` (30 s) and the ledger calls of board, cron, workflow | RPC callback threads, recovery poll, dashboard, schedulers, all on the same table |
| Worker: `nemesis-cluster/cluster_task.rs`, `rpc/peer_chat_handler.rs`, `nemesisbot/cluster_agent.rs`, `cluster_service.rs` | `ClusterTaskList` (map + `tasks.json` + conversation files), the two-lane `ClusterWorkQueue`, cancel tokens | `peer_chat` intake, the serial agent loop, `save_async_state`, `inject_callback_result`, `cancel_task`, 60 s sweep, `first_start` | result store, requester (callbacks), its own delegations |
| Worker result store: `nemesis-cluster/task_result_store.rs` | bounded map + one JSON file per task | `set_running`, `set_result`, `delete`, `confirm`, eviction, reload | `query_task_result`, agent loop, delivery confirmation |
| Continuation: `nemesis-agent/loop_continuation.rs` | `continuations` (memory), snapshot files, `handling` claims, `restore_phases`, the `final_persisted` mark | save of the suspended turn, `handle_cluster_continuation`, `finish_handling`, recovery | message bus, session log, LLM loop |
| End-to-end delivery: `nemesisbot/commands/gateway/cluster_init.rs`, `nemesisbot/cluster_service.rs`, `nemesis-cluster/cluster/tasks.rs` | the ACK, the row, the snapshot, the callback and its retries, the poll | dispatch, callback routes, `poll_stale_pending_tasks` (120 s), `first_start`, `persist_result` | all of the above, over a lossy RPC |
| Team board, life of an issue: `nemesis-board/store.rs`, `nemesis-web/handlers/board/{dispatch,cascade}.rs`, `nemesisbot/commands/gateway/{board_dispatch,autopilot}.rs`, `nemesisbot/board_review/` | issues, dispatch rows and comments in `board.db`; the retry marks | `dispatch_issue_core` and its seven callers, `write_back_board_dispatch`, timeout and park sweeps, `review_issue` with its replay at the start, rebalancing, hand moves, `issue_cancel`, `issue_cancel_dispatch` | worker (RPC and its report), humans, nodes that announce themselves |
| Experience archive: `nemesis-cluster/{exec_workspace,outbox,transfer}.rs`, `nemesisbot/board_archive_ingest.rs` | working copy and marker, outbox entry and payload, staging, inbox with receipt and `.dedup.json`, `records/`, `PLACED` and `MERGED` in memory | `finish_task_exec`, `enqueue_with_changeset`, `process_once`, `begin`/`chunk`/`end`, `ingest_landed`, `merge_and_maybe_review`, `request_pull`, three sweeps | worker's terminal hook, board's write-back, both restarts |
| Cron service: `nemesis-cron/service.rs` | jobs in memory and in `jobs.json` | add, update, enable, disable, remove, run now, pause from inside a handler; the loop's collect, run, write back, save; `recompute_next_runs` | users, handlers, the disk |

What is hard here, and where each behaviour is modelled:

- *Several settlers of one row*: callback, poll, cleanup tick and dashboard race, each
  in several SQL statements (TaskManager).
- *Check and act under two locks*: `cancel_task`, `persist_to_disk`, `store` and
  `finish_handling` release a lock between deciding and acting (ClusterWorker,
  TaskResultStore, Continuation).
- *At-least-once wake-ups*: callback retries and the poll wake one conversation several
  times (Continuation, TaskDelivery).
- *Crash between any two steps*, with part of the state in SQLite, part in JSON files and
  part in memory (every module).
- *Lost requests, ACKs and callbacks* and the timers that make up for them (TaskDelivery).
- *State read before a wait and used after it*: a dispatcher's status before the claim, a
  review's before an LLM call of minutes, a cron job's before its handler (BoardDispatch,
  Cron).
- *Two legs that must not leave the work to each other*: report and archive (Archive),
  write-back and sweep (BoardDispatch).
- *Things that must eventually happen*: overdue rows reclaimed, tasks reported,
  conversations continued, dispatches settled, reviews decided, jobs fired, archives merged.

What makes each component correct:

- task table: a row is decided once, everybody is told the same outcome, the completion
  callback fires once, attempts are closed with their run;
- worker: an accepted task is never forgotten, never at a dead end, not run twice, not hidden from its
  requester, resumed with the answer it waits for, and eventually reported;
- result store: a result never turns back into "running", and survives a restart;
- continuation: one reply per conversation, and no conversation lost before its reply;
- delivery: the conversation continues, with the worker's own answer unless something
  was really lost, and the books agree with it;
- board: one dispatch of an issue at a time, no step of the machine reopens a closed issue,
  no issue is left in progress without a dispatch or a word, none is retried after its report;
- archive: what was acknowledged is on the master, the finished work is what is merged, and
  it is merged once;
- cron: a job that is off does not fire, a schedule a user was told is kept, a one-shot
  is not replayed, what is due fires.

### The rest of the repository

Listed in `PROJECT.json` with the reason it is not modelled. Core logic that the plan
(section 8) takes up: node registry and health probe, roaming mandates, parents and
dependencies of issues, notification deliveries and approvals (`nemesis-taskstore`), the
workflow engine, the agent loop's session admission and turn log, providers' failover and
cooldown, the security approval and audit chain. Left out for good: RPC framing and
encryption (their effect, loss and duplication, is modelled), user interfaces and channels,
sandbox and virtual machine interfaces, LLM text processing (planning, forge, memory,
skills), configuration, logging and parsing helpers. The repository has more than half a
million lines, most of them in these parts and in tests; the modules cover the
state machines at its core.

## 2. Modules

| Module | Role |
|---|---|
| `TaskOutcome` | abstract specification: a task is opened once, decided at most once by one write of status and result, and stays forgotten once removed |
| `TaskManager` | the task table; implements `TaskOutcome` (`RefinesOutcome`) |
| `TaskManagerProofs` | TLAPS proofs about it |
| `ClusterWorker` | the worker: task list, queue, agent loop, cancellation, delegation, index persistence |
| `ClusterWorkerProofs` | TLAPS proofs about it |
| `TaskResultStore` | the worker's result store, map and files |
| `TaskResultStoreProofs` | TLAPS proofs about it |
| `Continuation` | resumption of one suspended conversation by duplicated wake-ups |
| `ContinuationProofs` | TLAPS proofs about it |
| `Conversation` | abstract specification: a suspended conversation waits until one result is merged into it, keeps that result, and is continued with it once |
| `TaskDelivery` | both sides of one delegated conversation; composes the promises of the others, and implements `Conversation` (`RefinesConversation`) |
| `TaskDeliveryProofs` | TLAPS proofs about it |
| `BoardDispatch` | one issue of the team board and every way it is dispatched, reported, reviewed, moved and cancelled |
| `BoardDispatchProofs` | TLAPS proofs about it |
| `Archive` | the way of one task's work from the working copy to the commit on the master |
| `ArchiveProofs` | TLAPS proofs about it |
| `Cron` | the cron service: jobs, edits, loop, file |
| `CronProofs` | TLAPS proofs about it |
| `MC...` | one for each checked module: what TLC needs, symmetry sets for instance |

`PROJECT.json` maps every definition that models code to the lines it stands for.

### TaskManager

A settlement in the code is several critical sections: the conditional `UPDATE`
(`update_result_if_status`), then the re-read that closes the open attempts and fires `on_complete`,
then the route sample. Each is an action (`SettleTask`, `FireCallback`, `RecordRouteOutcome`), and
`call[c]` says where caller `c` stands. A caller whose update was refused may record too: the poll
records whatever it concluded (`cluster/tasks.rs`, lines 1252, 1346 and 1400), won or not.
`cleanup_completed` is a sequence of statements as well: it purges old terminal rows (`CleanPurge`),
lists Pending, then Running rows, and expires those that are overdue (`CleanExpire`, `CleanFire`),
other callers acting in between. `Submit`, `AssignTask`, `DeleteTask` are single statements. The
rows of board, cron and workflow are the `Runs` of the same table (`CreateRun` ... `SettleRun`).
`Restart` keeps the table and drops everything else, `route_recorded` included. Time is two flags
per row: `overdue` (older than the safety net) and `stamp = "old"` (completed more than two hours
ago). Task ids are v4 UUIDs: `Submit` takes an id once. The one place that registers an id again,
`first_start` with a snapshot whose row is missing, belongs to `TaskDelivery`.

### ClusterWorker

`Accept` is the whole of `PeerChatHandler::handle`: entry, placeholder, queue. The agent loop is
`Dequeue*`, `RegisterToken`, `RunEnds`/`RunEndsAsync`, `SaveAsyncState`, `SendTaskCallback`,
`FinishTask`: the gaps between them are those in which the code holds no lock. `cancel_task` is two
actions, since it reads and writes under two guards; so are the sweep (`SweepCollect`,
`SweepRemove`) and the callback of a delegated child: Route 1 looks for the parent (`FindParent`,
`find_by_child_task_id`) and injects later (`InjectCallback`), without looking at
`waiting_for_task_id` again, so the parent may have been cancelled, swept, executed or parked on
another call in between. A callback that finds no parent is spent (`StrayCallback`). A handler that
dies with the process has not acknowledged: the other side sends its callback again.
`persist_to_disk` is two (`PersistToDisk`, `WriteIndex`): the index is collected under the lock, the
file renamed without it. A task's `Entry` keeps, of the conversation, the call that suspended it
(`asked`), the child it waits for (`wait`) and whose result was injected (`got`). `CrashAndRestart`
is `first_start`: what `tasks.json` holds, put back in the queue in any order, `HashMap` iteration
giving none.

### TaskResultStore

The mutex covers the map only; `store` is evict, delete the evicted file, insert, write
the file, and a thread may be anywhere in it. `CrashAndReload` is the sweep
of old files and `load_from_disk`: files of running placeholders are dropped, results are
loaded until the map is full.

### Continuation

The turn that called a peer saves itself in three steps (memory, file, `ready`), a
handler goes through claim, `final_persisted` check, load (memory with its 5 s barrier,
then disk), phase gate, merge, LLM, persist, mark, send and the five steps of
`finish_handling`. `SlowSave` lets the barrier run out before the save is done. Of the LLM
loop only its end is kept: an answer (`RunLoop`) or nothing (`RunOut`). `Permits` is
`max_continuation_permits`; its default in nemesis-config is 0, inline and one at a time.

### TaskDelivery

One conversation between requester A and worker B. What the other modules show in detail is one step
here: a settlement is atomic and first-write-wins (`Settle`), the worker is one variable, a
continuation is `StartResume` and `FinishResume`. A handler waits 5 s for the save of its turn
(`wait_for_continuation`) and then runs on what is on disk: `base` says whether that was the saved
conversation or the placeholder, which belongs to no session and tells nobody anything. When it
ends, memory and file go, a conversation saved meanwhile included. `late` records that a wake-up was
spent that way. (A save is one variable, `snap`; its three steps against those of `finish_handling`
are in `Continuation`.) What remains is the protocol: the request and its ACK, which may be lost;
the callback, tried `MaxRetries` times and then stored (`PersistResult`); the two routes of the
callback handler, which wakes the conversation and settles the row as two steps; the poll with its
query, settlement, wake-up and confirmation; the cleanup tick; the dashboard's `tasks.cancel`, which
deletes the row and nothing else (`DashboardDeletes`); and both restarts. `TalkNow` reads off this
state where the conversation stands for its user, which is the refinement mapping to `Conversation`;
one that was saved under a handler of the placeholder goes with it and does not count as suspended.

### BoardDispatch

One issue, its dispatch rows in the order in which they were written, and the actors that work
on it. A dispatcher is anyone who calls `dispatch_issue_core`: it passes the gate (`Gate`,
`Through`), claims a row (`TryClaimDispatch`, the one statement that decides), then advances the
issue from the status it read before (`Advance`, `Refuse`) and sends; the RPC ends later,
acknowledged or not, and a failure is undone in three store calls (`SendFailed`,
`RollbackDispatchFailure`, `MarkSendFailure`; `mover` tells the roll-back, which puts an issue
back where it was, from a step that moves it on). `WriteBack` settles the row and
`WriteBackIssue` moves the issue, two calls of one handler. `SweepTimeout`, `SweepReflow`,
`SweepRedispatch` are the steps of the autopilot's timeout sweep. Its in-flight gate is
`SweepHolds`: in autonomous mode an overdue row stays open as long as the node of its retry has
`worker_max_inflight` other rows; those belong to other issues and are one flag, `held`, which
`NodeFills` and `NodeFrees` change at any time. `ReviewStart` and
`ReviewVerdict` stand on the two sides of the LLM call. A review may also end without a decision
(`rev = "left"`): the endpoint is suspended (`ReviewSuspends`, put on file and resumed by the probe,
`ReviewResumes`), or the moderator's loop is not ready or the retries are used up (`ReviewDrops`;
a human has to start it again). `Restart` drops every actor and replays
stuck reviews. Assignees, worker choice and text are left out: no modelled guard reads them.

### Archive

One dispatched task. A *content* stands for a directory: records alone (`bare`), with the changeset
of a run cut short (`half`) or of the finished work (`full`). On the worker two finishers (the
terminal hook and the residual sweep) may hold the copy at once, each between marker
(`StartFinish`), diff and enqueue (`DiffIt`) and removal (`ClearCopy`); an enqueue is one step under
`OUTBOX_ENQUEUE_LOCK` and leaves an existing entry alone. The push loop is `Pick`, `Begin`,
`CallEnd`, with every call subject to `Lose`. On the master `transfer_end`, the sweep and the
write-back are threads: `EndLand` and `EndSeal` (landing, then receipt, index and removal of the
staging), `Ingest`, `MergeAttempt` (`MERGED` and the row are read), `TakePlaced` (the entry is
removed from `PLACED`) and `Commit` (under `MERGE_SERIAL`). The pull is an RPC in flight: the sweep
misses the archive and asks (`SweepPulls`), the worker looks and enqueues when the request gets
there (`RequestPull`), and by then the archive may have landed, been acknowledged or merged; the
request may be lost, or come after the sweep gave up (`PullTimesOut`). One pull is under way at a
time; the four looks of the sweep before it asks are one step (what lands between them makes the
same late pull), and so are the looks, the enqueue and the answer of `request_pull`. Both processes
may restart; directories survive, `PLACED`, `MERGED`, `no_archive_seen` and the running marks do
not. `spoilt` records the five windows of section 3.

### Cron

`mem` is the store behind the mutex, `disk` what was saved last. `Collect` takes the due
jobs and resets their next run in one critical section; `StartHandler` ... `WriteBackLoop` run
outside the lock on the copy taken, and the write-back works on the job as it is then (`AfterRun`).
`Edit` is any user call: change, save, and on a failed save the roll-back of the change. `Boot`
is `recompute_next_runs`, which tells a consumed one-shot by `last_run_at_ms`. An `every` job and a
cron expression differ in the next time only, which is any later one.

## 3. Runs

Module `M` is checked through `MCM`. Each property of a passing run has a
mutant in `PROJECT.json`: a plausible bug in one definition under which the same run fails.
Type invariants are not among them: each is a theorem (section 5).

| Run | Configuration | Question | Bounds |
|---|---|---|---|
| `task_table` | `TaskManager.cfg` | Two callers, cleanup tick, dashboard and restart on one task: `AckedOutcomesAgree`, `AnnouncedOnce`, `RefinesOutcome`, `OverdueIsReclaimed` | 1 task, 2 callers, 2 values, 1 restart (64 k states) |
| `task_ledger` | `TaskManagerLedger.cfg` | A cluster task and a ledger run in one table: `NoOrphanAttempt`, `RouteCountedOnce`, `FirstWriteWins` | 1 task, 1 run, 1 caller, 1 restart (2.3 M) |
| `worker` | `ClusterWorker.cfg` | Is an accepted task ever forgotten, hidden or run twice, and is it reported: `NeverForgotten`, `LiveTaskIsVisible`, `OneScratchRun`, `EventuallyReported` | 2 tasks, one in the priority lane, 1 child, 1 canceller, lanes of 1, no crash (0.4 M) |
| `worker_crash` | `ClusterWorkerCrash.cfg` | A `peer_chat` that arrives twice, two delegations, a crash: `EntryHasKeeper`, `ReportedOnce`, `ResumedWithItsAnswer` | 1 task, 2 deliveries, 2 children, 1 canceller, 1 crash (1.1 M) |
| `result_store` | `TaskResultStore.cfg` | A full store: `StoredIsDurable`, `ResultNotUndone` | 3 tasks, 3 threads, capacity 2, 2 crashes (88 k) |
| `continuation` | `Continuation.cfg` | Duplicated wake-ups and a crash: `ReplyOnce`, `SnapshotKept`, `StoredResultWins`, `WokenIsAnswered` | 3 wake-ups, 2 permits, slow save, 1 crash (0.8 M) |
| `delivery` | `TaskDelivery.cfg` | The protocol end to end: `NoFalseAlarm`, `WakeUpAhead`, `EventuallyTold`, `RestartSettles`, `RefinesConversation` | 1 callback attempt, 2 losses, 1 crash on each side, overdue tasks, deleted rows, a slow save (0.5 M) |
| `board` | `BoardDispatch.cfg` | One issue under every dispatcher: `OneActive`, `StrandedIsVisible`, `ReportedIsNotRetried`, `ClosedStaysClosed`, `DispatchIsSettled`, `UnderReviewIsDecided` | 2 dispatches, 1 send retry, 1 event from outside or restart (0.8 M) |
| `archive` | `Archive.cfg` | One task from working copy to commit: `DeliveredIsKept`, `WorkIsMerged`, `MergedOnce`, `Merges` | 1 lost or late call or restart of either side, any limit (1.7 M) |
| `cron` | `Cron.cfg` | Edits against a running loop: `DisabledIsNotScheduled`, `PromiseKept`, `NotReplayed`, `DueIsFired` | 2 jobs, 2 instants, 3 edits, 1 failed save, 1 crash (0.25 M) |

Why the bounds are enough: every race found or excluded here involves one task and two or three
actors. Two callers and the tick are three settlers of one row; one ledger row next to one task
shows what the shared table does to either; two tasks and lanes of one give a full queue and a
waiting task behind a running one; two children give a second delegation after the first; three
tasks in a store of two give evictions by and of each other; three wake-ups are the callback, a
retry and the poll; two losses cost the callback its one attempt and the requester the ACK of its
dispatch (two attempts, checked once in 1.1 M states, add nothing); two dispatches are the one that
went wrong and the one that repairs it, which is where each interleaving of the board ends; two jobs
and three edits let a user change a job, take it back and change another while a handler runs. One
crash separates any two steps. For the archive one fault at any point is enough to reach every
window; the invariants hold for any number by proof. The event from outside of `board` may be a node
that fills up or an endpoint that comes back. `MaxSends`, `MaxLoss`, `MaxCrashes...`, `MaxRestarts`,
`MaxTasks`, `MaxEvents`, `MaxEdits`, `MaxTime` and `MaxFaults` are bounds of the model; `QueueCap`,
`MaxSize`, `RouteCap`, `Permits`, `MaxSendRetries` and `MaxRetries` are parameters of the code, with
smaller values. Symmetry is used only in runs without liveness properties, over children, tasks and
threads, or wake-ups, which no definition orders or names.

`CHECK_DEADLOCK FALSE` is set everywhere: the bounds stop the system, and a cluster with
nothing to do is in order.

### Findings: what the code's own text says and the code does not

Each is a run that TLC must find violated; `PROJECT.json` quotes the line.

| Run | Configuration | Property | What happens |
|---|---|---|---|
| `delivery_overdue` | `TaskDeliveryOverdue.cfg` | `NeverHangs` | The cleanup tick settles an overdue row before the poll sees it: no wake-up is published and the conversation stays suspended. |
| `delivery_restart` | `TaskDeliveryRestart.cfg` | `ResumesAfterRestart` | A crash after the row was settled and before the reply leaves the merged snapshot on disk for good: `first_start` skips a snapshot whose row exists, the poll lists Pending rows only. |

### Exceptions the passing properties spell out

Where the code cannot keep a promise in full, the property names the exception, so that
everything around it is still checked:

- `scratch[t] <= 1` in `ResumedWithItsAnswer`: a task that was started from scratch a second time, by
  a second delivery or a restart, may park on another call between `find_by_child_task_id` and
  `inject_callback`, and is then resumed with the answer to its earlier call (`cluster_init.rs`, lines
  1666-1674; `cluster_task.rs`, lines 353-396).
- `child[k].st \in {"out", "stray"}` in `EventuallyReported`: a parent is resumed by Route 1 of the
  callback handler alone. One whose callback never comes, or came before it was parked, stays parked:
  the poll that recovers the child's result does not call `inject_callback` (`cluster/tasks.rs`, lines
  1333-1433; `cluster_init.rs`, lines 1754-1797).
- `t \in stopped` in `NeverForgotten` and `EventuallyReported`: the 60 s sweep may remove a
  cancelled entry before its id is dequeued, and then nobody reports it
  (`cluster_task.rs`, line 514).
- `t \in lost` in `NeverForgotten`: `persist_to_disk` renames `tasks.json` without the lock under which
  the index was collected, so an older index may replace the one that holds a task
  just parked, and a crash then forgets it (line 705).
- `OneScratchRun` speaks of a task delivered once to a worker that has not crashed. A second
  delivery, or the restart's requeue of a parked task, whose entry keeps `waiting_for_task_id`,
  leaves two ids of one task behind: the task runs again while its call is still open, the callback
  injected meanwhile is wiped by the next `save_async_state`, and the id that the callback queued
  starts from scratch once more (`cluster_task.rs`, lines 319 and 652-702).
- `LiveTaskIsVisible` is checked without crashes: `load_from_disk` drops running
  placeholders, so after a restart the worker runs a task that `query_task_result` denies
  (`task_result_store.rs`, line 195).
- `t \notin evicted` in `StoredIsDurable`: an eviction deletes the file with the lock released and
  may hit the result stored meanwhile (line 302); for the same reason two threads may
  exceed the capacity (line 304), which no property forbids.
- `unmarked` in `ReplyOnce`, `SnapshotKept` and `WokenIsAnswered`: an LLM loop without content leaves no
  `final_persisted` mark, and the snapshot is reclaimed all the same; with several permits,
  releasing the claim before the cleanup then admits a second reply
  (`loop_continuation.rs`, lines 1033 and 1812).
- `torn` in `ReplyOnce`: the documented window between `persist_final_reply` and the mark.
- `Outwaited` in `SnapshotKept`: a handler that gives up waiting for the turn's save after 5 s
  continues from the placeholder and saves it over the conversation.
- `StoredResultWins` states what `merge_real_tool_result` does, and the comment inside it asks for
  (`loop_continuation.rs`, lines 1274-1286): a result in the snapshot stays. The doc comment of the
  same function (lines 1255-1256) still says 重复回灌 → 内容覆盖为最新结果, that a repeated result overwrites the
  content with the newest one. The two disagree and the code sides with the inner one, without which
  a late "remote task not found" would displace an answer; the doc comment is out of date.
- `late` in `NoFalseAlarm`, `WakeUpAhead`, `EventuallyTold` (and `NeverHangs`): a save slower than the
  5 s barrier. The wake-up is spent on the placeholder and its handler deletes memory and file
  (`loop_continuation.rs`, lines 824-918 and 1033), so a conversation saved meanwhile is gone, and one saved
  later sleeps behind a settled row or meets a "remote task not found".
- `age = "overdue"` and `crashesA > 0` in `EventuallyTold` and `WakeUpAhead`: the two findings
  above. `deleted` there and in `RestartSettles`: `tasks.cancel` removes the row under a suspended
  conversation, the poll no longer sees it, and only the callback or the next start wakes it
  (`handlers/cluster.rs`, line 1733).
- No property compares the row with what the conversation was told: a callback that overtakes the
  registration of the row settles nothing, and the poll later fails the row of an answered
  conversation (`cluster_init.rs`, line 1983).
- No property says that a task answered `QueuedCancelled` is not executed: `cancel_task` reads
  and writes under two guards, and `begin_execution` fits between them (`cluster_task.rs`, line
  418, against the promise of line 50).
- No property says that the books of a board, cron or workflow run agree with its scheduler:
  the cleanup tick selects by status alone and fails a run older than the safety net
  (`task_manager.rs`, line 768, against `ledger.rs`, lines 10-24).
- `StrandedIsVisible` leaves out crashes: between settling a row and moving the issue nothing
  is on disk that a later start would look for (`board_dispatch.rs`, line 246).
- `ReportedIsNotRetried` leaves out stray marks, those written after the row they speak of was
  settled by somebody else. The rebalancer takes `Ok(None)` of `cancel_dispatch` for a
  success (`dispatch.rs`, line 1799, against its comment), and so may dispatch a
  settled issue again; `ClosedStaysClosed` and `OneActive` hold nevertheless.
- `mover = "system"` in `UnderReviewIsDecided`: a failed send rolls an issue back to the status it was
  sent from. One that a human had put under review returns there without a review, and is sent again
  from the pool of failed sends, or waits for the human (`store.rs`, line 804).
- `held` in `DispatchIsSettled`: the in-flight gate of the sweep counts every open row of the node
  but the one it looks at, so with `worker_max_inflight = 1` two overdue rows of one worker keep
  each other open at every tick (`autopilot.rs`, lines 289-360).
- `rev[t] = "left"` in `UnderReviewIsDecided`: a review that could not be held leaves the issue in review
  with no decision (`board_review/mod.rs`, lines 274-288, 991-994 and 1104-1130).
- A verdict is applied to whatever is in review when it comes: `review_still_relevant` compares
  the status, so an issue that left and came back takes the verdict on its older
  delivery (`evidence.rs`, line 85). No property forbids it.
- `PromiseKept` leaves out the one-shot that has run before and whose new time passes while the
  process is down: `recompute_next_runs` takes it for consumed (`service.rs`, lines 1326-1352).
- `"early"` in `WorkIsMerged`: a pull that comes after the callback and before
  `finish_task_exec` has put up its marker, or for a timed-out task that still runs, enqueues
  the records alone; the entry then swallows the changeset (`outbox.rs`, line 463).
- `"cut"` in `WorkIsMerged`: the residual sweep of the start skips nothing, its comment says no
  task is active, but unfinished tasks run again: their copy is pushed half done and removed
  (`cluster_init.rs`, line 856).
- `"resent"` in `WorkIsMerged` and `DeliveredIsKept`: the start enqueues the records of the last day, and
  the hook enqueues records after the residual sweep has delivered the work, and a pull sent before the
  archive landed gets to the worker after it was acknowledged; landing, such records replace
  the inbox, or `PLACED` before the merge, or are merged after a restart has emptied `MERGED`.
- `"relanded"` in `MergedOnce`: `MERGED` is read before the entry is taken from `PLACED` and not
  again under `MERGE_SERIAL`, so an archive placed during a merge, or between the two, may be merged
  again (`board_archive_ingest.rs`, line 578, against the comment of lines 457-459).
- `"forgotten"` in `Merges`: `PLACED` is in memory, and no step after a restart of the master
  looks at the records again (line 464).
- `RouteCountedOnce` speaks of a dedup set below its cap; at the cap the code clears it, and a settlement
  recorded after that counts again (`cluster/health.rs`, line 292).

## 4. Fairness

- `TaskManager!LiveSpec`: weak fairness of the cleanup tick as a whole. It is a tokio
  interval that the process always runs; nothing is assumed of callers.
- `ClusterWorker!LiveSpec`: weak fairness of the agent loop (one spawned task that
  blocks on the queue only), of each index write, and of a callback handler that has begun. Nothing is
  assumed of the arrival of a callback, of cancellers, requesters or the sweep.
- `Continuation!FairSpec`: weak fairness of the spawned save and of every handler that has
  started. Wake-ups need not arrive.
- `TaskDelivery!FairSpec`: weak fairness of each loop and handler, and of the two minutes after
  which the poll asks. Losses, crashes, the dispatch and the safety net are not owed; losses and
  crashes are bounded, which stands for "not for ever".

- `BoardDispatch!FairSpec`: weak fairness of the system's own steps taken together: dispatchers, RPC
  tasks, sweeps and reviews run on one tokio runtime, and each of their steps leads on. Nothing is
  assumed of humans, of nodes and their load, of the LLM endpoint, or of the worker. `SweepTimeout`
  waits until the dispatcher and its RPC are through, since the timeout is hours and theirs are
  seconds. The board's `auto_review` is on, neither estop nor freeze is set.
- `Archive!FairSpec`: weak fairness of the steps of both processes taken together, and of the pull (the
  sweep asks, the worker serves the request) next to them: the sweep is a loop of its own, which the
  push loop's retries do not hold up. Nothing is
  assumed of faults, of the replay of dead letters or of a raised limit.
- `Cron!FairSpec`: weak fairness of the loop and of each handler that has started; nothing is assumed
  of users, of the clock, or of whoever restarts the process.

No strong fairness is used.

## 5. Proofs

TLAPS proves these for every value of the constants, from the named assumptions only.

**TaskManagerProofs**, from `DisjointIds` (cluster ids and ledger ids differ), `Bounds` and
`ValuesDistinct` (`NULL` and the timeout error are not results of a peer):

- `TypeCorrect`: `TypeOK`.
- `SettleInvariant`: the inductive invariant `SettleInv`. The three properties are not
  inductive by themselves, because they hold through the steps *between* the `UPDATE` and the
  callback. What carries them is that whoever stands there won a row nobody had settled
  or announced before, and holds it alone (`WinnerHoldsRow`, `CleanerHoldsRow`); that an
  unsettled row is unannounced (`UnsettledIsUnannounced`); and that a scheduler closes its attempts
  before its run (`SettlingRunIsClosed`).
- `AcksAgree`, `CallbackOnce`, `AttemptsClosed`: `AckedOutcomesAgree`, `AnnouncedOnce`,
  `NoOrphanAttempt`, each a part of it.
- `FirstWrite`: the action property `FirstWriteWins`.
- `RouteOnce`: `RouteCountedOnce`; needs that a counted id is in the dedup set as long as the
  set is below its cap, and finite sets' cardinalities for the latter.
- `ImplementsOutcome`: `Spec => Outcome!Spec`, with `book` mapped by `BookOf`. Submitting opens,
  every winning `UPDATE` decides, purge and delete forget; all else stutters.

**ClusterWorkerProofs**, from `NullsFresh` (the null values are no ids, and the tasks are finitely
many), `EvidenceAre` and `WorkerBounds`:

- `WorkerInvariant`: *AnswerInv* (in every copy of an entry of a task started once the result answers
  the call, and the entry waits for the call it made), *RanInv* and *FoundInv* (until it is started again,
  a task that a callback handler has found is not being executed, has made no other call and is in no
  second handler's hands), *ForgetInv* (a cancelled entry was cancelled by a requester, a
  failed one is being reported, a task without an entry is excused or being reported), *VisibleInv*,
  *ChildInv* (a callback handler has a parent in hand exactly between `find_by_child_task_id` and
  `submit`), and the four of the next paragraph. `ResumedWithItsAnswer` speaks of the list only, and is not
  inductive: a restart reads `tasks.json`, which a late `persist_to_disk` may have overwritten
  with an older index, so the copies in the file and in each write under way are needed; and a handler
  injects what it found earlier, which is *FoundInv*. The exemption is as small as the code allows: TLC
  finds a wrong answer as soon as the task is started twice.
  `NeverForgotten` needs that the sweep meets a `Failed` entry only while the agent loop still has
  its report to send.
- Also in it: *WaitInv* (in each index no two tasks wait for the same call, none for one that was
  not made, and none for the call of the run that is unwinding), without which the answer to one
  parked task could wake another and leave the first one waiting; *KeeperInv* and *PendingIsQueued*,
  the parts of `EntryHasKeeper`; *CreditInv* (reports so far, plus one for a task that has an entry
  or an execution not yet reported, never exceed deliveries and crashes), since `ReportedOnce` says
  nothing of the reports still owed; *ScratchInv* (without a crash, a task that came once is in one
  place: once in the queue, with the agent loop, parked, or in a callback handler's hands, and once
  executed it is queued only with a conversation to resume), which rests on *AnswerInv*: what a
  callback queues can be resumed because the entry waited for the call it had made.
- `TypeCorrect`, `NothingForgotten`, `ResumedAsAsked`, `NothingStranded`, `NoSecondReport`,
  `StartedOnce`: `TypeOK`, `NeverForgotten`, `ResumedWithItsAnswer`, `EntryHasKeeper`,
  `ReportedOnce`, `OneScratchRun`. `VisibleUntilCrash`:
  `LiveTaskIsVisible` as long as there was no crash, which is what the run `worker` checks.

**ContinuationProofs**, from `ContinuationBounds` and `WakesAreNotWriters`:

- `TypeCorrect`: `TypeOK`; needs that a handler past the merge carries a result.
- `ReplyInvariant`: the inductive invariant `ReplyInv`, conjunction of *Claimed* (a handler
  between claim and release is the only one there), *OneAtATime* (what the permits give when there is
  one), *FromTheTurn* (where snapshots come from), *MarkMeansReply* and
  *NoSecondReply* (once the session holds a reply, no handler is on a path to another:
  each one still before the LLM will meet the mark, or no file). The claim alone does not give it,
  since `finish_handling` releases it first: the mark and the order in which the rest is
  removed are needed, or permits that let one handler run at a time.
- `ReplyOnceAlways`: `ReplyOnce`, for any number of wake-ups, permits and crashes.
- `SnapshotInvariant`: *KeptInv* (without a reply, nobody is past the gates that lead to
  `finish_handling`) and *StoredInv* (memory and every handler that loaded a snapshot agree with the
  result in the file, and the turn's own copy becomes ready only while the file has none). It
  rests on *Claimed* and *FromTheTurn*: a late save of the turn and a second handler are what could
  bring back a snapshot without the result.
- `SnapshotAlwaysKept`: `SnapshotKept`. `FirstResultWins`: the action property `StoredResultWins`.
- `NoWakeUpWasted`: *NotTurnedAway*, what `WokenIsAnswered` needs besides fairness. Its invariant is
  *TurnedInv* (a missing file, a confirmed phase or a claim is always the doing of a handler that goes on
  or has ended it, with a reply or an LLM without content) and *AskedInv* (no handler holds the
  placeholder unless the save was slow or the dispatch failed).

**TaskResultStoreProofs**, from `StoreBounds` (the capacity is at least one):

- `StoreInvariant`: *Phases* (what the calls made for a task can have left in map, file and threads),
  *Order* (one `store` of a task at a time, and nobody takes out what is still being put in) and
  *Files* (a result in the map is in its file or one thread is about to write it; victims are
  evicted tasks). `StoredIsDurable` speaks of moments without a call under way, and is
  inductive only with the position of every thread.
- `TypeCorrect`: `TypeOK`. `ResultsAreDurable`: `StoredIsDurable`. `NoResultUndone`: the action
  property `ResultNotUndone`.

**TaskDeliveryProofs**, from `DeliveryBounds`:

- `DeliveryInvariant`: *Carried* (handler and poll hold a result where they use one, an attempt is
  one of the `MaxRetries`), *TurnInv* (until the turn saves, its placeholder is bare unless a
  wake-up took it) and, as long as nobody crashed, the safety net is far and no wake-up outran the
  save, *AcceptedInv* (a row or a poll means that the worker has the task), *SilentInv* (no result
  anywhere before the run ends) and *ReplyInv*: every result A holds is the reply, or `not_found`
  with the reply ahead of it (`ReplyFirst`). The poll may well conclude `not_found`, after the
  worker deleted a delivered entry; `NoFalseAlarm` holds because wake-ups are handled in order and
  the snapshot goes with the first reply.
- Also in it: *TalkInv* (a handler of a saved conversation resumes with what the snapshot holds, one of
  the placeholder leaves no result in a snapshot saved under it, no result outlives its
  snapshot, a continued conversation has none) and *WakeInv*, the inductive form of `WakeUpAhead`.
  Between a callback's wake-up and its settlement the row is Pending and says nothing, so *WakeInv*
  has the callback as well: having published, it left a wake-up or a conversation that is over. And
  it has the registration: until somebody settles the row of a saved conversation, it is there.
- `TypeCorrect`: `TypeOK`. `NoFalseAlarmEver`: `NoFalseAlarm`. `NoSleeperForgotten`: `WakeUpAhead`,
  for any number of losses and crashes of B and any number of callback attempts; it is what
  `EventuallyTold` needs besides fairness.
- `ImplementsConversation`: `Spec => Talk!Spec`, crashes of both sides included. `SaveSnapshot`
  suspends, the first `StartResume` merges, `FinishResume` answers; a later wake-up, a crash, a
  repeated resumption and the whole run of a placeholder stutter, which is where *TalkInv* is used.

**BoardDispatchProofs**, from the bounds of the module:

- `TypeCorrect`: `TypeOK`. `AtMostOneDispatch`: `OneActive`, from the claim, which is one statement.
  `OnlyHumansReopen`: the action property `ClosedStaysClosed`.
- `DispatchInvariant`: what the other two need. *Responsible*: whoever took a row out of an active
  state is still on the way to the issue, or has left a comment; *Watched*: an open row
  has a sender, a worker or the sweep behind it; *MarkIsTrue*: a fresh mark names the last row
  unless it is stray. Neither property is inductive, since both speak of the
  state after several calls of one handler.
- `NoSilentStrand`: `StrandedIsVisible`. `NoFalseRetry`: `ReportedIsNotRetried`.
- `NoReviewLost`: *VerdictAhead*, what `UnderReviewIsDecided` needs besides fairness: such an issue
  is in the hands of a review, its replay or the dispatch it asked for, or the review has left it
  (`"left"`). A review only gives way to a dispatch in flight, and after a first dispatch there is
  none, since what leads to a review comes after a settlement (*AfterSettlement*) and every row is
  listed (*Listed*); the same makes `replay_stuck_reviews` find the issue after a restart.

**CronProofs**, from `CronBounds` and `NoJobIsNone`:

- `CronInvariant`: *Base* (types), *Good* (no next run while off, in memory and on disk),
  *UnderWay* (whoever runs a job holds what it took), *ConsumedIsSpent*, *DueIsTaken* and
  *PromiseIsStored* (a promise is in memory, or spent by a run that recorded it, and on its way to
  the file). The last three are needed because a run spans several critical sections and a restart
  reads the file.
- `TypeCorrect`, `OffIsOff`, `PromisesHold`, `NoReplay`: `TypeOK`, `DisabledIsNotScheduled`,
  `PromiseKept`, `NotReplayed`.

**ArchiveProofs**, from `ArchiveBounds` (the number of faults is a natural number):

- `ArchiveInvariant`: *Carried* (a push works on the entry it picked, a merge has what it took),
  *CopyInv* (the working copy goes only when its content is in the outbox or beyond, and has in it
  what was put there before), *SinkInv* (a receipt speaks for what the master has, never for what is
  being landed), *KeptInv* (short of a resend, archives only get better), *FullInv* (outside the
  windows every content on the way is the finished work) and *MergeInv* (one thread has the archive
  between `PLACED` and `MERGED`, and a thread that missed `MERGED` finds `PLACED` empty).
  `DeliveredIsKept` needs `SinkInv`, because the answer `dedup` is given from index and receipt;
  `WorkIsMerged` needs `CopyInv` and `SinkInv` to show that a pull, however late, or a start finds
  nothing to enqueue but in a window.
- `TypeCorrect`, `NoDeliveryLost`, `FinishedWorkIsMerged`, `SingleMerge`: `TypeOK`,
  `DeliveredIsKept`, `WorkIsMerged`, `MergedOnce`.
- `NoArchiveLostSightOf`: *ArchiveAhead*, and `NeitherLegLeavesIt`: *MergeAhead*, what the two halves of
  `Merges` need besides fairness. Their invariants are *LegsInv* (the records are accounted for by
  `PLACED`, by a merge under way or by one that is done) and *AheadInv* (an inbox without files comes
  only after one with files, `no_archive_seen` only over a parked entry, a `pushing` entry is in the
  loop's hands or will be armed by the start, a sweep that waits for an answer has a pull under way).

Only model-checked: liveness, which needs fairness and is out of this prover's reach. Every
invariant, action property and refinement that a run checks is proved, save that `LiveTaskIsVisible`
is proved, as it is checked, up to the first crash. For five liveness properties the safety half is
a theorem, that somebody still has the work in hand wherever it is owed: `EventuallyReported`
(`EntryHasKeeper`), `EventuallyTold` (`WakeUpAhead`), `WokenIsAnswered` (`NotTurnedAway`),
`UnderReviewIsDecided` (`VerdictAhead`) and `Merges` (`ArchiveAhead`, `MergeAhead`). The last four
of these invariants are stated in the proof modules and are no runs' properties; before they were
proved, TLC checked them, with the invariants they rest on, on the runs' instances, `NotTurnedAway`
also with a save that is never slow.

## 6. Abstractions

- Payloads are model values or their kind (`answer`, `not_found`, `success`, `error`).
- `write_file_atomic` (write, then rename) is one step; a JSON file is never half written.
- Storage errors (`SQLITE_BUSY`, full disk) and a poisoned mutex are not modelled.
- Clocks are flags (past the safety net, past two hours) or the order of stores.
- RPC is at-most-once per send with loss and, for `peer_chat`, duplication through the
  client's fallback addresses; a pull of the archive may also arrive late.

## 7. Not modelled in the modelled components

`ClusterWorker`: the legacy LLM path, discussion events, evidence capture beyond its lane.
`TaskResultStore`: the async wrapper and `clear`, which have no callers. `Continuation`: the
7 day sweep, background-spawn continuations, `has_inflight_work`. `TaskDelivery`:
dashboard-initiated tasks (no snapshot), broadcasts. `BoardDispatch`:
parents and dependencies, other issues but for the load they put on a node, the choice of a worker,
estop and freeze, the local executor.
`Archive`: single files and hashes, disk errors, conflicts and parked merges, the transfer of the
baseline to the worker, overlapping `transfer_end` calls of one transfer (the back-off keeps them
apart unless a handler takes longer than the 600 s of its call). `Cron`: the history list, `reload`.

## 8. Plan

Done: the requester's table with its abstract specification, the worker, its result store, the
continuation, the end-to-end protocol, the board's dispatch, the archive and the cron service;
proofs for each of them.

1. `BoardCascade`: parents, dependencies and waves of issues over `BoardDispatch`; the abstract
   specification is that a parent closes after its children, once.
2. `Delivery` and `Approval`: the three-step notification record and approval expiry of
   `nemesis-taskstore`.
3. `SessionAdmission`: messages for a busy session, and the turn log across a crash.
4. `Cooldown` and `Registry`: provider failover, peer health.
5. `Workflow`: node scheduling, retries, human gates.
6. In `TaskDelivery`: the TTL sweeps; in `Archive`: freeze and estop.

Theorems to prove next: the safety halves of `DueIsFired`, `DispatchIsSettled`, `OverdueIsReclaimed`
and `RestartSettles`; `WakeUpAhead` from the first start after a crash of the requester on.
