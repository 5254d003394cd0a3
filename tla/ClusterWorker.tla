--------------------------- MODULE ClusterWorker ---------------------------
(***************************************************************************)
(* The worker side of a delegated task (nemesis-cluster: cluster_task.rs,  *)
(* rpc/peer_chat_handler.rs; nemesisbot: cluster_agent.rs,                 *)
(* cluster_service.rs).  PeerChatHandler files a task in ClusterTaskList,  *)
(* a `running` placeholder in the result store and an id in the bounded    *)
(* ClusterWorkQueue; one serial agent loop executes tasks, parks those     *)
(* that delegate further (WaitingRemote) and reports every outcome to the  *)
(* requester; task_cancel, the child callbacks, a 60 s sweep of terminal   *)
(* entries and crashes interleave with it.                                 *)
(***************************************************************************)
EXTENDS Naturals, Sequences, FiniteSets

CONSTANTS
    Tasks,       \* tasks a requester sends here
    Evidence,    \* those of them that are board self-checks (priority lane)
    Children,    \* ids of the tasks this worker delegates further
    NoChild, NoTask,
    Cancellers,  \* threads serving task_cancel
    QueueCap,    \* capacity of each lane of ClusterWorkQueue
    MaxSends,    \* bound: deliveries of one peer_chat (RpcClient's fallback addresses)
    MaxCrashes   \* bound: process crashes

ASSUME NullsFresh   == NoChild \notin Children /\ NoTask \notin Tasks /\ IsFiniteSet(Tasks)
ASSUME EvidenceAre  == Evidence \subseteq Tasks
ASSUME WorkerBounds == QueueCap \in Nat \ {0} /\ MaxSends \in Nat /\ MaxCrashes \in Nat

Live     == {"Pending", "Running", "WaitingRemote"}
Terminal == {"Failed", "Cancelled"}      \* Completed entries are removed at once
Lanes    == {"prio", "normal"}
Writers  == {"agent", "sweep", "handler"} \cup Children

VARIABLES
    list,      \* ClusterTaskList.tasks
    disk,      \* tasks.json (and the conversation files)
    flush,     \* persist_to_disk calls: index collected, file not yet renamed
    queue,     \* ClusterWorkQueue, lane by lane
    agent,     \* cluster_agent_loop: where it stands, and on which task
    token,     \* running_tokens: tasks whose cancel token is registered
    hit,       \* the token of the current execution was cancelled
    cancel,    \* cancel_task calls: status read, not yet written
    store,     \* TaskResultStore as query_task_result sees it
    child,     \* delegated tasks and the callbacks that answer them
    stale,     \* remove_terminal_tasks: ids collected, not yet removed
    sends,     \* history: deliveries of each peer_chat that were accepted
    reports,   \* history: outcome callbacks sent per task
    scratch,   \* history: executions from scratch per task
    stopped,   \* history: tasks answered QueuedCancelled or RunningCancelled
    dropped,   \* history: tasks a full queue refused after they were accepted
    lost,      \* history: tasks a crash made the worker forget
    crashes

core    == <<list, disk, flush, queue, agent, token, hit, cancel, store, child, stale>>
history == <<sends, reports, scratch, stopped, dropped, lost, crashes>>
vars    == <<core, history>>

(* asked: the call that ends the saved conversation; got: whose result was
   injected.                                                               *)
None  == [st |-> "none", wait |-> NoChild, asked |-> NoChild, got |-> NoChild]
Entry == [st : {"none"} \cup Live \cup Terminal, wait : Children \cup {NoChild},
          asked : Children \cup {NoChild}, got : Children \cup {NoChild}]
Index == [Tasks -> Entry]
Fresh == [st |-> "Pending", wait |-> NoChild, asked |-> NoChild, got |-> NoChild]
Moved(e, st) == [st |-> st, wait |-> e.wait, asked |-> e.asked, got |-> e.got]

Resting == [pc |-> "idle"]
Agents  == {Resting, [pc |-> "select"]}
           \cup [pc : {"started", "running", "report", "finish"}, task : Tasks]
           \cup [pc : {"called", "saving"}, task : Tasks, child : Children]
Synced  == [pc |-> "synced"]

TypeOK ==
    /\ list \in Index
    /\ disk \in Index
    /\ flush \in [Writers -> {Synced} \cup [pc : {"write"}, index : Index]]
    /\ queue \in [Lanes -> Seq(Tasks)] /\ \A l \in Lanes : Len(queue[l]) <= QueueCap
    /\ agent \in Agents
    /\ token \in SUBSET Tasks
    /\ hit \in BOOLEAN
    /\ cancel \in [Cancellers -> {Resting} \cup [pc : {"read"}, task : Tasks, seen : Live]]
    /\ store \in [Tasks -> {"none", "running", "done"}]
    /\ child \in [Children -> [st : {"unused", "out", "found", "discard", "injected",
                                     "answered", "stray"},
                               parent : Tasks \cup {NoTask}]]
    /\ stale \in SUBSET Tasks
    /\ sends \in [Tasks -> 0..MaxSends]
    /\ reports \in [Tasks -> Nat]
    /\ scratch \in [Tasks -> Nat]
    /\ stopped \in SUBSET Tasks
    /\ dropped \in SUBSET Tasks
    /\ lost \in SUBSET Tasks
    /\ crashes \in 0..MaxCrashes

Init ==
    /\ list = [t \in Tasks |-> None]
    /\ disk = [t \in Tasks |-> None]
    /\ flush = [w \in Writers |-> Synced]
    /\ queue = [l \in Lanes |-> <<>>]
    /\ agent = Resting
    /\ token = {}
    /\ hit = FALSE
    /\ cancel = [c \in Cancellers |-> Resting]
    /\ store = [t \in Tasks |-> "none"]
    /\ child = [k \in Children |-> [st |-> "unused", parent |-> NoTask]]
    /\ stale = {}
    /\ sends = [t \in Tasks |-> 0]
    /\ reports = [t \in Tasks |-> 0]
    /\ scratch = [t \in Tasks |-> 0]
    /\ stopped = {}
    /\ dropped = {}
    /\ lost = {}
    /\ crashes = 0

-----------------------------------------------------------------------------
(* persist_to_disk: the index of what is not terminal is collected ...      *)
Persisted(i) == [t \in Tasks |-> IF i[t].st \in Live THEN i[t] ELSE None]

PersistToDisk(w) ==
    /\ flush[w] = Synced
    /\ flush' = [flush EXCEPT ![w] = [pc |-> "write", index |-> Persisted(list')]]

(* ... and replaces tasks.json: no lock spans the two.                      *)
WriteIndex(w) ==
    /\ flush[w].pc = "write"
    /\ disk' = flush[w].index
    /\ flush' = [flush EXCEPT ![w] = Synced]
    /\ UNCHANGED <<list, queue, agent, token, hit, cancel, store, child, stale, history>>

(* ClusterTaskList::complete_task: the entry goes, the index is rewritten. *)
CompleteTask(t, w) ==
    /\ list' = [list EXCEPT ![t] = None]
    /\ PersistToDisk(w)

(* update_status: a missing entry stays missing. *)
UpdateStatus(i, t, st) == IF i[t].st = "none" THEN i ELSE [i EXCEPT ![t] = Moved(@, st)]

(* ClusterWorkQueue::submit and submit_priority are try_send: a full lane
   refuses.                                                                *)
Full(l)    == Len(queue[l]) >= QueueCap
Lane(t)    == IF t \in Evidence THEN "prio" ELSE "normal"

Submit(l, t) == IF Full(l) THEN queue ELSE [queue EXCEPT ![l] = Append(@, t)]

Queued(t) == \E l \in Lanes : \E i \in 1..Len(queue[l]) : queue[l][i] = t
On(t)     == agent.pc \notin {"idle", "select"} /\ agent.task = t

(* Mutant: no running placeholder in the result store. *)
Accept_NoPlaceholder(t) ==
    /\ sends[t] < MaxSends /\ ~Full(Lane(t))
    /\ list' = [list EXCEPT ![t] = Fresh]
    /\ queue' = Submit(Lane(t), t)
    /\ sends' = [sends EXCEPT ![t] = @ + 1]
    /\ UNCHANGED <<disk, flush, agent, token, hit, cancel, store, child, stale, reports,
                   scratch,
                   stopped, dropped, lost, crashes>>

-----------------------------------------------------------------------------
(* PeerChatHandler::handle: placeholder, entry (whatever the id held), queue,
   ACK accepted.                                                            *)
Accept(t) ==
    /\ sends[t] < MaxSends /\ ~Full(Lane(t))
    /\ store' = [store EXCEPT ![t] = "running"]
    /\ list' = [list EXCEPT ![t] = Fresh]
    /\ queue' = Submit(Lane(t), t)
    /\ sends' = [sends EXCEPT ![t] = @ + 1]
    /\ UNCHANGED <<disk, flush, agent, token, hit, cancel, child, stale, reports,
                   scratch, stopped, dropped, lost, crashes>>

(* ... the lane is full: placeholder and entry are taken back, error ACK. *)
RejectFull(t) ==
    /\ sends[t] < MaxSends /\ Full(Lane(t))
    /\ CompleteTask(t, "handler")
    /\ store' = [store EXCEPT ![t] = "none"]
    /\ dropped' = IF sends[t] > 0 THEN dropped \cup {t} ELSE dropped
    /\ UNCHANGED <<disk, queue, agent, token, hit, cancel, child, stale, sends, reports,
                   scratch,
                   stopped, lost, crashes>>

-----------------------------------------------------------------------------
(* cluster_agent_loop.  ClusterWorkQueue::next looks at the priority lane
   first and then selects on both: only what arrives in between can lose.  *)
AgentFree == agent = Resting /\ flush["agent"] = Synced

PriorityEmpty ==
    /\ AgentFree /\ queue["prio"] = <<>>
    /\ agent' = [pc |-> "select"]
    /\ UNCHANGED <<list, disk, flush, queue, token, hit, cancel, store, child, stale,
                   history>>

CanTake(l) ==
    /\ queue[l] # <<>>
    /\ (AgentFree /\ l = "prio") \/ agent.pc = "select"
Take(l) == queue' = [queue EXCEPT ![l] = Tail(@)]

(* begin_execution finds no entry. *)
DequeueMissing(l) ==
    /\ CanTake(l) /\ Take(l)
    /\ list[Head(queue[l])].st = "none"
    /\ agent' = Resting
    /\ UNCHANGED <<list, disk, flush, token, hit, cancel, store, child, stale, history>>

(* Cancelled while queued: not executed, reported through handle_task_error. *)
DequeueCancelled(l) ==
    /\ CanTake(l) /\ Take(l)
    /\ LET t == Head(queue[l])
       IN  /\ list[t].st = "Cancelled"
           /\ list' = UpdateStatus(list, t, "Failed")
           /\ agent' = [pc |-> "report", task |-> t]
    /\ UNCHANGED <<disk, flush, token, hit, cancel, store, child, stale, history>>

Resumable(e) == e.asked # NoChild /\ e.got # NoChild

(* begin_execution: anything else becomes Running in the same critical section
   and is resumed when it has a conversation and a callback result, executed
   from scratch when it has not.                                             *)
DequeueStart(l) ==
    /\ CanTake(l) /\ Take(l)
    /\ LET t == Head(queue[l])
       IN  /\ list[t].st \notin {"none", "Cancelled"}
           /\ list' = UpdateStatus(list, t, "Running")
           /\ agent' = [pc |-> "started", task |-> t]
           /\ scratch' = IF Resumable(list[t]) THEN scratch
                         ELSE [scratch EXCEPT ![t] = @ + 1]
    /\ UNCHANGED <<disk, flush, token, hit, cancel, store, child, stale, sends, reports,
                   stopped, dropped, lost, crashes>>

(* Refused before the run: over the session budget (the entry keeps its
   status) or a snapshot that cannot be resumed (handle_task_error).        *)
RefuseExecution ==
    /\ agent.pc = "started"
    /\ agent' = [pc |-> "report", task |-> agent.task]
    /\ list' \in {list, UpdateStatus(list, agent.task, "Failed")}
    /\ UNCHANGED <<disk, flush, queue, token, hit, cancel, store, child, stale, history>>

(* register_cancel_token: a fresh token, then the run. *)
RegisterToken ==
    /\ agent.pc = "started"
    /\ agent' = [pc |-> "running", task |-> agent.task]
    /\ token' = token \cup {agent.task}
    /\ hit' = FALSE
    /\ UNCHANGED <<list, disk, flush, queue, cancel, store, child, stale, history>>

(* The run ends; unregister, then the outcome (or "cancelled") is reported. *)
RunEnds ==
    /\ agent.pc = "running" \/ (agent.pc = "called" /\ hit)
    /\ token' = token \ {agent.task}
    /\ agent' = [pc |-> "report", task |-> agent.task]
    /\ UNCHANGED <<list, disk, flush, queue, hit, cancel, store, child, stale, history>>

(* The model calls cluster_rpc: the child is on its way while the run still
   has to unwind.                                                          *)
CallChild(k) ==
    /\ agent.pc = "running" /\ ~hit
    /\ child[k].st = "unused"
    /\ child' = [child EXCEPT ![k] = [st |-> "out", parent |-> @.parent]]
    /\ agent' = [pc |-> "called", task |-> agent.task, child |-> k]
    /\ UNCHANGED <<list, disk, flush, queue, token, hit, cancel, store, stale, history>>

RunEndsAsync ==
    /\ agent.pc = "called" /\ ~hit
    /\ token' = token \ {agent.task}
    /\ agent' = [pc |-> "saving", task |-> agent.task, child |-> agent.child]
    /\ UNCHANGED <<list, disk, flush, queue, hit, cancel, store, child, stale, history>>

(* Mutant: the result of the previous hop is left in the entry. *)
SaveAsyncState_KeepResult ==
    /\ agent.pc = "saving"
    /\ list' = IF list[agent.task].st = "none" THEN list
               ELSE [list EXCEPT ![agent.task].st = "WaitingRemote",
                                 ![agent.task].wait = agent.child,
                                 ![agent.task].asked = agent.child]
    /\ PersistToDisk("agent")
    /\ agent' = Resting
    /\ UNCHANGED <<disk, queue, token, hit, cancel, store, child, stale, history>>

(* save_async_state: park, whatever the entry's status is by now. *)
SaveAsyncState ==
    /\ agent.pc = "saving"
    /\ list' = IF list[agent.task].st = "none" THEN list
               ELSE [list EXCEPT ![agent.task] =
                        [st |-> "WaitingRemote", wait |-> agent.child,
                         asked |-> agent.child, got |-> NoChild]]
    /\ PersistToDisk("agent")
    /\ agent' = Resting
    /\ UNCHANGED <<disk, queue, token, hit, cancel, store, child, stale, history>>

(* Mutant: the cancelled branch reports and falls through to the report of
   the outcome.                                                             *)
SendTaskCallback_FallThrough ==
    /\ agent.pc = "report"
    /\ \E s \in {"none", "done"} : store' = [store EXCEPT ![agent.task] = s]
    /\ reports' = [reports EXCEPT ![agent.task] = @ + 1]
    /\ agent' \in {agent, [agent EXCEPT !.pc = "finish"]}
    /\ UNCHANGED <<list, disk, flush, queue, token, hit, cancel, child, stale, sends,
                   scratch,
                   stopped, dropped, lost, crashes>>

(* send_task_callback: delivered, and the stored copy is deleted; or all
   retries failed, and the result is kept for the requester's poll.        *)
SendTaskCallback ==
    /\ agent.pc = "report"
    /\ \E s \in {"none", "done"} : store' = [store EXCEPT ![agent.task] = s]
    /\ reports' = [reports EXCEPT ![agent.task] = @ + 1]
    /\ agent' = [pc |-> "finish", task |-> agent.task]
    /\ UNCHANGED <<list, disk, flush, queue, token, hit, cancel, child, stale, sends,
                   scratch,
                   stopped, dropped, lost, crashes>>

FinishTask ==
    /\ agent.pc = "finish"
    /\ CompleteTask(agent.task, "agent")
    /\ agent' = Resting
    /\ UNCHANGED <<disk, queue, token, hit, cancel, store, child, stale, history>>

-----------------------------------------------------------------------------
(* task_cancel: cancel_task reads the status under one lock ... *)
CancelRead(c, t) ==
    /\ cancel[c] = Resting
    /\ list[t].st \in Live
    /\ cancel' = [cancel EXCEPT ![c] = [pc |-> "read", task |-> t, seen |-> list[t].st]]
    /\ UNCHANGED <<list, disk, flush, queue, agent, token, hit, store, child, stale,
                   history>>

(* ... and writes Cancelled under another; a task seen Running also has its
   token taken out and cancelled, if one is registered.                     *)
CancelWrite(c) ==
    /\ cancel[c].pc = "read"
    /\ LET t == cancel[c].task
       IN  /\ list' = UpdateStatus(list, t, "Cancelled")
           /\ stopped' = stopped \cup {t}
           /\ IF cancel[c].seen = "Running"
              THEN /\ token' = token \ {t}
                   /\ hit' = (hit \/ t \in token)
              ELSE UNCHANGED <<token, hit>>
    /\ cancel' = [cancel EXCEPT ![c] = Resting]
    /\ UNCHANGED <<disk, flush, queue, agent, store, child, stale, sends, reports,
                   scratch, dropped,
                   lost, crashes>>

(* Mutant: the sweep takes parked tasks for leftovers. *)
SweepCollect_Parked ==
    /\ stale = {}
    /\ stale' = {t \in Tasks : list[t].st \in Terminal \cup {"WaitingRemote"}}
    /\ stale' # {}
    /\ UNCHANGED <<list, disk, flush, queue, agent, token, hit, cancel, store, child,
                   history>>

(* remove_terminal_tasks, every 60 s: what is terminal is collected ... *)
SweepCollect ==
    /\ stale = {}
    /\ stale' = {t \in Tasks : list[t].st \in Terminal}
    /\ stale' # {}
    /\ UNCHANGED <<list, disk, flush, queue, agent, token, hit, cancel, store, child,
                   history>>

(* ... and removed one by one, whatever it is by then. *)
SweepRemove(t) ==
    /\ t \in stale
    /\ CompleteTask(t, "sweep")
    /\ stale' = stale \ {t}
    /\ UNCHANGED <<disk, queue, agent, token, hit, cancel, store, child, history>>

-----------------------------------------------------------------------------
(* Gateway Route 1: a callback of a delegated task.  A repeated delivery
   finds no parent and changes nothing here.                               *)

WaitsFor(t, k) == list[t].st # "none" /\ list[t].wait = k

(* find_by_child_task_id: the parent's id, under a lock of its own. *)
FindParent(k) ==
    /\ child[k].st = "out"
    /\ \E t \in Tasks :
          /\ WaitsFor(t, k)
          /\ child' = [child EXCEPT ![k] = [st |-> "found", parent |-> t]]
    /\ UNCHANGED <<list, disk, flush, queue, agent, token, hit, cancel, store, stale,
                   history>>

(* Mutant: the parent is woken, the result is not stored with it. *)
InjectCallback_NoResult(k) ==
    /\ child[k].st = "found"
    /\ list[child[k].parent].st # "Cancelled"
    /\ list' = IF list[child[k].parent].st = "none" THEN list
               ELSE [list EXCEPT ![child[k].parent].st = "Pending",
                                 ![child[k].parent].wait = NoChild]
    /\ PersistToDisk(k)
    /\ child' = [child EXCEPT ![k] = [st |-> "injected", parent |-> @.parent]]
    /\ UNCHANGED <<disk, queue, agent, token, hit, cancel, store, stale, history>>

(* inject_callback looks at the status only: an entry that is gone stays gone,
   any other that is not cancelled becomes Pending with this result, whichever
   call it waits for by now.                                                 *)
InjectCallback(k) ==
    /\ child[k].st = "found"
    /\ list[child[k].parent].st # "Cancelled"
    /\ list' = IF list[child[k].parent].st = "none" THEN list
               ELSE [list EXCEPT ![child[k].parent] =
                        [st |-> "Pending", wait |-> NoChild, asked |-> @.asked, got |-> k]]
    /\ PersistToDisk(k)
    /\ child' = [child EXCEPT ![k] = [st |-> "injected", parent |-> @.parent]]
    /\ UNCHANGED <<disk, queue, agent, token, hit, cancel, store, stale, history>>

(* A cancelled one is noted under the lock ... *)
InjectCancelled(k) ==
    /\ child[k].st = "found"
    /\ list[child[k].parent].st = "Cancelled"
    /\ child' = [child EXCEPT ![k] = [st |-> "discard", parent |-> @.parent]]
    /\ UNCHANGED <<list, disk, flush, queue, agent, token, hit, cancel, store, stale,
                   history>>

(* ... and removed after it, whatever it is by then. *)
DropCancelled(k) ==
    /\ child[k].st = "discard"
    /\ CompleteTask(child[k].parent, k)
    /\ child' = [child EXCEPT ![k] = [st |-> "injected", parent |-> @.parent]]
    /\ UNCHANGED <<disk, queue, agent, token, hit, cancel, store, stale, history>>

(* Mutant: the result is injected and nobody is woken. *)
SubmitResumed_NoSubmit(k) ==
    /\ child[k].st = "injected" /\ flush[k] = Synced
    /\ child' = [child EXCEPT ![k] = [st |-> "answered", parent |-> NoTask]]
    /\ UNCHANGED <<list, disk, flush, queue, agent, token, hit, cancel, store, stale,
                   history>>

(* ... then the parent is queued; a full lane is only logged. *)
SubmitResumed(k) ==
    /\ child[k].st = "injected" /\ flush[k] = Synced
    /\ queue' = Submit("normal", child[k].parent)
    /\ dropped' = IF Full("normal") THEN dropped \cup {child[k].parent} ELSE dropped
    /\ child' = [child EXCEPT ![k] = [st |-> "answered", parent |-> NoTask]]
    /\ UNCHANGED <<list, disk, flush, agent, token, hit, cancel, store, stale, sends,
                   reports,
                   scratch, stopped, lost, crashes>>

(* No parked task waits for it (yet): the callback goes to Routes 2 and 3
   and the worker never sees it again.                                     *)
StrayCallback(k) ==
    /\ child[k].st = "out"
    /\ \A t \in Tasks : ~WaitsFor(t, k)
    /\ child' = [child EXCEPT ![k] = [st |-> "stray", parent |-> @.parent]]
    /\ UNCHANGED <<list, disk, flush, queue, agent, token, hit, cancel, store, stale,
                   history>>

-----------------------------------------------------------------------------
(* restore_from_disk + recover_task_ids: Pending and WaitingRemote entries
   come back, all of them Pending, in any order.                            *)
Recovered == [t \in Tasks |-> IF disk[t].st \in {"Pending", "WaitingRemote"}
                              THEN Moved(disk[t], "Pending") ELSE None]
Requeue   == {t \in Tasks : Recovered[t].st = "Pending"}

Orders(S) == {q \in [1..Cardinality(S) -> S] : \A s \in S : \E i \in DOMAIN q : q[i] = s}

(* Crash and first_start; the result store drops running placeholders.  The
   sender of a callback that was being handled may try again or give up.     *)
CrashAndRestart ==
    /\ crashes < MaxCrashes
    /\ crashes' = crashes + 1
    /\ list' = Recovered
    /\ disk' = IF Requeue = {} THEN disk ELSE Recovered
    /\ flush' = [w \in Writers |-> Synced]
    /\ \E q \in Orders(Requeue) :
          LET n == IF Len(q) < QueueCap THEN Len(q) ELSE QueueCap
          IN  /\ queue' = [l \in Lanes |-> IF l = "normal" THEN SubSeq(q, 1, n) ELSE <<>>]
              /\ dropped' = dropped \cup {q[i] : i \in (n + 1)..Len(q)}
    /\ store' = [t \in Tasks |-> IF store[t] = "running" THEN "none" ELSE store[t]]
    /\ agent' = Resting
    /\ token' = {}
    /\ hit' = FALSE
    /\ cancel' = [c \in Cancellers |-> Resting]
    /\ \E again \in {"out", "answered"} :
          child' = [k \in Children |-> IF child[k].parent # NoTask
                                       THEN [st |-> again, parent |-> NoTask] ELSE child[k]]
    /\ stale' = {}
    /\ lost' = lost \cup {t \in Tasks : sends[t] > 0 /\ Recovered[t].st = "none"}
    /\ UNCHANGED <<sends, reports, scratch, stopped>>

-----------------------------------------------------------------------------
AgentStep ==
    \/ PriorityEmpty
    \/ \E l \in Lanes : DequeueMissing(l) \/ DequeueCancelled(l) \/ DequeueStart(l)
    \/ RefuseExecution \/ RegisterToken \/ RunEnds \/ RunEndsAsync \/ SaveAsyncState
    \/ SendTaskCallback \/ FinishTask

(* A callback arrives; the handler runs to its end. *)
CallbackArrives(k) == FindParent(k) \/ StrayCallback(k)
CallbackStep(k) ==
    InjectCallback(k) \/ InjectCancelled(k) \/ DropCancelled(k) \/ SubmitResumed(k)

Next ==
    \/ AgentStep
    \/ \E t \in Tasks : Accept(t) \/ RejectFull(t) \/ SweepRemove(t)
    \/ SweepCollect
    \/ \E c \in Cancellers : CancelWrite(c) \/ \E t \in Tasks : CancelRead(c, t)
    \/ \E k \in Children : CallChild(k) \/ CallbackArrives(k) \/ CallbackStep(k)
    \/ \E w \in Writers : WriteIndex(w)
    \/ CrashAndRestart

Spec == Init /\ [][Next]_vars

(* The agent loop runs whenever it can, file writes end, and a callback
   handler that has begun goes on.  Nothing is assumed of the arrival of a
   callback: one whose retries all failed is left for the poll, and the poll
   does not call inject_callback.                                           *)
LiveSpec == /\ Spec
            /\ WF_vars(AgentStep)
            /\ \A w \in Writers : WF_vars(WriteIndex(w))
            /\ \A k \in Children : WF_vars(CallbackStep(k))

-----------------------------------------------------------------------------
(* Properties.                                                             *)

Accepted == {t \in Tasks : sends[t] > 0}

(* An accepted task leaves the worker only after its outcome was reported,
   or because it was cancelled, or because a crash took it: no interleaving
   of execution, parking, resumption and sweep forgets one.                *)
NeverForgotten ==
    \A t \in Accepted : list[t].st = "none" /\ ~On(t) =>
        reports[t] > 0 \/ t \in stopped \cup dropped \cup lost

Awaited(t) == \E k \in Children : child[k].parent = t

(* No entry is a dead end.  A Pending one has an id in the work queue, or a
   callback handler about to put one there (or a full queue refused it); a
   Running one is the agent loop's; a parked one waits for a call it made,
   whose answer is still to come, is being handled or came before the task was
   parked; a Failed one is being reported.                                   *)
EntryHasKeeper ==
    \A t \in Tasks :
        /\ list[t].st = "Pending" => Queued(t) \/ Awaited(t) \/ t \in dropped
        /\ list[t].st = "Running" => On(t)
        /\ list[t].st = "WaitingRemote" =>
               list[t].wait # NoChild /\ child[list[t].wait].st \in {"out", "found", "stray"}
        /\ list[t].st = "Failed" => On(t) /\ agent.pc \in {"report", "finish"}

(* While the worker still has a task, query_task_result does not deny it. *)
LiveTaskIsVisible ==
    \A t \in Accepted : list[t].st \in Live /\ reports[t] = 0 => store[t] # "none"

(* A task that was delivered once to a worker that has not crashed is executed
   from scratch once: however often it delegates, every other execution
   resumes the parked conversation.  (A second delivery and a restart leave
   more than one id of the task behind, and each may run it again.)          *)
OneScratchRun ==
    \A t \in Tasks : sends[t] <= 1 /\ crashes = 0 => scratch[t] <= sends[t]

(* The requester hears of a task once per delivery, and once more per crash. *)
ReportedOnce == \A t \in Tasks : reports[t] <= sends[t] + crashes

(* A task that is ready to be resumed has the answer to the call that suspended
   it, also when it delegates several times and is restored after a crash, as
   long as it was started from scratch once.  (A task that was started again, by
   a second delivery or a restart, may have parked on another call between
   find_by_child_task_id and inject_callback, and then gets the wrong answer.)  *)
ResumedWithItsAnswer ==
    \A t \in Tasks : Resumable(list[t]) /\ scratch[t] <= 1 => list[t].got = list[t].asked

(* Every accepted task is answered, unless it was cancelled or a full queue
   refused it, or it is parked and the callback it waits for has not come, or
   came before it was parked.                                                *)
EventuallyReported ==
    \A t \in Tasks : t \in Accepted ~>
        \/ reports[t] > 0
        \/ t \in stopped \cup dropped
        \/ \E k \in Children : list[t].wait = k /\ child[k].st \in {"out", "stray"}
=============================================================================
