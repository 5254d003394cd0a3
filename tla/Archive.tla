------------------------------ MODULE Archive ------------------------------
(***************************************************************************)
(* The way a worker's work takes into the project of the team board, for   *)
(* one dispatched task: the working copy and its diff (exec_workspace.rs), *)
(* the outbox and its push loop (outbox.rs) on the worker; the transfer    *)
(* sink (transfer.rs), the archive ingest, the pull sweep and the merge    *)
(* trigger (board_archive_ingest.rs) on the master.                        *)
(*                                                                         *)
(* Only the dispatch row is in a database: everything else is a directory, *)
(* or a static map that a restart empties.  An enqueue is one step         *)
(* (OUTBOX_ENQUEUE_LOCK); the push loop, the two places that finish a      *)
(* working copy, the RPC handlers and the master's sweep have no lock in   *)
(* common.                                                                 *)
(*                                                                         *)
(* Contents stand for directories: "bare" the execution records alone,     *)
(* "full" with the changeset of the finished work, "half" with that of a   *)
(* run cut short, "empty" a directory without files.                       *)
(*                                                                         *)
(* Not here: single files, chunks and hashes (a content is its own hash);  *)
(* what only delays (back-off, health check) and the attempts counter (an  *)
(* entry may be dead at any time); the sweeps of directories a week old;   *)
(* disk errors; estop, freeze, conflicts and merges parked for a human (a  *)
(* merge commits); the reply kept in .done, which serves a sender that     *)
(* repeats transfer_end alone, as this one never does.  The copy and the   *)
(* removal of an ingest are one step, and so are the deletion of an entry  *)
(* and the four looks before a pull; one pull at a time is under way.      *)
(***************************************************************************)
EXTENDS Naturals, Sequences

CONSTANTS
    MaxFaults    \* bound: calls without an answer and restarts of either process

ASSUME ArchiveBounds == MaxFaults \in Nat

None      == "none"
Contents  == {"bare", "half", "full"}
Finishers == {"hook", "sweep"}           \* on_task_terminal, sweep_exec_residual
Threads   == {"end", "sweep", "report"}  \* transfer_end, sweep_missing_archives, write-back

\* Five windows the code leaves open, recorded by the steps that use them:
\*   early      a pull before finish_task_exec has put up its marker
\*   cut        the sweep of the start takes the copy of a task that will run again
\*   resent     records alone, sent after something was delivered: by a task that
\*              runs again, by the start, by a pull that is late
\*   relanded   an archive is placed while a merge of the task is under way
\*   forgotten  a restart of the master empties PLACED before the merge
Windows == {"early", "cut", "resent", "relanded", "forgotten"}

VARIABLES
    \* the worker
    boot,       \* start-up: "residual", "startup", "up"
    agent,      \* the task: "running", "told" (reported), "over"
    known,      \* the result store has it as running
    copy,       \* the working copy: None, or what its diff amounts to
    fin,        \* finish_task_exec, by each of its callers
    marker,     \* the .assembling file
    entry,      \* the state in entry.json, None without one
    payload,    \* the directory next to it
    loop,       \* where the push loop is with the entry
    small,      \* max_transfer_bytes is below the size of a changeset
    \* the master
    report,     \* the worker's callback is on its way
    row,        \* the dispatch row: "active", "done", "failed"
    staging,    \* .staging: the transfers with chunks
    inbox,      \* inbox/<task>
    receipt,    \* landed.json is in it
    dedup,      \* .dedup.json: the content of the task
    at, hold,   \* the threads, and the content each carries
    records,    \* the directories in records/<issue>/execution
    placed,     \* PLACED
    merged,     \* MERGED
    seen,       \* no_archive_seen
    pull,       \* a transfer_pull is on its way to the worker
    \* bounds and history
    faults,     \* the faults so far: restarts of the master, others
    acked,      \* contents the outbox deleted as delivered
    commits,    \* what was merged, in order
    spoilt      \* the windows of the code that were hit: see Windows

worker  == <<boot, agent, known, copy, fin, marker>>
box     == <<entry, payload>>
sink    == <<staging, inbox, receipt, dedup>>
thread  == <<at, hold>>
board   == <<report, row>>
project == <<records, placed, merged, commits>>
master  == <<sink, thread, board, project, seen>>
vars    == <<worker, box, loop, small, master, pull, faults, acked, spoilt>>

TypeOK ==
    /\ boot \in {"residual", "startup", "up"}
    /\ agent \in {"running", "told", "over"}
    /\ known \in BOOLEAN /\ marker \in BOOLEAN /\ small \in BOOLEAN
    /\ copy \in Contents \cup {None}
    /\ fin \in [Finishers -> {"idle", "diff", "clear"}]
    /\ entry \in {None, "pending", "pushing", "over_limit", "dead"}
    /\ payload \in Contents \cup {None}
    /\ loop \in {"idle", "begin", "chunks", "wait"}
    /\ report \in BOOLEAN /\ row \in {"active", "done", "failed"}
    /\ staging \subseteq Contents
    /\ inbox \in Contents \cup {None, "empty"}
    /\ receipt \in BOOLEAN
    /\ dedup \in Contents \cup {None}
    /\ at \in [Threads -> {"idle", "land", "seal", "ingest", "merge", "take", "commit",
                         "ok", "pull"}]
    /\ hold \in [Threads -> Contents \cup {None}]
    /\ records \subseteq Contents \cup {"empty"}
    /\ placed \in Contents \cup {None}
    /\ merged \in BOOLEAN /\ seen \in BOOLEAN /\ pull \in BOOLEAN
    /\ faults \in [{"master", "other"} -> 0..MaxFaults]
    /\ acked \subseteq Contents
    /\ commits \in Seq(Contents)
    /\ spoilt \subseteq Windows

\* The task is running, part of its work is in the working copy; any limit.
Init ==
    /\ boot = "up" /\ agent = "running" /\ known = TRUE /\ copy = "half"
    /\ fin = [f \in Finishers |-> "idle"] /\ marker = FALSE
    /\ entry = None /\ payload = None
    /\ loop = "idle" /\ small \in BOOLEAN
    /\ report = FALSE /\ row = "active"
    /\ staging = {}
    /\ inbox = None /\ receipt = FALSE /\ dedup = None
    /\ at = [t \in Threads |-> "idle"] /\ hold = [t \in Threads |-> None]
    /\ records = {} /\ placed = None /\ merged = FALSE /\ commits = <<>> /\ seen = FALSE
    /\ pull = FALSE
    /\ faults = [k \in {"master", "other"} |-> 0]
    /\ acked = {} /\ spoilt = {}

Fault(k) ==
    /\ faults["master"] + faults["other"] < MaxFaults
    /\ faults' = [faults EXCEPT ![k] = @ + 1]

Goto(t, pc) == at' = [at EXCEPT ![t] = pc]

Spoil(how, cond) == spoilt' = IF cond THEN spoilt \cup {how} ELSE spoilt

\* The end of a pull, for the sweep if it still waits for it.
AnswerPull(parked) ==
    IF at["sweep"] = "pull"
    THEN Goto("sweep", "idle") /\ seen' = (seen \/ parked)
    ELSE UNCHANGED <<at, seen>>

-----------------------------------------------------------------------------
(* The worker: the agent, the working copy, what is put in the outbox.     *)

\* The run ends; send_callback_or_persist up to its last call: the result goes
\* out, now or when the requester asks for it, the mark of a running task goes.
AgentEnds ==
    /\ agent = "running"
    /\ agent' = "told" /\ known' = FALSE
    /\ copy' = IF copy = None THEN None ELSE "full"
    /\ report' = TRUE
    /\ UNCHANGED <<boot, fin, marker, box, loop, small, sink, thread, row, project, seen, pull,
                   faults, acked, spoilt>>

\* enqueue_with_changeset: an entry that is there stays as it is.
Enqueue(c) ==
    IF entry # None THEN UNCHANGED box
    ELSE entry' = "pending" /\ payload' = c

\* enqueue, the records alone.
EnqueueRecords ==
    /\ Enqueue("bare")
    /\ Spoil("resent", entry = None /\ acked # {})

\* The hook finds no working copy: the records alone.
PlainEnqueue ==
    /\ agent = "told" /\ fin["hook"] = "idle" /\ copy = None
    /\ EnqueueRecords
    /\ agent' = "over"
    /\ UNCHANGED <<boot, known, copy, fin, marker, loop, small, master, pull, faults, acked>>

\* Who may start finish_task_exec: the terminal hook, the sweep of the start,
\* which skips nothing, and the one of every thirty minutes.
MayFinish(f) ==
    IF f = "hook" THEN agent = "told"
    ELSE boot = "residual" \/ (boot = "up" /\ ~known)

StartFinish(f) ==
    /\ fin[f] = "idle" /\ MayFinish(f) /\ copy # None
    /\ fin' = [fin EXCEPT ![f] = "diff"]
    /\ marker' = TRUE
    /\ UNCHANGED <<boot, agent, known, copy, box, loop, small, master, pull, faults, acked,
                   spoilt>>

\* The hook is the task's last step, however it ends.
HookOver(f) == agent' = IF f = "hook" THEN "over" ELSE agent

\* The diff of the working copy into the outbox; the other finisher may have
\* removed the copy meanwhile.
DiffIt(f) ==
    /\ fin[f] = "diff"
    /\ IF copy = None
       THEN /\ fin' = [fin EXCEPT ![f] = "idle"] /\ marker' = FALSE
            /\ HookOver(f)
            /\ UNCHANGED <<box, spoilt>>
       ELSE /\ Enqueue(copy)
            /\ Spoil("cut", entry = None /\ agent = "running")
            /\ fin' = [fin EXCEPT ![f] = "clear"]
            /\ UNCHANGED <<agent, marker>>
    /\ UNCHANGED <<boot, known, copy, loop, small, master, pull, faults, acked>>

ClearCopy(f) ==
    /\ fin[f] = "clear"
    /\ copy' = None /\ marker' = FALSE
    /\ fin' = [fin EXCEPT ![f] = "idle"]
    /\ HookOver(f)
    /\ UNCHANGED <<boot, known, box, loop, small, master, pull, faults, acked, spoilt>>

-----------------------------------------------------------------------------
(* The worker: restart, and the start in its order.                        *)

\* Unfinished tasks run again; the mark of a running task is not restored.
CrashWorker ==
    /\ Fault("other")
    /\ boot' = "residual" /\ known' = FALSE /\ loop' = "idle"
    /\ fin' = [f \in Finishers |-> "idle"]
    /\ agent' = IF agent = "over" THEN "over" ELSE "running"
    /\ pull' = FALSE
    /\ AnswerPull(FALSE)
    /\ UNCHANGED <<copy, marker, box, small, sink, hold, board, project, acked, spoilt>>

ResidualSwept ==
    /\ boot = "residual" /\ copy = None /\ fin["sweep"] = "idle"
    /\ boot' = "startup"
    /\ UNCHANGED <<agent, known, copy, fin, marker, box, loop, small, master, pull, faults,
                   acked, spoilt>>

\* Mutant: an entry whose push was cut off is not armed again.
Startup_NoRearm ==
    /\ boot = "startup"
    /\ boot' = "up"
    /\ \/ /\ entry = "over_limit" /\ ~small
          /\ entry' = "pending"
          /\ UNCHANGED <<payload, spoilt>>
       \/ /\ ~(entry = "over_limit" /\ ~small)
          /\ UNCHANGED <<box, spoilt>>
       \/ /\ entry = None
          /\ EnqueueRecords
    /\ UNCHANGED <<agent, known, copy, fin, marker, loop, small, master, pull, faults, acked>>

\* sweep_startup: entries are armed again, records without an entry get one
\* (if they are less than a day old).
Startup ==
    /\ boot = "startup"
    /\ boot' = "up"
    /\ \/ /\ entry = "pushing" \/ (entry = "over_limit" /\ ~small)
          /\ entry' = "pending"
          /\ UNCHANGED <<payload, spoilt>>
       \/ /\ entry # "pushing" /\ ~(entry = "over_limit" /\ ~small)
          /\ UNCHANGED <<box, spoilt>>
       \/ /\ entry = None
          /\ EnqueueRecords
    /\ UNCHANGED <<agent, known, copy, fin, marker, loop, small, master, pull, faults, acked>>

-----------------------------------------------------------------------------
(* The push loop and the RPC handlers it calls.                            *)

\* An entry of a thousand attempts, or seven days old, is dead: at any time, but
\* then whoever finished the working copy is long through.
Pick ==
    /\ boot = "up" /\ loop = "idle" /\ entry = "pending"
    /\ \/ /\ \A f \in Finishers : fin[f] = "idle"
          /\ entry' = "dead" /\ UNCHANGED loop
       \/ entry' = "pushing" /\ loop' = "begin"
    /\ UNCHANGED <<worker, payload, small, master, pull, faults, acked, spoilt>>

FailPush ==
    /\ loop' = "idle"
    /\ entry' = "pending"
    /\ UNCHANGED payload

OverLimit(c) == small /\ c # "bare"

\* The state is written first; the note to the master may be lost.
TooLarge ==
    /\ loop = "begin" /\ OverLimit(payload)
    /\ loop' = "idle" /\ entry' = "over_limit"
    /\ UNCHANGED <<worker, payload, small, sink, thread, board, project, seen, pull, faults,
                   acked, spoilt>>

\* Delivered: the entry and its payload go.
Delivered ==
    /\ loop' = "idle"
    /\ entry' = None /\ payload' = None
    /\ acked' = acked \cup {payload}

\* Mutant: the index is asked for the task, not for its content.
Begin_TaskOnly ==
    /\ loop = "begin" /\ ~OverLimit(payload)
    /\ IF dedup # None /\ receipt
       THEN Delivered /\ UNCHANGED staging
       ELSE /\ loop' = "chunks"
            /\ staging' = staging \cup {payload}
            /\ UNCHANGED <<box, acked>>
    /\ UNCHANGED <<worker, small, inbox, receipt, dedup, thread, board, project, seen, pull,
                   faults, spoilt>>

\* begin: what is in the inbox with its receipt need not be sent again; chunks
\* that are there are kept.
Begin ==
    /\ loop = "begin" /\ ~OverLimit(payload)
    /\ IF dedup = payload /\ receipt
       THEN Delivered /\ UNCHANGED staging
       ELSE /\ loop' = "chunks"
            /\ staging' = staging \cup {payload}
            /\ UNCHANGED <<box, acked>>
    /\ UNCHANGED <<worker, small, inbox, receipt, dedup, thread, board, project, seen, pull,
                   faults, spoilt>>

\* An earlier call of transfer_end has removed the staging.
NoStaging ==
    /\ loop = "chunks" /\ payload \notin staging
    /\ FailPush
    /\ UNCHANGED <<worker, small, master, pull, faults, acked, spoilt>>

\* All chunks are there.  A transfer_end is through before the back-off of the
\* loop lets the next one follow.
CallEnd ==
    /\ loop = "chunks" /\ payload \in staging /\ at["end"] = "idle"
    /\ loop' = "wait"
    /\ Goto("end", "land")
    /\ hold' = [hold EXCEPT !["end"] = payload]
    /\ UNCHANGED <<worker, box, small, sink, board, project, seen, pull, faults, acked,
                   spoilt>>

\* A call without an answer; the handler goes on.
Lose ==
    /\ loop # "idle"
    /\ Fault("other")
    /\ FailPush
    /\ UNCHANGED <<worker, small, master, pull, acked, spoilt>>

\* The master went away under the call.
Abandoned ==
    /\ loop = "wait" /\ at["end"] = "idle"
    /\ FailPush
    /\ UNCHANGED <<worker, small, master, pull, faults, acked, spoilt>>

AnswerEnd ==
    /\ at["end"] = "ok"
    /\ Goto("end", "idle")
    /\ \/ loop = "wait" /\ Delivered
       \/ loop # "wait" /\ UNCHANGED <<loop, box, acked>>
    /\ UNCHANGED <<worker, small, sink, hold, board, project, seen, pull, faults, spoilt>>

ReplayDead ==
    /\ entry = "dead"
    /\ entry' = "pending"
    /\ UNCHANGED <<worker, payload, loop, small, master, pull, faults, acked, spoilt>>

\* Of use to an entry over the limit; before that, as with another Init.
RaiseLimit ==
    /\ small /\ entry = "over_limit"
    /\ small' = FALSE
    /\ UNCHANGED <<worker, box, loop, master, pull, faults, acked, spoilt>>

-----------------------------------------------------------------------------
(* The master: TransferSink::end.                                          *)

\* What is verified takes the place of what is in the inbox.
EndLand ==
    /\ at["end"] = "land"
    /\ inbox' = hold["end"] /\ receipt' = FALSE
    /\ Goto("end", "seal")
    /\ UNCHANGED <<worker, box, loop, small, staging, dedup, hold, board, project, seen, pull,
                   faults, acked, spoilt>>

\* Manifest, receipt and index, then the staging goes; the writes make the
\* directory if it is not there.
EndSeal ==
    /\ at["end"] = "seal"
    /\ inbox' = IF inbox = None THEN "empty" ELSE inbox
    /\ receipt' = TRUE /\ dedup' = hold["end"]
    /\ staging' = staging \ {hold["end"]}
    /\ Goto("end", "ingest")
    /\ hold' = [hold EXCEPT !["end"] = None]
    /\ UNCHANGED <<worker, box, loop, small, board, project, seen, pull, faults, acked,
                   spoilt>>

-----------------------------------------------------------------------------
(* The master: ingest_landed, by transfer_end or by the sweep, and the     *)
(* merge trigger, by either or by the write-back.                          *)

Leave(t) == Goto(t, IF t = "end" THEN "ok" ELSE "idle")

\* ingest_landed: the content goes into the records and is registered in
\* PLACED.  The target directory is made before a copy without files fails.
\* The sweep's first leg takes whatever lies in the inbox.
Ingest(t) ==
    /\ \/ t = "end" /\ at[t] = "ingest"
       \/ t = "sweep" /\ at[t] = "idle" /\ inbox # None
    /\ \/ /\ inbox \in Contents
          /\ records' = records \cup {inbox}
          /\ inbox' = None /\ receipt' = FALSE
          /\ placed' = inbox
          /\ Goto(t, "merge")
          /\ Spoil("relanded", \E u \in Threads : at[u] \in {"take", "commit"})
       \/ /\ inbox \notin Contents
          /\ records' = records \cup {"empty"}
          /\ Leave(t)
          /\ UNCHANGED <<inbox, receipt, placed, spoilt>>
    /\ UNCHANGED <<worker, box, loop, small, staging, dedup, hold, board, merged, commits,
                   seen, pull, faults, acked>>

\* merge_and_maybe_review up to the look at the row; nothing of a failed
\* dispatch is merged.
MergeAttempt(t) ==
    /\ at[t] = "merge"
    /\ \/ /\ ~merged /\ row = "done"
          /\ Goto(t, "take")
          /\ UNCHANGED placed
       \/ /\ merged \/ row # "done"
          /\ Leave(t)
          /\ placed' = IF ~merged /\ row = "failed" THEN None ELSE placed
    /\ UNCHANGED <<worker, box, loop, small, sink, hold, board, records, merged, commits, seen,
                   pull, faults, acked, spoilt>>

\* Mutant: PLACED is read, its entry not removed.
TakePlaced_Get(t) ==
    /\ at[t] = "take"
    /\ IF placed = None
       THEN Leave(t) /\ UNCHANGED hold
       ELSE /\ hold' = [hold EXCEPT ![t] = placed]
            /\ Goto(t, "commit")
    /\ UNCHANGED <<worker, box, loop, small, sink, board, project, seen, pull, faults, acked,
                   spoilt>>

\* The entry is taken out of PLACED, by one thread only; MERGED is not read
\* again.
TakePlaced(t) ==
    /\ at[t] = "take"
    /\ IF placed = None
       THEN Leave(t) /\ UNCHANGED hold
       ELSE /\ hold' = [hold EXCEPT ![t] = placed]
            /\ Goto(t, "commit")
    /\ placed' = None
    /\ UNCHANGED <<worker, box, loop, small, sink, board, records, merged, commits, seen, pull,
                   faults, acked, spoilt>>

\* Under MERGE_SERIAL; records alone count as merged.
Commit(t) ==
    /\ at[t] = "commit"
    /\ commits' = Append(commits, hold[t]) /\ merged' = TRUE
    /\ Leave(t)
    /\ hold' = [hold EXCEPT ![t] = None]
    /\ UNCHANGED <<worker, box, loop, small, sink, board, records, placed, seen, pull, faults,
                   acked, spoilt>>

-----------------------------------------------------------------------------
(* The master: the sweep's second leg, the dispatch row, restart.          *)

MissingArchive == row # "active" /\ records = {} /\ inbox = None /\ ~seen

\* Leg 2: the worker is asked, without a lock across the call.
SweepPulls ==
    /\ at["sweep"] = "idle" /\ MissingArchive /\ ~pull
    /\ pull' = TRUE
    /\ Goto("sweep", "pull")
    /\ UNCHANGED <<worker, box, loop, small, sink, hold, board, project, seen, faults, acked,
                   spoilt>>

\* The records alone, whatever has happened since the master missed them.
PullRecords ==
    /\ Enqueue("bare")
    /\ spoilt' = IF entry # None THEN spoilt
                 ELSE spoilt \cup (IF copy # None /\ ~marker THEN {"early"} ELSE {})
                             \cup (IF acked # {} THEN {"resent"} ELSE {})

\* Mutant: the marker is not looked for.
RequestPull_NoMarker ==
    /\ pull /\ pull' = FALSE
    /\ AnswerPull(entry \in {"dead", "over_limit"})
    /\ IF entry \in {"dead", "over_limit"}
       THEN UNCHANGED <<box, spoilt>>
       ELSE PullRecords
    /\ UNCHANGED <<worker, loop, small, sink, hold, board, project, faults, acked>>

\* request_pull at the worker, whose handlers are there before its start is
\* through.  An entry that is parked is reported, a working copy being finished
\* is waited for.
RequestPull ==
    /\ pull /\ pull' = FALSE
    /\ AnswerPull(entry \in {"dead", "over_limit"})
    /\ IF entry \in {"dead", "over_limit"} \/ (copy # None /\ marker)
       THEN UNCHANGED <<box, spoilt>>
       ELSE PullRecords
    /\ UNCHANGED <<worker, loop, small, sink, hold, board, project, faults, acked>>

\* No answer in PULL_RPC_TIMEOUT: the request is lost, or it gets there late.
PullTimesOut ==
    /\ at["sweep"] = "pull"
    /\ Fault("other")
    /\ pull' = FALSE \/ UNCHANGED pull
    /\ Goto("sweep", "idle")
    /\ UNCHANGED <<worker, box, loop, small, sink, hold, board, project, seen, acked, spoilt>>

\* Mutant: the merge is left to the landing.
WriteBack_NoTrigger ==
    /\ report /\ row = "active" /\ at["report"] = "idle"
    /\ row' = "done"
    /\ UNCHANGED <<worker, box, loop, small, sink, thread, report, project, seen, pull, faults,
                   acked, spoilt>>

\* write_back_board_dispatch, a success; then the merge trigger.
WriteBack ==
    /\ report /\ row = "active" /\ at["report"] = "idle"
    /\ row' = "done"
    /\ Goto("report", "merge")
    /\ UNCHANGED <<worker, box, loop, small, sink, hold, report, project, seen, pull, faults,
                   acked, spoilt>>

\* The dispatch times out, or its failure is reported.
RowFails ==
    /\ row = "active"
    /\ row' = "failed"
    /\ UNCHANGED <<worker, box, loop, small, sink, thread, report, project, seen, pull, faults,
                   acked, spoilt>>

CrashMaster ==
    /\ Fault("master")
    /\ at' = [t \in Threads |-> "idle"] /\ hold' = [t \in Threads |-> None]
    /\ placed' = None /\ merged' = FALSE /\ seen' = FALSE
    /\ Spoil("forgotten", placed # None \/ \E t \in Threads : at[t] = "commit")
    /\ UNCHANGED <<worker, box, loop, small, sink, board, records, commits, pull, acked>>

-----------------------------------------------------------------------------
WorkerStep ==
    \/ AgentEnds \/ PlainEnqueue \/ ResidualSwept \/ Startup
    \/ \E f \in Finishers : StartFinish(f) \/ DiffIt(f) \/ ClearCopy(f)

PushStep ==
    \/ Pick \/ TooLarge \/ Begin \/ NoStaging \/ CallEnd \/ Abandoned

ThreadStep(t) ==
    \/ Ingest(t) \/ MergeAttempt(t) \/ TakePlaced(t) \/ Commit(t)

EndStep ==
    \/ EndLand \/ EndSeal \/ AnswerEnd
    \/ ThreadStep("end")

PullStep == SweepPulls \/ RequestPull
ReportStep == WriteBack \/ ThreadStep("report")

OwnStep == EndStep \/ ThreadStep("sweep") \/ ReportStep \/ PushStep \/ WorkerStep

Next ==
    \/ OwnStep \/ PullStep
    \/ Lose \/ PullTimesOut \/ CrashWorker \/ CrashMaster
    \/ ReplayDead \/ RaiseLimit \/ RowFails

Spec == Init /\ [][Next]_vars

-----------------------------------------------------------------------------
(* Properties.                                                             *)

\* What an archive may be replaced by: records are part of any archive.
AtLeast(c) ==
    CASE c = "bare" -> Contents
      [] c = "half" -> {"half", "full"}
      [] OTHER      -> {c}

\* What the worker has deleted as delivered (process_once) is on the master, in
\* the records of the issue or in the inbox, it or an archive with more of the
\* work: an acknowledgement, a receipt and the index never speak for something
\* that is gone.  Without the resends: their landing replaces the inbox.
DeliveredIsKept ==
    "resent" \notin spoilt => \A c \in acked : (records \cup {inbox}) \cap AtLeast(c) # {}

\* The merge takes in the finished work of the task, not the records without the
\* changeset and not the state of a run cut short: the order of the start-up
\* sweeps, the marker that holds off the pull and the idempotent enqueue make it
\* so, except in three windows.  A pull answered after the archive it was sent
\* for has been delivered falls under the third.
WorkIsMerged ==
    spoilt \cap {"early", "cut", "resent"} = {} =>
        \A i \in DOMAIN commits : commits[i] = "full"

\* The write-back and the landing race for the merge, and one of them has it:
\* one merge for each life of the master, whose MERGED is in memory.  The
\* exception is an archive placed again while the merge is under way: MERGED is
\* read before the entry is taken and MERGE_SERIAL entered, and not after.
MergedOnce == "relanded" \notin spoilt => Len(commits) <= 1 + faults["master"]

\* The loops of the two processes go on, and the sweep in spite of them; nothing
\* is assumed of faults or people.
FairSpec == Spec /\ WF_vars(OwnStep) /\ WF_vars(PullStep)

\* Given up in the open: shown on the dashboard, for a human to replay or raise.
Parked == entry \in {"dead", "over_limit"}

\* The archive of a task that is over, and settled at the master, gets there or
\* is parked, and of a task reported as done something is merged: a lost call or
\* pull, a restart of either side and the races of the sweeps do not end the
\* efforts of the push loop and the pull, and neither the report nor the landing
\* may leave the merge to the other.  Without the restart that empties PLACED.
Merges ==
    (agent = "over" /\ row # "active") ~>
        (\/ Parked
         \/ /\ records \cap Contents # {}
            /\ row = "done" => commits # <<>> \/ "forgotten" \in spoilt)
=============================================================================
