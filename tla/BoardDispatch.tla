--------------------------- MODULE BoardDispatch ---------------------------
(***************************************************************************)
(* The dispatch protocol of the team board, for one issue: who hands the   *)
(* issue to a worker, what the worker's report does to it, and everything  *)
(* that may step in between.                                               *)
(*                                                                         *)
(* The issue and its dispatch rows live in SQLite (nemesis-board, store.rs)*)
(* behind a connection mutex, so a store call is one step; a handler is a  *)
(* SEQUENCE of store calls.  Humans, the planner wave, the retry sweep,    *)
(* the timeout sweep, the review and the rebalancer all end in             *)
(* dispatch_issue_core, each on its own thread; the worker answers at any  *)
(* time, late, twice or never; the gateway dies anywhere and keeps only    *)
(* the database.                                                           *)
(*                                                                         *)
(* Not here: other issues (parents, dependencies; of their rows only that  *)
(* they fill the node a retry would go to, in held), which worker is       *)
(* chosen and shown as assignee, the estop, plan and freeze gates, the     *)
(* archive pipeline, the local executor (a mirror of the core with a       *)
(* synchronous send).  Consecutive READS of one handler are one step, and  *)
(* so is a comment with the store call before it.                          *)
(***************************************************************************)
EXTENDS Naturals, Sequences

CONSTANTS
    MaxTasks,       \* bound: dispatch attempts, one fresh task id each
    MaxSendRetries, \* board.budget.max_send_retries
    MaxEvents       \* bound: events from outside (FromOutside), and restarts

ASSUME Bounds == /\ MaxTasks \in Nat
                 /\ MaxSendRetries \in Nat
                 /\ MaxEvents \in Nat

Tasks  == 1 .. MaxTasks
NoTask == 0

Statuses  == {"backlog", "todo", "in_progress", "in_review", "done", "blocked", "cancelled"}
RowStates == {"none", "dispatched", "running", "done", "failed", "cancelled"}
Places    == {"free", "entering", "gated", "claimed", "refused", "calling", "failing",
              "rolling", "marking", "aborted", "over"}
Callers   == {"plain", "sweep", "review", "rebalance"}

VARIABLES
    status,     \* issue.status
    mover,      \* author of the last status change; "rollback": it undid a dispatch
    row,        \* issue_dispatch.state of the row of a task, "none" if no row
    rows,       \* the rows of the issue, in rowid order
    sys,        \* what the last system comment is
    fresh,      \* it was written after the last row was completed
    marks,      \* how many of the system comments are send failure marks
    stray,      \* history: a mark for a row that is not the last one, or whose
                \* worker has the task
    pc,         \* per task: where its dispatch attempt stands
    snap,       \* per task: the status it read at the start
    src,        \* per task: who called dispatch_issue_core
    has,        \* tasks a worker got
    reported,   \* history: tasks whose row was settled by a report
    then,       \* per task: who settled the row and has yet to see to the issue
    rev,        \* per task: where the review its settlement started stands
    decided,    \* auto_decide recorded since the issue last entered in_review
    cancel,     \* issue.cancel: where it stands ...
    cancelRow,  \* ... and the active row it has read
    reb,        \* the queued row the rebalancer has listed
    moves, crashes,
    held        \* autonomous mode, and the node the row would go to is full

issue    == <<status, mover>>
ledger   == <<row, rows>>
thread   == <<sys, fresh, marks, stray>>
attempt  == <<pc, snap, src>>
settling == <<has, reported, then>>
review   == <<rev, decided>>
outside  == <<cancel, cancelRow, reb, moves>>
vars     == <<issue, ledger, thread, attempt, settling, review, outside, crashes, held>>

Shape ==
    /\ status \in Statuses /\ mover \in {"system", "human", "rollback"}
    /\ row \in [Tasks -> RowStates] /\ rows \in Seq(Tasks)
    /\ sys \in {"none", "mark", "note"} /\ marks \in Nat
    /\ pc \in [Tasks -> Places] /\ snap \in [Tasks -> Statuses] /\ src \in [Tasks -> Callers]
    /\ has \subseteq Tasks /\ reported \subseteq Tasks
    /\ then \in [Tasks -> {"none", "report", "sweep"}]
    /\ rev \in [Tasks -> {"none", "pending", "running", "left", "pass", "fail", "over"}]
    /\ cancel \in {"idle", "row", "issue"} /\ cancelRow \in Tasks \cup {NoTask}
    /\ reb \in Tasks \cup {NoTask}
    /\ moves \in 0 .. MaxEvents /\ crashes \in 0 .. MaxEvents

Flags == fresh \in BOOLEAN /\ stray \in BOOLEAN /\ decided \in BOOLEAN /\ held \in BOOLEAN

\* One type invariant for the module.
TypeOK == Shape /\ Flags

Init ==
    /\ status = "backlog" /\ mover = "human"
    /\ row = [t \in Tasks |-> "none"] /\ rows = <<>>
    /\ sys = "none" /\ fresh = FALSE /\ marks = 0 /\ stray = FALSE
    /\ pc = [t \in Tasks |-> "free"]
    /\ snap = [t \in Tasks |-> "backlog"] /\ src = [t \in Tasks |-> "plain"]
    /\ has = {} /\ reported = {} /\ then = [t \in Tasks |-> "none"]
    /\ rev = [t \in Tasks |-> "none"] /\ decided = FALSE
    /\ cancel = "idle" /\ cancelRow = NoTask /\ reb = NoTask
    /\ moves = 0 /\ crashes = 0 /\ held = FALSE

-----------------------------------------------------------------------------
(* The store.                                                              *)

\* state_machine.rs
CanTransition(from, to) ==
    <<from, to>> \in
        ({"backlog"} \X {"todo", "in_progress", "done", "blocked", "cancelled"})
        \cup ({"todo"} \X {"in_progress", "done", "blocked", "cancelled"})
        \cup ({"in_progress"} \X {"in_review", "done", "blocked", "cancelled"})
        \cup ({"in_review"} \X {"in_progress", "done", "blocked", "cancelled"})
        \cup ({"blocked"} \X {"todo", "in_progress", "cancelled"})
        \cup {<<"cancelled", "backlog">>}

\* transition_issue: the status is read and validated in the transaction that
\* writes it.
TransitionIssue(to, who) ==
    /\ CanTransition(status, to)
    /\ status' = to /\ mover' = who

Active(t) == row[t] \in {"dispatched", "running"}
HasActive == \E t \in Tasks : Active(t)

\* finish_dispatch (and cancel_dispatch, fail_dispatch_inner): the row leaves
\* an active state once; whoever comes second changes nothing.
FinishDispatch(t, state) ==
    \/ Active(t) /\ row' = [row EXCEPT ![t] = state] /\ fresh' = FALSE
    \/ ~Active(t) /\ UNCHANGED <<row, fresh>>

\* add_comment with ctype system.
SystemComment(kind) == /\ sys' = kind /\ fresh' = TRUE
                       /\ marks' = IF kind = "mark" THEN marks + 1 ELSE marks

(* Mutant: a mark older than the settlement of the last row counts. *)
SendFailureCandidate_Stale ==
    /\ status \in {"backlog", "todo", "in_review"}
    /\ sys = "mark"
    /\ rows # <<>> /\ row[rows[Len(rows)]] = "failed"

\* list_send_failure_candidates: the last system comment is a send failure
\* mark, the last row failed, and the mark is not older than that.
SendFailureCandidate ==
    /\ status \in {"backlog", "todo", "in_review"}
    /\ sys = "mark" /\ fresh
    /\ rows # <<>> /\ row[rows[Len(rows)]] = "failed"

-----------------------------------------------------------------------------
(* Callers of dispatch_issue_core.                                         *)

\* What humans and announcing nodes start, nodes or a git remote that are out of
\* reach, a node that fills up and an LLM endpoint that comes back.
FromOutside == moves + crashes < MaxEvents /\ moves' = moves + 1

Fresh(t) == pc[t] = "free" /\ \A u \in Tasks : u < t => pc[u] # "free"

\* The gates at the head of dispatch_issue_core: status, active dispatch.
Gate == status \in {"backlog", "todo", "in_progress", "in_review"} /\ ~HasActive

Goto(t, place) == pc' = [pc EXCEPT ![t] = place] /\ UNCHANGED <<snap, src>>

\* The attempt is over and what it kept is gone.
Leave(t) == /\ pc' = [pc EXCEPT ![t] = "over"]
            /\ snap' = [snap EXCEPT ![t] = "backlog"] /\ src' = [src EXCEPT ![t] = "plain"]

\* A caller that does nothing when the core refuses: straight through the
\* gates.
Through(t) ==
    /\ Fresh(t) /\ Gate
    /\ pc' = [pc EXCEPT ![t] = "gated"]
    /\ snap' = [snap EXCEPT ![t] = status] /\ src' = [src EXCEPT ![t] = "plain"]
    /\ UNCHANGED <<issue, ledger, thread, settling, review, cancel, cancelRow, reb, crashes, held>>

\* A caller with something to do when the core refuses.
Call(t, s) ==
    /\ Fresh(t)
    /\ pc' = [pc EXCEPT ![t] = "entering"] /\ src' = [src EXCEPT ![t] = s]
    /\ UNCHANGED snap

\* issue.dispatch.
DispatchByHand(t) == FromOutside /\ Through(t)

\* dispatch_subissue_auto: planner wave, park sweep.
DispatchAuto(t) == status \in {"backlog", "todo"} /\ Through(t) /\ UNCHANGED moves

\* ... with no node that matches, or none with room: a parking notice.
Park ==
    /\ FromOutside
    /\ status \in {"backlog", "todo"} /\ ~HasActive
    /\ SystemComment("note")
    /\ UNCHANGED <<issue, ledger, stray, attempt, settling, review, cancel, cancelRow, reb,
                   crashes, held>>

\* The second half of the park sweep: a failed send is sent again, ...
RetrySend(t) ==
    /\ SendFailureCandidate /\ marks <= MaxSendRetries
    /\ Through(t) /\ UNCHANGED moves

\* ... until the budget is spent: the stop comment takes it out of the pool.
GiveUpSend ==
    /\ SendFailureCandidate /\ marks > MaxSendRetries
    /\ SystemComment("note")
    /\ UNCHANGED <<issue, ledger, stray, attempt, settling, review, outside, crashes, held>>

\* rebalance_queued_to_worker: the queued rows are listed ...
RebalanceList(t) ==
    /\ FromOutside
    /\ reb = NoTask /\ row[t] = "dispatched"
    /\ reb' = t
    /\ UNCHANGED <<issue, ledger, thread, attempt, settling, review, cancel, cancelRow,
                   crashes, held>>

\* ... and each one is cancelled and dispatched to the node that has room.
\* cancel_dispatch(..).ok().is_none() is false for Ok(None): a row somebody
\* else has settled in between is dispatched all the same.
RebalanceMove(u) ==
    /\ reb # NoTask /\ reb' = NoTask
    /\ FinishDispatch(reb, "cancelled")
    /\ Call(u, "rebalance")
    /\ UNCHANGED <<issue, rows, sys, marks, stray, settling, review, cancel, cancelRow,
                   moves, crashes, held>>

\* The core refused: the comment that makes the issue visible.
RebalanceRefused(t) ==
    /\ pc[t] = "aborted" /\ src[t] = "rebalance"
    /\ Leave(t) /\ SystemComment("note")
    /\ UNCHANGED <<issue, ledger, stray, settling, review, outside, crashes, held>>

-----------------------------------------------------------------------------
(* dispatch_issue_core.                                                    *)

\* An error goes back to the caller; only some callers act on it.
Abort(t) == \/ src[t] = "plain" /\ Leave(t)
            \/ src[t] # "plain" /\ Goto(t, "aborted")

EnterCore(t) ==
    /\ pc[t] = "entering"
    /\ \/ /\ Gate /\ pc' = [pc EXCEPT ![t] = "gated"]
          /\ snap' = [snap EXCEPT ![t] = status] /\ UNCHANGED src
       \/ ~Gate /\ Abort(t)
    /\ UNCHANGED <<issue, ledger, thread, settling, review, outside, crashes, held>>

\* push_dispatch_baseline failed: no row has been written yet.
BaselineFails(t) ==
    /\ FromOutside /\ pc[t] = "gated"
    /\ Abort(t) /\ SystemComment("note")
    /\ UNCHANGED <<issue, ledger, stray, settling, review, cancel, cancelRow, reb,
                   crashes, held>>

(* Mutant: the row is inserted on the strength of the gate passed earlier. *)
TryClaimDispatch_Precheck(t) ==
    /\ pc[t] = "gated"
    /\ Goto(t, "claimed")
    /\ row' = [row EXCEPT ![t] = "dispatched"] /\ rows' = Append(rows, t)
    /\ UNCHANGED <<issue, thread, settling, review, outside, crashes, held>>

\* try_claim_dispatch: the look for an active row and the insertion of the new
\* one are one transaction.
TryClaimDispatch(t) ==
    /\ pc[t] = "gated"
    /\ \/ /\ ~HasActive /\ Goto(t, "claimed")
          /\ row' = [row EXCEPT ![t] = "dispatched"] /\ rows' = Append(rows, t)
       \/ HasActive /\ Abort(t) /\ UNCHANGED ledger
    /\ UNCHANGED <<issue, thread, settling, review, outside, crashes, held>>

\* The core returns, the RPC is under way, and the caller puts the success on
\* record: a comment, or an auto_decide entry.
Sent(t) ==
    /\ Goto(t, "calling")
    /\ \/ src[t] \in {"sweep", "rebalance"} /\ SystemComment("note")
       \/ src[t] \in {"plain", "review"} /\ UNCHANGED <<sys, fresh, marks>>
    /\ \/ src[t] \in {"sweep", "review"} /\ decided' = TRUE
       \/ src[t] \notin {"sweep", "review"} /\ UNCHANGED decided

(* Mutant: the transition is validated against the status read at the start. *)
Advance_Snapshot(t) ==
    /\ pc[t] = "claimed" /\ Sent(t)
    /\ status' = "in_progress" /\ mover' = "system"
    /\ UNCHANGED <<ledger, stray, settling, rev, outside, crashes, held>>

\* The issue moves to in_progress unless it was there when it was read; from
\* any other status the store has the last word.
Advance(t) ==
    /\ pc[t] = "claimed"
    /\ \/ /\ snap[t] = "in_progress"
          /\ Sent(t) /\ UNCHANGED issue
       \/ /\ snap[t] # "in_progress"
          /\ TransitionIssue("in_progress", "system") /\ Sent(t)
       \/ /\ snap[t] # "in_progress" /\ ~CanTransition(status, "in_progress")
          /\ Goto(t, "refused") /\ UNCHANGED <<issue, decided, sys, fresh, marks>>
    /\ UNCHANGED <<ledger, stray, settling, rev, outside, crashes, held>>

Refuse(t) ==
    /\ pc[t] = "refused"
    /\ FinishDispatch(t, "failed") /\ Abort(t)
    /\ UNCHANGED <<issue, rows, sys, marks, stray, settling, review, outside, crashes, held>>

\* The worker gets the peer_chat and queues it.
WorkerAccepts(t) ==
    /\ pc[t] = "calling" /\ t \notin has
    /\ has' = has \cup {t}
    /\ UNCHANGED <<issue, ledger, thread, attempt, reported, then, review, outside, crashes, held>>

RpcAcked(t) ==
    /\ pc[t] = "calling" /\ t \in has
    /\ Leave(t)
    /\ UNCHANGED <<issue, ledger, thread, settling, review, outside, crashes, held>>

\* Unreachable, refused, or no answer in 30 s (the worker may have the task).
RpcFails(t) ==
    /\ pc[t] = "calling"
    /\ Goto(t, "failing")
    /\ UNCHANGED <<issue, ledger, thread, settling, review, outside, crashes, held>>

\* The three steps of a failed send: the row, ...
SendFailed(t) ==
    /\ pc[t] = "failing"
    /\ FinishDispatch(t, "failed") /\ Goto(t, "rolling")
    /\ UNCHANGED <<issue, rows, sys, marks, stray, settling, review, outside, crashes, held>>

\* ... the issue, back to where it was unless it has moved on or another
\* dispatch is in flight, ...
RollbackDispatchFailure(t) ==
    /\ pc[t] = "rolling" /\ Goto(t, "marking")
    /\ \/ /\ status = "in_progress" /\ snap[t] # "in_progress" /\ ~HasActive
          /\ status' = snap[t] /\ mover' = "rollback"
       \/ /\ status # "in_progress" \/ snap[t] = "in_progress" \/ HasActive
          /\ UNCHANGED issue
    /\ UNCHANGED <<ledger, thread, settling, review, outside, crashes, held>>

\* ... and the mark the retry sweep looks for.
MarkSendFailure(t) ==
    /\ pc[t] = "marking"
    /\ Leave(t) /\ SystemComment("mark")
    /\ \/ (rows[Len(rows)] # t \/ t \in has) /\ stray' = TRUE
       \/ rows[Len(rows)] = t /\ t \notin has /\ UNCHANGED stray
    /\ UNCHANGED <<issue, ledger, settling, review, outside, crashes, held>>

-----------------------------------------------------------------------------
(* The worker's answers.                                                   *)

\* handle_task_started: mark_dispatch_running.
TaskStarted(t) ==
    /\ t \in has /\ row[t] = "dispatched"
    /\ row' = [row EXCEPT ![t] = "running"]
    /\ UNCHANGED <<issue, rows, thread, attempt, settling, review, outside, crashes, held>>

\* write_back_board_dispatch, whenever and however often a report of a task the
\* worker got arrives: the row, ...
WriteBack(t, outcome) ==
    /\ t \in has /\ Active(t)
    /\ FinishDispatch(t, outcome)
    /\ then' = [then EXCEPT ![t] = "report"] /\ reported' = reported \cup {t}
    /\ UNCHANGED <<issue, rows, sys, marks, stray, attempt, has, review, outside, crashes, held>>

\* An issue still in progress goes to review, and its review is spawned.
Reflow(t) ==
    \/ /\ status = "in_progress"
       /\ TransitionIssue("in_review", "system")
       /\ rev' = [rev EXCEPT ![t] = "pending"] /\ decided' = FALSE
    \/ status # "in_progress" /\ UNCHANGED <<issue, review>>

(* Mutant: a failure leaves the issue where it is. *)
WriteBackIssue_DoneOnly(t) ==
    /\ then[t] = "report" /\ then' = [then EXCEPT ![t] = "none"]
    /\ \/ row[t] = "done" /\ Reflow(t)
       \/ row[t] # "done" /\ UNCHANGED <<issue, review>>
    /\ UNCHANGED <<ledger, thread, attempt, has, reported, outside, crashes, held>>

\* ... and then the issue, after a failure as well.
WriteBackIssue(t) ==
    /\ then[t] = "report" /\ then' = [then EXCEPT ![t] = "none"]
    /\ Reflow(t)
    /\ UNCHANGED <<ledger, thread, attempt, has, reported, outside, crashes, held>>

-----------------------------------------------------------------------------
(* sweep_dispatch_timeouts.                                                *)

\* A row without an answer for 10 minutes or more.  The attempts that had a
\* row up to then are over: their steps follow each other at once, but for the
\* 30 s of the RPC.
Overdue(t) ==
    Active(t) /\ \A u \in Tasks : pc[u] \in {"free", "entering", "gated", "aborted", "over"}

(* Mutant: only rows that were never started are looked at. *)
SweepTimeout_Queued(t) ==
    /\ Overdue(t) /\ row[t] = "dispatched" /\ ~held
    /\ row' = [row EXCEPT ![t] = "failed"] /\ SystemComment("note")
    /\ then' = [then EXCEPT ![t] = "sweep"]
    /\ UNCHANGED <<issue, rows, stray, attempt, has, reported, review, outside, crashes, held>>

SweepTimeout(t) ==
    /\ Overdue(t) /\ ~held
    /\ row' = [row EXCEPT ![t] = "failed"] /\ SystemComment("note")
    /\ then' = [then EXCEPT ![t] = "sweep"]
    /\ UNCHANGED <<issue, rows, stray, attempt, has, reported, review, outside, crashes, held>>

\* The in-flight gate: in autonomous mode a row is left open, with a notice, as
\* long as the node it would be dispatched to has no slot for it.
SweepHolds(t) ==
    /\ Overdue(t) /\ held
    /\ SystemComment("note")
    /\ UNCHANGED <<issue, ledger, stray, attempt, settling, review, outside, crashes, held>>

\* Other issues' rows fill that node up to worker_max_inflight, ...
NodeFills ==
    /\ FromOutside /\ ~held /\ held' = TRUE
    /\ UNCHANGED <<issue, ledger, thread, attempt, settling, review, cancel, cancelRow, reb,
                   crashes>>

\* ... and leave it, if they are ever settled.
NodeFrees ==
    /\ held /\ held' = FALSE
    /\ UNCHANGED <<issue, ledger, thread, attempt, settling, review, outside, crashes>>

Swept(t) == then[t] = "sweep" /\ then' = [then EXCEPT ![t] = "none"]

\* Assisted mode, or no node to switch to: the review decides.
SweepReflow(t) ==
    /\ Swept(t) /\ Reflow(t)
    /\ UNCHANGED <<ledger, thread, attempt, has, reported, outside, crashes, held>>

\* Autonomous, budget spent: in_review with a decision, and no review.
SweepFreeze(t) ==
    /\ Swept(t) /\ SystemComment("note") /\ decided' = TRUE
    /\ \/ status = "in_progress" /\ status' = "in_review" /\ mover' = "system"
       \/ status # "in_progress" /\ UNCHANGED issue
    /\ UNCHANGED <<ledger, stray, attempt, has, reported, rev, outside, crashes, held>>

\* Autonomous: dispatch again, to the same node or another one.
SweepRedispatch(t, u) ==
    /\ Swept(t) /\ Call(u, "sweep")
    /\ UNCHANGED <<issue, ledger, thread, has, reported, review, outside, crashes, held>>

\* The core refused: a comment, and back to the review.
SweepRefused(t) ==
    /\ pc[t] = "aborted" /\ src[t] = "sweep"
    /\ Leave(t) /\ SystemComment("note") /\ Reflow(t)
    /\ UNCHANGED <<ledger, stray, settling, outside, crashes, held>>

-----------------------------------------------------------------------------
(* review_issue, spawned by a settlement.                                  *)

ReviewStart(t) ==
    /\ rev[t] = "pending"
    /\ rev' = [rev EXCEPT ![t] = IF status = "in_review" THEN "running" ELSE "over"]
    /\ UNCHANGED <<issue, ledger, thread, attempt, settling, decided, outside, crashes, held>>

\* The endpoint is suspended: the review is put on file.  A review that failed
\* on its own account is started again, failure_retries times, and comes back to
\* this gate; it stays "running" until then.
ReviewSuspends(t) ==
    /\ rev[t] \in {"pending", "running"} /\ status = "in_review"
    /\ rev' = [rev EXCEPT ![t] = "left"]
    /\ UNCHANGED <<issue, ledger, thread, attempt, settling, decided, outside, crashes, held>>

\* The moderator's loop is not ready, or the retries are used up: the issue is
\* left to a human, with no decision on record.
ReviewDrops(t) ==
    /\ rev[t] = "running"
    /\ rev' = [rev EXCEPT ![t] = "left"]
    /\ UNCHANGED <<issue, ledger, thread, attempt, settling, decided, outside, crashes, held>>

\* The probe finds the endpoint back, and resume_interruptions spawns what is
\* on file; a failure that suspended the endpoint is on file as well.
ReviewResumes(t) ==
    /\ FromOutside /\ rev[t] = "left"
    /\ rev' = [rev EXCEPT ![t] = "pending"]
    /\ UNCHANGED <<issue, ledger, thread, attempt, settling, decided, cancel, cancelRow, reb,
                   crashes, held>>

\* The LLM answers minutes later: review_still_relevant, then the decision
\* table (pass, fail with budget left, or over: a human has to decide).  One
\* that is started again meets the status at the head of review_issue instead.
ReviewVerdict(t, verdict) ==
    /\ rev[t] = "running"
    /\ \/ /\ status = "in_review"
          /\ rev' = [rev EXCEPT ![t] = verdict]
          /\ \/ verdict = "over" /\ decided' = TRUE
             \/ verdict # "over" /\ UNCHANGED decided
       \/ /\ status # "in_review"
          /\ rev' = [rev EXCEPT ![t] = "over"]
          /\ decided' = TRUE \/ UNCHANGED decided
    /\ UNCHANGED <<issue, ledger, thread, attempt, settling, outside, crashes, held>>

ReviewOver(t, verdict) == rev[t] = verdict /\ rev' = [rev EXCEPT ![t] = "over"]

\* auto_accept_and_settle: from any status that may become done.
ReviewAccept(t) ==
    /\ ReviewOver(t, "pass")
    /\ \/ TransitionIssue("done", "system") /\ decided' = TRUE
       \/ ~CanTransition(status, "done") /\ UNCHANGED <<issue, decided>>
    /\ UNCHANGED <<ledger, thread, attempt, settling, outside, crashes, held>>

\* Failed: dispatch again, ...
ReviewRedispatch(t, u) ==
    /\ ReviewOver(t, "fail") /\ ~HasActive /\ Call(u, "review")
    /\ UNCHANGED <<issue, ledger, thread, settling, decided, outside, crashes, held>>

\* ... unless somebody already has, reported, ...
ReviewGivesWay(t) ==
    /\ ReviewOver(t, "fail") /\ HasActive
    /\ UNCHANGED <<issue, ledger, thread, attempt, settling, decided, outside, crashes, held>>

\* ... or stop for a human (no target, budget, same cause again).
ReviewStops(t) ==
    /\ ReviewOver(t, "fail") /\ decided' = TRUE /\ SystemComment("note")
    /\ UNCHANGED <<issue, ledger, stray, attempt, settling, outside, crashes, held>>

\* The core refused: silent when another dispatch has taken over.
ReviewRefused(t) ==
    /\ pc[t] = "aborted" /\ src[t] = "review" /\ Leave(t)
    /\ \/ HasActive /\ UNCHANGED <<sys, fresh, marks, decided>>
       \/ ~HasActive /\ SystemComment("note") /\ decided' = TRUE
    /\ UNCHANGED <<issue, ledger, stray, settling, rev, outside, crashes, held>>

-----------------------------------------------------------------------------
(* Humans, and the end of the process.                                     *)

\* issue.status, drag, reopen: transition_issue, whatever is in flight.
MoveByHand(to) ==
    /\ FromOutside /\ TransitionIssue(to, "human")
    /\ \/ to = "in_review" /\ decided' = FALSE
       \/ to # "in_review" /\ UNCHANGED decided
    /\ UNCHANGED <<ledger, thread, attempt, settling, rev, cancel, cancelRow, reb, crashes, held>>

\* issue.cancel reads the active row, ...
CancelReads ==
    /\ FromOutside /\ cancel = "idle"
    /\ \/ \E t \in Tasks : Active(t) /\ cancel' = "row" /\ cancelRow' = t
       \/ ~HasActive /\ cancel' = "issue" /\ UNCHANGED cancelRow
    /\ UNCHANGED <<issue, ledger, thread, attempt, settling, review, reb, crashes, held>>

\* ... cancels it, or stops when it has been settled meanwhile, ...
CancelRow ==
    /\ cancel = "row" /\ FinishDispatch(cancelRow, "cancelled")
    /\ cancel' = IF Active(cancelRow) THEN "issue" ELSE "idle"
    /\ cancelRow' = NoTask
    /\ UNCHANGED <<issue, rows, sys, marks, stray, attempt, settling, review, reb, moves,
                   crashes, held>>

\* ... and then the issue.
CancelIssue ==
    /\ cancel = "issue" /\ cancel' = "idle"
    /\ \/ TransitionIssue("cancelled", "human")
       \/ ~CanTransition(status, "cancelled") /\ UNCHANGED issue
    /\ UNCHANGED <<ledger, thread, attempt, settling, review, cancelRow, reb, moves, crashes, held>>

\* issue.cancel_dispatch: the row only, and a comment.
CancelDispatch(t) ==
    /\ FromOutside /\ Active(t)
    /\ row' = [row EXCEPT ![t] = "cancelled"] /\ SystemComment("note")
    /\ UNCHANGED <<issue, rows, stray, attempt, settling, review, cancel, cancelRow, reb,
                   crashes, held>>

(* Mutant: reviews that died with the process are not started again. *)
Restart_NoReplay ==
    /\ moves + crashes < MaxEvents /\ crashes' = crashes + 1
    /\ pc' = [t \in Tasks |-> IF pc[t] = "free" THEN "free" ELSE "over"]
    /\ snap' = [t \in Tasks |-> "backlog"] /\ src' = [t \in Tasks |-> "plain"]
    /\ then' = [t \in Tasks |-> "none"]
    /\ rev' = [t \in Tasks |-> IF rev[t] \in {"none", "left"} THEN rev[t] ELSE "over"]
    /\ cancel' = "idle" /\ cancelRow' = NoTask /\ reb' = NoTask
    /\ UNCHANGED <<issue, ledger, thread, has, reported, decided, moves, held>>

\* Everything but the database is gone.  replay_stuck_reviews spawns the review
\* of an issue in review that has a settled row and no decision.
Restart ==
    /\ moves + crashes < MaxEvents /\ crashes' = crashes + 1
    /\ pc' = [t \in Tasks |-> IF pc[t] = "free" THEN "free" ELSE "over"]
    /\ snap' = [t \in Tasks |-> "backlog"] /\ src' = [t \in Tasks |-> "plain"]
    /\ then' = [t \in Tasks |-> "none"]
    /\ rev' = [t \in Tasks |->
                 IF /\ status = "in_review" /\ ~decided
                    /\ rows # <<>> /\ t = rows[Len(rows)]
                    /\ \E u \in Tasks : row[u] \in {"done", "failed"}
                 THEN "pending"
                 ELSE IF rev[t] \in {"none", "left"} THEN rev[t] ELSE "over"]
    /\ cancel' = "idle" /\ cancelRow' = NoTask /\ reb' = NoTask
    /\ UNCHANGED <<issue, ledger, thread, has, reported, decided, moves, held>>

-----------------------------------------------------------------------------
Dispatching(t) ==
    \/ DispatchByHand(t) \/ DispatchAuto(t) \/ RetrySend(t)
    \/ RebalanceList(t) \/ RebalanceMove(t) \/ RebalanceRefused(t)
    \/ EnterCore(t) \/ BaselineFails(t) \/ TryClaimDispatch(t) \/ Advance(t) \/ Refuse(t)

Sending(t) ==
    \/ WorkerAccepts(t) \/ RpcAcked(t) \/ RpcFails(t)
    \/ SendFailed(t) \/ RollbackDispatchFailure(t) \/ MarkSendFailure(t)

Answering(t) ==
    \/ TaskStarted(t) \/ WriteBackIssue(t)
    \/ \E outcome \in {"done", "failed"} : WriteBack(t, outcome)

Sweeping(t) ==
    \/ SweepTimeout(t) \/ SweepHolds(t)
    \/ SweepReflow(t) \/ SweepFreeze(t) \/ SweepRefused(t)
    \/ \E u \in Tasks : SweepRedispatch(t, u)

Reviewing(t) ==
    \/ ReviewStart(t) \/ \E verdict \in {"pass", "fail", "over"} : ReviewVerdict(t, verdict)
    \/ ReviewSuspends(t) \/ ReviewDrops(t)
    \/ ReviewAccept(t) \/ ReviewGivesWay(t) \/ ReviewStops(t) \/ ReviewRefused(t)
    \/ \E u \in Tasks : ReviewRedispatch(t, u)

ByHand ==
    \/ \E to \in Statuses : MoveByHand(to)
    \/ CancelReads \/ CancelRow \/ CancelIssue
    \/ \E t \in Tasks : CancelDispatch(t)

Next ==
    \/ \E t \in Tasks : Dispatching(t) \/ Sending(t) \/ Answering(t) \/ Sweeping(t) \/ Reviewing(t)
    \/ \E t \in Tasks : ReviewResumes(t)
    \/ Park \/ GiveUpSend \/ NodeFills \/ NodeFrees \/ ByHand \/ Restart

Spec == Init /\ [][Next]_vars

\* What the gateway does on its own, once begun or due: the threads finish, the
\* sweep runs on every tick, an RPC and an LLM call end (they have timeouts).
OwnStep(t) ==
    \/ EnterCore(t) \/ TryClaimDispatch(t) \/ Advance(t) \/ Refuse(t)
    \/ RpcAcked(t) \/ RpcFails(t)
    \/ SendFailed(t) \/ RollbackDispatchFailure(t) \/ MarkSendFailure(t)
    \/ WriteBackIssue(t) \/ Sweeping(t)
    \/ Reviewing(t)

\* Nothing is assumed of humans, workers, the network, the LLM endpoint, the load
\* of the nodes or the next dispatch.
Fairness == WF_vars(\E t \in Tasks : OwnStep(t))

FairSpec == Spec /\ Fairness

-----------------------------------------------------------------------------
(* Properties.                                                             *)

\* The prechecks of concurrent dispatchers all look at the issue before any of
\* them writes; still at most one dispatch of an issue is in flight, so no two
\* workers are at work on it with both rows open (try_claim_dispatch).
OneActive == \A t, u \in Tasks : Active(t) /\ Active(u) => t = u

\* A done or cancelled issue is reopened by a human only: no dispatcher,
\* write-back, sweep, review or roll-back that read the issue while it was open
\* brings it back when it gets round to writing.
ClosedStaysClosed ==
    [][(status \in {"done", "cancelled"} /\ status' # status) => (mover' = "human")]_vars

\* An issue in progress with no dispatch in flight is outside every retry pool
\* (the pools list backlog, todo and in_review).  Short of a crash, the system
\* never leaves one behind in silence: a system comment tells a human.  (An
\* issue.cancel may: its row is gone, and when the issue is reopened before the
\* dispatcher gets to it, the dispatcher moves it to in_progress all the same.)
Quiet == /\ \A t \in Tasks : pc[t] \in {"free", "over"} /\ then[t] = "none"
         /\ cancel = "idle" /\ reb = NoTask

StrandedIsVisible ==
    /\ Quiet /\ status = "in_progress" /\ mover = "system" /\ ~HasActive
    /\ crashes = 0 /\ \A t \in Tasks : row[t] # "cancelled"
    => sys # "none"

\* The retry pool holds issues whose last dispatch never reached its worker: a
\* send failure mark from an earlier dispatch does not pull an issue back whose
\* worker has reported since and which is under review.  The mark names no
\* task: one written after a newer dispatch, or for a worker that had the task
\* after all, does.
ReportedIsNotRetried == SendFailureCandidate => stray \/ rows[Len(rows)] \notin reported

\* No issue stays locked by a dispatch in flight, whoever claimed the row, whether
\* or not the worker ever had it, and wherever the process died; only the sweep's
\* own in-flight gate keeps a row open.
DispatchIsSettled == HasActive ~> (~HasActive \/ held)

\* An issue the system has put under review after its first dispatch does not
\* stay there for want of a verdict: the review, or its replay after a restart,
\* moves it on or puts a decision on record, unless a human or another dispatch
\* takes the issue.  A review that the suspended endpoint put on file or that
\* failed on its own account has left it to the probe or to a human.
UnderReviewIsDecided ==
    (status = "in_review" /\ mover = "system" /\ ~decided /\ Len(rows) = 1)
        ~> \/ status # "in_review" \/ mover # "system" \/ decided \/ Len(rows) > 1
           \/ \E t \in Tasks : rev[t] = "left"
=============================================================================
