---------------------------- MODULE TaskManager ----------------------------
(***************************************************************************)
(* The requester's task table: nemesis-cluster's TaskManager over the      *)
(* SQLite `runs` table (nemesis-taskstore), the load-aware route ledger    *)
(* fed from it (cluster/tasks.rs) and the run ledger of the other          *)
(* schedulers that keep their rows in the SAME table (ledger.rs, runs.rs). *)
(*                                                                         *)
(* A settlement is several critical sections: the conditional UPDATE, the  *)
(* re-read that closes the attempt and fires the completion callback, and  *)
(* the route sample.  Callers (RPC threads, the recovery poll, the board)  *)
(* and the 30 s cleanup tick interleave between them, and a restart may    *)
(* fall anywhere: the table survives it, everything else does not.         *)
(***************************************************************************)
EXTENDS Naturals, FiniteSets

CONSTANTS
    Tasks,      \* ids of cluster tasks (v4 UUIDs: an id is never issued twice)
    Runs,       \* ids of ledger rows: board_dispatch:*, cron_job:*, workflow_run:*
    Callers,    \* threads that call assign_task, complete_task, fail_task
    Values,     \* results a peer can report
    NoValue,    \* result = NULL
    Timeout,    \* the {"error": "task timed out ..."} the cleanup tick writes
    RouteCap,   \* ROUTE_RECORDED_CAP
    MaxRestarts \* bound: how often the process restarts

ASSUME DisjointIds == Tasks \cap Runs = {}
ASSUME Bounds == RouteCap \in Nat \ {0} /\ MaxRestarts \in Nat
ASSUME ValuesDistinct == /\ NoValue \notin Values
                         /\ Timeout \notin Values
                         /\ Timeout # NoValue

Ids      == Tasks \cup Runs
Terminal == {"Completed", "Failed", "Cancelled"}
Open     == {"Pending", "Running"}
Settled  == {"Completed", "Failed"}
Status   == {"absent"} \cup Open \cup Terminal

VARIABLES
    status,     \* runs.status; "absent" where there is no row
    result,     \* runs.result
    stamp,      \* runs.completed_at: NULL, less than 2 h ago, more than 2 h ago
    overdue,    \* created_at lies further back than the pending safety net
    attempt,    \* the last row of attempts for this run
    issued,     \* ids handed out so far
    call,       \* per caller: where it stands in the call it is making
    clean,      \* the cleanup tick: where it stands and what it has listed
    owner,      \* per ledger run: where its scheduler stands
    recorded,   \* route_recorded, the dedup set
    counted,    \* route samples recorded for a task since the process started
    fired,      \* history: how often the completion callback saw the task
    acked,      \* history: <<task, outcome>> for which a settle returned true
    lost,       \* history: rows a restart caught between UPDATE and callback
    boots       \* restarts so far

table    == <<status, result, stamp, overdue, attempt, issued>>
route    == <<recorded, counted>>
history  == <<fired, acked, lost, boots>>
vars     == <<table, call, clean, owner, route, history>>

Idle == [pc |-> "idle"]

(* What a settling caller carries across its critical sections. *)
CallStates ==
    {Idle}
    \cup [pc : {"won", "lost", "record"}, task : Tasks, to : Settled]
    \cup [pc : {"assigned"}, task : Tasks]

CleanStates ==
    {Idle}
    \cup [pc : {"purge", "Pending", "Running"}, todo : SUBSET Ids]
    \cup [pc : {"fire"}, todo : SUBSET Ids, task : Ids, back : Open]

OwnerStates ==
    [pc : {"none", "create", "begin", "open"}]
    \cup [pc : {"settle", "done"}, to : Terminal]

TypeOK ==
    /\ status \in [Ids -> Status]
    /\ result \in [Ids -> Values \cup {NoValue, Timeout}]
    /\ stamp \in [Ids -> {"null", "recent", "old"}]
    /\ overdue \in [Ids -> BOOLEAN]
    /\ attempt \in [Ids -> {"none", "running"} \cup Terminal]
    /\ issued \in SUBSET Ids
    /\ call \in [Callers -> CallStates]
    /\ clean \in CleanStates
    /\ owner \in [Runs -> OwnerStates]
    /\ recorded \in SUBSET Ids
    /\ counted \in [Ids -> Nat]
    /\ fired \in [Ids -> Nat]
    /\ acked \in SUBSET (Tasks \X Settled)
    /\ lost \in SUBSET Ids
    /\ boots \in 0..MaxRestarts

Init ==
    /\ status = [i \in Ids |-> "absent"]
    /\ result = [i \in Ids |-> NoValue]
    /\ stamp = [i \in Ids |-> "null"]
    /\ overdue = [i \in Ids |-> FALSE]
    /\ attempt = [i \in Ids |-> "none"]
    /\ issued = {}
    /\ call = [c \in Callers |-> Idle]
    /\ clean = Idle
    /\ owner = [r \in Runs |-> [pc |-> "none"]]
    /\ recorded = {}
    /\ counted = [i \in Ids |-> 0]
    /\ fired = [i \in Ids |-> 0]
    /\ acked = {}
    /\ lost = {}
    /\ boots = 0

-----------------------------------------------------------------------------
(* The store: the operations the callers below are built from.             *)

(* Mutant: the status list of the WHERE clause is forgotten. *)
UpdateResultIfStatus_AnyStatus(i, expected, to, v) ==
    /\ status[i] # "absent"
    /\ status' = [status EXCEPT ![i] = to]
    /\ result' = [result EXCEPT ![i] = v]
    /\ stamp' = [stamp EXCEPT ![i] = IF to \in Terminal THEN "recent" ELSE @]

(* update_result_if_status: UPDATE ... WHERE id = ? AND status IN expected;
   completed_at is stamped by a terminal status only. *)
UpdateResultIfStatus(i, expected, to, v) ==
    /\ status[i] \in expected
    /\ status' = [status EXCEPT ![i] = to]
    /\ result' = [result EXCEPT ![i] = v]
    /\ stamp' = [stamp EXCEPT ![i] = IF to \in Terminal THEN "recent" ELSE @]

(* delete: the row goes with all its columns, its attempts stay. *)
DeleteRow(i) ==
    /\ status' = [status EXCEPT ![i] = "absent"]
    /\ result' = [result EXCEPT ![i] = NoValue]
    /\ stamp' = [stamp EXCEPT ![i] = "null"]
    /\ overdue' = [overdue EXCEPT ![i] = FALSE]
    /\ UNCHANGED <<attempt, issued>>

(* finish_open_attempts_on closes the attempts that still run. *)
FinishOpenAttempts(i, to) ==
    attempt' = [attempt EXCEPT ![i] = IF @ = "running" THEN to ELSE @]

(* Mutant: every settlement is counted, seen before or not. *)
RecordRoute_NoDedup(i) ==
    /\ recorded' = recorded \cup {i}
    /\ counted' = IF status[i] # "absent"
                  THEN [counted EXCEPT ![i] = @ + 1] ELSE counted

(* record_route_outcome_core: at the cap the whole dedup set is dropped; an
   id already in it is not counted, a row no longer there neither.  Ledger
   rows name a local scheduler as their peer and count as well.            *)
RecordRoute(i) ==
    LET kept == IF Cardinality(recorded) >= RouteCap THEN {} ELSE recorded
    IN  /\ recorded' = kept \cup {i}
        /\ counted' = IF i \notin kept /\ status[i] # "absent"
                      THEN [counted EXCEPT ![i] = @ + 1]
                      ELSE counted

-----------------------------------------------------------------------------
(* Callers.                                                                *)

(* submit / create_task_with_peer: INSERT of a fresh id. *)
Submit(t) ==
    /\ t \notin issued
    /\ status[t] = "absent"
    /\ status' = [status EXCEPT ![t] = "Pending"]
    /\ issued' = issued \cup {t}
    /\ UNCHANGED <<result, stamp, overdue, attempt, call, clean, owner, route, history>>

(* assign_task, first half: Pending -> Running in one statement. *)
AssignTask(c, t) ==
    /\ call[c] = Idle
    /\ UpdateResultIfStatus(t, {"Pending"}, "Running", NoValue)
    /\ call' = [call EXCEPT ![c] = [pc |-> "assigned", task |-> t]]
    /\ UNCHANGED <<overdue, attempt, issued, clean, owner, route, history>>

(* Mutant: begin_attempt does not look at the run's status. *)
BeginClusterAttempt_Unchecked(c) ==
    /\ call[c].pc = "assigned"
    /\ attempt' = [attempt EXCEPT ![call[c].task] = "running"]
    /\ call' = [call EXCEPT ![c] = Idle]
    /\ UNCHANGED <<status, result, stamp, overdue, issued, clean, owner, route, history>>

(* assign_task, second half: begin_attempt refuses a row that is gone or
   already terminal.                                                        *)
BeginClusterAttempt(c) ==
    /\ call[c].pc = "assigned"
    /\ LET t == call[c].task
       IN  attempt' = IF status[t] \in Open
                      THEN [attempt EXCEPT ![t] = "running"] ELSE attempt
    /\ call' = [call EXCEPT ![c] = Idle]
    /\ UNCHANGED <<status, result, stamp, overdue, issued, clean, owner, route, history>>

(* settle_task, the conditional transition won. *)
SettleTask(c, t, to, v) ==
    /\ call[c] = Idle
    /\ UpdateResultIfStatus(t, Open, to, v)
    /\ call' = [call EXCEPT ![c] = [pc |-> "won", task |-> t, to |-> to]]
    /\ UNCHANGED <<overdue, attempt, issued, clean, owner, route, history>>

(* settle_task, Ok(false): the row is there and already terminal. *)
SettleRefused(c, t, to) ==
    /\ call[c] = Idle
    /\ status[t] \in Terminal
    /\ call' = [call EXCEPT ![c] = [pc |-> "lost", task |-> t, to |-> to]]
    /\ UNCHANGED <<table, clean, owner, route, history>>

(* settle_task after Ok(true): re-read, close the attempt, fire_callback.
   It answers true even when the row was deleted meanwhile.                *)
FireCallback(c) ==
    /\ call[c].pc = "won"
    /\ LET t == call[c].task
       IN  /\ IF status[t] # "absent"
              THEN /\ FinishOpenAttempts(t, call[c].to)
                   /\ fired' = [fired EXCEPT ![t] = @ + 1]
              ELSE UNCHANGED <<attempt, fired>>
           /\ acked' = acked \cup {<<t, call[c].to>>}
    /\ call' = [call EXCEPT ![c].pc = "record"]
    /\ UNCHANGED <<status, result, stamp, overdue, issued, clean, owner, route, lost, boots>>

(* Mutant: any terminal state counts as an idempotent success. *)
IdempotentReply_AnyTerminal(c) ==
    /\ call[c].pc = "lost"
    /\ acked' = acked \cup {<<call[c].task, call[c].to>>}
    /\ call' = [call EXCEPT ![c].pc = "record"]
    /\ UNCHANGED <<table, clean, owner, route, fired, lost, boots>>

(* settle_task after Ok(false): true only for the same terminal state.  The
   recovery poll does not look at the answer and records all the same. *)
IdempotentReply(c) ==
    /\ call[c].pc = "lost"
    /\ LET t == call[c].task
       IN  IF status[t] = call[c].to
           THEN /\ acked' = acked \cup {<<t, call[c].to>>}
                /\ call' = [call EXCEPT ![c].pc = "record"]
           ELSE /\ \/ call' = [call EXCEPT ![c] = Idle]
                   \/ call' = [call EXCEPT ![c].pc = "record"]
                /\ UNCHANGED acked
    /\ UNCHANGED <<table, clean, owner, route, fired, lost, boots>>

(* Cluster::complete_task / fail_task record the route outcome on true, the
   recovery poll after any settlement. *)
RecordRouteOutcome(c) ==
    /\ call[c].pc = "record"
    /\ RecordRoute(call[c].task)
    /\ call' = [call EXCEPT ![c] = Idle]
    /\ UNCHANGED <<table, clean, owner, history>>

(* delete_task: the dashboard's cancel button removes any row it lists. *)
DeleteTask(i) ==
    /\ status[i] # "absent"
    /\ DeleteRow(i)
    /\ UNCHANGED <<call, clean, owner, route, history>>

-----------------------------------------------------------------------------
(* The cleanup tick (cleanup_completed).  list_by_status filters on status *)
(* alone: the rows of the other schedulers are listed with the tasks.      *)

ListByStatus(set) == {i \in Ids : status[i] \in set}

CleanStart ==
    /\ clean = Idle
    /\ clean' = [pc |-> "purge", todo |-> ListByStatus(Terminal)]
    /\ UNCHANGED <<table, call, owner, route, history>>

(* A finished row older than two hours is deleted, best effort. *)
CleanPurge(i) ==
    /\ clean.pc = "purge"
    /\ i \in clean.todo
    /\ IF stamp[i] = "old" /\ status[i] # "absent"
       THEN DeleteRow(i) \/ UNCHANGED table
       ELSE UNCHANGED table
    /\ clean' = [clean EXCEPT !.todo = @ \ {i}]
    /\ UNCHANGED <<call, owner, route, history>>

CleanListPending ==
    /\ clean.pc = "purge"
    /\ clean.todo = {}
    /\ clean' = [pc |-> "Pending", todo |-> ListByStatus({"Pending"})]
    /\ UNCHANGED <<table, call, owner, route, history>>

(* Mutant: stuck Running rows are not reclaimed (before NB-CODE-006). *)
CleanListRunning_PendingOnly ==
    /\ clean.pc = "Pending"
    /\ clean.todo = {}
    /\ clean' = [pc |-> "Running", todo |-> {}]
    /\ UNCHANGED <<table, call, owner, route, history>>

CleanListRunning ==
    /\ clean.pc = "Pending"
    /\ clean.todo = {}
    /\ clean' = [pc |-> "Running", todo |-> ListByStatus({"Running"})]
    /\ UNCHANGED <<table, call, owner, route, history>>

CleanEnd ==
    /\ clean.pc = "Running"
    /\ clean.todo = {}
    /\ clean' = Idle
    /\ UNCHANGED <<table, call, owner, route, history>>

(* Mutant: the callback fires whether or not the transition was its own. *)
CleanExpire_IgnoreResult(i) ==
    /\ clean.pc \in Open
    /\ i \in clean.todo
    /\ overdue[i]
    /\ \/ UpdateResultIfStatus(i, {clean.pc}, "Failed", Timeout)
       \/ status[i] # clean.pc /\ UNCHANGED <<status, result, stamp>>
    /\ clean' = [pc |-> "fire", todo |-> clean.todo \ {i}, task |-> i, back |-> clean.pc]
    /\ UNCHANGED <<overdue, attempt, issued, call, owner, route, history>>

(* Past the safety net and still in the status it was listed under. *)
CleanExpire(i) ==
    /\ clean.pc \in Open
    /\ i \in clean.todo
    /\ overdue[i]
    /\ UpdateResultIfStatus(i, {clean.pc}, "Failed", Timeout)
    /\ clean' = [pc |-> "fire", todo |-> clean.todo \ {i}, task |-> i, back |-> clean.pc]
    /\ UNCHANGED <<overdue, attempt, issued, call, owner, route, history>>

(* Too young, or settled or deleted since it was listed. *)
CleanSkip(i) ==
    /\ clean.pc \in Open
    /\ i \in clean.todo
    /\ ~(overdue[i] /\ status[i] = clean.pc)
    /\ clean' = [clean EXCEPT !.todo = @ \ {i}]
    /\ UNCHANGED <<table, call, owner, route, history>>

(* Only after its own transition: close the attempt, route sample, callback. *)
CleanFire ==
    /\ clean.pc = "fire"
    /\ FinishOpenAttempts(clean.task, "Failed")
    /\ RecordRoute(clean.task)
    /\ fired' = IF status[clean.task] # "absent"
                THEN [fired EXCEPT ![clean.task] = @ + 1] ELSE fired
    /\ clean' = [pc |-> clean.back, todo |-> clean.todo]
    /\ UNCHANGED <<status, result, stamp, overdue, issued, call, owner, acked, lost, boots>>

-----------------------------------------------------------------------------
(* The run ledger: board dispatches, cron firings and workflow executions. *)

(* begin_run_on, create_run_with_id. *)
CreateRun(r) ==
    /\ owner[r].pc = "none"
    /\ r \notin issued
    /\ status[r] = "absent"
    /\ status' = [status EXCEPT ![r] = "Pending"]
    /\ issued' = issued \cup {r}
    /\ owner' = [owner EXCEPT ![r] = [pc |-> "create"]]
    /\ UNCHANGED <<result, stamp, overdue, attempt, call, clean, route, history>>

(* begin_run_on, set_run_status(running); a refusal ends the opening. *)
SetRunRunning(r) ==
    /\ owner[r].pc = "create"
    /\ IF status[r] \in Open
       THEN /\ status' = [status EXCEPT ![r] = "Running"]
            /\ owner' = [owner EXCEPT ![r] = [pc |-> "begin"]]
       ELSE /\ owner' = [owner EXCEPT ![r] = [pc |-> "open"]]
            /\ UNCHANGED status
    /\ UNCHANGED <<result, stamp, overdue, attempt, issued, call, clean, route, history>>

(* begin_run_on, begin_attempt. *)
BeginRunAttempt(r) ==
    /\ owner[r].pc = "begin"
    /\ attempt' = IF status[r] \in Open /\ attempt[r] # "running"
                  THEN [attempt EXCEPT ![r] = "running"] ELSE attempt
    /\ owner' = [owner EXCEPT ![r] = [pc |-> "open"]]
    /\ UNCHANGED <<status, result, stamp, overdue, issued, call, clean, route, history>>

(* settle_run_on: the scheduler's own outcome; the attempts first, *)
SettleRun(r, to) ==
    /\ owner[r].pc = "open"
    /\ FinishOpenAttempts(r, to)
    /\ owner' = [owner EXCEPT ![r] = [pc |-> "settle", to |-> to]]
    /\ UNCHANGED <<status, result, stamp, overdue, issued, call, clean, route, history>>

(* Mutant: SELECT, then a bare UPDATE: the later terminal write wins. *)
SetRunStatus_LastWins(r) ==
    /\ owner[r].pc = "settle"
    /\ IF status[r] # "absent"
       THEN /\ status' = [status EXCEPT ![r] = owner[r].to]
            /\ stamp' = [stamp EXCEPT ![r] = "recent"]
       ELSE UNCHANGED <<status, stamp>>
    /\ owner' = [owner EXCEPT ![r].pc = "done"]
    /\ UNCHANGED <<result, overdue, attempt, issued, call, clean, route, history>>

(* ... then set_run_status: same value or not terminal yet, else refused. *)
SetRunStatus(r) ==
    /\ owner[r].pc = "settle"
    /\ LET to == owner[r].to
       IN  IF status[r] \in Open
           THEN /\ status' = [status EXCEPT ![r] = to]
                /\ stamp' = [stamp EXCEPT ![r] = "recent"]
           ELSE UNCHANGED <<status, stamp>>
    /\ owner' = [owner EXCEPT ![r].pc = "done"]
    /\ UNCHANGED <<result, overdue, attempt, issued, call, clean, route, history>>

-----------------------------------------------------------------------------
(* The environment: clocks and restarts.                                   *)

(* Hours pass: never inside the few statements of a begin_run. *)
PassSafetyNet(i) ==
    /\ status[i] \in Open
    /\ i \in Runs => owner[i].pc = "open"
    /\ ~overdue[i]
    /\ overdue' = [overdue EXCEPT ![i] = TRUE]
    /\ UNCHANGED <<status, result, stamp, attempt, issued, call, clean, owner, route, history>>

PassTwoHours(i) ==
    /\ stamp[i] = "recent"
    /\ stamp' = [stamp EXCEPT ![i] = "old"]
    /\ UNCHANGED <<status, result, overdue, attempt, issued, call, clean, owner, route, history>>

(* In the window between a settlement's UPDATE and its callback. *)
Announcing(i) ==
    \/ \E c \in Callers : call[c].pc = "won" /\ call[c].task = i
    \/ clean.pc = "fire" /\ clean.task = i

(* The process dies: threads, dedup set and statistics are memory, the
   table is not.  A scheduler caught before its SettleRun settles later
   (resume, dispatch sweep, the cron boot sweep); caught inside it, the
   attempts are closed and the run waits for the same later settlement.   *)
Restart ==
    /\ boots < MaxRestarts
    /\ boots' = boots + 1
    /\ lost' = lost \cup {i \in Ids : Announcing(i)}
    /\ call' = [c \in Callers |-> Idle]
    /\ clean' = Idle
    /\ owner' = [r \in Runs |-> IF owner[r].pc \in {"create", "begin", "settle"}
                                THEN [pc |-> "open"] ELSE owner[r]]
    /\ recorded' = {}
    /\ counted' = [i \in Ids |-> 0]
    /\ UNCHANGED <<table, fired, acked>>

-----------------------------------------------------------------------------
Next ==
    \/ \E t \in Tasks : Submit(t)
    \/ \E c \in Callers, t \in Tasks :
          \/ AssignTask(c, t)
          \/ \E to \in Settled : SettleRefused(c, t, to)
          \/ \E to \in Settled, v \in Values : SettleTask(c, t, to, v)
    \/ \E c \in Callers :
          BeginClusterAttempt(c) \/ FireCallback(c) \/ IdempotentReply(c) \/ RecordRouteOutcome(c)
    \/ \E i \in Ids :
          \/ DeleteTask(i) \/ CleanPurge(i) \/ CleanExpire(i) \/ CleanSkip(i)
          \/ PassSafetyNet(i) \/ PassTwoHours(i)
    \/ CleanStart \/ CleanListPending \/ CleanListRunning \/ CleanEnd \/ CleanFire
    \/ \E r \in Runs :
          \/ CreateRun(r) \/ SetRunRunning(r) \/ BeginRunAttempt(r) \/ SetRunStatus(r)
          \/ \E to \in Terminal : SettleRun(r, to)
    \/ Restart

Spec == Init /\ [][Next]_vars

(* The 30 s interval keeps ticking while the process lives: every step of the
   cleanup tick is taken eventually, whatever the callers do.              *)
CleanStep ==
    \/ CleanStart \/ CleanListPending \/ CleanListRunning \/ CleanEnd \/ CleanFire
    \/ \E i \in Ids : CleanPurge(i) \/ CleanExpire(i) \/ CleanSkip(i)

LiveSpec == Spec /\ WF_vars(CleanStep)

-----------------------------------------------------------------------------
(* Properties.                                                             *)

(* First write wins (settle_task, cleanup_completed): whoever settles a row
   first decides it; no later callback, poll, timeout or ledger settlement
   rewrites its status or its result.  The row can only be removed.        *)
FirstWriteWins ==
    [][\A i \in Ids : status[i] \in Terminal =>
          \/ status'[i] = "absent"
          \/ status'[i] = status[i] /\ result'[i] = result[i]]_vars

(* complete_task / fail_task never tell two callers contradictory things: a
   true answer names the outcome the row has, for as long as the row exists. *)
AckedOutcomesAgree ==
    \A a \in acked : /\ status[a[1]] \in {a[2], "absent"}
                     /\ \A b \in acked : a[1] = b[1] => a[2] = b[2]

(* The completion callback sees a settled task exactly once, however many
   callbacks are repeated and whichever of caller and cleanup tick wins; only
   a restart between the UPDATE and the callback loses it.                 *)
AnnouncedOnce ==
    \A t \in Tasks :
        /\ fired[t] <= 1
        /\ status[t] \in Terminal => fired[t] = 1 \/ Announcing(t) \/ t \in lost

(* No finished row keeps a running attempt: begin_attempt and the settlement
   race on different connections, and the closing re-read must catch an
   attempt opened after the UPDATE was decided.                            *)
NoOrphanAttempt ==
    \A i \in Ids : status[i] \in Terminal /\ attempt[i] = "running"
                      => Announcing(i) \/ i \in lost

(* The caller funnel and the cleanup tick share one dedup set: below its cap
   a task contributes at most one route sample per process life.           *)
RouteCountedOnce ==
    RouteCap > Cardinality(Ids) => \A i \in Ids : counted[i] <= 1

(* Why AckedOutcomesAgree, AnnouncedOnce and NoOrphanAttempt hold: whoever is
   between its UPDATE and its callback won a row that nobody had settled or
   announced before, holds it alone, and the row can only be removed under
   it; a scheduler between closing its attempts and closing its run has none
   left open.                                                              *)
WinnerHoldsRow ==
    \A c \in Callers : call[c].pc = "won" =>
        LET t == call[c].task
        IN  /\ t \in issued /\ fired[t] = 0
            /\ status[t] \in {call[c].to, "absent"}
            /\ \A a \in acked : a[1] # t \/ a[2] = call[c].to
            /\ \A d \in Callers : call[d].pc = "won" /\ call[d].task = t => d = c
            /\ clean.pc = "fire" => clean.task # t

CleanerHoldsRow ==
    clean.pc = "fire" =>
        /\ clean.task \in issued /\ fired[clean.task] = 0
        /\ status[clean.task] \in {"Failed", "absent"}

UnsettledIsUnannounced ==
    /\ \A i \in Ids : i \notin issued \/ status[i] \in Open => fired[i] = 0
    /\ \A i \in Ids : status[i] # "absent" => i \in issued
    /\ \A a \in acked : a[1] \in issued

SettlingRunIsClosed ==
    \A r \in Runs : owner[r].pc = "settle" => attempt[r] # "running"

SettleInv ==
    /\ WinnerHoldsRow
    /\ CleanerHoldsRow
    /\ UnsettledIsUnannounced
    /\ SettlingRunIsClosed
    /\ AckedOutcomesAgree
    /\ AnnouncedOnce
    /\ NoOrphanAttempt

(* The table refines TaskOutcome: what each row tells its readers. *)
BookOf(i) ==
    CASE status[i] = "absent" /\ i \notin issued -> [phase |-> "new"]
      [] status[i] = "absent" /\ i \in issued    -> [phase |-> "gone"]
      [] status[i] \in Open                      -> [phase |-> "open"]
      [] OTHER -> [phase |-> "decided", to |-> status[i], val |-> result[i]]

Outcome == INSTANCE TaskOutcome WITH
               Verdicts <- Terminal,
               Results  <- Values \cup {NoValue, Timeout},
               book     <- [i \in Ids |-> BookOf(i)]

(* Whatever callers, cleanup tick, dashboard, schedulers and restarts do, a
   reader of tasks.db sees each id opened once, decided by one write, and
   never again once it is deleted.                                         *)
RefinesOutcome == Outcome!Spec

(* Safety net: a row that has outlived it does not stay Pending or Running,
   the worker's silence notwithstanding (NB-CODE-006 for Running).         *)
OverdueIsReclaimed ==
    \A i \in Ids : overdue[i] /\ status[i] \in Open ~> status[i] \notin Open
=============================================================================
