-------------------------------- MODULE Cron --------------------------------
(***************************************************************************)
(* The cron service (nemesis-cron, service.rs): jobs in memory behind one  *)
(* mutex, their copy on disk, the loop that collects and runs what is due, *)
(* "run now" threads, the users' edits, and restarts.                      *)
(*                                                                         *)
(* A critical section of the store mutex is one step, its save included.   *)
(* Between two of them anything may happen: an edit while the handler runs *)
(* (minutes, for an agent turn), a pause from inside the handler, a crash. *)
(* Edits undo themselves when their save fails (Err means nothing has      *)
(* happened), the loop goes on with what it has in memory.                 *)
(*                                                                         *)
(* Not here: names, messages and their gates, the run history and the run  *)
(* ledger (TaskManager has it), cron expressions (they behave like         *)
(* "every"), schedules that never fire, reload (no caller), a store file   *)
(* that cannot be parsed (the service then refuses to start).              *)
(***************************************************************************)
EXTENDS Naturals

CONSTANTS
    Jobs,       \* job ids, each used once
    NoJob,
    MaxTime,    \* bound: ticks of the clock
    MaxEdits,   \* bound: what users start
    MaxFaults,  \* bound: saves that fail
    MaxCrashes  \* bound: restarts

ASSUME CronBounds == /\ MaxTime \in Nat /\ MaxEdits \in Nat
                     /\ MaxFaults \in Nat /\ MaxCrashes \in Nat

Times   == 1 .. MaxTime
Never   == 0                        \* None
Threads == {"loop", "manual"}

\* delete_after_run is kind = "at", wherever it is written.
CronJob == [enabled : BOOLEAN, kind : {"at", "every"}, at : Times \cup {Never},
            next : 0 .. MaxTime + 1, ran : BOOLEAN]

ASSUME NoJobIsNone == NoJob \notin Jobs /\ NoJob \notin CronJob

VARIABLES
    now,        \* the clock
    mem,        \* store.jobs
    disk,       \* the store file
    gate,       \* the process: "down", "disarmed", "armed"
    due,        \* the loop: the jobs of this round, with the time they were due
    pc,         \* loop and run-now thread: where they are with ...
    job,        \* ... this job, ...
    res,        \* ... and how its handler ended
    edits, faults, crashes,
    born,       \* ids in use
    promised,   \* history: the time a user was promised, until it is collected
    consumed    \* history: one-shots <<job, time>> whose execution is on disk

thread  == <<pc, job, res>>
bounds  == <<edits, faults, crashes>>
history == <<born, promised, consumed>>
vars    == <<now, mem, disk, gate, due, thread, bounds, history>>

\* One type invariant for the module.
TypeOK ==
    /\ now \in 0 .. MaxTime
    /\ mem \in [Jobs -> CronJob \cup {NoJob}] /\ disk \in [Jobs -> CronJob \cup {NoJob}]
    /\ gate \in {"down", "disarmed", "armed"}
    /\ due \in [Jobs -> 0 .. MaxTime]
    /\ pc \in [Threads -> {"idle", "copied", "handler", "writing"}]
    /\ job \in [Threads -> Jobs \cup {NoJob}] /\ res \in [Threads -> {"none", "ok", "error"}]
    /\ edits \in 0 .. MaxEdits /\ faults \in 0 .. MaxFaults /\ crashes \in 0 .. MaxCrashes
    /\ born \subseteq Jobs /\ promised \in [Jobs -> 0 .. MaxTime + 1]
    /\ consumed \subseteq Jobs \X Times

Init ==
    /\ now = 0 /\ gate = "disarmed"
    /\ mem = [j \in Jobs |-> NoJob] /\ disk = mem
    /\ due = [j \in Jobs |-> Never]
    /\ pc = [h \in Threads |-> "idle"] /\ job = [h \in Threads |-> NoJob]
    /\ res = [h \in Threads |-> "none"]
    /\ edits = 0 /\ faults = 0 /\ crashes = 0
    /\ born = {} /\ promised = [j \in Jobs |-> Never] /\ consumed = {}

-----------------------------------------------------------------------------
(* The store.                                                              *)

\* compute_next_run, at the present time.
ComputeNextRun(kind, at) ==
    CASE kind = "at"    -> IF at > now THEN at ELSE Never
      [] kind = "every" -> now + 1

Job(enabled, kind, at, next, ran) ==
    [enabled |-> enabled, kind |-> kind, at |-> at, next |-> next, ran |-> ran]

\* save_store_to_path, with a failure that is only logged.
Save == \/ disk' = mem' /\ UNCHANGED faults
        \/ faults < MaxFaults /\ faults' = faults + 1 /\ UNCHANGED disk

\* An edit that returned Ok: save_store_locked in the section of the edit.  (One
\* that returned Err has put the old job back: nothing has happened.)
Edit(j, new, promise) ==
    /\ gate # "down" /\ edits < MaxEdits /\ edits' = edits + 1
    /\ mem' = [mem EXCEPT ![j] = new] /\ disk' = mem'
    /\ promised' = [promised EXCEPT ![j] = promise]
    /\ UNCHANGED <<now, gate, due, thread, faults, crashes, consumed>>

-----------------------------------------------------------------------------
(* Users.                                                                  *)

\* add_job_ext: an enabled job must have a next run.
AddJob(j, kind, at, enabled) ==
    /\ j \notin born /\ born' = born \cup {j}
    /\ enabled => ComputeNextRun(kind, at) # Never
    /\ LET next == IF enabled THEN ComputeNextRun(kind, at) ELSE Never
       IN  Edit(j, Job(enabled, kind, at, next, FALSE), next)

RemoveJob(j) ==
    /\ mem[j] # NoJob
    /\ Edit(j, NoJob, Never)
    /\ UNCHANGED born

\* update_job, patch_job with a schedule.
UpdateJob(j, kind, at) ==
    /\ mem[j] # NoJob
    /\ \/ /\ mem[j].enabled /\ ComputeNextRun(kind, at) # Never
          /\ Edit(j, Job(TRUE, kind, at, ComputeNextRun(kind, at), mem[j].ran),
                  ComputeNextRun(kind, at))
       \/ /\ ~mem[j].enabled
          /\ Edit(j, Job(FALSE, kind, at, mem[j].next, mem[j].ran), Never)
    /\ UNCHANGED born

\* enable_job(true), toggle_job, patch_job with enabled: from now on, and only
\* if there is a next run.
EnableJob(j) ==
    /\ mem[j] # NoJob
    /\ LET next == ComputeNextRun(mem[j].kind, mem[j].at)
       IN  /\ next # Never
           /\ Edit(j, Job(TRUE, mem[j].kind, mem[j].at, next, mem[j].ran), next)
    /\ UNCHANGED born

DisableJob(j) ==
    /\ mem[j] # NoJob
    /\ Edit(j, Job(FALSE, mem[j].kind, mem[j].at, Never, mem[j].ran), Never)
    /\ UNCHANGED born

\* execute_job_detached: a thread with a copy of the job.
RunNow(j) ==
    /\ gate # "down" /\ edits < MaxEdits /\ edits' = edits + 1
    /\ mem[j] # NoJob /\ pc["manual"] = "idle"
    /\ pc' = [pc EXCEPT !["manual"] = "copied"] /\ job' = [job EXCEPT !["manual"] = j]
    /\ UNCHANGED <<now, mem, disk, gate, due, res, faults, crashes, history>>

-----------------------------------------------------------------------------
(* The handler, under the on_job mutex: one at a time.                     *)

StartHandler(h) ==
    /\ pc[h] = "copied" /\ \A g \in Threads : pc[g] # "handler"
    /\ pc' = [pc EXCEPT ![h] = "handler"]
    /\ UNCHANGED <<now, mem, disk, gate, due, job, res, bounds, history>>

\* pause_job, from inside the handler, for the job it was called with.
PauseJob(h) ==
    /\ pc[h] = "handler" /\ mem[job[h]] # NoJob /\ mem[job[h]].enabled
    /\ mem' = [mem EXCEPT ![job[h]] = Job(FALSE, @.kind, @.at, Never, @.ran)]
    /\ Save
    /\ promised' = [promised EXCEPT ![job[h]] = Never]
    /\ UNCHANGED <<now, gate, due, thread, edits, crashes, born, consumed>>

\* Ok, Err, or a panic that invoke_handler_catch_panic turns into an Err.
EndHandler(h, outcome) ==
    /\ pc[h] = "handler"
    /\ pc' = [pc EXCEPT ![h] = "writing"]
    /\ res' = [res EXCEPT ![h] = IF outcome = "ok" THEN "ok" ELSE "error"]
    /\ UNCHANGED <<now, mem, disk, gate, due, job, bounds, history>>

\* run_job_execution, after the handler: the schedule stays as it is.
WriteBackManual ==
    LET j == job["manual"]
    IN  /\ pc["manual"] = "writing"
        /\ mem' = [mem EXCEPT ![j] =
                     IF @ = NoJob THEN NoJob ELSE Job(@.enabled, @.kind, @.at, @.next, TRUE)]
        /\ Save
        /\ pc' = [pc EXCEPT !["manual"] = "idle"] /\ job' = [job EXCEPT !["manual"] = NoJob]
        /\ res' = [res EXCEPT !["manual"] = "none"]
        /\ UNCHANGED <<now, gate, due, edits, crashes, history>>

-----------------------------------------------------------------------------
(* The loop.                                                               *)

IsDue(j) == /\ mem[j] # NoJob /\ mem[j].enabled
            /\ mem[j].next # Never /\ mem[j].next <= now

(* Mutant: only what is due at this very tick. *)
Collect_ThisTick ==
    /\ gate = "armed" /\ pc["loop"] = "idle" /\ \A j \in Jobs : due[j] = Never
    /\ LET Now == {j \in Jobs : IsDue(j) /\ mem[j].next = now}
       IN  /\ Now # {}
           /\ due' = [j \in Jobs |-> IF j \in Now THEN mem[j].next ELSE Never]
           /\ mem' = [j \in Jobs |->
                         IF j \in Now THEN Job(TRUE, mem[j].kind, mem[j].at, Never, mem[j].ran)
                                      ELSE mem[j]]
           /\ promised' = [j \in Jobs |-> IF j \in Now THEN Never ELSE promised[j]]
    /\ Save
    /\ UNCHANGED <<now, gate, thread, edits, crashes, born, consumed>>

\* collect_and_reset_due: one critical section for both.
Collect ==
    /\ gate = "armed" /\ pc["loop"] = "idle" /\ \A j \in Jobs : due[j] = Never
    /\ \E j \in Jobs : IsDue(j)
    /\ due' = [j \in Jobs |-> IF IsDue(j) THEN mem[j].next ELSE Never]
    /\ mem' = [j \in Jobs |-> IF IsDue(j) THEN Job(TRUE, mem[j].kind, mem[j].at, Never, mem[j].ran)
                                          ELSE mem[j]]
    /\ Save
    /\ promised' = [j \in Jobs |-> IF IsDue(j) THEN Never ELSE promised[j]]
    /\ UNCHANGED <<now, gate, thread, edits, crashes, born, consumed>>

\* The next job of the round is copied, as it is now; one that is gone is passed
\* over.
CopyDue(j) ==
    /\ pc["loop"] = "idle" /\ due[j] # Never
    /\ \/ /\ mem[j] # NoJob
          /\ pc' = [pc EXCEPT !["loop"] = "copied"] /\ job' = [job EXCEPT !["loop"] = j]
          /\ UNCHANGED due
       \/ /\ mem[j] = NoJob
          /\ due' = [due EXCEPT ![j] = Never] /\ UNCHANGED <<pc, job>>
    /\ UNCHANGED <<now, mem, disk, gate, res, bounds, history>>

(* Mutant: a job that was switched off during the run is scheduled again. *)
AfterRun_Reschedule(old, result) ==
    CASE old.kind = "at" /\ old.next # Never -> Job(old.enabled, "at", old.at, old.next, TRUE)
      [] old.kind = "at" /\ old.next = Never ->
             IF result = "ok" THEN NoJob ELSE Job(FALSE, "at", old.at, Never, TRUE)
      [] old.kind # "at" ->
             Job(old.enabled, old.kind, old.at, ComputeNextRun(old.kind, old.at), TRUE)

(* Mutant: a time given to a one-shot during the run is taken for the old one. *)
AfterRun_AlwaysClose(old, result) ==
    CASE old.kind = "at" ->
             IF result = "ok" THEN NoJob ELSE Job(FALSE, "at", old.at, Never, TRUE)
      [] old.kind # "at" ->
             Job(old.enabled, old.kind, old.at,
                 IF old.enabled THEN ComputeNextRun(old.kind, old.at) ELSE Never, TRUE)

(* Mutant: a failure is not put on record. *)
AfterRun_ForgetFailure(old, result) ==
    CASE result = "error" -> old
      [] result # "error" /\ old.kind = "at" -> IF old.next # Never THEN old ELSE NoJob
      [] result # "error" /\ old.kind # "at" ->
             Job(old.enabled, old.kind, old.at,
                 IF old.enabled THEN ComputeNextRun(old.kind, old.at) ELSE Never, TRUE)

\* The job after its handler: a one-shot is deleted after a success, switched off
\* after a failure, and kept when it has been given a new time meanwhile; any
\* other job gets its next time unless it has been switched off meanwhile.
AfterRun(old, result) ==
    CASE old.kind = "at" /\ old.next # Never -> Job(old.enabled, "at", old.at, old.next, TRUE)
      [] old.kind = "at" /\ old.next = Never ->
             IF result = "ok" THEN NoJob ELSE Job(FALSE, "at", old.at, Never, TRUE)
      [] old.kind # "at" ->
             Job(old.enabled, old.kind, old.at,
                 IF old.enabled THEN ComputeNextRun(old.kind, old.at) ELSE Never, TRUE)

WriteBackLoop ==
    LET j == job["loop"]
    IN  /\ pc["loop"] = "writing"
        /\ mem' = [mem EXCEPT ![j] = IF @ = NoJob THEN NoJob ELSE AfterRun(@, res["loop"])]
        /\ Save
        /\ consumed' = IF mem[j] # NoJob /\ mem[j].kind = "at" /\ mem[j].at = due[j] /\ disk' = mem'
                       THEN consumed \cup {<<j, due[j]>>} ELSE consumed
        /\ due' = [due EXCEPT ![j] = Never]
        /\ pc' = [pc EXCEPT !["loop"] = "idle"] /\ job' = [job EXCEPT !["loop"] = NoJob]
        /\ res' = [res EXCEPT !["loop"] = "none"]
        /\ UNCHANGED <<now, gate, edits, crashes, born, promised>>

-----------------------------------------------------------------------------
(* The clock and the process.                                              *)

Tick == /\ now < MaxTime /\ now' = now + 1
        /\ UNCHANGED <<mem, disk, gate, due, thread, bounds, history>>

\* arm, once start-up is complete.
Arm == /\ gate = "disarmed" /\ gate' = "armed"
       /\ UNCHANGED <<now, mem, disk, due, thread, bounds, history>>

Crash ==
    /\ gate # "down" /\ crashes < MaxCrashes /\ crashes' = crashes + 1
    /\ gate' = "down"
    /\ due' = [j \in Jobs |-> Never]
    /\ pc' = [h \in Threads |-> "idle"] /\ job' = [h \in Threads |-> NoJob]
    /\ res' = [h \in Threads |-> "none"]
    /\ UNCHANGED <<now, mem, disk, edits, faults, history>>

\* recompute_next_runs, disarmed as it is at every start: a one-shot that never
\* ran and whose time has passed keeps that time.
Recomputed(old) ==
    IF old = NoJob \/ ~old.enabled THEN old
    ELSE LET next == ComputeNextRun(old.kind, old.at)
         IN  Job(TRUE, old.kind, old.at,
                 IF next = Never /\ old.kind = "at" /\ ~old.ran THEN old.at ELSE next, old.ran)

\* new, start.  (start gives up when its save fails, and so does the service.)
Boot ==
    /\ gate = "down" /\ gate' = "disarmed"
    /\ mem' = [j \in Jobs |-> Recomputed(disk[j])] /\ disk' = mem'
    /\ UNCHANGED <<now, due, thread, bounds, history>>

-----------------------------------------------------------------------------
Editing(j) ==
    \/ \E at \in Times, enabled \in BOOLEAN :
           AddJob(j, "at", at, enabled) \/ AddJob(j, "every", Never, enabled)
    \/ \E at \in Times : UpdateJob(j, "at", at) \/ UpdateJob(j, "every", Never)
    \/ RemoveJob(j) \/ EnableJob(j) \/ DisableJob(j) \/ RunNow(j)

Handling(h) == \/ StartHandler(h) \/ PauseJob(h)
               \/ \E outcome \in {"ok", "err", "panic"} : EndHandler(h, outcome)

Next ==
    \/ \E j \in Jobs : Editing(j) \/ CopyDue(j)
    \/ \E h \in Threads : Handling(h)
    \/ Collect \/ WriteBackLoop \/ WriteBackManual
    \/ Tick \/ Arm \/ Crash \/ Boot

Spec == Init /\ [][Next]_vars

\* The gateway arms what it started, the loop ticks every second, handlers end
\* (an agent turn has budgets) and mutexes are handed on.  Nothing is assumed of
\* users, the clock, or whoever starts the process again.
Fairness ==
    /\ WF_vars(Arm)
    /\ WF_vars(Collect) /\ WF_vars(\E j \in Jobs : CopyDue(j)) /\ WF_vars(WriteBackLoop)
    /\ WF_vars(WriteBackManual)
    /\ \A h \in Threads :
         /\ WF_vars(StartHandler(h))
         /\ WF_vars(\E outcome \in {"ok", "err", "panic"} : EndHandler(h, outcome))

FairSpec == Spec /\ Fairness

-----------------------------------------------------------------------------
(* Properties.                                                             *)

\* A job that is switched off has no next run, whoever switched it off and
\* whatever was in flight: a pause from inside its handler, an edit during the
\* run and the write-back after it leave no run to come behind.
DisabledIsNotScheduled ==
    \A j \in Jobs : mem[j] # NoJob /\ ~mem[j].enabled => mem[j].next = Never

\* What a user was told is scheduled stays scheduled until the loop collects it:
\* neither the round in flight nor the write-back of an earlier run deletes or
\* switches off the new schedule, and a restart keeps it.  The exception is a
\* one-shot that has run before and whose new time passes while the process is
\* down.
PromiseKept ==
    \A j \in Jobs : promised[j] # Never /\ gate # "down" =>
        /\ mem[j] # NoJob /\ mem[j].enabled
        /\ \/ mem[j].next = promised[j]
           \/ mem[j].kind = "every" /\ mem[j].next # Never
           \/ crashes > 0 /\ mem[j].kind = "at" /\ mem[j].ran

\* A one-shot whose execution is on disk is not fired again for that time,
\* whether it went well or not, by no restart.
NotReplayed == \A j \in Jobs : due[j] # Never => <<j, due[j]>> \notin consumed

\* A job that is due while the service is armed does not stay due: no handler
\* that fails or panics, and no run-now in front of it, stops the loop.
DueIsFired == \A j \in Jobs : (IsDue(j) /\ gate = "armed") ~> (~IsDue(j) \/ gate = "down")
=============================================================================
