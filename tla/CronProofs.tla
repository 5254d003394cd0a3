----------------------------- MODULE CronProofs -----------------------------
(* Machine-checked proofs about Cron, for any jobs, times, edits, failing
   saves and restarts.                                                      *)
EXTENDS Cron, TLAPS

(* A job as the code keeps it: no next run while it is switched off. *)
GoodJob == {x \in CronJob : x.enabled \/ x.next = Never}

Good ==
    /\ mem \in [Jobs -> GoodJob \cup {NoJob}]
    /\ disk \in [Jobs -> GoodJob \cup {NoJob}]

(* What is known of an edit that returned Ok. *)
SoundEdit(new, promise) ==
    /\ new \in GoodJob \cup {NoJob} /\ promise \in 0 .. MaxTime + 1
    /\ new # NoJob => new.next = Never \/ new.next > now
    /\ new # NoJob /\ new.enabled /\ new.kind = "at" => new.at > now
    /\ promise # Never =>
         /\ new # NoJob /\ new.enabled /\ new.next = promise
         /\ new.kind = "at" => new.at = promise

-----------------------------------------------------------------------------
(* What the constructors return. *)
LEMMA MakeJob ==
    ASSUME NEW e \in BOOLEAN, NEW k \in {"at", "every"}, NEW a \in Times \cup {Never},
           NEW n \in 0 .. MaxTime + 1, NEW d \in BOOLEAN
    PROVE  /\ Job(e, k, a, n, d) \in CronJob /\ Job(e, k, a, n, d) # NoJob
           /\ e \/ n = Never => Job(e, k, a, n, d) \in GoodJob
  <1>1. Job(e, k, a, n, d) \in CronJob
    BY DEF Job, CronJob
  <1>2. e \/ n = Never => Job(e, k, a, n, d) \in GoodJob
    BY <1>1 DEF Job, GoodJob
  <1> QED BY <1>1, <1>2, NoJobIsNone

(* compute_next_run: in the future or never; an "every" job always has one. *)
LEMMA NextRun ==
    ASSUME now \in 0 .. MaxTime, NEW k \in {"at", "every"}, NEW a \in Times \cup {Never}
    PROVE  /\ ComputeNextRun(k, a) \in 0 .. MaxTime + 1
           /\ ComputeNextRun(k, a) = Never \/ ComputeNextRun(k, a) > now
           /\ k = "every" => ComputeNextRun(k, a) # Never
           /\ k = "at" /\ ComputeNextRun(k, a) # Never => ComputeNextRun(k, a) = a
  BY CronBounds DEF ComputeNextRun, Times, Never

(* The fields of a job. *)
LEMMA Fields ==
    ASSUME NEW x \in GoodJob
    PROVE  /\ x.enabled \in BOOLEAN /\ x.kind \in {"at", "every"}
           /\ x.at \in Times \cup {Never} /\ x.next \in 0 .. MaxTime + 1
           /\ x.ran \in BOOLEAN /\ x # NoJob
           /\ x.enabled \/ x.next = Never
  BY NoJobIsNone DEF GoodJob, CronJob

(* Every edit of a user is a sound one. *)
LEMMA EditsAreSound ==
    ASSUME Good, now \in 0 .. MaxTime, NEW j \in Jobs, Editing(j), ~RunNow(j)
    PROVE  \E new, promise : /\ Edit(j, new, promise) /\ SoundEdit(new, promise)
                             /\ born' \in {born, born \cup {j}}
  <1>1. ASSUME NEW k \in {"at", "every"}, NEW a \in Times \cup {Never}, NEW e \in BOOLEAN,
               AddJob(j, k, a, e)
        PROVE  \E new, promise : /\ Edit(j, new, promise) /\ SoundEdit(new, promise)
                                 /\ born' \in {born, born \cup {j}}
    <2> DEFINE next == IF e THEN ComputeNextRun(k, a) ELSE Never
               new  == Job(e, k, a, next, FALSE)
    <2>1. next \in 0 .. MaxTime + 1 /\ (e \/ next = Never)
      BY NextRun, CronBounds DEF Never
    <2>2. new \in GoodJob
      BY <2>1, MakeJob
    <2>3. new.enabled = e /\ new.kind = k /\ new.at = a /\ new.next = next
      BY DEF Job
    <2>4. /\ next = Never \/ next > now
          /\ e => next # Never
          /\ e /\ k = "at" => next = a
      BY <1>1, NextRun DEF AddJob
    <2>5. Edit(j, new, next) /\ born' = born \cup {j}
      BY <1>1 DEF AddJob
    <2> HIDE DEF new, next
    <2>6. SoundEdit(new, next)
      BY <2>1, <2>2, <2>3, <2>4, Fields DEF SoundEdit, Never
    <2> QED BY <2>5, <2>6
  <1>2. CASE RemoveJob(j)
    BY <1>2, CronBounds DEF RemoveJob, SoundEdit, Never
  <1>3. ASSUME NEW k \in {"at", "every"}, NEW a \in Times \cup {Never}, UpdateJob(j, k, a)
        PROVE  \E new, promise : /\ Edit(j, new, promise) /\ SoundEdit(new, promise)
                                 /\ born' \in {born, born \cup {j}}
    <2>1. mem[j] \in GoodJob
      BY <1>3 DEF UpdateJob, Good
    <2> DEFINE next == ComputeNextRun(k, a)
    <2>2. CASE mem[j].enabled
      <3> DEFINE new == Job(TRUE, k, a, next, mem[j].ran)
      <3>1. new \in GoodJob /\ next \in 0 .. MaxTime + 1
        BY <2>1, MakeJob, NextRun, Fields
      <3>2. next # Never /\ Edit(j, new, next) /\ UNCHANGED born
        BY <1>3, <2>2 DEF UpdateJob
      <3>3. new.enabled = TRUE /\ new.kind = k /\ new.at = a /\ new.next = next
        BY DEF Job
      <3>4. next > now /\ (k = "at" => next = a)
        BY <3>2, NextRun
      <3> HIDE DEF new, next
      <3>5. SoundEdit(new, next)
        BY <3>1, <3>3, <3>4, Fields DEF SoundEdit
      <3> QED BY <3>2, <3>5
    <2>3. CASE ~mem[j].enabled
      <3> DEFINE new == Job(FALSE, k, a, mem[j].next, mem[j].ran)
      <3>1. mem[j].next = Never /\ mem[j].next \in 0 .. MaxTime + 1 /\ mem[j].ran \in BOOLEAN
        BY <2>1, <2>3, Fields
      <3>2. new \in GoodJob
        BY <3>1, MakeJob
      <3>3. Edit(j, new, Never) /\ UNCHANGED born
        BY <1>3, <2>3 DEF UpdateJob
      <3>4. SoundEdit(new, Never)
        BY <3>1, <3>2, CronBounds DEF SoundEdit, Job, Never
      <3> QED BY <3>3, <3>4
    <2> QED BY <2>2, <2>3
  <1>4. CASE EnableJob(j)
    <2>1. mem[j] \in GoodJob
      BY <1>4 DEF EnableJob, Good
    <2> DEFINE next == ComputeNextRun(mem[j].kind, mem[j].at)
               new  == Job(TRUE, mem[j].kind, mem[j].at, next, mem[j].ran)
    <2>2. mem[j].kind \in {"at", "every"} /\ mem[j].at \in Times \cup {Never} /\ mem[j].ran \in BOOLEAN
      BY <2>1, Fields
    <2>3. new \in GoodJob /\ next \in 0 .. MaxTime + 1
      BY <2>2, MakeJob, NextRun
    <2>4. next # Never /\ Edit(j, new, next) /\ UNCHANGED born
      BY <1>4 DEF EnableJob
    <2>5. new.enabled = TRUE /\ new.kind = mem[j].kind /\ new.at = mem[j].at /\ new.next = next
      BY DEF Job
    <2>6. next > now /\ (mem[j].kind = "at" => next = mem[j].at)
      BY <2>2, <2>4, NextRun
    <2> HIDE DEF new, next
    <2>7. SoundEdit(new, next)
      BY <2>3, <2>5, <2>6, Fields DEF SoundEdit
    <2> QED BY <2>4, <2>7
  <1>5. CASE DisableJob(j)
    <2>1. mem[j] \in GoodJob
      BY <1>5 DEF DisableJob, Good
    <2> DEFINE new == Job(FALSE, mem[j].kind, mem[j].at, Never, mem[j].ran)
    <2>2. mem[j].kind \in {"at", "every"} /\ mem[j].at \in Times \cup {Never} /\ mem[j].ran \in BOOLEAN
      BY <2>1, Fields
    <2>3. Never \in 0 .. MaxTime + 1
      BY CronBounds DEF Never
    <2>4. new \in GoodJob
      BY <2>2, <2>3, MakeJob
    <2>5. Edit(j, new, Never) /\ UNCHANGED born
      BY <1>5 DEF DisableJob
    <2>6. SoundEdit(new, Never)
      BY <2>3, <2>4 DEF SoundEdit, Job
    <2> QED BY <2>5, <2>6
  <1>6. Times \subseteq Times \cup {Never} /\ Never \in Times \cup {Never}
    OBVIOUS
  <1> QED BY <1>1, <1>2, <1>3, <1>4, <1>5, <1>6 DEF Editing

(* The value for no time is in both ranges of times. *)
LEMMA NeverIsTime == Never \in 0 .. MaxTime /\ Never \in 0 .. MaxTime + 1
  BY CronBounds DEF Never

(* What the write-back makes of a job: it has run, it keeps a time it was given
   meanwhile, and it is neither deleted nor switched off while it has one. *)
LEMMA AfterRunKeeps ==
    ASSUME now \in 0 .. MaxTime, NEW x \in GoodJob, NEW r, NEW y, y = AfterRun(x, r)
    PROVE  /\ y \in GoodJob \cup {NoJob}
           /\ y # NoJob => /\ y.ran /\ y.kind = x.kind /\ y.at = x.at
                           /\ y.next = Never \/ y.next = x.next \/ y.next > now
           /\ x.enabled /\ x.kind = "at" /\ x.next # Never =>
                y # NoJob /\ y.enabled /\ y.next = x.next
           /\ x.enabled /\ x.kind = "every" =>
                y # NoJob /\ y.enabled /\ y.next # Never
  <1>0. /\ x.enabled \in BOOLEAN /\ x.kind \in {"at", "every"}
        /\ x.at \in Times \cup {Never} /\ x.next \in 0 .. MaxTime + 1
        /\ x.enabled \/ x.next = Never
    BY Fields
  <1>a. Never \in 0 .. MaxTime + 1
    BY CronBounds DEF Never
  <1>1. CASE x.kind = "at" /\ x.next # Never
    <2>1. y = Job(x.enabled, "at", x.at, x.next, TRUE)
      BY <1>1 DEF AfterRun
    <2>2. y \in GoodJob /\ y # NoJob
      BY <1>0, <2>1, MakeJob
    <2>3. y.enabled = x.enabled /\ y.kind = "at" /\ y.at = x.at /\ y.next = x.next /\ y.ran = TRUE
      BY <2>1 DEF Job
    <2> QED BY <1>1, <2>2, <2>3
  <1>2. CASE x.kind = "at" /\ x.next = Never
    <2>1. y = NoJob \/ y = Job(FALSE, "at", x.at, Never, TRUE)
      BY <1>2 DEF AfterRun
    <2>2. CASE y = NoJob
      BY <1>2, <2>2
    <2>3. CASE y = Job(FALSE, "at", x.at, Never, TRUE)
      <3>1. y \in GoodJob /\ y # NoJob
        BY <1>0, <1>a, <2>3, MakeJob
      <3>2. y.kind = "at" /\ y.at = x.at /\ y.next = Never /\ y.ran = TRUE
        BY <2>3 DEF Job
      <3> QED BY <1>2, <3>1, <3>2
    <2> QED BY <2>1, <2>2, <2>3
  <1>3. CASE x.kind # "at"
    <2> DEFINE next == IF x.enabled THEN ComputeNextRun(x.kind, x.at) ELSE Never
    <2>1. y = Job(x.enabled, x.kind, x.at, next, TRUE)
      BY <1>3 DEF AfterRun
    <2>2. /\ next \in 0 .. MaxTime + 1 /\ (x.enabled \/ next = Never)
          /\ next = Never \/ next > now
          /\ x.enabled => next # Never
      BY <1>0, <1>3, <1>a, NextRun
    <2> HIDE DEF next
    <2>3. y \in GoodJob /\ y # NoJob
      BY <1>0, <2>1, <2>2, MakeJob
    <2>4. y.enabled = x.enabled /\ y.kind = x.kind /\ y.at = x.at /\ y.next = next /\ y.ran = TRUE
      BY <2>1 DEF Job
    <2> QED BY <1>3, <2>2, <2>3, <2>4
  <1> QED BY <1>1, <1>2, <1>3

(* What a restart makes of a job. *)
LEMMA RecomputedKeeps ==
    ASSUME now \in 0 .. MaxTime, NEW x \in GoodJob, NEW y, y = Recomputed(x)
    PROVE  /\ y \in GoodJob
           /\ y.enabled = x.enabled /\ y.kind = x.kind /\ y.at = x.at /\ y.ran = x.ran
           /\ \/ y.next = Never \/ y.next > now
              \/ x.enabled /\ x.kind = "at" /\ ~x.ran /\ y.next = x.at
           /\ x.enabled /\ x.kind = "at" /\ ~x.ran => y.next = x.at
           /\ x.enabled /\ x.kind = "every" => y.next # Never
  <1>0. /\ x.enabled \in BOOLEAN /\ x.kind \in {"at", "every"}
        /\ x.at \in Times \cup {Never} /\ x.next \in 0 .. MaxTime + 1
        /\ x.ran \in BOOLEAN /\ x # NoJob
        /\ x.enabled \/ x.next = Never
    BY Fields
  <1>1. CASE ~x.enabled
    BY <1>0, <1>1 DEF Recomputed
  <1>2. CASE x.enabled
    <2> DEFINE next == IF ComputeNextRun(x.kind, x.at) = Never /\ x.kind = "at" /\ ~x.ran
                       THEN x.at ELSE ComputeNextRun(x.kind, x.at)
    <2>1. y = Job(TRUE, x.kind, x.at, next, x.ran)
      BY <1>0, <1>2 DEF Recomputed
    <2>2. /\ next \in 0 .. MaxTime + 1
          /\ \/ next = Never \/ next > now
             \/ x.kind = "at" /\ ~x.ran /\ next = x.at
          /\ x.kind = "at" /\ ~x.ran => next = x.at
          /\ x.kind = "every" => next # Never
      BY <1>0, NextRun, CronBounds DEF Times, Never
    <2> HIDE DEF next
    <2>3. y \in GoodJob
      BY <1>0, <2>1, <2>2, MakeJob
    <2>4. y.enabled = TRUE /\ y.kind = x.kind /\ y.at = x.at /\ y.next = next /\ y.ran = x.ran
      BY <2>1 DEF Job
    <2> QED BY <1>2, <2>2, <2>3, <2>4
  <1> QED BY <1>0, <1>1, <1>2

(* What is left of a job that was switched off. *)
LEMMA PausedKeeps ==
    ASSUME NEW x \in GoodJob, NEW y, y = Job(FALSE, x.kind, x.at, Never, x.ran)
    PROVE  y \in GoodJob /\ ~y.enabled /\ y.next = Never
  <1>1. Never \in 0 .. MaxTime + 1
    BY CronBounds DEF Never
  <1>2. y \in GoodJob
    BY <1>1, Fields, MakeJob
  <1>3. y.enabled = FALSE /\ y.next = Never
    BY DEF Job
  <1> QED BY <1>2, <1>3

(* What is left of a job after a run by hand, ... *)
LEMMA RanKeeps ==
    ASSUME NEW x \in GoodJob, NEW y, y = Job(x.enabled, x.kind, x.at, x.next, TRUE)
    PROVE  /\ y \in GoodJob /\ y.enabled = x.enabled /\ y.kind = x.kind /\ y.at = x.at
           /\ y.next = x.next /\ y.ran
  <1>1. y \in GoodJob
    BY Fields, MakeJob
  <1>2. y.enabled = x.enabled /\ y.kind = x.kind /\ y.at = x.at /\ y.next = x.next /\ y.ran = TRUE
    BY DEF Job
  <1> QED BY <1>1, <1>2

(* ... and when the loop has collected it. *)
LEMMA CollectedKeeps ==
    ASSUME NEW x \in GoodJob, NEW y, y = Job(TRUE, x.kind, x.at, Never, x.ran)
    PROVE  /\ y \in GoodJob /\ y.enabled /\ y.kind = x.kind /\ y.at = x.at
           /\ y.next = Never /\ y.ran = x.ran
  <1>1. Never \in 0 .. MaxTime + 1
    BY CronBounds DEF Never
  <1>2. y \in GoodJob
    BY <1>1, Fields, MakeJob
  <1>3. y.enabled = TRUE /\ y.kind = x.kind /\ y.at = x.at /\ y.next = Never /\ y.ran = x.ran
    BY DEF Job
  <1> QED BY <1>2, <1>3

-----------------------------------------------------------------------------
(* The inductive invariant.                                                *)

(* TypeOK without mem and disk. *)
Counts ==
    /\ now \in 0 .. MaxTime
    /\ edits \in 0 .. MaxEdits /\ faults \in 0 .. MaxFaults /\ crashes \in 0 .. MaxCrashes

Runs ==
    /\ gate \in {"down", "disarmed", "armed"}
    /\ pc \in [Threads -> {"idle", "copied", "handler", "writing"}]
    /\ job \in [Threads -> Jobs \cup {NoJob}] /\ res \in [Threads -> {"none", "ok", "error"}]

Round ==
    /\ due \in [Jobs -> 0 .. MaxTime]
    /\ born \subseteq Jobs /\ promised \in [Jobs -> 0 .. MaxTime + 1]
    /\ consumed \subseteq Jobs \X Times

Base == Counts /\ Runs /\ Round

(* A thread under way has its job, and the loop is in a round; nothing is under
   way while the process is down. *)
UnderWay ==
    /\ \A h \in Threads : pc[h] # "idle" => job[h] \in Jobs
    /\ pc["loop"] # "idle" => due[job["loop"]] # Never
    /\ gate = "down" => crashes > 0 /\ \A j \in Jobs : due[j] = Never

(* A job that is not going to run at time a again, restart or no restart. *)
Spent(x, a) ==
    x # NoJob => /\ x.next # a
                 /\ x.kind = "at" /\ x.enabled /\ ~x.ran => x.at # a

ConsumedIsSpent ==
    \A j \in Jobs, a \in Times : <<j, a>> \in consumed =>
        a <= now /\ due[j] # a /\ Spent(mem[j], a) /\ Spent(disk[j], a)

DueIsTaken ==
    \A j \in Jobs : due[j] # Never =>
        due[j] <= now /\ (mem[j] # NoJob => mem[j].next # due[j])

(* A promise is in memory and in the file, and a round in flight has not
   touched it. *)
Holds(x, p) == x # NoJob /\ x.enabled /\ (x.kind = "at" => x.at = p)

Kept(j) ==
    /\ Holds(mem[j], promised[j]) /\ Holds(disk[j], promised[j])
    /\ due[j] # Never /\ mem[j].kind = "at" => mem[j].next = promised[j]
    /\ gate # "down" =>
         \/ mem[j].next = promised[j]
         \/ mem[j].kind = "every" /\ mem[j].next # Never
         \/ crashes > 0 /\ mem[j].kind = "at" /\ mem[j].ran

PromiseIsStored == \A j \in Jobs : promised[j] # Never => Kept(j)

CronInv == Base /\ Good /\ UnderWay /\ ConsumedIsSpent /\ DueIsTaken /\ PromiseIsStored

(* The counters stay within their bounds. *)
LEMMA CountsStep ==
    ASSUME Base, Good, [Next]_vars
    PROVE  Counts'
  <1> USE DEF Base, Counts, bounds
  <1>1. ASSUME NEW j \in Jobs, NEW new, NEW promise, Edit(j, new, promise),
               SoundEdit(new, promise), born' \in {born, born \cup {j}}
        PROVE  Counts'
    BY <1>1, CronBounds DEF Edit, SoundEdit
  <1>2. ASSUME NEW j \in Jobs, RunNow(j)
        PROVE  Counts'
    BY <1>2, CronBounds DEF RunNow
  <1>3. ASSUME NEW j \in Jobs, CopyDue(j)
        PROVE  Counts'
    BY <1>3, CronBounds DEF CopyDue
  <1>4. ASSUME NEW h \in Threads, StartHandler(h)
        PROVE  Counts'
    BY <1>4, CronBounds DEF StartHandler
  <1>5. ASSUME NEW h \in Threads, PauseJob(h)
        PROVE  Counts'
    <2>1. Save /\ UNCHANGED <<now, edits, crashes>>
      BY <1>5 DEF PauseJob
    <2> QED BY <2>1, CronBounds DEF Save
  <1>6. ASSUME NEW h \in Threads, NEW o \in {"ok", "err", "panic"}, EndHandler(h, o)
        PROVE  Counts'
    BY <1>6, CronBounds DEF EndHandler
  <1>7. ASSUME Collect
        PROVE  Counts'
    <2>1. Save /\ UNCHANGED <<now, edits, crashes>>
      BY <1>7 DEF Collect
    <2> QED BY <2>1, CronBounds DEF Save
  <1>8. ASSUME WriteBackLoop
        PROVE  Counts'
    <2>1. Save /\ UNCHANGED <<now, edits, crashes>>
      BY <1>8 DEF WriteBackLoop
    <2> QED BY <2>1, CronBounds DEF Save
  <1>9. ASSUME WriteBackManual
        PROVE  Counts'
    <2>1. Save /\ UNCHANGED <<now, edits, crashes>>
      BY <1>9 DEF WriteBackManual
    <2> QED BY <2>1, CronBounds DEF Save
  <1>10. ASSUME Tick
        PROVE  Counts'
    BY <1>10, CronBounds DEF Tick
  <1>11. ASSUME Arm
        PROVE  Counts'
    BY <1>11, CronBounds DEF Arm
  <1>12. ASSUME Crash
        PROVE  Counts'
    BY <1>12, CronBounds DEF Crash
  <1>13. ASSUME Boot
        PROVE  Counts'
    BY <1>13, CronBounds DEF Boot
  <1>14. ASSUME UNCHANGED vars
        PROVE  Counts'
    BY <1>14, CronBounds DEF vars
  <1>e. ASSUME NEW j \in Jobs, Editing(j) PROVE Counts'
    BY <1>1, <1>2, <1>e, EditsAreSound DEF Base, Counts
  <1> QED BY <1>3, <1>4, <1>5, <1>6, <1>7, <1>8, <1>9, <1>10, <1>11, <1>12, <1>13, <1>14, <1>e DEF Next, Handling

(* The threads keep their shape. *)
LEMMA RunsStep ==
    ASSUME Base, Good, UnderWay, [Next]_vars
    PROVE  Runs'
  <1> USE DEF Base, Runs, thread
  <1>1. ASSUME NEW j \in Jobs, NEW new, NEW promise, Edit(j, new, promise),
               SoundEdit(new, promise), born' \in {born, born \cup {j}}
        PROVE  Runs'
    BY <1>1 DEF Edit, SoundEdit
  <1>2. ASSUME NEW j \in Jobs, RunNow(j)
        PROVE  Runs'
    BY <1>2 DEF RunNow
  <1>3. ASSUME NEW j \in Jobs, CopyDue(j)
        PROVE  Runs'
    BY <1>3 DEF CopyDue
  <1>4. ASSUME NEW h \in Threads, StartHandler(h)
        PROVE  Runs'
    BY <1>4 DEF StartHandler
  <1>5. ASSUME NEW h \in Threads, PauseJob(h)
        PROVE  Runs'
    BY <1>5 DEF PauseJob, Save
  <1>6. ASSUME NEW h \in Threads, NEW o \in {"ok", "err", "panic"}, EndHandler(h, o)
        PROVE  Runs'
    BY <1>6 DEF EndHandler
  <1>7. ASSUME Collect
        PROVE  Runs'
    BY <1>7 DEF Collect, Save, IsDue
  <1>8. ASSUME WriteBackLoop
        PROVE  Runs'
    BY <1>8 DEF WriteBackLoop, Save
  <1>9. ASSUME WriteBackManual
        PROVE  Runs'
    BY <1>9 DEF WriteBackManual, Save
  <1>10. ASSUME Tick
        PROVE  Runs'
    BY <1>10 DEF Tick
  <1>11. ASSUME Arm
        PROVE  Runs'
    BY <1>11 DEF Arm
  <1>12. ASSUME Crash
        PROVE  Runs'
    BY <1>12 DEF Crash
  <1>13. ASSUME Boot
        PROVE  Runs'
    BY <1>13 DEF Boot
  <1>14. ASSUME UNCHANGED vars
        PROVE  Runs'
    BY <1>14 DEF vars
  <1>e. ASSUME NEW j \in Jobs, Editing(j) PROVE Runs'
    BY <1>1, <1>2, <1>e, EditsAreSound DEF Base, Counts
  <1> QED BY <1>3, <1>4, <1>5, <1>6, <1>7, <1>8, <1>9, <1>10, <1>11, <1>12, <1>13, <1>14, <1>e DEF Next, Handling

(* The round and the history keep their types. *)
LEMMA RoundStep ==
    ASSUME Base, Good, UnderWay, [Next]_vars
    PROVE  Round'
  <1> USE DEF Base, Round, history
  <1>1. ASSUME NEW j \in Jobs, NEW new, NEW promise, Edit(j, new, promise),
               SoundEdit(new, promise), born' \in {born, born \cup {j}}
        PROVE  Round'
    BY <1>1, CronBounds DEF Edit, SoundEdit
  <1>2. ASSUME NEW j \in Jobs, RunNow(j)
        PROVE  Round'
    BY <1>2, CronBounds DEF RunNow
  <1>3. ASSUME NEW j \in Jobs, CopyDue(j)
        PROVE  Round'
    BY <1>3, NeverIsTime DEF CopyDue
  <1>4. ASSUME NEW h \in Threads, StartHandler(h)
        PROVE  Round'
    BY <1>4, CronBounds DEF StartHandler
  <1>5. ASSUME NEW h \in Threads, PauseJob(h)
        PROVE  Round'
    <2>0. promised' = [promised EXCEPT ![job[h]] = Never]
      BY <1>5 DEF PauseJob
    <2>1. promised' \in [Jobs -> 0 .. MaxTime + 1]
      BY <2>0, NeverIsTime
    <2> QED BY <1>5, <2>1 DEF PauseJob
  <1>6. ASSUME NEW h \in Threads, NEW o \in {"ok", "err", "panic"}, EndHandler(h, o)
        PROVE  Round'
    BY <1>6, CronBounds DEF EndHandler
  <1>7. ASSUME Collect
        PROVE  Round'
    <2>1. due' \in [Jobs -> 0 .. MaxTime]
      <3>1. ASSUME NEW j \in Jobs, IsDue(j) PROVE mem[j].next \in 0 .. MaxTime
        BY <3>1, CronBounds, Fields DEF IsDue, Good, Base, Counts
      <3> QED BY <1>7, <3>1, CronBounds DEF Collect, Never
    <2>2. promised' \in [Jobs -> 0 .. MaxTime + 1]
      BY <1>7, CronBounds DEF Collect, Never
    <2> QED BY <1>7, <2>1, <2>2 DEF Collect
  <1>8. ASSUME WriteBackLoop
        PROVE  Round'
    <2> DEFINE j == job["loop"]
    <2>1. j \in Jobs /\ due[j] \in Times
      BY <1>8, CronBounds DEF WriteBackLoop, UnderWay, Threads, Times, Never
    <2>2. consumed' \subseteq Jobs \X Times
      BY <1>8, <2>1 DEF WriteBackLoop
    <2>a. due' = [due EXCEPT ![j] = Never]
      BY <1>8 DEF WriteBackLoop
    <2> HIDE DEF j
    <2>3. due' \in [Jobs -> 0 .. MaxTime]
      BY <2>a, NeverIsTime
    <2> QED BY <1>8, <2>2, <2>3 DEF WriteBackLoop
  <1>9. ASSUME WriteBackManual
        PROVE  Round'
    BY <1>9, CronBounds DEF WriteBackManual, Save
  <1>10. ASSUME Tick
        PROVE  Round'
    BY <1>10, CronBounds DEF Tick
  <1>11. ASSUME Arm
        PROVE  Round'
    BY <1>11, CronBounds DEF Arm
  <1>12. ASSUME Crash
        PROVE  Round'
    BY <1>12, NeverIsTime DEF Crash
  <1>13. ASSUME Boot
        PROVE  Round'
    BY <1>13, CronBounds DEF Boot
  <1>14. ASSUME UNCHANGED vars
        PROVE  Round'
    BY <1>14, CronBounds DEF vars
  <1>e. ASSUME NEW j \in Jobs, Editing(j) PROVE Round'
    BY <1>1, <1>2, <1>e, EditsAreSound DEF Base, Counts
  <1> QED BY <1>3, <1>4, <1>5, <1>6, <1>7, <1>8, <1>9, <1>10, <1>11, <1>12, <1>13, <1>14, <1>e DEF Next, Handling

(* Both stores hold jobs, and no switched-off job with a next run. *)
LEMMA GoodStep ==
    ASSUME Base, Good, UnderWay, [Next]_vars
    PROVE  Good'
  <1> USE DEF Good, thread, bounds, history
  <1>1. ASSUME NEW j \in Jobs, NEW new, NEW promise, Edit(j, new, promise),
               SoundEdit(new, promise), born' \in {born, born \cup {j}}
        PROVE  Good'
    BY <1>1 DEF Edit, SoundEdit
  <1>2. ASSUME NEW j \in Jobs, RunNow(j)
        PROVE  Good'
    BY <1>2 DEF RunNow
  <1>3. ASSUME NEW j \in Jobs, CopyDue(j)
        PROVE  Good'
    BY <1>3 DEF CopyDue
  <1>4. ASSUME NEW h \in Threads, StartHandler(h)
        PROVE  Good'
    BY <1>4 DEF StartHandler
  <1>5. ASSUME NEW h \in Threads, PauseJob(h)
        PROVE  Good'
    <2> DEFINE k == job[h]
               y == Job(FALSE, mem[k].kind, mem[k].at, Never, mem[k].ran)
    <2>1. k \in Jobs /\ mem[k] \in GoodJob
      BY <1>5 DEF PauseJob, UnderWay
    <2>2. y \in GoodJob
      BY <2>1, PausedKeeps
    <2>3. mem' = [mem EXCEPT ![k] = y]
      BY <1>5 DEF PauseJob
    <2>4. disk' = mem' \/ disk' = disk
      BY <1>5 DEF PauseJob, Save
    <2> HIDE DEF k, y
    <2> QED BY <2>1, <2>2, <2>3, <2>4
  <1>6. ASSUME NEW h \in Threads, NEW o \in {"ok", "err", "panic"}, EndHandler(h, o)
        PROVE  Good'
    BY <1>6 DEF EndHandler
  <1>7. ASSUME Collect
        PROVE  Good'
    <2>1. ASSUME NEW j \in Jobs PROVE mem'[j] \in GoodJob \cup {NoJob}
      <3>1. CASE IsDue(j)
        <4>1. mem'[j] = Job(TRUE, mem[j].kind, mem[j].at, Never, mem[j].ran)
          BY <1>7, <3>1 DEF Collect
        <4>2. mem[j] \in GoodJob
          BY <3>1 DEF IsDue
        <4> QED BY <4>1, <4>2, CollectedKeeps
      <3>2. CASE ~IsDue(j)
        BY <1>7, <3>2 DEF Collect
      <3> QED BY <3>1, <3>2
    <2>2. DOMAIN mem' = Jobs /\ mem' = [j \in Jobs |-> mem'[j]]
      BY <1>7 DEF Collect
    <2>3. mem' \in [Jobs -> GoodJob \cup {NoJob}]
      BY <2>1, <2>2
    <2> QED BY <1>7, <2>3 DEF Collect, Save
  <1>8. ASSUME WriteBackLoop
        PROVE  Good'
    <2> DEFINE k == job["loop"]
               y == IF mem[k] = NoJob THEN NoJob ELSE AfterRun(mem[k], res["loop"])
    <2>1. k \in Jobs
      BY <1>8 DEF WriteBackLoop, UnderWay, Threads
    <2>2. y \in GoodJob \cup {NoJob}
      BY <2>1, AfterRunKeeps DEF Base, Counts
    <2>3. mem' = [mem EXCEPT ![k] = y]
      BY <1>8 DEF WriteBackLoop
    <2>4. disk' = mem' \/ disk' = disk
      BY <1>8 DEF WriteBackLoop, Save
    <2> HIDE DEF k, y
    <2> QED BY <2>1, <2>2, <2>3, <2>4
  <1>9. ASSUME WriteBackManual
        PROVE  Good'
    <2> DEFINE k == job["manual"]
               y == IF mem[k] = NoJob THEN NoJob
                    ELSE Job(mem[k].enabled, mem[k].kind, mem[k].at, mem[k].next, TRUE)
    <2>1. k \in Jobs
      BY <1>9 DEF WriteBackManual, UnderWay, Threads
    <2>2. y \in GoodJob \cup {NoJob}
      BY <2>1, RanKeeps
    <2>3. mem' = [mem EXCEPT ![k] = y]
      BY <1>9 DEF WriteBackManual
    <2>4. disk' = mem' \/ disk' = disk
      BY <1>9 DEF WriteBackManual, Save
    <2> HIDE DEF k, y
    <2> QED BY <2>1, <2>2, <2>3, <2>4
  <1>10. ASSUME Tick
        PROVE  Good'
    BY <1>10 DEF Tick
  <1>11. ASSUME Arm
        PROVE  Good'
    BY <1>11 DEF Arm
  <1>12. ASSUME Crash
        PROVE  Good'
    BY <1>12 DEF Crash
  <1>13. ASSUME Boot
        PROVE  Good'
    <2>1. ASSUME NEW j \in Jobs PROVE Recomputed(disk[j]) \in GoodJob \cup {NoJob}
      <3>1. CASE disk[j] = NoJob
        BY <3>1 DEF Recomputed
      <3>2. CASE disk[j] # NoJob
        BY <3>2, RecomputedKeeps DEF Base, Counts
      <3> QED BY <3>1, <3>2
    <2> QED BY <1>13, <2>1 DEF Boot
  <1>14. ASSUME UNCHANGED vars
        PROVE  Good'
    BY <1>14 DEF vars
  <1>e. ASSUME NEW j \in Jobs, Editing(j) PROVE Good'
    BY <1>1, <1>2, <1>e, EditsAreSound DEF Base, Counts
  <1> QED BY <1>3, <1>4, <1>5, <1>6, <1>7, <1>8, <1>9, <1>10, <1>11, <1>12, <1>13, <1>14, <1>e DEF Next, Handling

(* Threads keep their jobs, the loop its round. *)
LEMMA UnderWayStep ==
    ASSUME Base, Good, UnderWay, [Next]_vars
    PROVE  UnderWay'
  <1> USE DEF Base, Counts, Runs, Round, UnderWay, Threads, thread, bounds, history
  <1>1. ASSUME NEW j \in Jobs, NEW new, NEW promise, Edit(j, new, promise),
               SoundEdit(new, promise), born' \in {born, born \cup {j}}
        PROVE  UnderWay'
    BY <1>1, CronBounds DEF Edit, SoundEdit
  <1>2. ASSUME NEW j \in Jobs, RunNow(j)
        PROVE  UnderWay'
    BY <1>2, CronBounds DEF RunNow
  <1>3. ASSUME NEW j \in Jobs, CopyDue(j)
        PROVE  UnderWay'
    BY <1>3, CronBounds DEF CopyDue
  <1>4. ASSUME NEW h \in Threads, StartHandler(h)
        PROVE  UnderWay'
    BY <1>4, CronBounds DEF StartHandler
  <1>5. ASSUME NEW h \in Threads, PauseJob(h)
        PROVE  UnderWay'
    BY <1>5, CronBounds DEF PauseJob, Save
  <1>6. ASSUME NEW h \in Threads, NEW o \in {"ok", "err", "panic"}, EndHandler(h, o)
        PROVE  UnderWay'
    BY <1>6, CronBounds DEF EndHandler
  <1>7. ASSUME Collect
        PROVE  UnderWay'
    BY <1>7 DEF Collect, Save
  <1>8. ASSUME WriteBackLoop
        PROVE  UnderWay'
    BY <1>8, CronBounds DEF WriteBackLoop, Save
  <1>9. ASSUME WriteBackManual
        PROVE  UnderWay'
    BY <1>9, CronBounds DEF WriteBackManual, Save
  <1>10. ASSUME Tick
        PROVE  UnderWay'
    BY <1>10, CronBounds DEF Tick
  <1>11. ASSUME Arm
        PROVE  UnderWay'
    BY <1>11, CronBounds DEF Arm
  <1>12. ASSUME Crash
        PROVE  UnderWay'
    BY <1>12, CronBounds DEF Crash
  <1>13. ASSUME Boot
        PROVE  UnderWay'
    BY <1>13, CronBounds DEF Boot
  <1>14. ASSUME UNCHANGED vars
        PROVE  UnderWay'
    BY <1>14, CronBounds DEF vars
  <1>e. ASSUME NEW j \in Jobs, Editing(j) PROVE UnderWay'
    BY <1>1, <1>2, <1>e, EditsAreSound DEF Base, Counts
  <1> QED BY <1>3, <1>4, <1>5, <1>6, <1>7, <1>8, <1>9, <1>10, <1>11, <1>12, <1>13, <1>14, <1>e DEF Next, Handling

-----------------------------------------------------------------------------
(* What the steps that rewrite jobs do to them.                            *)

(* pause_job: the job is switched off, its promise withdrawn. *)
LEMMA PauseEffect ==
    ASSUME Base, Good, UnderWay, NEW h \in Threads, PauseJob(h)
    PROVE  \E k \in Jobs, y \in GoodJob :
             /\ ~y.enabled /\ y.next = Never
             /\ mem' = [mem EXCEPT ![k] = y] /\ (disk' = mem' \/ disk' = disk)
             /\ promised' = [promised EXCEPT ![k] = Never]
             /\ UNCHANGED <<now, due, gate, crashes, consumed>>
  <1> DEFINE k == job[h]
             y == Job(FALSE, mem[k].kind, mem[k].at, Never, mem[k].ran)
  <1>1. k \in Jobs /\ mem[k] \in GoodJob
    BY DEF PauseJob, UnderWay, Good
  <1>2. y \in GoodJob /\ ~y.enabled /\ y.next = Never
    BY <1>1, PausedKeeps
  <1>3. /\ mem' = [mem EXCEPT ![k] = y] /\ promised' = [promised EXCEPT ![k] = Never]
        /\ UNCHANGED <<now, due, gate, crashes, consumed>>
    BY DEF PauseJob
  <1>4. disk' = mem' \/ disk' = disk
    BY DEF PauseJob, Save
  <1> HIDE DEF k, y
  <1> QED BY <1>1, <1>2, <1>3, <1>4

(* run now: the job has run, its schedule is as it was. *)
LEMMA ManualEffect ==
    ASSUME Base, Good, UnderWay, WriteBackManual
    PROVE  \E k \in Jobs, y \in GoodJob \cup {NoJob} :
             /\ mem[k] = NoJob <=> y = NoJob
             /\ y # NoJob => /\ y.ran /\ y.enabled = mem[k].enabled /\ y.kind = mem[k].kind
                             /\ y.at = mem[k].at /\ y.next = mem[k].next
             /\ mem' = [mem EXCEPT ![k] = y] /\ (disk' = mem' \/ disk' = disk)
             /\ UNCHANGED <<now, due, gate, crashes, consumed, promised>>
  <1> DEFINE k == job["manual"]
             y == IF mem[k] = NoJob THEN NoJob
                  ELSE Job(mem[k].enabled, mem[k].kind, mem[k].at, mem[k].next, TRUE)
  <1>1. k \in Jobs /\ mem[k] \in GoodJob \cup {NoJob}
    BY DEF WriteBackManual, UnderWay, Good, Threads
  <1>2. /\ y \in GoodJob \cup {NoJob} /\ (mem[k] = NoJob <=> y = NoJob)
        /\ y # NoJob => /\ y.ran /\ y.enabled = mem[k].enabled /\ y.kind = mem[k].kind
                        /\ y.at = mem[k].at /\ y.next = mem[k].next
    <2>1. CASE mem[k] = NoJob
      BY <2>1
    <2>2. CASE mem[k] # NoJob
      <3>1. /\ y = Job(mem[k].enabled, mem[k].kind, mem[k].at, mem[k].next, TRUE)
            /\ mem[k] \in GoodJob
        BY <1>1, <2>2
      <3> HIDE DEF y, k
      <3>2. /\ y \in GoodJob /\ y.enabled = mem[k].enabled /\ y.kind = mem[k].kind
            /\ y.at = mem[k].at /\ y.next = mem[k].next /\ y.ran
        <4>1. /\ mem[k].enabled \in BOOLEAN /\ mem[k].kind \in {"at", "every"}
              /\ mem[k].at \in Times \cup {Never} /\ mem[k].next \in 0 .. MaxTime + 1
              /\ mem[k].enabled \/ mem[k].next = Never
          BY <3>1, Fields
        <4>2. y \in GoodJob
          BY <3>1, <4>1, MakeJob
        <4>3. /\ y.enabled = mem[k].enabled /\ y.kind = mem[k].kind
              /\ y.at = mem[k].at /\ y.next = mem[k].next /\ y.ran = TRUE
          BY <3>1 DEF Job
        <4> QED BY <4>2, <4>3
      <3>3. y # NoJob
        BY <3>2, Fields
      <3> QED BY <2>2, <3>2, <3>3
    <2> QED BY <2>1, <2>2
  <1>3. mem' = [mem EXCEPT ![k] = y]
    BY DEF WriteBackManual
  <1>4. UNCHANGED <<now, due, gate, crashes, consumed, promised>>
    BY DEF WriteBackManual, history
  <1>5. disk' = mem' \/ disk' = disk
    BY DEF WriteBackManual, Save
  <1> HIDE DEF k, y
  <1> QED BY <1>1, <1>2, <1>3, <1>4, <1>5

(* The write-back of the loop: the round is over for the job, and its execution
   is on record if the save went well. *)
LEMMA LoopEffect ==
    ASSUME Base, Good, UnderWay, WriteBackLoop
    PROVE  \E k \in Jobs, y \in GoodJob \cup {NoJob} :
             /\ due[k] # Never
             /\ mem[k] = NoJob => y = NoJob
             /\ y # NoJob => /\ y.ran /\ y.kind = mem[k].kind /\ y.at = mem[k].at
                             /\ y.next = Never \/ y.next = mem[k].next \/ y.next > now
             /\ mem[k] # NoJob /\ mem[k].enabled /\ mem[k].kind = "at" /\ mem[k].next # Never =>
                  y # NoJob /\ y.enabled /\ y.next = mem[k].next
             /\ mem[k] # NoJob /\ mem[k].enabled /\ mem[k].kind = "every" =>
                  y # NoJob /\ y.enabled /\ y.next # Never
             /\ mem' = [mem EXCEPT ![k] = y] /\ (disk' = mem' \/ disk' = disk)
             /\ due' = [due EXCEPT ![k] = Never]
             /\ \/ consumed' = consumed
                \/ disk' = mem' /\ consumed' = consumed \cup {<<k, due[k]>>}
             /\ UNCHANGED <<now, gate, crashes, promised>>
  <1> DEFINE k == job["loop"]
             y == IF mem[k] = NoJob THEN NoJob ELSE AfterRun(mem[k], res["loop"])
  <1>1. k \in Jobs /\ due[k] # Never /\ mem[k] \in GoodJob \cup {NoJob}
    BY DEF WriteBackLoop, UnderWay, Good, Threads
  <1>2. /\ y \in GoodJob \cup {NoJob} /\ (mem[k] = NoJob => y = NoJob)
        /\ y # NoJob => /\ y.ran /\ y.kind = mem[k].kind /\ y.at = mem[k].at
                        /\ y.next = Never \/ y.next = mem[k].next \/ y.next > now
        /\ mem[k] # NoJob /\ mem[k].enabled /\ mem[k].kind = "at" /\ mem[k].next # Never =>
             y # NoJob /\ y.enabled /\ y.next = mem[k].next
        /\ mem[k] # NoJob /\ mem[k].enabled /\ mem[k].kind = "every" =>
             y # NoJob /\ y.enabled /\ y.next # Never
    <2>1. CASE mem[k] = NoJob
      BY <2>1
    <2>2. CASE mem[k] # NoJob
      <3>1. y = AfterRun(mem[k], res["loop"]) /\ mem[k] \in GoodJob /\ now \in 0 .. MaxTime
        BY <1>1, <2>2 DEF Base, Counts
      <3> HIDE DEF y, k
      <3> QED BY <2>2, <3>1, AfterRunKeeps
    <2> QED BY <2>1, <2>2
  <1>3. mem' = [mem EXCEPT ![k] = y] /\ due' = [due EXCEPT ![k] = Never]
    BY DEF WriteBackLoop
  <1>4. UNCHANGED <<now, gate, crashes, promised>>
    BY DEF WriteBackLoop
  <1>5. disk' = mem' \/ disk' = disk
    BY DEF WriteBackLoop, Save
  <1>6. \/ consumed' = consumed
        \/ disk' = mem' /\ consumed' = consumed \cup {<<k, due[k]>>}
    BY DEF WriteBackLoop
  <1> HIDE DEF k, y
  <1> QED BY <1>1, <1>2, <1>3, <1>4, <1>5, <1>6

(* collect_and_reset_due, for one job. *)
LEMMA CollectEffect ==
    ASSUME Base, Good, Collect, NEW j \in Jobs
    PROVE  /\ \/ /\ mem[j] # NoJob /\ due'[j] = mem[j].next /\ due'[j] <= now /\ due'[j] # Never
                 /\ mem'[j] \in GoodJob /\ mem'[j].enabled /\ mem'[j].next = Never
                 /\ mem'[j].kind = mem[j].kind /\ mem'[j].at = mem[j].at
                 /\ mem'[j].ran = mem[j].ran /\ mem[j].enabled
                 /\ promised'[j] = Never
              \/ due'[j] = Never /\ mem'[j] = mem[j] /\ promised'[j] = promised[j]
           /\ disk' = mem' \/ disk' = disk
           /\ UNCHANGED <<now, gate, crashes, consumed>>
  <1>1. disk' = mem' \/ disk' = disk
    BY DEF Collect, Save
  <1>2. UNCHANGED <<now, gate, crashes, consumed>>
    BY DEF Collect
  <1>3. CASE IsDue(j)
    <2>1. /\ due'[j] = mem[j].next /\ promised'[j] = Never
          /\ mem'[j] = Job(TRUE, mem[j].kind, mem[j].at, Never, mem[j].ran)
      BY <1>3 DEF Collect
    <2>2. mem[j] \in GoodJob /\ mem[j].enabled /\ mem[j].next # Never /\ mem[j].next <= now
      BY <1>3 DEF IsDue, Good
    <2>3. /\ mem'[j] \in GoodJob /\ mem'[j].enabled /\ mem'[j].next = Never
          /\ mem'[j].kind = mem[j].kind /\ mem'[j].at = mem[j].at /\ mem'[j].ran = mem[j].ran
      BY <2>1, <2>2, CollectedKeeps
    <2> QED BY <1>1, <1>2, <2>1, <2>2, <2>3, Fields
  <1>4. CASE ~IsDue(j)
    <2>1. due'[j] = Never /\ mem'[j] = mem[j] /\ promised'[j] = promised[j]
      BY <1>4 DEF Collect
    <2> QED BY <1>1, <1>2, <2>1
  <1> QED BY <1>3, <1>4

(* A restart, for one job. *)
LEMMA BootEffect ==
    ASSUME Base, Good, Boot, NEW j \in Jobs
    PROVE  /\ disk[j] = NoJob => mem'[j] = NoJob
           /\ disk[j] # NoJob =>
                LET x == disk[j]
                    y == mem'[j]
                IN  /\ y # NoJob
                    /\ y.enabled = x.enabled /\ y.kind = x.kind /\ y.at = x.at /\ y.ran = x.ran
                    /\ \/ y.next = Never \/ y.next > now
                       \/ x.enabled /\ x.kind = "at" /\ ~x.ran /\ y.next = x.at
                    /\ x.enabled /\ x.kind = "at" /\ ~x.ran => y.next = x.at
                    /\ x.enabled /\ x.kind = "every" => y.next # Never
           /\ disk' = mem'
           /\ UNCHANGED <<now, due, crashes, consumed, promised>>
  <1>1. disk' = mem' /\ UNCHANGED <<now, due, crashes, consumed, promised>>
    BY DEF Boot, bounds, history
  <1>2. mem'[j] = Recomputed(disk[j])
    BY DEF Boot
  <1>3. CASE disk[j] = NoJob
    BY <1>1, <1>2, <1>3 DEF Recomputed
  <1>4. CASE disk[j] # NoJob
    <2>1. disk[j] \in GoodJob /\ now \in 0 .. MaxTime
      BY <1>4 DEF Good, Base, Counts
    <2>2. /\ mem'[j] \in GoodJob
          /\ mem'[j].enabled = disk[j].enabled /\ mem'[j].kind = disk[j].kind
          /\ mem'[j].at = disk[j].at /\ mem'[j].ran = disk[j].ran
          /\ \/ mem'[j].next = Never \/ mem'[j].next > now
             \/ disk[j].enabled /\ disk[j].kind = "at" /\ ~disk[j].ran /\ mem'[j].next = disk[j].at
          /\ disk[j].enabled /\ disk[j].kind = "at" /\ ~disk[j].ran => mem'[j].next = disk[j].at
          /\ disk[j].enabled /\ disk[j].kind = "every" => mem'[j].next # Never
      BY <1>2, <2>1, RecomputedKeeps
    <2>3. mem'[j] # NoJob
      BY <2>2, Fields
    <2> QED BY <1>1, <1>4, <2>2, <2>3
  <1> QED BY <1>3, <1>4

-----------------------------------------------------------------------------
(* The safety arguments.                                                   *)

(* The loop has taken the due time out of the job, and nobody puts it back. *)
LEMMA DueStep ==
    ASSUME Base, Good, UnderWay, DueIsTaken, [Next]_vars
    PROVE  DueIsTaken'
  <1> USE DEF DueIsTaken
  <1>1. ASSUME NEW j \in Jobs, NEW new, NEW promise, Edit(j, new, promise),
               SoundEdit(new, promise), born' \in {born, born \cup {j}}
        PROVE  DueIsTaken'
    BY <1>1 DEF Edit, SoundEdit, Base, Counts, Round, Good, Never
  <1>2. ASSUME NEW j \in Jobs, RunNow(j)
        PROVE  DueIsTaken'
    BY <1>2 DEF RunNow
  <1>3. ASSUME NEW j \in Jobs, CopyDue(j)
        PROVE  DueIsTaken'
    BY <1>3 DEF CopyDue, Base, Round
  <1>4. ASSUME NEW h \in Threads, StartHandler(h)
        PROVE  DueIsTaken'
    BY <1>4 DEF StartHandler
  <1>5. ASSUME NEW h \in Threads, PauseJob(h)
        PROVE  DueIsTaken'
    <2>1. PICK k \in Jobs, y \in GoodJob :
             /\ y.next = Never /\ mem' = [mem EXCEPT ![k] = y] /\ UNCHANGED <<now, due>>
      BY <1>5, PauseEffect
    <2> QED BY <2>1 DEF Good
  <1>6. ASSUME NEW h \in Threads, NEW o \in {"ok", "err", "panic"}, EndHandler(h, o)
        PROVE  DueIsTaken'
    BY <1>6 DEF EndHandler
  <1>7. ASSUME Collect
        PROVE  DueIsTaken'
    <2>1. ASSUME NEW j \in Jobs, due'[j] # Never
          PROVE  due'[j] <= now' /\ (mem'[j] # NoJob => mem'[j].next # due'[j])
      BY <1>7, <2>1, CollectEffect
    <2> QED BY <2>1
  <1>8. ASSUME WriteBackLoop
        PROVE  DueIsTaken'
    <2>1. PICK k \in Jobs, y \in GoodJob \cup {NoJob} :
             /\ mem' = [mem EXCEPT ![k] = y] /\ due' = [due EXCEPT ![k] = Never] /\ now' = now
      BY <1>8, LoopEffect
    <2> QED BY <2>1 DEF Good, Base, Round
  <1>9. ASSUME WriteBackManual
        PROVE  DueIsTaken'
    <2>1. PICK k \in Jobs, y \in GoodJob \cup {NoJob} :
             /\ mem[k] = NoJob <=> y = NoJob
             /\ y # NoJob => y.next = mem[k].next
             /\ mem' = [mem EXCEPT ![k] = y] /\ UNCHANGED <<now, due>>
      BY <1>9, ManualEffect
    <2> QED BY <2>1 DEF Good
  <1>10. ASSUME Tick
        PROVE  DueIsTaken'
    BY <1>10 DEF Tick, Base, Counts, Round
  <1>11. ASSUME Arm
        PROVE  DueIsTaken'
    BY <1>11 DEF Arm
  <1>12. ASSUME Crash
        PROVE  DueIsTaken'
    BY <1>12 DEF Crash
  <1>13. ASSUME Boot
        PROVE  DueIsTaken'
    BY <1>13 DEF Boot, UnderWay
  <1>14. ASSUME UNCHANGED vars
        PROVE  DueIsTaken'
    BY <1>14 DEF vars
  <1>e. ASSUME NEW j \in Jobs, Editing(j) PROVE DueIsTaken'
    BY <1>1, <1>2, <1>e, EditsAreSound DEF Base, Counts
  <1> QED BY <1>3, <1>4, <1>5, <1>6, <1>7, <1>8, <1>9, <1>10, <1>11, <1>12, <1>13, <1>14, <1>e DEF Next, Handling

(* A one-shot on record is spent in memory, in the file and in the round. *)
LEMMA ConsumedStep ==
    ASSUME Base, Good, UnderWay, DueIsTaken, ConsumedIsSpent, [Next]_vars
    PROVE  ConsumedIsSpent'
  <1> USE DEF ConsumedIsSpent, Spent, history
  <1>1. ASSUME NEW j \in Jobs, NEW new, NEW promise, Edit(j, new, promise),
               SoundEdit(new, promise), born' \in {born, born \cup {j}}
        PROVE  ConsumedIsSpent'
    <2> SUFFICES ASSUME NEW i \in Jobs, NEW a \in Times, <<i, a>> \in consumed
                 PROVE  (a <= now /\ due[i] # a /\ Spent(mem[i], a) /\ Spent(disk[i], a))'
      BY <1>1 DEF Edit
    <2>1. a <= now /\ due[i] # a /\ Spent(mem[i], a) /\ Spent(disk[i], a) /\ a # Never
      BY DEF Times, Never
    <2>2. UNCHANGED <<now, due>> /\ mem' = [mem EXCEPT ![j] = new] /\ disk' = mem'
      BY <1>1 DEF Edit
    <2>3. CASE i = j
      <3>1. /\ new # NoJob => new.next = Never \/ new.next > now
            /\ new # NoJob /\ new.enabled /\ new.kind = "at" => new.at > now
        BY <1>1 DEF SoundEdit
      <3>2. Spent(new, a)
        BY <2>1, <3>1 DEF Base, Counts, Times
      <3> QED BY <2>1, <2>2, <2>3, <3>2 DEF Good
    <2>4. CASE i # j
      BY <2>1, <2>2, <2>4 DEF Good
    <2> QED BY <2>3, <2>4
  <1>2. ASSUME NEW j \in Jobs, RunNow(j)
        PROVE  ConsumedIsSpent'
    BY <1>2 DEF RunNow
  <1>3. ASSUME NEW j \in Jobs, CopyDue(j)
        PROVE  ConsumedIsSpent'
    BY <1>3 DEF CopyDue, Base, Round, Times, Never
  <1>4. ASSUME NEW h \in Threads, StartHandler(h)
        PROVE  ConsumedIsSpent'
    BY <1>4 DEF StartHandler
  <1>5. ASSUME NEW h \in Threads, PauseJob(h)
        PROVE  ConsumedIsSpent'
    <2>1. PICK k \in Jobs, y \in GoodJob :
             /\ ~y.enabled /\ y.next = Never /\ mem' = [mem EXCEPT ![k] = y]
             /\ disk' = mem' \/ disk' = disk
             /\ UNCHANGED <<now, due, consumed>>
      BY <1>5, PauseEffect
    <2>2. \A a \in Times : Spent(y, a)
      BY <2>1 DEF Times, Never
    <2> QED BY <2>1, <2>2 DEF Good
  <1>6. ASSUME NEW h \in Threads, NEW o \in {"ok", "err", "panic"}, EndHandler(h, o)
        PROVE  ConsumedIsSpent'
    BY <1>6 DEF EndHandler
  <1>7. ASSUME Collect
        PROVE  ConsumedIsSpent'
    <2> SUFFICES ASSUME NEW j \in Jobs, NEW a \in Times, <<j, a>> \in consumed
                 PROVE  (a <= now /\ due[j] # a /\ Spent(mem[j], a) /\ Spent(disk[j], a))'
      BY <1>7, CollectEffect DEF Collect
    <2>1. a <= now /\ Spent(mem[j], a) /\ Spent(disk[j], a) /\ a # Never
      BY DEF Times, Never
    <2>2. now' = now /\ (disk' = mem' \/ disk' = disk)
      BY <1>7, CollectEffect
    <2>3. Spent(mem'[j], a) /\ due'[j] # a
      BY <1>7, <2>1, CollectEffect
    <2> QED BY <2>1, <2>2, <2>3
  <1>8. ASSUME WriteBackLoop
        PROVE  ConsumedIsSpent'
    <2>1. PICK k \in Jobs, y \in GoodJob \cup {NoJob} :
             /\ due[k] # Never
             /\ mem[k] = NoJob => y = NoJob
             /\ y # NoJob => /\ y.ran
                             /\ y.next = Never \/ y.next = mem[k].next \/ y.next > now
             /\ mem' = [mem EXCEPT ![k] = y] /\ (disk' = mem' \/ disk' = disk)
             /\ due' = [due EXCEPT ![k] = Never]
             /\ \/ consumed' = consumed
                \/ disk' = mem' /\ consumed' = consumed \cup {<<k, due[k]>>}
             /\ now' = now
      BY <1>8, LoopEffect
    <2>2. ASSUME NEW a \in Times, Spent(mem[k], a), a <= now PROVE Spent(y, a)
      BY <2>1, <2>2, Fields DEF Base, Counts, Times, Never
    <2>3. due[k] \in Times /\ due[k] <= now /\ Spent(y, due[k])
      <3>1. due[k] \in Times /\ due[k] <= now
        BY <2>1, CronBounds DEF Base, Round, Times, Never, DueIsTaken
      <3>2. mem[k] # NoJob => mem[k].next # due[k]
        BY <2>1 DEF DueIsTaken
      <3> QED BY <2>1, <3>1, <3>2, Fields DEF Base, Counts, Times, Never
    <2> SUFFICES ASSUME NEW j \in Jobs, NEW a \in Times, <<j, a>> \in consumed'
                 PROVE  (a <= now /\ due[j] # a /\ Spent(mem[j], a) /\ Spent(disk[j], a))'
      OBVIOUS
    <2>4. due'[j] # a
      <3>1. CASE j = k
        BY <2>1, <3>1 DEF Base, Round, Times, Never
      <3>2. CASE j # k
        BY <2>1, <3>2 DEF Base, Round
      <3> QED BY <3>1, <3>2
    <2>5. CASE <<j, a>> \in consumed
      <3>1. a <= now /\ Spent(mem[j], a) /\ Spent(disk[j], a)
        BY <2>5
      <3>2. Spent(mem'[j], a)
        <4>1. CASE j = k
          BY <2>1, <2>2, <3>1, <4>1 DEF Good
        <4>2. CASE j # k
          BY <2>1, <3>1, <4>2 DEF Good
        <4> QED BY <4>1, <4>2
      <3> QED BY <2>1, <2>4, <3>1, <3>2
    <2>6. CASE <<j, a>> \notin consumed
      <3>1. j = k /\ a = due[k] /\ disk' = mem'
        BY <2>1, <2>6
      <3>2. mem'[j] = y
        BY <2>1, <3>1 DEF Good
      <3> QED BY <2>1, <2>3, <2>4, <3>1, <3>2
    <2> QED BY <2>5, <2>6
  <1>9. ASSUME WriteBackManual
        PROVE  ConsumedIsSpent'
    <2>1. PICK k \in Jobs, y \in GoodJob \cup {NoJob} :
             /\ mem[k] = NoJob <=> y = NoJob
             /\ y # NoJob => y.ran /\ y.next = mem[k].next
             /\ mem' = [mem EXCEPT ![k] = y] /\ (disk' = mem' \/ disk' = disk)
             /\ UNCHANGED <<now, due, consumed>>
      BY <1>9, ManualEffect
    <2>2. ASSUME NEW a \in Times, Spent(mem[k], a) PROVE Spent(y, a)
      BY <2>1, <2>2
    <2> QED BY <2>1, <2>2 DEF Good
  <1>10. ASSUME Tick
        PROVE  ConsumedIsSpent'
    BY <1>10 DEF Tick, Base, Counts, Times
  <1>11. ASSUME Arm
        PROVE  ConsumedIsSpent'
    BY <1>11 DEF Arm
  <1>12. ASSUME Crash
        PROVE  ConsumedIsSpent'
    BY <1>12 DEF Crash, Times, Never
  <1>13. ASSUME Boot
        PROVE  ConsumedIsSpent'
    <2> SUFFICES ASSUME NEW j \in Jobs, NEW a \in Times, <<j, a>> \in consumed
                 PROVE  (a <= now /\ due[j] # a /\ Spent(mem[j], a) /\ Spent(disk[j], a))'
      BY <1>13 DEF Boot
    <2>1. a <= now /\ due[j] # a /\ Spent(disk[j], a) /\ a # Never
      BY DEF Times, Never
    <2>2. disk' = mem' /\ UNCHANGED <<now, due>>
      BY <1>13, BootEffect
    <2>3. Spent(mem'[j], a)
      <3>1. CASE disk[j] = NoJob
        BY <1>13, <3>1, BootEffect
      <3>2. CASE disk[j] # NoJob
        BY <1>13, <2>1, <3>2, BootEffect DEF Base, Counts, Times
      <3> QED BY <3>1, <3>2
    <2> QED BY <2>1, <2>2, <2>3
  <1>14. ASSUME UNCHANGED vars
        PROVE  ConsumedIsSpent'
    BY <1>14 DEF vars
  <1>e. ASSUME NEW j \in Jobs, Editing(j) PROVE ConsumedIsSpent'
    BY <1>1, <1>2, <1>e, EditsAreSound DEF Base, Counts
  <1> QED BY <1>3, <1>4, <1>5, <1>6, <1>7, <1>8, <1>9, <1>10, <1>11, <1>12, <1>13, <1>14, <1>e DEF Next, Handling

(* A promise survives whatever is in flight. *)
LEMMA PromiseStep ==
    ASSUME Base, Good, UnderWay, DueIsTaken, PromiseIsStored, [Next]_vars
    PROVE  PromiseIsStored'
  <1> USE DEF PromiseIsStored, Kept, Holds, history, bounds
  <1>1. ASSUME NEW j \in Jobs, NEW new, NEW promise, Edit(j, new, promise),
               SoundEdit(new, promise), born' \in {born, born \cup {j}}
        PROVE  PromiseIsStored'
    <2> SUFFICES ASSUME NEW i \in Jobs, promised'[i] # Never PROVE Kept(i)'
      OBVIOUS
    <2>1. /\ UNCHANGED <<gate, due, crashes>> /\ mem' = [mem EXCEPT ![j] = new] /\ disk' = mem'
          /\ promised' = [promised EXCEPT ![j] = promise]
      BY <1>1 DEF Edit, history
    <2>2. CASE i = j
      <3>1. mem'[i] = new /\ disk'[i] = new /\ promised'[i] = promise
        BY <2>1, <2>2 DEF Good, Base, Round
      <3>2. /\ new # NoJob /\ new.enabled /\ new.next = promise
            /\ new.kind = "at" => new.at = promise
        BY <1>1, <3>1 DEF SoundEdit
      <3> QED BY <2>1, <3>1, <3>2
    <2>3. CASE i # j
      <3>1. mem'[i] = mem[i] /\ disk'[i] = mem[i] /\ promised'[i] = promised[i]
        BY <2>1, <2>3 DEF Good, Base, Round
      <3> QED BY <2>1, <3>1
    <2> QED BY <2>2, <2>3
  <1>2. ASSUME NEW j \in Jobs, RunNow(j)
        PROVE  PromiseIsStored'
    BY <1>2 DEF RunNow
  <1>3. ASSUME NEW j \in Jobs, CopyDue(j)
        PROVE  PromiseIsStored'
    BY <1>3 DEF CopyDue, Base, Round
  <1>4. ASSUME NEW h \in Threads, StartHandler(h)
        PROVE  PromiseIsStored'
    BY <1>4 DEF StartHandler
  <1>5. ASSUME NEW h \in Threads, PauseJob(h)
        PROVE  PromiseIsStored'
    <2> SUFFICES ASSUME NEW i \in Jobs, promised'[i] # Never PROVE Kept(i)'
      OBVIOUS
    <2>1. PICK k \in Jobs, y \in GoodJob :
             /\ mem' = [mem EXCEPT ![k] = y] /\ (disk' = mem' \/ disk' = disk)
             /\ promised' = [promised EXCEPT ![k] = Never] /\ UNCHANGED <<due, gate, crashes>>
      BY <1>5, PauseEffect
    <2>2. i # k
      BY <2>1 DEF Base, Round
    <2>3. mem'[i] = mem[i] /\ promised'[i] = promised[i] /\ disk'[i] \in {mem[i], disk[i]}
      BY <2>1, <2>2 DEF Good, Base, Round
    <2> QED BY <2>1, <2>3
  <1>6. ASSUME NEW h \in Threads, NEW o \in {"ok", "err", "panic"}, EndHandler(h, o)
        PROVE  PromiseIsStored'
    BY <1>6 DEF EndHandler
  <1>7. ASSUME Collect
        PROVE  PromiseIsStored'
    <2> SUFFICES ASSUME NEW i \in Jobs, promised'[i] # Never PROVE Kept(i)'
      OBVIOUS
    <2>1. due'[i] = Never /\ mem'[i] = mem[i] /\ promised'[i] = promised[i]
      BY <1>7, CollectEffect
    <2>2. disk'[i] \in {mem[i], disk[i]} /\ UNCHANGED <<gate, crashes>>
      BY <1>7, <2>1, CollectEffect
    <2> QED BY <2>1, <2>2
  <1>8. ASSUME WriteBackLoop
        PROVE  PromiseIsStored'
    <2> SUFFICES ASSUME NEW i \in Jobs, promised'[i] # Never PROVE Kept(i)'
      OBVIOUS
    <2>1. PICK k \in Jobs, y \in GoodJob \cup {NoJob} :
             /\ due[k] # Never
             /\ y # NoJob => y.kind = mem[k].kind /\ y.at = mem[k].at
             /\ mem[k] # NoJob /\ mem[k].enabled /\ mem[k].kind = "at" /\ mem[k].next # Never =>
                  y # NoJob /\ y.enabled /\ y.next = mem[k].next
             /\ mem[k] # NoJob /\ mem[k].enabled /\ mem[k].kind = "every" =>
                  y # NoJob /\ y.enabled /\ y.next # Never
             /\ mem' = [mem EXCEPT ![k] = y] /\ (disk' = mem' \/ disk' = disk)
             /\ due' = [due EXCEPT ![k] = Never]
             /\ UNCHANGED <<gate, crashes, promised>>
      BY <1>8, LoopEffect
    <2>2. CASE i # k
      <3>1. mem'[i] = mem[i] /\ disk'[i] \in {mem[i], disk[i]} /\ due'[i] = due[i]
        BY <2>1, <2>2 DEF Good, Base, Round
      <3> QED BY <2>1, <3>1
    <2>3. CASE i = k
      <3>1. mem'[i] = y /\ disk'[i] \in {y, disk[i]} /\ due'[i] = Never
        BY <2>1, <2>3 DEF Good, Base, Round
      <3>2. mem[k] # NoJob /\ mem[k].enabled /\ Holds(mem[k], promised[k]) /\ Holds(disk[k], promised[k])
        BY <2>1, <2>3
      <3>3. mem[k].kind \in {"at", "every"}
        BY <3>2, Fields DEF Good
      <3>4. CASE mem[k].kind = "at"
        <4>1. mem[k].next = promised[k] /\ promised[k] # Never
          BY <2>1, <2>3, <3>4
        <4>2. y # NoJob /\ y.enabled /\ y.next = promised[k] /\ y.at = promised[k]
          BY <2>1, <3>2, <3>4, <4>1
        <4> QED BY <2>1, <2>3, <3>1, <3>2, <4>2
      <3>5. CASE mem[k].kind = "every"
        <4>1. y # NoJob /\ y.enabled /\ y.next # Never /\ y.kind = "every"
          BY <2>1, <3>2, <3>5
        <4> QED BY <2>1, <2>3, <3>1, <3>2, <4>1
      <3> QED BY <3>3, <3>4, <3>5
    <2> QED BY <2>2, <2>3
  <1>9. ASSUME WriteBackManual
        PROVE  PromiseIsStored'
    <2> SUFFICES ASSUME NEW i \in Jobs, promised'[i] # Never PROVE Kept(i)'
      OBVIOUS
    <2>1. PICK k \in Jobs, y \in GoodJob \cup {NoJob} :
             /\ mem[k] = NoJob <=> y = NoJob
             /\ y # NoJob => /\ y.ran /\ y.enabled = mem[k].enabled /\ y.kind = mem[k].kind
                             /\ y.at = mem[k].at /\ y.next = mem[k].next
             /\ mem' = [mem EXCEPT ![k] = y] /\ (disk' = mem' \/ disk' = disk)
             /\ UNCHANGED <<due, gate, crashes, promised>>
      BY <1>9, ManualEffect
    <2>2. CASE i # k
      <3>1. mem'[i] = mem[i] /\ disk'[i] \in {mem[i], disk[i]}
        BY <2>1, <2>2 DEF Good
      <3> QED BY <2>1, <3>1
    <2>3. CASE i = k
      <3>1. mem'[i] = y /\ disk'[i] \in {y, disk[i]} /\ mem[k] # NoJob
        BY <2>1, <2>3 DEF Good
      <3> QED BY <2>1, <2>3, <3>1
    <2> QED BY <2>2, <2>3
  <1>10. ASSUME Tick
        PROVE  PromiseIsStored'
    BY <1>10 DEF Tick
  <1>11. ASSUME Arm
        PROVE  PromiseIsStored'
    BY <1>11 DEF Arm
  <1>12. ASSUME Crash
        PROVE  PromiseIsStored'
    <2>1. UNCHANGED <<mem, disk, promised>> /\ gate' = "down" /\ \A i \in Jobs : due'[i] = Never
      BY <1>12 DEF Crash
    <2> QED BY <2>1
  <1>13. ASSUME Boot
        PROVE  PromiseIsStored'
    <2> SUFFICES ASSUME NEW i \in Jobs, promised'[i] # Never PROVE Kept(i)'
      OBVIOUS
    <2>1. /\ disk' = mem' /\ UNCHANGED <<due, crashes, promised>>
          /\ due[i] = Never /\ crashes > 0
      BY <1>13, BootEffect DEF Boot, UnderWay
    <2>2. Holds(disk[i], promised[i])
      BY <2>1
    <2>3. disk[i].kind \in {"at", "every"} /\ disk[i].ran \in BOOLEAN
      BY <2>2, Fields DEF Good
    <2>4. /\ mem'[i] # NoJob
          /\ mem'[i].enabled = disk[i].enabled /\ mem'[i].kind = disk[i].kind
          /\ mem'[i].at = disk[i].at /\ mem'[i].ran = disk[i].ran
          /\ disk[i].enabled /\ disk[i].kind = "at" /\ ~disk[i].ran => mem'[i].next = disk[i].at
          /\ disk[i].enabled /\ disk[i].kind = "every" => mem'[i].next # Never
      BY <1>13, <2>2, BootEffect
    <2> QED BY <2>1, <2>2, <2>3, <2>4
  <1>14. ASSUME UNCHANGED vars
        PROVE  PromiseIsStored'
    BY <1>14 DEF vars
  <1>e. ASSUME NEW j \in Jobs, Editing(j) PROVE PromiseIsStored'
    BY <1>1, <1>2, <1>e, EditsAreSound DEF Base, Counts
  <1> QED BY <1>3, <1>4, <1>5, <1>6, <1>7, <1>8, <1>9, <1>10, <1>11, <1>12, <1>13, <1>14, <1>e DEF Next, Handling

-----------------------------------------------------------------------------
(* The invariant holds at the start, ... *)
LEMMA InvInit == Init => CronInv
  <1> SUFFICES ASSUME Init PROVE CronInv
    OBVIOUS
  <1>1. Base
    BY CronBounds DEF Init, Base, Counts, Runs, Round, Never
  <1>2. Good /\ UnderWay
    BY DEF Init, Good, UnderWay, Threads
  <1>3. ConsumedIsSpent /\ DueIsTaken /\ PromiseIsStored
    BY DEF Init, ConsumedIsSpent, DueIsTaken, PromiseIsStored
  <1> QED BY <1>1, <1>2, <1>3 DEF CronInv

(* ... and every step keeps it. *)
LEMMA InvStep == CronInv /\ [Next]_vars => CronInv'
  <1> SUFFICES ASSUME CronInv, [Next]_vars PROVE CronInv'
    OBVIOUS
  <1>1. Base /\ Good /\ UnderWay /\ ConsumedIsSpent /\ DueIsTaken /\ PromiseIsStored
    BY DEF CronInv
  <1>2. Base'
    BY <1>1, CountsStep, RunsStep, RoundStep DEF Base
  <1>3. Good' /\ UnderWay'
    BY <1>1, GoodStep, UnderWayStep
  <1>4. ConsumedIsSpent' /\ DueIsTaken' /\ PromiseIsStored'
    BY <1>1, ConsumedStep, DueStep, PromiseStep
  <1> QED BY <1>2, <1>3, <1>4 DEF CronInv

(* The store mutex is released around every handler: this is what each critical
   section finds and leaves, whatever happened in between.  A time the loop has
   taken is no longer in the job, an executed one-shot is spent in memory and in
   the file, and a promise is in both. *)
THEOREM CronInvariant == Spec => []CronInv
  BY InvInit, InvStep, PTL DEF Spec

(* Every variable keeps its type (for any jobs, times, faults and restarts). *)
THEOREM TypeCorrect == Spec => []TypeOK
  <1>1. CronInv => TypeOK
    <2> SUFFICES ASSUME CronInv PROVE TypeOK
      OBVIOUS
    <2>1. GoodJob \subseteq CronJob
      BY DEF GoodJob
    <2> QED BY <2>1 DEF CronInv, Base, Counts, Runs, Round, Good, TypeOK
  <1> QED BY <1>1, CronInvariant, PTL

(* pause_job, toggle, patch and the write-back after a run leave no next run
   with a job that is switched off. *)
THEOREM OffIsOff == Spec => []DisabledIsNotScheduled
  <1>1. CronInv => DisabledIsNotScheduled
    BY Fields DEF CronInv, Good, DisabledIsNotScheduled
  <1> QED BY <1>1, CronInvariant, PTL

(* Neither collect_and_reset_due nor the write-back of an earlier run nor
   recompute_next_runs loses a schedule a user was given. *)
THEOREM PromisesHold == Spec => []PromiseKept
  <1>1. CronInv => PromiseKept
    BY DEF CronInv, PromiseIsStored, Kept, Holds, PromiseKept
  <1> QED BY <1>1, CronInvariant, PTL

(* A one-shot whose execution was saved is not collected for that time again,
   neither by the loop nor after recompute_next_runs. *)
THEOREM NoReplay == Spec => []NotReplayed
  <1>1. CronInv => NotReplayed
    <2> SUFFICES ASSUME CronInv, NEW j \in Jobs, due[j] # Never, <<j, due[j]>> \in consumed
                 PROVE  FALSE
      BY DEF NotReplayed
    <2>1. due[j] \in Times
      BY DEF CronInv, Base, Round, Times, Never
    <2> QED BY <2>1 DEF CronInv, ConsumedIsSpent
  <1> QED BY <1>1, CronInvariant, PTL
=============================================================================
