-------------------------- MODULE TaskResultStore --------------------------
(***************************************************************************)
(* The worker's result store (nemesis-cluster: task_result_store.rs), what *)
(* query_task_result answers from: a bounded map in memory and one file    *)
(* per task.  The mutex covers the map only; it is released around every   *)
(* file operation, so the calls of RPC threads and of the agent loop       *)
(* interleave between map and file, and a crash may separate the two.      *)
(***************************************************************************)
EXTENDS Naturals, FiniteSets, FiniteSetsExt

CONSTANTS
    Tasks,
    Threads,    \* RPC threads and the agent loop
    MaxSize,    \* max_size
    MaxCrashes  \* bound: process crashes

ASSUME StoreBounds == MaxSize \in Nat \ {0} /\ MaxCrashes \in Nat

VARIABLES
    mem,      \* results: the map behind the mutex
    disk,     \* the files of cache_dir
    thread,   \* where each thread stands in store() or remove()
    clock,    \* Local::now(), one tick per store
    phase,    \* per task: what its handler and the agent loop have called so far
    evicted,  \* history: tasks whose entry had to make room for another
    crashes

vars == <<mem, disk, thread, clock, phase, evicted, crashes>>

Nothing == [kind |-> "none", at |-> 0]
Entries == {Nothing} \cup [kind : {"running", "result"}, at : Nat]
Idle    == [pc |-> "idle"]
Evicting(t, e, old) == [pc |-> "evicted", task |-> t, entry |-> e, victim |-> old]
Storing(at, t, e)   == [pc |-> at, task |-> t, entry |-> e]
Unlinking(t)        == [pc |-> "unlink", task |-> t]

TypeOK ==
    /\ mem \in [Tasks -> Entries]
    /\ disk \in [Tasks -> Entries]
    /\ thread \in [Threads ->
          {Idle}
          \cup [pc : {"evicted"}, task : Tasks, entry : Entries, victim : Tasks]
          \cup [pc : {"insert", "write"}, task : Tasks, entry : Entries]
          \cup [pc : {"unlink"}, task : Tasks]]
    /\ clock \in Nat
    /\ phase \in [Tasks -> {"new", "running", "reported"}]
    /\ evicted \subseteq Tasks
    /\ crashes \in 0..MaxCrashes

Init ==
    /\ mem = [t \in Tasks |-> Nothing]
    /\ disk = [t \in Tasks |-> Nothing]
    /\ thread = [w \in Threads |-> Idle]
    /\ clock = 0
    /\ phase = [t \in Tasks |-> "new"]
    /\ evicted = {}
    /\ crashes = 0

-----------------------------------------------------------------------------
Held == {t \in Tasks : mem[t] # Nothing}

Busy(t) == \E w \in Threads :
              \/ thread[w].pc \in {"evicted", "insert", "write", "unlink"} /\ thread[w].task = t
              \/ thread[w].pc = "evicted" /\ thread[w].victim = t

(* oldest_stored_key *)
OldestStoredKey(t) == t \in Held /\ \A u \in Held : mem[t].at <= mem[u].at

Fits == Cardinality(Held) < MaxSize

(* store(), first critical section: at capacity the oldest entry goes, also
   when the task itself is already in the map; otherwise insert at once.    *)
Store(w, t, kind) ==
    LET e == [kind |-> kind, at |-> clock + 1]
    IN  /\ thread[w] = Idle
        /\ clock' = clock + 1
        /\ \/ /\ Fits
              /\ mem' = [mem EXCEPT ![t] = e]
              /\ thread' = [thread EXCEPT ![w] = Storing("write", t, e)]
              /\ UNCHANGED evicted
           \/ \E old \in Tasks :
                 /\ ~Fits /\ OldestStoredKey(old)
                 /\ mem' = [mem EXCEPT ![old] = Nothing]
                 /\ evicted' = evicted \cup {old}
                 /\ thread' = [thread EXCEPT ![w] = Evicting(t, e, old)]

(* TaskResultPersister::set_running, before the task is queued. *)
SetRunning(w, t) ==
    /\ phase[t] = "new"
    /\ Store(w, t, "running")
    /\ phase' = [phase EXCEPT ![t] = "running"]
    /\ UNCHANGED <<disk, crashes>>

(* set_result: the callback failed; set_running has returned long ago. *)
SetResult(w, t) ==
    /\ phase[t] = "running" /\ ~\E v \in Threads : thread[v] # Idle /\ thread[v].task = t
    /\ Store(w, t, "result")
    /\ phase' = [phase EXCEPT ![t] = "reported"]
    /\ UNCHANGED <<disk, crashes>>

(* store(), lock released: the file of the evicted entry is deleted. *)
DeleteEvicted(w) ==
    /\ thread[w].pc = "evicted"
    /\ disk' = [disk EXCEPT ![thread[w].victim] = Nothing]
    /\ thread' = [thread EXCEPT ![w] = Storing("insert", thread[w].task, thread[w].entry)]
    /\ UNCHANGED <<mem, clock, phase, evicted, crashes>>

(* store(), lock taken again: insert without looking at the size. *)
Insert(w) ==
    /\ thread[w].pc = "insert"
    /\ mem' = [mem EXCEPT ![thread[w].task] = thread[w].entry]
    /\ thread' = [thread EXCEPT ![w] = Storing("write", thread[w].task, thread[w].entry)]
    /\ UNCHANGED <<disk, clock, phase, evicted, crashes>>

(* Mutant: a result that replaces a placeholder is only kept in memory. *)
WriteToDisk_NewOnly(w) ==
    /\ thread[w].pc = "write"
    /\ disk' = IF disk[thread[w].task] = Nothing
               THEN [disk EXCEPT ![thread[w].task] = thread[w].entry] ELSE disk
    /\ thread' = [thread EXCEPT ![w] = Idle]
    /\ UNCHANGED <<mem, clock, phase, evicted, crashes>>

(* write_to_disk *)
WriteToDisk(w) ==
    /\ thread[w].pc = "write"
    /\ disk' = [disk EXCEPT ![thread[w].task] = thread[w].entry]
    /\ thread' = [thread EXCEPT ![w] = Idle]
    /\ UNCHANGED <<mem, clock, phase, evicted, crashes>>

(* remove: what is not in the map is left alone, on disk as well. *)
Remove(w, t) ==
    /\ thread[w] = Idle
    /\ mem' = [mem EXCEPT ![t] = Nothing]
    /\ thread' = [thread EXCEPT ![w] = IF mem[t] = Nothing THEN Idle
                                       ELSE Unlinking(t)]
    /\ UNCHANGED <<disk, clock, evicted, crashes>>

DeleteFromDisk(w) ==
    /\ thread[w].pc = "unlink"
    /\ disk' = [disk EXCEPT ![thread[w].task] = Nothing]
    /\ thread' = [thread EXCEPT ![w] = Idle]
    /\ UNCHANGED <<mem, clock, phase, evicted, crashes>>

(* The callback was delivered: TaskResultPersister::delete. *)
DeleteDelivered(w, t) ==
    /\ phase[t] = "running" /\ ~\E v \in Threads : thread[v] # Idle /\ thread[v].task = t
    /\ Remove(w, t)
    /\ phase' = [phase EXCEPT ![t] = "reported"]

(* confirm_task_delivery: the requester has read a result and taken it. *)
ConfirmDelivery(w, t) ==
    /\ mem[t].kind = "result"
    /\ Remove(w, t)
    /\ UNCHANGED phase

-----------------------------------------------------------------------------
(* Mutant: placeholders are loaded like results (Bug D). *)
Loadable_Placeholders(files) == {t \in Tasks : files[t] # Nothing}

(* load_from_disk leaves running placeholders out. *)
Loadable(files) == {t \in Tasks : files[t].kind = "result"}

(* sweep_older_than at the start: files older than 7 days go. *)
Unswept(cut) == [t \in Tasks |-> IF disk[t].at <= cut THEN Nothing ELSE disk[t]]

Placeholders(files) == {t \in Tasks : files[t].kind = "running"}

(* load_from_disk: results are loaded until the map is full, in the order of
   file names; placeholders are dropped, but those sorted after the last
   result loaded stay.                                                      *)
LoadFromDisk(files) ==
    \E load \in SUBSET Loadable(files), left \in SUBSET Placeholders(files) :
       /\ Cardinality(load) = Min({MaxSize, Cardinality(Loadable(files))})
       /\ load = Loadable(files) => left = {}
       /\ mem' = [t \in Tasks |-> IF t \in load THEN files[t] ELSE Nothing]
       /\ disk' = [t \in Tasks |-> IF t \in Placeholders(files) \ left THEN Nothing ELSE files[t]]

CrashAndReload ==
    /\ crashes < MaxCrashes
    /\ crashes' = crashes + 1
    /\ \E cut \in 0..clock : LoadFromDisk(Unswept(cut))
    /\ thread' = [w \in Threads |-> Idle]
    /\ UNCHANGED <<clock, phase, evicted>>

-----------------------------------------------------------------------------
Next ==
    \/ \E w \in Threads, t \in Tasks :
          SetRunning(w, t) \/ SetResult(w, t) \/ DeleteDelivered(w, t) \/ ConfirmDelivery(w, t)
    \/ \E w \in Threads :
          DeleteEvicted(w) \/ Insert(w) \/ WriteToDisk(w) \/ DeleteFromDisk(w)
    \/ CrashAndReload

Spec == Init /\ [][Next]_vars

-----------------------------------------------------------------------------
(* Properties.                                                             *)

(* query_task_result never goes back from a result to "running": not when a
   result replaces its placeholder, not when an eviction or a crash falls
   between map and file, not when an old file is loaded again.             *)
ResultNotUndone ==
    [][\A t \in Tasks : /\ mem[t].kind = "result" => mem'[t].kind # "running"
                        /\ phase[t] = "reported" /\ mem[t] = Nothing
                              => mem'[t].kind # "running"]_vars

(* "Each result is written to {cache_dir}/{task_id}.json and can be restored
   on startup": when no call on the task is under way, the file of a result
   in memory is there and holds the same result.  An entry that was evicted
   once is excepted: store() deletes its file with the lock released and may
   hit the file of the result stored meanwhile.                             *)
StoredIsDurable ==
    \A t \in Tasks \ evicted : mem[t].kind = "result" /\ ~Busy(t) => disk[t] = mem[t]
=============================================================================
