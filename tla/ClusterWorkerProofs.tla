------------------------ MODULE ClusterWorkerProofs ------------------------
(***************************************************************************)
(* Proofs about the worker, for any number of tasks, delegations,          *)
(* cancellers and crashes and any queue capacity.                          *)
(***************************************************************************)
EXTENDS ClusterWorker, FiniteSetTheorems, TLAPS

(* The agent loop holds a task, and a child, where it uses one. *)
AgentShape ==
    /\ agent.pc \notin {"idle", "select"} => agent.task \in Tasks
    /\ agent.pc \in {"called", "saving"} => agent.child \in Children
    /\ agent.pc \in {"idle", "select", "started", "running", "report", "finish", "called", "saving"}

(* Only a callback handler that is under way has a parent in hand. *)
InHand   == {"found", "discard", "injected"}
ChildInv ==
    \A k \in Children : IF child[k].st \in InHand THEN child[k].parent \in Tasks
                        ELSE child[k].parent = NoTask

(* The parts of TypeOK that are proved together. *)
FilesOK ==
    /\ disk \in Index
    /\ flush \in [Writers -> {Synced} \cup [pc : {"write"}, index : Index]]
QueuesOK ==
    /\ queue \in [Lanes -> Seq(Tasks)]
    /\ \A m \in Lanes : Len(queue[m]) <= QueueCap
SetsOK ==
    /\ token \in SUBSET Tasks /\ stale \in SUBSET Tasks
    /\ cancel \in [Cancellers -> {Resting} \cup [pc : {"read"}, task : Tasks, seen : Live]]
    /\ stopped \in SUBSET Tasks /\ dropped \in SUBSET Tasks /\ lost \in SUBSET Tasks
CountsOK ==
    /\ store \in [Tasks -> {"none", "running", "done"}]
    /\ sends \in [Tasks -> 0..MaxSends]
    /\ reports \in [Tasks -> Nat] /\ scratch \in [Tasks -> Nat]
    /\ crashes \in 0..MaxCrashes
ChildOK ==
    /\ ChildInv
    /\ child \in [Children -> [st : {"unused", "out", "found", "discard", "injected",
                                     "answered", "stray"},
                               parent : Tasks \cup {NoTask}]]

(* Of a task that was started from scratch n times: an entry waits for the call
   that it made, and has no result yet; it has a conversation only if it ran;
   and until it is started again its result answers its call.  So in the list,
   in the file and in every write under way.                                *)
SoundEntry(n, e) ==
    /\ e.wait # NoChild => e.wait = e.asked /\ e.got = NoChild
    /\ e.asked # NoChild => n >= 1
    /\ e.asked # NoChild /\ e.got # NoChild /\ n <= 1 => e.got = e.asked
SoundIndex(i, ran) == \A t \in Tasks : SoundEntry(ran[t], i[t])
AnswerInv ==
    /\ SoundIndex(list, scratch)
    /\ SoundIndex(disk, scratch)
    /\ \A w \in Writers : flush[w].pc = "write" => SoundIndex(flush[w].index, scratch)

(* Until it is started again, the task a callback handler has found is not being
   executed and has made no other call, and no second handler has found it.  *)
Executing(t) == agent.pc \in {"started", "running", "called", "saving"} /\ agent.task = t
HasFound(k, t) == child[k].st = "found" /\ child[k].parent = t
RanInv  == \A t \in Tasks :
    Executing(t) => scratch[t] >= 1 /\ (scratch[t] <= 1 => list[t].wait = NoChild)
FoundInv == \A t \in Tasks, k \in Children : HasFound(k, t) =>
    /\ scratch[t] >= 1
    /\ scratch[t] <= 1 =>
          /\ ~Executing(t) /\ list[t].got = NoChild /\ list[t].asked \in {NoChild, k}
          /\ \A j \in Children : HasFound(j, t) => j = k

(* Why the worker may have dropped a task. *)
Excused(t) == reports[t] > 0 \/ t \in stopped \cup dropped \cup lost

(* A cancelled entry was cancelled by a requester, a failed one is being
   reported, and a task with no entry, or about to lose it, is excused or being
   reported.                                                                *)
Reporting(t) == agent.pc \in {"report", "finish"} /\ agent.task = t
ForgetInv ==
    /\ \A t \in Tasks : list[t].st = "Cancelled" => t \in stopped
    /\ \A t \in Tasks : list[t].st = "Failed" => Reporting(t)
    /\ \A t \in Tasks : sends[t] > 0 /\ list[t].st = "none" => Excused(t) \/ Reporting(t)
    /\ \A t \in Tasks : t \in stale => Excused(t) \/ Reporting(t)
    /\ \A k \in Children : child[k].st = "discard" => child[k].parent \in stopped
    /\ agent.pc = "finish" => reports[agent.task] > 0

(* Until a crash, what is in the list and not reported is in the store. *)
VisibleInv ==
    crashes = 0 => \A t \in Tasks : list[t].st # "none" /\ reports[t] = 0 => store[t] # "none"

(* The part of EntryHasKeeper that is about Pending entries. *)
PendingIsQueued ==
    \A t \in Tasks : list[t].st = "Pending" =>
        Queued(t) \/ t \in dropped \/ \E k \in Children : child[k].parent = t

(* What the worker still owes reports for: the execution under way, or else the
   entry; and every report was for a delivery or a crash.                    *)
Credit(t) == IF On(t) THEN IF agent.pc = "finish" THEN 0 ELSE 1
             ELSE IF list[t].st # "none" THEN 1 ELSE 0
CreditInv == \A t \in Tasks : reports[t] + Credit(t) <= sends[t] + crashes

(* The calls that were made and whose run has unwound; every index, in memory,
   in the file or under way to it, has at most one task wait for each of them
   and none for any other, and the call of the run that is unwinding is still
   open.  Only the task a handler has found still waits for its call.        *)
Calling == agent.pc \in {"called", "saving"}
Unwound == {k \in Children : child[k].st # "unused" /\ ~(Calling /\ agent.child = k)}
WaitIndex(i, S) ==
    /\ \A t \in Tasks : i[t].wait \in S \cup {NoChild}
    /\ \A t, u \in Tasks : i[t].wait = i[u].wait /\ i[t].wait # NoChild => t = u
FilesWait ==
    /\ WaitIndex(disk, Unwound)
    /\ \A w \in Writers : flush[w].pc = "write" => WaitIndex(flush[w].index, Unwound)
CallOpen == Calling => child[agent.child].st \in {"out", "stray"}
OnlyFound ==
    \A k \in Children, t \in Tasks :
        child[k].st = "found" /\ list[t].wait = k => child[k].parent = t
WaitInv ==
    /\ WaitIndex(list, Unwound)
    /\ FilesWait
    /\ CallOpen
    /\ OnlyFound

(* The part of EntryHasKeeper that is about Running and parked entries. *)
Open      == {"out", "found", "stray"}
KeeperInv ==
    /\ \A t \in Tasks : list[t].st = "Running" => On(t)
    /\ \A t \in Tasks : list[t].st = "WaitingRemote" =>
           list[t].wait # NoChild /\ child[list[t].wait].st \in Open

(* One token per delivery: without a crash, a task that was delivered once is
   in one place only - once in the queue, with the agent loop, parked, or in a
   callback handler's hands - and once it has been executed it is queued only
   with a conversation to resume.                                            *)
QueuedOnce(t) ==
    \A l, m \in Lanes : \A i \in 1..Len(queue[l]), j \in 1..Len(queue[m]) :
        queue[l][i] = t /\ queue[m][j] = t => l = m /\ i = j
Parked(t) == list[t].st # "none" /\ list[t].wait # NoChild
Woken(t)  == \E k \in Children : child[k].st = "injected" /\ child[k].parent = t
Held(k, t) == child[k].st # "injected" /\ child[k].parent = t
OnePlace(t) ==
    /\ Queued(t) => ~On(t) /\ ~Parked(t) /\ ~Awaited(t)
    /\ On(t) => ~Parked(t) /\ ~Awaited(t)
    /\ Parked(t) => ~Woken(t)
    /\ \A k \in Children : Held(k, t) /\ list[t].st # "none" => list[t].wait = k
    /\ \A j, k \in Children : child[j].parent = t /\ child[k].parent = t => j = k
OneToken(t) ==
    /\ QueuedOnce(t) /\ OnePlace(t)
    /\ (Queued(t) \/ Woken(t)) /\ scratch[t] > 0 /\ list[t].st # "none" => Resumable(list[t])
    /\ scratch[t] <= sends[t]
    /\ sends[t] = 0 => list[t].st = "none" /\ ~Queued(t) /\ ~On(t) /\ ~Awaited(t)
ScratchInv == \A t \in Tasks : sends[t] <= 1 /\ crashes = 0 => OneToken(t)

(* A step that gives the task no token it did not have. *)
NoMore(t) ==
    /\ QueuedOnce(t)' /\ (Queued(t)' => Queued(t))
    /\ On(t)' => On(t)
    /\ list'[t].st # "none" => /\ list[t].st # "none" /\ list'[t].wait = list[t].wait
                               /\ Resumable(list[t]) => Resumable(list'[t])
    /\ \A k \in Children : child'[k].parent = t => child'[k] = child[k]
    /\ sends'[t] = sends[t] /\ scratch'[t] = scratch[t]

(* The steps of a callback handler, entry by entry. *)
Handed(k, t) ==
    /\ child'[k].parent = t /\ \A j \in Children : j # k => child'[j] = child[j]
    /\ UNCHANGED <<disk, queue, agent, token, hit, cancel, store, stale>>
    /\ UNCHANGED <<sends, reports, scratch, stopped, dropped, lost, crashes>>
FindShape(k, t) ==
    /\ child[k].st = "out" /\ child[k].parent = NoTask
    /\ list[t].st # "none" /\ list[t].wait = k
    /\ child'[k].st = "found" /\ UNCHANGED <<list, flush>> /\ Handed(k, t)
InjectShape(k, t) ==
    /\ HasFound(k, t) /\ list[t].st # "Cancelled"
    /\ \A u \in Tasks : u # t => list'[u] = list[u]
    /\ list'[t] = IF list[t].st = "none" THEN list[t]
                  ELSE [st |-> "Pending", wait |-> NoChild, asked |-> list[t].asked, got |-> k]
    /\ child'[k].st = "injected" /\ Handed(k, t) /\ PersistToDisk(k)
DropShape(k, t) ==
    /\ child[k].st = "discard" /\ child[k].parent = t
    /\ \A u \in Tasks : u # t => list'[u] = list[u]
    /\ list'[t] = None
    /\ child'[k].st = "injected" /\ Handed(k, t) /\ PersistToDisk(k)

WorkerInv ==
    /\ TypeOK /\ ChildInv /\ AnswerInv /\ RanInv /\ FoundInv /\ ForgetInv /\ VisibleInv
    /\ PendingIsQueued /\ CreditInv /\ WaitInv /\ KeeperInv /\ ScratchInv

-----------------------------------------------------------------------------
USE NullsFresh, EvidenceAre, WorkerBounds

LEMMA AgentHas ==
    ASSUME TypeOK
    PROVE  AgentShape
BY DEF TypeOK, AgentShape, Agents, Resting

(* What is written to disk is an index. *)
LEMMA PersistedIsIndex ==
    ASSUME NEW i \in Index
    PROVE  Persisted(i) \in Index
BY DEF Persisted, Index, Entry, None, Live, Terminal

LEMMA UpdatedIsIndex ==
    ASSUME NEW i \in Index, NEW t \in Tasks, NEW st \in Live \cup Terminal
    PROVE  UpdateStatus(i, t, st) \in Index
BY DEF UpdateStatus, Moved, Index, Entry

LEMMA NoneIsEntry == None \in Entry
BY DEF None, Entry

LEMMA RecoveredIsIndex ==
    ASSUME disk \in Index
    PROVE  Recovered \in Index
BY DEF Recovered, Moved, None, Index, Entry, Live

LEMMA HeadIsTask ==
    ASSUME TypeOK, NEW l \in Lanes, queue[l] # <<>>
    PROVE  Head(queue[l]) \in Tasks
BY DEF TypeOK

(* What the steps of a callback handler do, entry by entry. *)
LEMMA Finds ==
    ASSUME TypeOK, ChildInv, NEW k \in Children, FindParent(k)
    PROVE  \E t \in Tasks : FindShape(k, t)
<1>1. PICK t \in Tasks : /\ WaitsFor(t, k)
                         /\ child' = [child EXCEPT ![k] = [st |-> "found", parent |-> t]]
  BY DEF FindParent
<1>2. child[k].parent = NoTask
  BY DEF FindParent, ChildInv, InHand
<1>3. FindShape(k, t)
  BY <1>1, <1>2 DEF FindParent, FindShape, Handed, WaitsFor, TypeOK, history
<1> QED BY <1>3

LEMMA Injects ==
    ASSUME TypeOK, ChildInv, NEW k \in Children, InjectCallback(k)
    PROVE  \E t \in Tasks : InjectShape(k, t)
<1>1. PICK t \in Tasks : child[k].parent = t
  BY DEF InjectCallback, ChildInv, InHand
<1>2. InjectShape(k, t)
  BY <1>1 DEF InjectCallback, InjectShape, Handed, HasFound, TypeOK, Index, history
<1> QED BY <1>2

LEMMA Drops ==
    ASSUME TypeOK, ChildInv, NEW k \in Children, DropCancelled(k)
    PROVE  \E t \in Tasks : DropShape(k, t)
<1>1. PICK t \in Tasks : child[k].parent = t
  BY DEF DropCancelled, ChildInv, InHand
<1>2. DropShape(k, t)
  BY <1>1 DEF DropCancelled, CompleteTask, DropShape, Handed, TypeOK, Index, history
<1> QED BY <1>2

LEMMA CancelHas ==
    ASSUME TypeOK, NEW c \in Cancellers, cancel[c].pc = "read"
    PROVE  cancel[c].task \in Tasks /\ cancel[c].seen \in Live
BY DEF TypeOK, Resting

(* The list stays an index. *)
LEMMA ListType ==
    ASSUME TypeOK, ChildInv, list \in Index, [Next]_vars
    PROVE  list' \in Index
<1>1. CASE UNCHANGED vars
  BY <1>1 DEF vars, core, history
<1>2. CASE PriorityEmpty
  BY <1>2 DEF PriorityEmpty, core, history
<1>3. ASSUME NEW l \in Lanes, DequeueMissing(l) PROVE list' \in Index
  BY <1>3 DEF DequeueMissing, core, history
<1>4. ASSUME NEW l \in Lanes, DequeueCancelled(l) PROVE list' \in Index
  <2>1. Head(queue[l]) \in Tasks
    BY <1>4, HeadIsTask DEF DequeueCancelled, CanTake
  <2> QED BY <1>4, <2>1, UpdatedIsIndex DEF DequeueCancelled, Live, Terminal
<1>5. ASSUME NEW l \in Lanes, DequeueStart(l) PROVE list' \in Index
  <2>1. Head(queue[l]) \in Tasks
    BY <1>5, HeadIsTask DEF DequeueStart, CanTake
  <2> QED BY <1>5, <2>1, UpdatedIsIndex DEF DequeueStart, Live, Terminal
<1>6. CASE RefuseExecution
  BY <1>6, AgentHas, UpdatedIsIndex DEF RefuseExecution, AgentShape, Terminal
<1>7. CASE RegisterToken
  BY <1>7 DEF RegisterToken, core, history
<1>8. CASE RunEnds
  BY <1>8 DEF RunEnds, core, history
<1>9. CASE RunEndsAsync
  BY <1>9 DEF RunEndsAsync, core, history
<1>10. CASE SaveAsyncState
  BY <1>10, AgentHas DEF SaveAsyncState, AgentShape, Index, Entry, Live
<1>11. CASE SendTaskCallback
  BY <1>11 DEF SendTaskCallback, core, history
<1>12. CASE FinishTask
  BY <1>12, NoneIsEntry DEF FinishTask, CompleteTask, Index
<1>13. ASSUME NEW t \in Tasks, Accept(t) PROVE list' \in Index
  BY <1>13 DEF Accept, Fresh, Index, Entry, Live
<1>14. ASSUME NEW t \in Tasks, RejectFull(t) PROVE list' \in Index
  BY <1>14, NoneIsEntry DEF RejectFull, CompleteTask, Index
<1>15. CASE SweepCollect
  BY <1>15 DEF SweepCollect, core, history
<1>16. ASSUME NEW t \in Tasks, SweepRemove(t) PROVE list' \in Index
  BY <1>16, NoneIsEntry DEF SweepRemove, CompleteTask, Index
<1>17. ASSUME NEW c \in Cancellers, CancelWrite(c) PROVE list' \in Index
  BY <1>17, CancelHas, UpdatedIsIndex DEF CancelWrite, Terminal
<1>18. ASSUME NEW c \in Cancellers, NEW t \in Tasks, CancelRead(c, t) PROVE list' \in Index
  BY <1>18 DEF CancelRead, core, history
<1>19. ASSUME NEW k \in Children, CallChild(k) PROVE list' \in Index
  BY <1>19 DEF CallChild, core, history
<1>20. ASSUME NEW k \in Children, FindParent(k) PROVE list' \in Index
  BY <1>20 DEF FindParent, core, history
<1>21. ASSUME NEW k \in Children, InjectCallback(k) PROVE list' \in Index
  <2>1. PICK t \in Tasks : child[k].parent = t
    BY <1>21 DEF InjectCallback, ChildInv, InHand
  <2> QED BY <1>21, <2>1 DEF InjectCallback, Index, Entry, Live
<1>22. ASSUME NEW k \in Children, InjectCancelled(k) PROVE list' \in Index
  BY <1>22 DEF InjectCancelled, core, history
<1>23. ASSUME NEW k \in Children, DropCancelled(k) PROVE list' \in Index
  BY <1>23, NoneIsEntry DEF DropCancelled, CompleteTask, Index
<1>24. ASSUME NEW k \in Children, SubmitResumed(k) PROVE list' \in Index
  BY <1>24 DEF SubmitResumed, core, history
<1>25. ASSUME NEW k \in Children, StrayCallback(k) PROVE list' \in Index
  BY <1>25 DEF StrayCallback, core, history
<1>26. ASSUME NEW w \in Writers, WriteIndex(w) PROVE list' \in Index
  BY <1>26 DEF WriteIndex, core, history
<1>27. CASE CrashAndRestart
  BY <1>27, RecoveredIsIndex DEF CrashAndRestart, TypeOK
<1> QED BY <1>1, <1>2, <1>3, <1>4, <1>5, <1>6, <1>7, <1>8, <1>9, <1>10, <1>11, <1>12,
          <1>13, <1>14, <1>15, <1>16, <1>17, <1>18, <1>19, <1>20, <1>21, <1>22, <1>23,
          <1>24, <1>25, <1>26, <1>27
   DEF Next, AgentStep, CallbackArrives, CallbackStep

LEMMA PersistType ==
    ASSUME TypeOK, list' \in Index, NEW w \in Writers, PersistToDisk(w)
    PROVE  flush' \in [Writers -> {Synced} \cup [pc : {"write"}, index : Index]]
<1>1. Persisted(list') \in Index
  BY PersistedIsIndex
<1> QED BY <1>1 DEF PersistToDisk, TypeOK

(* File and pending writes hold indexes. *)
LEMMA FileType ==
    ASSUME TypeOK, list' \in Index, [Next]_vars
    PROVE  FilesOK'
<1> USE DEF FilesOK
<1>1. CASE UNCHANGED vars
  BY <1>1 DEF vars, core, history, TypeOK
<1>2. CASE PriorityEmpty
  BY <1>2 DEF PriorityEmpty, TypeOK, core, history
<1>3. ASSUME NEW l \in Lanes, DequeueMissing(l) PROVE FilesOK'
  BY <1>3 DEF DequeueMissing, TypeOK, core, history
<1>4. ASSUME NEW l \in Lanes, DequeueCancelled(l) PROVE FilesOK'
  BY <1>4 DEF DequeueCancelled, TypeOK, core, history
<1>5. ASSUME NEW l \in Lanes, DequeueStart(l) PROVE FilesOK'
  BY <1>5 DEF DequeueStart, TypeOK, core, history
<1>6. CASE RefuseExecution
  BY <1>6 DEF RefuseExecution, TypeOK, core, history
<1>7. CASE RegisterToken
  BY <1>7 DEF RegisterToken, TypeOK, core, history
<1>8. CASE RunEnds
  BY <1>8 DEF RunEnds, TypeOK, core, history
<1>9. CASE RunEndsAsync
  BY <1>9 DEF RunEndsAsync, TypeOK, core, history
<1>10. CASE SaveAsyncState
  <2>1. PersistToDisk("agent") /\ disk' = disk
    BY <1>10 DEF SaveAsyncState
  <2> QED BY <2>1, PersistType DEF TypeOK, Writers
<1>11. CASE SendTaskCallback
  BY <1>11 DEF SendTaskCallback, TypeOK, core, history
<1>12. CASE FinishTask
  <2>1. PersistToDisk("agent") /\ disk' = disk
    BY <1>12 DEF FinishTask, CompleteTask
  <2> QED BY <2>1, PersistType DEF TypeOK, Writers
<1>13. ASSUME NEW t \in Tasks, Accept(t) PROVE FilesOK'
  BY <1>13 DEF Accept, TypeOK, core, history
<1>14. ASSUME NEW t \in Tasks, RejectFull(t) PROVE FilesOK'
  <2>1. PersistToDisk("handler") /\ disk' = disk
    BY <1>14 DEF RejectFull, CompleteTask
  <2> QED BY <2>1, PersistType DEF TypeOK, Writers
<1>15. CASE SweepCollect
  BY <1>15 DEF SweepCollect, TypeOK, core, history
<1>16. ASSUME NEW t \in Tasks, SweepRemove(t) PROVE FilesOK'
  <2>1. PersistToDisk("sweep") /\ disk' = disk
    BY <1>16 DEF SweepRemove, CompleteTask
  <2> QED BY <2>1, PersistType DEF TypeOK, Writers
<1>17. ASSUME NEW c \in Cancellers, CancelWrite(c) PROVE FilesOK'
  BY <1>17 DEF CancelWrite, TypeOK, core, history
<1>18. ASSUME NEW c \in Cancellers, NEW t \in Tasks, CancelRead(c, t) PROVE FilesOK'
  BY <1>18 DEF CancelRead, TypeOK, core, history
<1>19. ASSUME NEW k \in Children, CallChild(k) PROVE FilesOK'
  BY <1>19 DEF CallChild, TypeOK, core, history
<1>20. ASSUME NEW k \in Children, FindParent(k) PROVE FilesOK'
  BY <1>20 DEF FindParent, TypeOK, core, history
<1>21. ASSUME NEW k \in Children, InjectCallback(k) PROVE FilesOK'
  <2>1. PersistToDisk(k) /\ disk' = disk
    BY <1>21 DEF InjectCallback
  <2> QED BY <2>1, PersistType DEF TypeOK, Writers
<1>22. ASSUME NEW k \in Children, InjectCancelled(k) PROVE FilesOK'
  BY <1>22 DEF InjectCancelled, TypeOK, core, history
<1>23. ASSUME NEW k \in Children, DropCancelled(k) PROVE FilesOK'
  <2>1. PersistToDisk(k) /\ disk' = disk
    BY <1>23 DEF DropCancelled, CompleteTask
  <2> QED BY <2>1, PersistType DEF TypeOK, Writers
<1>24. ASSUME NEW k \in Children, SubmitResumed(k) PROVE FilesOK'
  BY <1>24 DEF SubmitResumed, TypeOK, core, history
<1>25. ASSUME NEW k \in Children, StrayCallback(k) PROVE FilesOK'
  BY <1>25 DEF StrayCallback, TypeOK, core, history
<1>26. ASSUME NEW w \in Writers, WriteIndex(w) PROVE FilesOK'
  BY <1>26 DEF WriteIndex, TypeOK, Synced
<1>27. CASE CrashAndRestart
  BY <1>27, RecoveredIsIndex DEF CrashAndRestart, TypeOK
<1> QED BY <1>1, <1>2, <1>3, <1>4, <1>5, <1>6, <1>7, <1>8, <1>9, <1>10, <1>11, <1>12,
          <1>13, <1>14, <1>15, <1>16, <1>17, <1>18, <1>19, <1>20, <1>21, <1>22, <1>23,
          <1>24, <1>25, <1>26, <1>27
   DEF Next, AgentStep, CallbackArrives, CallbackStep

LEMMA SubmitType ==
    ASSUME TypeOK, NEW l \in Lanes, NEW t \in Tasks, queue' = Submit(l, t)
    PROVE  queue' \in [Lanes -> Seq(Tasks)] /\ \A m \in Lanes : Len(queue'[m]) <= QueueCap
BY DEF Submit, Full, TypeOK

LEMMA TakeType ==
    ASSUME TypeOK, NEW l \in Lanes, queue[l] # <<>>, Take(l)
    PROVE  queue' \in [Lanes -> Seq(Tasks)] /\ \A m \in Lanes : Len(queue'[m]) <= QueueCap
BY DEF Take, TypeOK

(* An order of S is a sequence over S. *)
LEMMA OrderIsSeq ==
    ASSUME NEW S \in SUBSET Tasks, NEW q \in Orders(S)
    PROVE  q \in Seq(S) /\ Len(q) = Cardinality(S) /\ Cardinality(S) \in Nat
<1>1. IsFiniteSet(S)
  BY NullsFresh, FS_Subset
<1>2. Cardinality(S) \in Nat
  BY <1>1, FS_CardinalityType
<1> QED BY <1>2 DEF Orders

(* The lanes hold tasks, within their capacity. *)
LEMMA QueueType ==
    ASSUME TypeOK, ChildInv, [Next]_vars
    PROVE  QueuesOK'
<1> USE DEF QueuesOK
<1>1. CASE UNCHANGED vars
  BY <1>1 DEF vars, core, history, TypeOK
<1>2. CASE PriorityEmpty
  BY <1>2 DEF PriorityEmpty, TypeOK, core, history
<1>3. ASSUME NEW l \in Lanes, DequeueMissing(l) PROVE QueuesOK'
  BY <1>3, TakeType DEF DequeueMissing, CanTake
<1>4. ASSUME NEW l \in Lanes, DequeueCancelled(l) PROVE QueuesOK'
  BY <1>4, TakeType DEF DequeueCancelled, CanTake
<1>5. ASSUME NEW l \in Lanes, DequeueStart(l) PROVE QueuesOK'
  BY <1>5, TakeType DEF DequeueStart, CanTake
<1>6. CASE RefuseExecution
  BY <1>6 DEF RefuseExecution, TypeOK, core, history
<1>7. CASE RegisterToken
  BY <1>7 DEF RegisterToken, TypeOK, core, history
<1>8. CASE RunEnds
  BY <1>8 DEF RunEnds, TypeOK, core, history
<1>9. CASE RunEndsAsync
  BY <1>9 DEF RunEndsAsync, TypeOK, core, history
<1>10. CASE SaveAsyncState
  BY <1>10 DEF SaveAsyncState, TypeOK, core, history
<1>11. CASE SendTaskCallback
  BY <1>11 DEF SendTaskCallback, TypeOK, core, history
<1>12. CASE FinishTask
  BY <1>12 DEF FinishTask, TypeOK, core, history
<1>13. ASSUME NEW t \in Tasks, Accept(t) PROVE QueuesOK'
  BY <1>13, SubmitType DEF Accept, Lane, Lanes
<1>14. ASSUME NEW t \in Tasks, RejectFull(t) PROVE QueuesOK'
  BY <1>14 DEF RejectFull, TypeOK, core, history
<1>15. CASE SweepCollect
  BY <1>15 DEF SweepCollect, TypeOK, core, history
<1>16. ASSUME NEW t \in Tasks, SweepRemove(t) PROVE QueuesOK'
  BY <1>16 DEF SweepRemove, TypeOK, core, history
<1>17. ASSUME NEW c \in Cancellers, CancelWrite(c) PROVE QueuesOK'
  BY <1>17 DEF CancelWrite, TypeOK, core, history
<1>18. ASSUME NEW c \in Cancellers, NEW t \in Tasks, CancelRead(c, t) PROVE QueuesOK'
  BY <1>18 DEF CancelRead, TypeOK, core, history
<1>19. ASSUME NEW k \in Children, CallChild(k) PROVE QueuesOK'
  BY <1>19 DEF CallChild, TypeOK, core, history
<1>20. ASSUME NEW k \in Children, FindParent(k) PROVE QueuesOK'
  BY <1>20 DEF FindParent, TypeOK, core, history
<1>21. ASSUME NEW k \in Children, InjectCallback(k) PROVE QueuesOK'
  BY <1>21 DEF InjectCallback, TypeOK, core, history
<1>22. ASSUME NEW k \in Children, InjectCancelled(k) PROVE QueuesOK'
  BY <1>22 DEF InjectCancelled, TypeOK, core, history
<1>23. ASSUME NEW k \in Children, DropCancelled(k) PROVE QueuesOK'
  BY <1>23 DEF DropCancelled, TypeOK, core, history
<1>24. ASSUME NEW k \in Children, SubmitResumed(k) PROVE QueuesOK'
  <2>1. child[k].parent \in Tasks
    BY <1>24 DEF SubmitResumed, ChildInv, InHand, TypeOK
  <2> QED BY <1>24, <2>1, SubmitType DEF SubmitResumed, Lanes
<1>25. ASSUME NEW k \in Children, StrayCallback(k) PROVE QueuesOK'
  BY <1>25 DEF StrayCallback, TypeOK, core, history
<1>26. ASSUME NEW w \in Writers, WriteIndex(w) PROVE QueuesOK'
  BY <1>26 DEF WriteIndex, TypeOK, core, history
<1>27. CASE CrashAndRestart
  <2>1. Requeue \in SUBSET Tasks
    BY DEF Requeue
  <2>2. PICK q \in Orders(Requeue), n \in Int :
            /\ n = IF Len(q) < QueueCap THEN Len(q) ELSE QueueCap
            /\ queue' = [l \in Lanes |-> IF l = "normal" THEN SubSeq(q, 1, n) ELSE <<>>]
    BY <1>27, <2>1, OrderIsSeq, SMTT(30) DEF CrashAndRestart
  <2>3. q \in Seq(Requeue) /\ Len(q) \in Nat
    BY <2>1, <2>2, OrderIsSeq
  <2>4. n \in 0..Len(q) /\ n <= QueueCap
    BY <2>2, <2>3
  <2>5. SubSeq(q, 1, n) \in Seq(Tasks) /\ Len(SubSeq(q, 1, n)) = n
    BY <2>1, <2>3, <2>4
  <2> QED BY <2>2, <2>4, <2>5
<1> QED BY <1>1, <1>2, <1>3, <1>4, <1>5, <1>6, <1>7, <1>8, <1>9, <1>10, <1>11, <1>12,
          <1>13, <1>14, <1>15, <1>16, <1>17, <1>18, <1>19, <1>20, <1>21, <1>22, <1>23,
          <1>24, <1>25, <1>26, <1>27
   DEF Next, AgentStep, CallbackArrives, CallbackStep

(* The agent loop. *)
LEMMA AgentType ==
    ASSUME TypeOK, [Next]_vars
    PROVE  agent' \in Agents
<1>1. CASE UNCHANGED vars
  BY <1>1 DEF vars, core, history, TypeOK
<1>2. CASE PriorityEmpty
  BY <1>2 DEF PriorityEmpty, Agents
<1>3. ASSUME NEW l \in Lanes, DequeueMissing(l) PROVE agent' \in Agents
  BY <1>3 DEF DequeueMissing, Agents
<1>4. ASSUME NEW l \in Lanes, DequeueCancelled(l) PROVE agent' \in Agents
  BY <1>4, HeadIsTask DEF DequeueCancelled, CanTake, Agents
<1>5. ASSUME NEW l \in Lanes, DequeueStart(l) PROVE agent' \in Agents
  BY <1>5, HeadIsTask DEF DequeueStart, CanTake, Agents
<1>6. CASE RefuseExecution
  BY <1>6, AgentHas DEF RefuseExecution, AgentShape, Agents
<1>7. CASE RegisterToken
  BY <1>7, AgentHas DEF RegisterToken, AgentShape, Agents
<1>8. CASE RunEnds
  BY <1>8, AgentHas DEF RunEnds, AgentShape, Agents
<1>9. CASE RunEndsAsync
  BY <1>9, AgentHas DEF RunEndsAsync, AgentShape, Agents
<1>10. CASE SaveAsyncState
  BY <1>10 DEF SaveAsyncState, Agents
<1>11. CASE SendTaskCallback
  BY <1>11, AgentHas DEF SendTaskCallback, AgentShape, Agents
<1>12. CASE FinishTask
  BY <1>12 DEF FinishTask, Agents
<1>13. ASSUME NEW t \in Tasks, Accept(t) PROVE agent' \in Agents
  BY <1>13 DEF Accept, TypeOK, core, history
<1>14. ASSUME NEW t \in Tasks, RejectFull(t) PROVE agent' \in Agents
  BY <1>14 DEF RejectFull, TypeOK, core, history
<1>15. CASE SweepCollect
  BY <1>15 DEF SweepCollect, TypeOK, core, history
<1>16. ASSUME NEW t \in Tasks, SweepRemove(t) PROVE agent' \in Agents
  BY <1>16 DEF SweepRemove, TypeOK, core, history
<1>17. ASSUME NEW c \in Cancellers, CancelWrite(c) PROVE agent' \in Agents
  BY <1>17 DEF CancelWrite, TypeOK, core, history
<1>18. ASSUME NEW c \in Cancellers, NEW t \in Tasks, CancelRead(c, t) PROVE agent' \in Agents
  BY <1>18 DEF CancelRead, TypeOK, core, history
<1>19. ASSUME NEW k \in Children, CallChild(k) PROVE agent' \in Agents
  BY <1>19, AgentHas DEF CallChild, AgentShape, Agents
<1>20. ASSUME NEW k \in Children, FindParent(k) PROVE agent' \in Agents
  BY <1>20 DEF FindParent, TypeOK, core, history
<1>21. ASSUME NEW k \in Children, InjectCallback(k) PROVE agent' \in Agents
  BY <1>21 DEF InjectCallback, TypeOK, core, history
<1>22. ASSUME NEW k \in Children, InjectCancelled(k) PROVE agent' \in Agents
  BY <1>22 DEF InjectCancelled, TypeOK, core, history
<1>23. ASSUME NEW k \in Children, DropCancelled(k) PROVE agent' \in Agents
  BY <1>23 DEF DropCancelled, TypeOK, core, history
<1>24. ASSUME NEW k \in Children, SubmitResumed(k) PROVE agent' \in Agents
  BY <1>24 DEF SubmitResumed, TypeOK, core, history
<1>25. ASSUME NEW k \in Children, StrayCallback(k) PROVE agent' \in Agents
  BY <1>25 DEF StrayCallback, TypeOK, core, history
<1>26. ASSUME NEW w \in Writers, WriteIndex(w) PROVE agent' \in Agents
  BY <1>26 DEF WriteIndex, TypeOK, core, history
<1>27. CASE CrashAndRestart
  BY <1>27 DEF CrashAndRestart, Agents
<1> QED BY <1>1, <1>2, <1>3, <1>4, <1>5, <1>6, <1>7, <1>8, <1>9, <1>10, <1>11, <1>12,
          <1>13, <1>14, <1>15, <1>16, <1>17, <1>18, <1>19, <1>20, <1>21, <1>22, <1>23,
          <1>24, <1>25, <1>26, <1>27
   DEF Next, AgentStep, CallbackArrives, CallbackStep

(* Tokens, cancel calls and the histories that are sets. *)
LEMMA SetType ==
    ASSUME TypeOK, ChildInv, [Next]_vars
    PROVE  SetsOK'
<1> USE DEF SetsOK
<1>1. CASE UNCHANGED vars
  BY <1>1 DEF vars, core, history, TypeOK
<1>2. CASE PriorityEmpty
  BY <1>2 DEF PriorityEmpty, TypeOK, core, history
<1>3. ASSUME NEW l \in Lanes, DequeueMissing(l) PROVE SetsOK'
  BY <1>3 DEF DequeueMissing, TypeOK, core, history
<1>4. ASSUME NEW l \in Lanes, DequeueCancelled(l) PROVE SetsOK'
  BY <1>4 DEF DequeueCancelled, TypeOK, core, history
<1>5. ASSUME NEW l \in Lanes, DequeueStart(l) PROVE SetsOK'
  BY <1>5 DEF DequeueStart, TypeOK, core, history
<1>6. CASE RefuseExecution
  BY <1>6 DEF RefuseExecution, TypeOK, core, history
<1>7. CASE RegisterToken
  BY <1>7, AgentHas DEF RegisterToken, AgentShape, TypeOK, history
<1>8. CASE RunEnds
  BY <1>8, AgentHas DEF RunEnds, AgentShape, TypeOK, history
<1>9. CASE RunEndsAsync
  BY <1>9 DEF RunEndsAsync, TypeOK, core, history
<1>10. CASE SaveAsyncState
  BY <1>10 DEF SaveAsyncState, TypeOK, core, history
<1>11. CASE SendTaskCallback
  BY <1>11 DEF SendTaskCallback, TypeOK, core, history
<1>12. CASE FinishTask
  BY <1>12 DEF FinishTask, TypeOK, core, history
<1>13. ASSUME NEW t \in Tasks, Accept(t) PROVE SetsOK'
  BY <1>13 DEF Accept, TypeOK, core, history
<1>14. ASSUME NEW t \in Tasks, RejectFull(t) PROVE SetsOK'
  BY <1>14 DEF RejectFull, TypeOK, core, history
<1>15. CASE SweepCollect
  BY <1>15 DEF SweepCollect, TypeOK, core, history
<1>16. ASSUME NEW t \in Tasks, SweepRemove(t) PROVE SetsOK'
  BY <1>16 DEF SweepRemove, TypeOK, core, history
<1>17. ASSUME NEW c \in Cancellers, CancelWrite(c) PROVE SetsOK'
  BY <1>17, CancelHas DEF CancelWrite, TypeOK
<1>18. ASSUME NEW c \in Cancellers, NEW t \in Tasks, CancelRead(c, t) PROVE SetsOK'
  BY <1>18 DEF CancelRead, TypeOK, core, history
<1>19. ASSUME NEW k \in Children, CallChild(k) PROVE SetsOK'
  BY <1>19 DEF CallChild, TypeOK, core, history
<1>20. ASSUME NEW k \in Children, FindParent(k) PROVE SetsOK'
  BY <1>20 DEF FindParent, TypeOK, core, history
<1>21. ASSUME NEW k \in Children, InjectCallback(k) PROVE SetsOK'
  BY <1>21 DEF InjectCallback, TypeOK, core, history
<1>22. ASSUME NEW k \in Children, InjectCancelled(k) PROVE SetsOK'
  BY <1>22 DEF InjectCancelled, TypeOK, core, history
<1>23. ASSUME NEW k \in Children, DropCancelled(k) PROVE SetsOK'
  BY <1>23 DEF DropCancelled, TypeOK, core, history
<1>24. ASSUME NEW k \in Children, SubmitResumed(k) PROVE SetsOK'
  BY <1>24 DEF SubmitResumed, ChildInv, InHand, TypeOK
<1>25. ASSUME NEW k \in Children, StrayCallback(k) PROVE SetsOK'
  BY <1>25 DEF StrayCallback, TypeOK, core, history
<1>26. ASSUME NEW w \in Writers, WriteIndex(w) PROVE SetsOK'
  BY <1>26 DEF WriteIndex, TypeOK, core, history
<1>27. CASE CrashAndRestart
  <2>1. Requeue \in SUBSET Tasks
    BY DEF Requeue
  <2>2. PICK q \in Orders(Requeue), n \in Int :
            dropped' = dropped \cup {q[i] : i \in (n + 1)..Len(q)}
            /\ n = IF Len(q) < QueueCap THEN Len(q) ELSE QueueCap
    BY <1>27, <2>1, OrderIsSeq, SMTT(30) DEF CrashAndRestart
  <2>3. q \in Seq(Requeue) /\ n >= 0
    BY <2>1, <2>2, OrderIsSeq
  <2>4. \A i \in (n + 1)..Len(q) : q[i] \in Tasks
    BY <2>1, <2>3
  <2>5. dropped' \in SUBSET Tasks
    BY <2>2, <2>4 DEF TypeOK
  <2> QED BY <1>27, <2>5 DEF CrashAndRestart, TypeOK
<1> QED BY <1>1, <1>2, <1>3, <1>4, <1>5, <1>6, <1>7, <1>8, <1>9, <1>10, <1>11, <1>12,
          <1>13, <1>14, <1>15, <1>16, <1>17, <1>18, <1>19, <1>20, <1>21, <1>22, <1>23,
          <1>24, <1>25, <1>26, <1>27
   DEF Next, AgentStep, CallbackArrives, CallbackStep

(* The result store and the counters. *)
LEMMA CountType ==
    ASSUME TypeOK, [Next]_vars
    PROVE  CountsOK'
<1> USE DEF CountsOK
<1>1. CASE UNCHANGED vars
  BY <1>1 DEF vars, core, history, TypeOK
<1>2. CASE PriorityEmpty
  BY <1>2 DEF PriorityEmpty, TypeOK, core, history
<1>3. ASSUME NEW l \in Lanes, DequeueMissing(l) PROVE CountsOK'
  BY <1>3 DEF DequeueMissing, TypeOK, core, history
<1>4. ASSUME NEW l \in Lanes, DequeueCancelled(l) PROVE CountsOK'
  BY <1>4 DEF DequeueCancelled, TypeOK, core, history
<1>5. ASSUME NEW l \in Lanes, DequeueStart(l) PROVE CountsOK'
  <2>1. Head(queue[l]) \in Tasks
    BY <1>5, HeadIsTask DEF DequeueStart, CanTake
  <2>2. PICK h \in Tasks : scratch' = scratch \/ scratch' = [scratch EXCEPT ![h] = scratch[h] + 1]
    BY <1>5, <2>1 DEF DequeueStart
  <2>3. UNCHANGED <<store, sends, reports, crashes>> /\ scratch \in [Tasks -> Nat]
    BY <1>5 DEF DequeueStart, TypeOK
  <2>4. scratch' \in [Tasks -> Nat]
    BY <2>2, <2>3
  <2> QED BY <2>3, <2>4 DEF TypeOK
<1>6. CASE RefuseExecution
  BY <1>6 DEF RefuseExecution, TypeOK, core, history
<1>7. CASE RegisterToken
  BY <1>7 DEF RegisterToken, TypeOK, core, history
<1>8. CASE RunEnds
  BY <1>8 DEF RunEnds, TypeOK, core, history
<1>9. CASE RunEndsAsync
  BY <1>9 DEF RunEndsAsync, TypeOK, core, history
<1>10. CASE SaveAsyncState
  BY <1>10 DEF SaveAsyncState, TypeOK, core, history
<1>11. CASE SendTaskCallback
  BY <1>11, AgentHas, SMTT(30) DEF SendTaskCallback, AgentShape, TypeOK
<1>12. CASE FinishTask
  BY <1>12 DEF FinishTask, TypeOK, core, history
<1>13. ASSUME NEW t \in Tasks, Accept(t) PROVE CountsOK'
  BY <1>13 DEF Accept, TypeOK, core, history
<1>14. ASSUME NEW t \in Tasks, RejectFull(t) PROVE CountsOK'
  BY <1>14 DEF RejectFull, TypeOK, core, history
<1>15. CASE SweepCollect
  BY <1>15 DEF SweepCollect, TypeOK, core, history
<1>16. ASSUME NEW t \in Tasks, SweepRemove(t) PROVE CountsOK'
  BY <1>16 DEF SweepRemove, TypeOK, core, history
<1>17. ASSUME NEW c \in Cancellers, CancelWrite(c) PROVE CountsOK'
  BY <1>17 DEF CancelWrite, TypeOK, core, history
<1>18. ASSUME NEW c \in Cancellers, NEW t \in Tasks, CancelRead(c, t) PROVE CountsOK'
  BY <1>18 DEF CancelRead, TypeOK, core, history
<1>19. ASSUME NEW k \in Children, CallChild(k) PROVE CountsOK'
  BY <1>19 DEF CallChild, TypeOK, core, history
<1>20. ASSUME NEW k \in Children, FindParent(k) PROVE CountsOK'
  BY <1>20 DEF FindParent, TypeOK, core, history
<1>21. ASSUME NEW k \in Children, InjectCallback(k) PROVE CountsOK'
  BY <1>21 DEF InjectCallback, TypeOK, core, history
<1>22. ASSUME NEW k \in Children, InjectCancelled(k) PROVE CountsOK'
  BY <1>22 DEF InjectCancelled, TypeOK, core, history
<1>23. ASSUME NEW k \in Children, DropCancelled(k) PROVE CountsOK'
  BY <1>23 DEF DropCancelled, TypeOK, core, history
<1>24. ASSUME NEW k \in Children, SubmitResumed(k) PROVE CountsOK'
  BY <1>24 DEF SubmitResumed, TypeOK, core, history
<1>25. ASSUME NEW k \in Children, StrayCallback(k) PROVE CountsOK'
  BY <1>25 DEF StrayCallback, TypeOK, core, history
<1>26. ASSUME NEW w \in Writers, WriteIndex(w) PROVE CountsOK'
  BY <1>26 DEF WriteIndex, TypeOK, core, history
<1>27. CASE CrashAndRestart
  BY <1>27 DEF CrashAndRestart, TypeOK, core, history
<1> QED BY <1>1, <1>2, <1>3, <1>4, <1>5, <1>6, <1>7, <1>8, <1>9, <1>10, <1>11, <1>12,
          <1>13, <1>14, <1>15, <1>16, <1>17, <1>18, <1>19, <1>20, <1>21, <1>22, <1>23,
          <1>24, <1>25, <1>26, <1>27
   DEF Next, AgentStep, CallbackArrives, CallbackStep

(* Delegations: a parent is in hand exactly while a handler is under way. *)
LEMMA ChildType ==
    ASSUME TypeOK, ChildInv, [Next]_vars
    PROVE  ChildOK'
<1> USE DEF ChildOK
<1>1. CASE UNCHANGED vars
  BY <1>1 DEF vars, core, history, TypeOK, ChildInv
<1>2. CASE PriorityEmpty
  BY <1>2 DEF PriorityEmpty, ChildInv, TypeOK, core, history
<1>3. ASSUME NEW l \in Lanes, DequeueMissing(l) PROVE ChildOK'
  BY <1>3 DEF DequeueMissing, ChildInv, TypeOK, core, history
<1>4. ASSUME NEW l \in Lanes, DequeueCancelled(l) PROVE ChildOK'
  BY <1>4 DEF DequeueCancelled, ChildInv, TypeOK, core, history
<1>5. ASSUME NEW l \in Lanes, DequeueStart(l) PROVE ChildOK'
  BY <1>5 DEF DequeueStart, ChildInv, TypeOK, core, history
<1>6. CASE RefuseExecution
  BY <1>6 DEF RefuseExecution, ChildInv, TypeOK, core, history
<1>7. CASE RegisterToken
  BY <1>7 DEF RegisterToken, ChildInv, TypeOK, core, history
<1>8. CASE RunEnds
  BY <1>8 DEF RunEnds, ChildInv, TypeOK, core, history
<1>9. CASE RunEndsAsync
  BY <1>9 DEF RunEndsAsync, ChildInv, TypeOK, core, history
<1>10. CASE SaveAsyncState
  BY <1>10 DEF SaveAsyncState, ChildInv, TypeOK, core, history
<1>11. CASE SendTaskCallback
  BY <1>11 DEF SendTaskCallback, ChildInv, TypeOK, core, history
<1>12. CASE FinishTask
  BY <1>12 DEF FinishTask, ChildInv, TypeOK, core, history
<1>13. ASSUME NEW t \in Tasks, Accept(t) PROVE ChildOK'
  BY <1>13 DEF Accept, ChildInv, TypeOK, core, history
<1>14. ASSUME NEW t \in Tasks, RejectFull(t) PROVE ChildOK'
  BY <1>14 DEF RejectFull, ChildInv, TypeOK, core, history
<1>15. CASE SweepCollect
  BY <1>15 DEF SweepCollect, ChildInv, TypeOK, core, history
<1>16. ASSUME NEW t \in Tasks, SweepRemove(t) PROVE ChildOK'
  BY <1>16 DEF SweepRemove, ChildInv, TypeOK, core, history
<1>17. ASSUME NEW c \in Cancellers, CancelWrite(c) PROVE ChildOK'
  BY <1>17 DEF CancelWrite, ChildInv, TypeOK, core, history
<1>18. ASSUME NEW c \in Cancellers, NEW t \in Tasks, CancelRead(c, t) PROVE ChildOK'
  BY <1>18 DEF CancelRead, ChildInv, TypeOK, core, history
<1>19. ASSUME NEW k \in Children, CallChild(k) PROVE ChildOK'
  BY <1>19 DEF CallChild, ChildInv, InHand, TypeOK
<1>20. ASSUME NEW k \in Children, FindParent(k) PROVE ChildOK'
  BY <1>20 DEF FindParent, ChildInv, InHand, TypeOK
<1>21. ASSUME NEW k \in Children, InjectCallback(k) PROVE ChildOK'
  BY <1>21 DEF InjectCallback, ChildInv, InHand, TypeOK
<1>22. ASSUME NEW k \in Children, InjectCancelled(k) PROVE ChildOK'
  BY <1>22 DEF InjectCancelled, ChildInv, InHand, TypeOK
<1>23. ASSUME NEW k \in Children, DropCancelled(k) PROVE ChildOK'
  BY <1>23 DEF DropCancelled, ChildInv, InHand, TypeOK
<1>24. ASSUME NEW k \in Children, SubmitResumed(k) PROVE ChildOK'
  BY <1>24 DEF SubmitResumed, ChildInv, InHand, TypeOK
<1>25. ASSUME NEW k \in Children, StrayCallback(k) PROVE ChildOK'
  BY <1>25 DEF StrayCallback, ChildInv, InHand, TypeOK
<1>26. ASSUME NEW w \in Writers, WriteIndex(w) PROVE ChildOK'
  BY <1>26 DEF WriteIndex, ChildInv, TypeOK, core, history
<1>27. CASE CrashAndRestart
  BY <1>27 DEF CrashAndRestart, ChildInv, InHand, TypeOK
<1> QED BY <1>1, <1>2, <1>3, <1>4, <1>5, <1>6, <1>7, <1>8, <1>9, <1>10, <1>11, <1>12,
          <1>13, <1>14, <1>15, <1>16, <1>17, <1>18, <1>19, <1>20, <1>21, <1>22, <1>23,
          <1>24, <1>25, <1>26, <1>27
   DEF Next, AgentStep, CallbackArrives, CallbackStep

(* The flag of the current cancel token. *)
LEMMA HitType ==
    ASSUME TypeOK, [Next]_vars
    PROVE  hit' \in BOOLEAN
<1>1. CASE UNCHANGED vars
  BY <1>1 DEF vars, core, history, TypeOK
<1>2. CASE PriorityEmpty
  BY <1>2 DEF PriorityEmpty, TypeOK, core, history
<1>3. ASSUME NEW l \in Lanes, DequeueMissing(l) PROVE hit' \in BOOLEAN
  BY <1>3 DEF DequeueMissing, TypeOK, core, history
<1>4. ASSUME NEW l \in Lanes, DequeueCancelled(l) PROVE hit' \in BOOLEAN
  BY <1>4 DEF DequeueCancelled, TypeOK, core, history
<1>5. ASSUME NEW l \in Lanes, DequeueStart(l) PROVE hit' \in BOOLEAN
  BY <1>5 DEF DequeueStart, TypeOK, core, history
<1>6. CASE RefuseExecution
  BY <1>6 DEF RefuseExecution, TypeOK, core, history
<1>7. CASE RegisterToken
  BY <1>7, Zenon DEF RegisterToken, TypeOK
<1>8. CASE RunEnds
  BY <1>8 DEF RunEnds, TypeOK, core, history
<1>9. CASE RunEndsAsync
  BY <1>9 DEF RunEndsAsync, TypeOK, core, history
<1>10. CASE SaveAsyncState
  BY <1>10 DEF SaveAsyncState, TypeOK, core, history
<1>11. CASE SendTaskCallback
  BY <1>11 DEF SendTaskCallback, TypeOK, core, history
<1>12. CASE FinishTask
  BY <1>12 DEF FinishTask, TypeOK, core, history
<1>13. ASSUME NEW t \in Tasks, Accept(t) PROVE hit' \in BOOLEAN
  BY <1>13 DEF Accept, TypeOK, core, history
<1>14. ASSUME NEW t \in Tasks, RejectFull(t) PROVE hit' \in BOOLEAN
  BY <1>14 DEF RejectFull, TypeOK, core, history
<1>15. CASE SweepCollect
  BY <1>15 DEF SweepCollect, TypeOK, core, history
<1>16. ASSUME NEW t \in Tasks, SweepRemove(t) PROVE hit' \in BOOLEAN
  BY <1>16 DEF SweepRemove, TypeOK, core, history
<1>17. ASSUME NEW c \in Cancellers, CancelWrite(c) PROVE hit' \in BOOLEAN
  BY <1>17, Zenon DEF CancelWrite, TypeOK
<1>18. ASSUME NEW c \in Cancellers, NEW t \in Tasks, CancelRead(c, t) PROVE hit' \in BOOLEAN
  BY <1>18 DEF CancelRead, TypeOK, core, history
<1>19. ASSUME NEW k \in Children, CallChild(k) PROVE hit' \in BOOLEAN
  BY <1>19 DEF CallChild, TypeOK, core, history
<1>20. ASSUME NEW k \in Children, FindParent(k) PROVE hit' \in BOOLEAN
  BY <1>20 DEF FindParent, TypeOK, core, history
<1>21. ASSUME NEW k \in Children, InjectCallback(k) PROVE hit' \in BOOLEAN
  BY <1>21 DEF InjectCallback, TypeOK, core, history
<1>22. ASSUME NEW k \in Children, InjectCancelled(k) PROVE hit' \in BOOLEAN
  BY <1>22 DEF InjectCancelled, TypeOK, core, history
<1>23. ASSUME NEW k \in Children, DropCancelled(k) PROVE hit' \in BOOLEAN
  BY <1>23 DEF DropCancelled, TypeOK, core, history
<1>24. ASSUME NEW k \in Children, SubmitResumed(k) PROVE hit' \in BOOLEAN
  BY <1>24 DEF SubmitResumed, TypeOK, core, history
<1>25. ASSUME NEW k \in Children, StrayCallback(k) PROVE hit' \in BOOLEAN
  BY <1>25 DEF StrayCallback, TypeOK, core, history
<1>26. ASSUME NEW w \in Writers, WriteIndex(w) PROVE hit' \in BOOLEAN
  BY <1>26 DEF WriteIndex, TypeOK, core, history
<1>27. CASE CrashAndRestart
  BY <1>27, Zenon DEF CrashAndRestart, TypeOK
<1> QED BY <1>1, <1>2, <1>3, <1>4, <1>5, <1>6, <1>7, <1>8, <1>9, <1>10, <1>11, <1>12,
          <1>13, <1>14, <1>15, <1>16, <1>17, <1>18, <1>19, <1>20, <1>21, <1>22, <1>23,
          <1>24, <1>25, <1>26, <1>27
   DEF Next, AgentStep, CallbackArrives, CallbackStep

LEMMA TypeStep ==
    ASSUME TypeOK, ChildInv, [Next]_vars
    PROVE  TypeOK' /\ ChildInv'
<1>1. list' \in Index
  BY ListType DEF TypeOK
<1>2. disk' \in Index /\ flush' \in [Writers -> {Synced} \cup [pc : {"write"}, index : Index]]
  BY <1>1, FileType DEF FilesOK
<1> QED BY <1>1, <1>2, QueueType, AgentType, SetType, CountType, ChildType, HitType
   DEF TypeOK, QueuesOK, SetsOK, CountsOK, ChildOK

(* Deliveries, starts and crashes are only counted up. *)
LEMMA HistoryGrows ==
    ASSUME TypeOK, [Next]_vars
    PROVE  crashes <= crashes' /\ \A u \in Tasks : sends[u] <= sends'[u] /\ scratch[u] <= scratch'[u]
<1>1. CASE UNCHANGED vars
  BY <1>1 DEF vars, core, history, TypeOK
<1>2. CASE PriorityEmpty
  BY <1>2 DEF PriorityEmpty, TypeOK, core, history
<1>3. ASSUME NEW l \in Lanes, DequeueMissing(l)
      PROVE  crashes <= crashes'
             /\ \A u \in Tasks : sends[u] <= sends'[u] /\ scratch[u] <= scratch'[u]
  BY <1>3 DEF DequeueMissing, TypeOK, core, history
<1>4. ASSUME NEW l \in Lanes, DequeueCancelled(l)
      PROVE  crashes <= crashes'
             /\ \A u \in Tasks : sends[u] <= sends'[u] /\ scratch[u] <= scratch'[u]
  BY <1>4 DEF DequeueCancelled, TypeOK, core, history
<1>5. ASSUME NEW l \in Lanes, DequeueStart(l)
      PROVE  crashes <= crashes'
             /\ \A u \in Tasks : sends[u] <= sends'[u] /\ scratch[u] <= scratch'[u]
  <2>1. Head(queue[l]) \in Tasks
    BY <1>5, HeadIsTask DEF DequeueStart, CanTake
  <2>2. PICK h \in Tasks : scratch' = scratch \/ scratch' = [scratch EXCEPT ![h] = scratch[h] + 1]
    BY <1>5, <2>1 DEF DequeueStart
  <2>3. UNCHANGED <<sends, crashes>> /\ scratch \in [Tasks -> Nat] /\ crashes \in Nat
        /\ sends \in [Tasks -> Nat]
    BY <1>5 DEF DequeueStart, TypeOK
  <2> QED BY <2>2, <2>3
<1>6. CASE RefuseExecution
  BY <1>6 DEF RefuseExecution, TypeOK, core, history
<1>7. CASE RegisterToken
  BY <1>7 DEF RegisterToken, TypeOK, core, history
<1>8. CASE RunEnds
  BY <1>8 DEF RunEnds, TypeOK, core, history
<1>9. CASE RunEndsAsync
  BY <1>9 DEF RunEndsAsync, TypeOK, core, history
<1>10. CASE SaveAsyncState
  BY <1>10 DEF SaveAsyncState, TypeOK, core, history
<1>11. CASE SendTaskCallback
  BY <1>11 DEF SendTaskCallback, TypeOK, core, history
<1>12. CASE FinishTask
  BY <1>12 DEF FinishTask, TypeOK, core, history
<1>13. ASSUME NEW t \in Tasks, Accept(t)
       PROVE  crashes <= crashes'
              /\ \A u \in Tasks : sends[u] <= sends'[u] /\ scratch[u] <= scratch'[u]
  BY <1>13 DEF Accept, TypeOK
<1>14. ASSUME NEW t \in Tasks, RejectFull(t)
       PROVE  crashes <= crashes'
              /\ \A u \in Tasks : sends[u] <= sends'[u] /\ scratch[u] <= scratch'[u]
  BY <1>14 DEF RejectFull, TypeOK, core, history
<1>15. CASE SweepCollect
  BY <1>15 DEF SweepCollect, TypeOK, core, history
<1>16. ASSUME NEW t \in Tasks, SweepRemove(t)
       PROVE  crashes <= crashes'
              /\ \A u \in Tasks : sends[u] <= sends'[u] /\ scratch[u] <= scratch'[u]
  BY <1>16 DEF SweepRemove, TypeOK, core, history
<1>17. ASSUME NEW c \in Cancellers, CancelWrite(c)
       PROVE  crashes <= crashes'
              /\ \A u \in Tasks : sends[u] <= sends'[u] /\ scratch[u] <= scratch'[u]
  BY <1>17 DEF CancelWrite, TypeOK, core, history
<1>18. ASSUME NEW c \in Cancellers, NEW t \in Tasks, CancelRead(c, t)
       PROVE  crashes <= crashes'
              /\ \A u \in Tasks : sends[u] <= sends'[u] /\ scratch[u] <= scratch'[u]
  BY <1>18 DEF CancelRead, TypeOK, core, history
<1>19. ASSUME NEW k \in Children, CallChild(k)
       PROVE  crashes <= crashes'
              /\ \A u \in Tasks : sends[u] <= sends'[u] /\ scratch[u] <= scratch'[u]
  BY <1>19 DEF CallChild, TypeOK, core, history
<1>20. ASSUME NEW k \in Children, FindParent(k)
       PROVE  crashes <= crashes'
              /\ \A u \in Tasks : sends[u] <= sends'[u] /\ scratch[u] <= scratch'[u]
  BY <1>20 DEF FindParent, TypeOK, core, history
<1>21. ASSUME NEW k \in Children, InjectCallback(k)
       PROVE  crashes <= crashes'
              /\ \A u \in Tasks : sends[u] <= sends'[u] /\ scratch[u] <= scratch'[u]
  BY <1>21 DEF InjectCallback, TypeOK, core, history
<1>22. ASSUME NEW k \in Children, InjectCancelled(k)
       PROVE  crashes <= crashes'
              /\ \A u \in Tasks : sends[u] <= sends'[u] /\ scratch[u] <= scratch'[u]
  BY <1>22 DEF InjectCancelled, TypeOK, core, history
<1>23. ASSUME NEW k \in Children, DropCancelled(k)
       PROVE  crashes <= crashes'
              /\ \A u \in Tasks : sends[u] <= sends'[u] /\ scratch[u] <= scratch'[u]
  BY <1>23 DEF DropCancelled, TypeOK, core, history
<1>24. ASSUME NEW k \in Children, SubmitResumed(k)
       PROVE  crashes <= crashes'
              /\ \A u \in Tasks : sends[u] <= sends'[u] /\ scratch[u] <= scratch'[u]
  BY <1>24 DEF SubmitResumed, TypeOK, core, history
<1>25. ASSUME NEW k \in Children, StrayCallback(k)
       PROVE  crashes <= crashes'
              /\ \A u \in Tasks : sends[u] <= sends'[u] /\ scratch[u] <= scratch'[u]
  BY <1>25 DEF StrayCallback, TypeOK, core, history
<1>26. ASSUME NEW w \in Writers, WriteIndex(w)
       PROVE  crashes <= crashes'
              /\ \A u \in Tasks : sends[u] <= sends'[u] /\ scratch[u] <= scratch'[u]
  BY <1>26 DEF WriteIndex, TypeOK, core, history
<1>27. CASE CrashAndRestart
  BY <1>27 DEF CrashAndRestart, TypeOK
<1> QED BY <1>1, <1>2, <1>3, <1>4, <1>5, <1>6, <1>7, <1>8, <1>9, <1>10, <1>11, <1>12,
          <1>13, <1>14, <1>15, <1>16, <1>17, <1>18, <1>19, <1>20, <1>21, <1>22, <1>23,
          <1>24, <1>25, <1>26, <1>27
   DEF Next, AgentStep, CallbackArrives, CallbackStep

LEMMA NoneIsSound == \A n : SoundEntry(n, None)
BY DEF SoundEntry, None

LEMMA SoundGrows ==
    ASSUME NEW i, SoundIndex(i, scratch), TypeOK, scratch' \in [Tasks -> Nat],
           \A t \in Tasks : scratch[t] <= scratch'[t]
    PROVE  SoundIndex(i, scratch')
<1>1. \A t \in Tasks : scratch[t] \in Nat /\ scratch'[t] \in Nat
  BY DEF TypeOK
<1> QED BY <1>1 DEF SoundIndex, SoundEntry

LEMMA UpdatedIsSound ==
    ASSUME NEW i \in Index, NEW t \in Tasks, NEW st, NEW ran, SoundIndex(i, ran)
    PROVE  SoundIndex(UpdateStatus(i, t, st), ran)
BY DEF SoundIndex, SoundEntry, UpdateStatus, Moved, Index

LEMMA DroppedIsSound ==
    ASSUME TypeOK, NEW t \in Tasks, NEW ran, SoundIndex(list, ran), list' = [list EXCEPT ![t] = None]
    PROVE  SoundIndex(list', ran)
BY NoneIsSound DEF SoundIndex, TypeOK, Index

(* An entry keeps the answer to its own call. *)
LEMMA ListSound ==
    ASSUME TypeOK, ChildInv, RanInv, FoundInv, SoundIndex(list, scratch'),
           SoundIndex(disk, scratch'), [Next]_vars
    PROVE  SoundIndex(list', scratch')
<1>1. CASE UNCHANGED vars
  BY <1>1 DEF vars, core, history, SoundIndex
<1>2. CASE PriorityEmpty
  BY <1>2 DEF PriorityEmpty, SoundIndex, core, history
<1>3. ASSUME NEW l \in Lanes, DequeueMissing(l) PROVE SoundIndex(list', scratch')
  BY <1>3 DEF DequeueMissing, SoundIndex, core, history
<1>4. ASSUME NEW l \in Lanes, DequeueCancelled(l) PROVE SoundIndex(list', scratch')
  <2>1. Head(queue[l]) \in Tasks
    BY <1>4, HeadIsTask DEF DequeueCancelled, CanTake
  <2> QED BY <1>4, <2>1, UpdatedIsSound DEF DequeueCancelled, TypeOK
<1>5. ASSUME NEW l \in Lanes, DequeueStart(l) PROVE SoundIndex(list', scratch')
  <2>1. Head(queue[l]) \in Tasks
    BY <1>5, HeadIsTask DEF DequeueStart, CanTake
  <2> QED BY <1>5, <2>1, UpdatedIsSound DEF DequeueStart, TypeOK
<1>6. CASE RefuseExecution
  BY <1>6, AgentHas, UpdatedIsSound DEF RefuseExecution, AgentShape, TypeOK
<1>7. CASE RegisterToken
  BY <1>7 DEF RegisterToken, SoundIndex, core, history
<1>8. CASE RunEnds
  BY <1>8 DEF RunEnds, SoundIndex, core, history
<1>9. CASE RunEndsAsync
  BY <1>9 DEF RunEndsAsync, SoundIndex, core, history
<1>10. CASE SaveAsyncState
  <2>1. PICK h \in Tasks, k \in Children : agent = [pc |-> "saving", task |-> h, child |-> k]
    BY <1>10 DEF SaveAsyncState, TypeOK, Agents, Resting
  <2>2. scratch[h] >= 1 /\ scratch' = scratch
    BY <1>10, <2>1 DEF SaveAsyncState, RanInv, Executing, history
  <2>3. CASE list' = list
    BY <2>3
  <2>4. CASE list' = [list EXCEPT ![h] = [st |-> "WaitingRemote", wait |-> k,
                                          asked |-> k, got |-> NoChild]]
    BY <2>2, <2>4, NullsFresh DEF SoundIndex, SoundEntry, TypeOK, Index
  <2> QED BY <1>10, <2>1, <2>3, <2>4 DEF SaveAsyncState
<1>11. CASE SendTaskCallback
  BY <1>11 DEF SendTaskCallback, SoundIndex, core, history
<1>12. CASE FinishTask
  BY <1>12, AgentHas, DroppedIsSound DEF FinishTask, AgentShape, CompleteTask
<1>13. ASSUME NEW t \in Tasks, Accept(t) PROVE SoundIndex(list', scratch')
  BY <1>13 DEF Accept, Fresh, SoundIndex, SoundEntry, TypeOK, Index
<1>14. ASSUME NEW t \in Tasks, RejectFull(t) PROVE SoundIndex(list', scratch')
  BY <1>14, DroppedIsSound DEF RejectFull, CompleteTask
<1>15. CASE SweepCollect
  BY <1>15 DEF SweepCollect, SoundIndex, core, history
<1>16. ASSUME NEW t \in Tasks, SweepRemove(t) PROVE SoundIndex(list', scratch')
  BY <1>16, DroppedIsSound DEF SweepRemove, CompleteTask
<1>17. ASSUME NEW c \in Cancellers, CancelWrite(c) PROVE SoundIndex(list', scratch')
  BY <1>17, CancelHas, UpdatedIsSound DEF CancelWrite, TypeOK
<1>18. ASSUME NEW c \in Cancellers, NEW t \in Tasks, CancelRead(c, t)
       PROVE  SoundIndex(list', scratch')
  BY <1>18 DEF CancelRead, SoundIndex, core, history
<1>19. ASSUME NEW k \in Children, CallChild(k) PROVE SoundIndex(list', scratch')
  BY <1>19 DEF CallChild, SoundIndex, core, history
<1>20. ASSUME NEW k \in Children, FindParent(k) PROVE SoundIndex(list', scratch')
  BY <1>20 DEF FindParent, SoundIndex, core, history
<1>21. ASSUME NEW k \in Children, InjectCallback(k) PROVE SoundIndex(list', scratch')
  <2>1. PICK t \in Tasks : InjectShape(k, t)
    BY <1>21, Injects
  <2>2. scratch[t] <= 1 => list[t].asked \in {NoChild, k}
    BY <2>1 DEF FoundInv, InjectShape
  <2>3. scratch' = scratch /\ SoundEntry(scratch[t], list[t])
    BY <2>1 DEF InjectShape, Handed, SoundIndex
  <2>4. SoundEntry(scratch[t], list'[t])
    <3>1. CASE list[t].st = "none"
      BY <2>1, <2>3, <3>1 DEF InjectShape
    <3>2. CASE list[t].st # "none"
      BY <2>1, <2>2, <2>3, <3>2 DEF InjectShape, SoundEntry
    <3> QED BY <3>1, <3>2
  <2> QED BY <2>1, <2>3, <2>4 DEF InjectShape, SoundIndex
<1>22. ASSUME NEW k \in Children, InjectCancelled(k) PROVE SoundIndex(list', scratch')
  BY <1>22 DEF InjectCancelled, SoundIndex, core, history
<1>23. ASSUME NEW k \in Children, DropCancelled(k) PROVE SoundIndex(list', scratch')
  <2>1. PICK t \in Tasks : DropShape(k, t)
    BY <1>23, Drops
  <2> QED BY <2>1, NoneIsSound DEF DropShape, Handed, SoundIndex
<1>24. ASSUME NEW k \in Children, SubmitResumed(k) PROVE SoundIndex(list', scratch')
  BY <1>24 DEF SubmitResumed, SoundIndex, core, history
<1>25. ASSUME NEW k \in Children, StrayCallback(k) PROVE SoundIndex(list', scratch')
  BY <1>25 DEF StrayCallback, SoundIndex, core, history
<1>26. ASSUME NEW w \in Writers, WriteIndex(w) PROVE SoundIndex(list', scratch')
  BY <1>26 DEF WriteIndex, SoundIndex, core, history
<1>27. CASE CrashAndRestart
  BY <1>27, NoneIsSound DEF CrashAndRestart, Recovered, Moved, SoundIndex, SoundEntry,
       TypeOK, Index
<1> QED BY <1>1, <1>2, <1>3, <1>4, <1>5, <1>6, <1>7, <1>8, <1>9, <1>10, <1>11, <1>12,
          <1>13, <1>14, <1>15, <1>16, <1>17, <1>18, <1>19, <1>20, <1>21, <1>22, <1>23,
          <1>24, <1>25, <1>26, <1>27
   DEF Next, AgentStep, CallbackArrives, CallbackStep

LEMMA PersistSound ==
    ASSUME TypeOK, NEW ran, SoundIndex(list', ran), NEW w \in Writers, PersistToDisk(w),
           \A v \in Writers : flush[v].pc = "write" => SoundIndex(flush[v].index, ran)
    PROVE  \A v \in Writers : flush'[v].pc = "write" => SoundIndex(flush'[v].index, ran)
<1>1. SoundIndex(Persisted(list'), ran)
  BY NoneIsSound DEF SoundIndex, Persisted
<1> QED BY <1>1 DEF PersistToDisk, TypeOK

(* Also in the file and in the writes under way. *)
LEMMA AnswerStep ==
    ASSUME TypeOK, SoundIndex(list', scratch'), SoundIndex(disk, scratch'),
           \A w \in Writers : flush[w].pc = "write" => SoundIndex(flush[w].index, scratch'), [Next]_vars
    PROVE  AnswerInv'
<1>1. CASE UNCHANGED vars
  BY <1>1 DEF vars, core, history, AnswerInv
<1>2. CASE PriorityEmpty
  BY <1>2 DEF PriorityEmpty, AnswerInv, core, history
<1>3. ASSUME NEW l \in Lanes, DequeueMissing(l) PROVE AnswerInv'
  BY <1>3 DEF DequeueMissing, AnswerInv, core, history
<1>4. ASSUME NEW l \in Lanes, DequeueCancelled(l) PROVE AnswerInv'
  BY <1>4 DEF DequeueCancelled, AnswerInv, core, history
<1>5. ASSUME NEW l \in Lanes, DequeueStart(l) PROVE AnswerInv'
  BY <1>5 DEF DequeueStart, AnswerInv, core, history
<1>6. CASE RefuseExecution
  BY <1>6 DEF RefuseExecution, AnswerInv, core, history
<1>7. CASE RegisterToken
  BY <1>7 DEF RegisterToken, AnswerInv, core, history
<1>8. CASE RunEnds
  BY <1>8 DEF RunEnds, AnswerInv, core, history
<1>9. CASE RunEndsAsync
  BY <1>9 DEF RunEndsAsync, AnswerInv, core, history
<1>10. CASE SaveAsyncState
  <2>1. PersistToDisk("agent") /\ disk' = disk
    BY <1>10 DEF SaveAsyncState
  <2> QED BY <2>1, PersistSound DEF Writers, AnswerInv
<1>11. CASE SendTaskCallback
  BY <1>11 DEF SendTaskCallback, AnswerInv, core, history
<1>12. CASE FinishTask
  <2>1. PersistToDisk("agent") /\ disk' = disk
    BY <1>12 DEF FinishTask, CompleteTask
  <2> QED BY <2>1, PersistSound DEF Writers, AnswerInv
<1>13. ASSUME NEW t \in Tasks, Accept(t) PROVE AnswerInv'
  BY <1>13 DEF Accept, AnswerInv, core, history
<1>14. ASSUME NEW t \in Tasks, RejectFull(t) PROVE AnswerInv'
  <2>1. PersistToDisk("handler") /\ disk' = disk
    BY <1>14 DEF RejectFull, CompleteTask
  <2> QED BY <2>1, PersistSound DEF Writers, AnswerInv
<1>15. CASE SweepCollect
  BY <1>15 DEF SweepCollect, AnswerInv, core, history
<1>16. ASSUME NEW t \in Tasks, SweepRemove(t) PROVE AnswerInv'
  <2>1. PersistToDisk("sweep") /\ disk' = disk
    BY <1>16 DEF SweepRemove, CompleteTask
  <2> QED BY <2>1, PersistSound DEF Writers, AnswerInv
<1>17. ASSUME NEW c \in Cancellers, CancelWrite(c) PROVE AnswerInv'
  BY <1>17 DEF CancelWrite, AnswerInv, core, history
<1>18. ASSUME NEW c \in Cancellers, NEW t \in Tasks, CancelRead(c, t) PROVE AnswerInv'
  BY <1>18 DEF CancelRead, AnswerInv, core, history
<1>19. ASSUME NEW k \in Children, CallChild(k) PROVE AnswerInv'
  BY <1>19 DEF CallChild, AnswerInv, core, history
<1>20. ASSUME NEW k \in Children, FindParent(k) PROVE AnswerInv'
  BY <1>20 DEF FindParent, AnswerInv, core, history
<1>21. ASSUME NEW k \in Children, InjectCallback(k) PROVE AnswerInv'
  <2>1. PersistToDisk(k) /\ disk' = disk
    BY <1>21 DEF InjectCallback
  <2> QED BY <2>1, PersistSound DEF Writers, AnswerInv
<1>22. ASSUME NEW k \in Children, InjectCancelled(k) PROVE AnswerInv'
  BY <1>22 DEF InjectCancelled, AnswerInv, core, history
<1>23. ASSUME NEW k \in Children, DropCancelled(k) PROVE AnswerInv'
  <2>1. PersistToDisk(k) /\ disk' = disk
    BY <1>23 DEF DropCancelled, CompleteTask
  <2> QED BY <2>1, PersistSound DEF Writers, AnswerInv
<1>24. ASSUME NEW k \in Children, SubmitResumed(k) PROVE AnswerInv'
  BY <1>24 DEF SubmitResumed, AnswerInv, core, history
<1>25. ASSUME NEW k \in Children, StrayCallback(k) PROVE AnswerInv'
  BY <1>25 DEF StrayCallback, AnswerInv, core, history
<1>26. ASSUME NEW w \in Writers, WriteIndex(w) PROVE AnswerInv'
  BY <1>26 DEF WriteIndex, AnswerInv, TypeOK, Synced
<1>27. CASE CrashAndRestart
  <2>1. \A w \in Writers : flush'[w].pc # "write"
    BY <1>27 DEF CrashAndRestart, Synced
  <2>2. SoundIndex(disk', scratch')
    BY <1>27 DEF CrashAndRestart
  <2> QED BY <2>1, <2>2 DEF AnswerInv
<1> QED BY <1>1, <1>2, <1>3, <1>4, <1>5, <1>6, <1>7, <1>8, <1>9, <1>10, <1>11, <1>12,
          <1>13, <1>14, <1>15, <1>16, <1>17, <1>18, <1>19, <1>20, <1>21, <1>22, <1>23,
          <1>24, <1>25, <1>26, <1>27
   DEF Next, AgentStep, CallbackArrives, CallbackStep

(* A task is executed after it was started; its first execution does not wait. *)
LEMMA RanStep ==
    ASSUME TypeOK, ChildInv, AnswerInv, RanInv, [Next]_vars
    PROVE  RanInv'
<1> USE DEF RanInv, Executing
<1>1. CASE UNCHANGED vars
  BY <1>1 DEF vars, core, history
<1>2. CASE PriorityEmpty
  BY <1>2 DEF PriorityEmpty, CanTake, AgentFree, Resting, UpdateStatus, Moved, history
<1>3. ASSUME NEW l \in Lanes, DequeueMissing(l) PROVE RanInv'
  BY <1>3 DEF DequeueMissing, CanTake, AgentFree, Resting, UpdateStatus, Moved, history
<1>4. ASSUME NEW l \in Lanes, DequeueCancelled(l) PROVE RanInv'
  BY <1>4 DEF DequeueCancelled, CanTake, AgentFree, Resting, UpdateStatus, Moved, history
<1>5. ASSUME NEW l \in Lanes, DequeueStart(l) PROVE RanInv'
  <2>1. PICK h \in Tasks : h = Head(queue[l])
    BY <1>5, HeadIsTask DEF DequeueStart, CanTake
  <2>2. /\ agent' = [pc |-> "started", task |-> h] /\ list[h].st # "none"
        /\ list'[h].wait = list[h].wait /\ scratch[h] \in Nat /\ scratch'[h] \in Nat
        /\ scratch'[h] = IF Resumable(list[h]) THEN scratch[h] ELSE scratch[h] + 1
    BY <1>5, <2>1 DEF DequeueStart, UpdateStatus, Moved, TypeOK, Index
  <2>3. SoundEntry(scratch[h], list[h])
    BY DEF AnswerInv, SoundIndex
  <2>4. scratch'[h] >= 1
    BY <2>2, <2>3 DEF SoundEntry, Resumable
  <2>5. scratch'[h] <= 1 => list'[h].wait = NoChild
    <3>1. CASE Resumable(list[h])
      BY <2>2, <2>3, <3>1 DEF SoundEntry, Resumable
    <3>2. CASE ~Resumable(list[h])
      BY <2>2, <2>3, <3>2 DEF SoundEntry, Resumable
    <3> QED BY <3>1, <3>2
  <2> QED BY <2>2, <2>4, <2>5
<1>6. CASE RefuseExecution
  BY <1>6 DEF RefuseExecution
<1>7. CASE RegisterToken
  BY <1>7, AgentHas DEF RegisterToken, AgentShape, history
<1>8. CASE RunEnds
  BY <1>8, AgentHas DEF RunEnds, AgentShape, history
<1>9. CASE RunEndsAsync
  BY <1>9, AgentHas DEF RunEndsAsync, AgentShape, history
<1>10. CASE SaveAsyncState
  BY <1>10 DEF SaveAsyncState, Resting
<1>11. CASE SendTaskCallback
  BY <1>11, AgentHas DEF SendTaskCallback, AgentShape, history
<1>12. CASE FinishTask
  BY <1>12 DEF FinishTask, Resting
<1>13. ASSUME NEW t \in Tasks, Accept(t) PROVE RanInv'
  BY <1>13 DEF Accept, Fresh, TypeOK, Index
<1>14. ASSUME NEW t \in Tasks, RejectFull(t) PROVE RanInv'
  BY <1>14 DEF RejectFull, CompleteTask, None, TypeOK, Index, history
<1>15. CASE SweepCollect
  BY <1>15 DEF SweepCollect, core, history
<1>16. ASSUME NEW t \in Tasks, SweepRemove(t) PROVE RanInv'
  BY <1>16 DEF SweepRemove, CompleteTask, None, TypeOK, Index, history
<1>17. ASSUME NEW c \in Cancellers, CancelWrite(c) PROVE RanInv'
  BY <1>17, CancelHas DEF CancelWrite, UpdateStatus, Moved, TypeOK, Index
<1>18. ASSUME NEW c \in Cancellers, NEW t \in Tasks, CancelRead(c, t) PROVE RanInv'
  BY <1>18 DEF CancelRead, core, history
<1>19. ASSUME NEW k \in Children, CallChild(k) PROVE RanInv'
  BY <1>19, AgentHas DEF CallChild, AgentShape, history
<1>20. ASSUME NEW k \in Children, FindParent(k) PROVE RanInv'
  <2>1. PICK t \in Tasks : FindShape(k, t)
    BY <1>20, Finds
  <2> QED BY <2>1 DEF FindShape, Handed
<1>21. ASSUME NEW k \in Children, InjectCallback(k) PROVE RanInv'
  <2>1. PICK t \in Tasks : InjectShape(k, t)
    BY <1>21, Injects
  <2> QED BY <2>1 DEF InjectShape, Handed, HasFound
<1>22. ASSUME NEW k \in Children, InjectCancelled(k) PROVE RanInv'
  BY <1>22 DEF InjectCancelled, core, history
<1>23. ASSUME NEW k \in Children, DropCancelled(k) PROVE RanInv'
  <2>1. PICK t \in Tasks : DropShape(k, t)
    BY <1>23, Drops
  <2> QED BY <2>1 DEF DropShape, Handed, None
<1>24. ASSUME NEW k \in Children, SubmitResumed(k) PROVE RanInv'
  BY <1>24 DEF SubmitResumed, core, history
<1>25. ASSUME NEW k \in Children, StrayCallback(k) PROVE RanInv'
  BY <1>25 DEF StrayCallback, core, history
<1>26. ASSUME NEW w \in Writers, WriteIndex(w) PROVE RanInv'
  BY <1>26 DEF WriteIndex, core, history
<1>27. CASE CrashAndRestart
  BY <1>27 DEF CrashAndRestart, Resting
<1> QED BY <1>1, <1>2, <1>3, <1>4, <1>5, <1>6, <1>7, <1>8, <1>9, <1>10, <1>11, <1>12,
          <1>13, <1>14, <1>15, <1>16, <1>17, <1>18, <1>19, <1>20, <1>21, <1>22, <1>23,
          <1>24, <1>25, <1>26, <1>27
   DEF Next, AgentStep, CallbackArrives, CallbackStep

(* What a handler has found waits for it until it is started again. *)
LEMMA FoundStep ==
    ASSUME TypeOK, ChildInv, AnswerInv, RanInv, FoundInv, [Next]_vars
    PROVE  FoundInv'
<1> USE DEF FoundInv, HasFound, Executing
<1>1. CASE UNCHANGED vars
  BY <1>1 DEF vars, core, history
<1>2. CASE PriorityEmpty
  BY <1>2 DEF PriorityEmpty, CanTake, AgentFree, Resting, history
<1>3. ASSUME NEW l \in Lanes, DequeueMissing(l) PROVE FoundInv'
  BY <1>3 DEF DequeueMissing, CanTake, AgentFree, Resting, history
<1>4. ASSUME NEW l \in Lanes, DequeueCancelled(l) PROVE FoundInv'
  <2>1. PICK h \in Tasks : h = Head(queue[l])
    BY <1>4, HeadIsTask DEF DequeueCancelled, CanTake
  <2>2. /\ agent' = [pc |-> "report", task |-> h] /\ UNCHANGED <<child, scratch>>
        /\ \A v \in Tasks : list'[v].got = list[v].got /\ list'[v].asked = list[v].asked
    BY <1>4, <2>1 DEF DequeueCancelled, UpdateStatus, Moved, TypeOK, Index, history
  <2> QED BY <2>2
<1>5. ASSUME NEW l \in Lanes, DequeueStart(l) PROVE FoundInv'
  <2>1. PICK h \in Tasks : h = Head(queue[l])
    BY <1>5, HeadIsTask DEF DequeueStart, CanTake
  <2>2. /\ agent' = [pc |-> "started", task |-> h] /\ child' = child
        /\ agent.pc \in {"idle", "select"}
        /\ \A v \in Tasks : /\ list'[v].got = list[v].got /\ list'[v].asked = list[v].asked
                            /\ v # h => scratch'[v] = scratch[v]
        /\ scratch[h] \in Nat /\ scratch'[h] \in Nat
        /\ scratch'[h] = IF Resumable(list[h]) THEN scratch[h] ELSE scratch[h] + 1
    BY <1>5, <2>1, SMTT(30) DEF DequeueStart, CanTake, AgentFree, Resting, UpdateStatus,
         Moved, TypeOK, Index
  <2> SUFFICES ASSUME NEW t \in Tasks, NEW k \in Children, HasFound(k, t)'
               PROVE  /\ scratch'[t] >= 1
                      /\ scratch'[t] <= 1 =>
                            /\ ~Executing(t)' /\ list'[t].got = NoChild
                            /\ list'[t].asked \in {NoChild, k}
                            /\ \A j \in Children : HasFound(j, t)' => j = k
    OBVIOUS
  <2>3. HasFound(k, t) /\ \A j \in Children : HasFound(j, t)' => HasFound(j, t)
    BY <2>2
  <2>4. CASE t # h
    BY <2>2, <2>3, <2>4
  <2>5. CASE t = h
    <3>1. scratch[t] >= 1 /\ (scratch[t] <= 1 => list[t].got = NoChild)
      BY <2>3
    <3>2. scratch'[t] > 1
      BY <2>2, <2>5, <3>1 DEF Resumable
    <3> QED BY <2>2, <2>5, <3>2
  <2> QED BY <2>4, <2>5
<1>6. CASE RefuseExecution
  <2>1. PICK h \in Tasks : agent.pc = "started" /\ agent.task = h
    BY <1>6, AgentHas DEF RefuseExecution, AgentShape
  <2>2. /\ agent' = [pc |-> "report", task |-> h] /\ UNCHANGED <<child, scratch>>
        /\ list' = list \/ list' = UpdateStatus(list, h, "Failed")
    BY <1>6, <2>1 DEF RefuseExecution, history
  <2>3. \A v \in Tasks : list'[v].got = list[v].got /\ list'[v].asked = list[v].asked
    <3>1. CASE list' = list
      BY <3>1
    <3>2. CASE list' = UpdateStatus(list, h, "Failed")
      BY <3>2 DEF UpdateStatus, Moved, TypeOK, Index
    <3> QED BY <2>2, <3>1, <3>2
  <2> QED BY <2>2, <2>3
<1>7. CASE RegisterToken
  BY <1>7, AgentHas DEF RegisterToken, AgentShape, history
<1>8. CASE RunEnds
  BY <1>8, AgentHas DEF RunEnds, AgentShape, history
<1>9. CASE RunEndsAsync
  BY <1>9, AgentHas DEF RunEndsAsync, AgentShape, history
<1>10. CASE SaveAsyncState
  <2>1. PICK h \in Tasks, c \in Children : agent = [pc |-> "saving", task |-> h, child |-> c]
    BY <1>10 DEF SaveAsyncState, TypeOK, Agents, Resting
  <2>2. /\ agent' = Resting /\ UNCHANGED <<child, scratch>>
        /\ \A v \in Tasks : v # h => list'[v] = list[v]
    BY <1>10, <2>1 DEF SaveAsyncState, TypeOK, Index, history
  <2>3. Executing(h)
    BY <2>1
  <2> QED BY <2>2, <2>3 DEF Resting
<1>11. CASE SendTaskCallback
  BY <1>11, AgentHas DEF SendTaskCallback, AgentShape, history
<1>12. CASE FinishTask
  BY <1>12, AgentHas DEF FinishTask, AgentShape, CompleteTask, None, Resting, TypeOK,
       Index, history
<1>13. ASSUME NEW t \in Tasks, Accept(t) PROVE FoundInv'
  BY <1>13 DEF Accept, Fresh, TypeOK, Index
<1>14. ASSUME NEW t \in Tasks, RejectFull(t) PROVE FoundInv'
  BY <1>14 DEF RejectFull, CompleteTask, None, TypeOK, Index, history
<1>15. CASE SweepCollect
  BY <1>15 DEF SweepCollect, core, history
<1>16. ASSUME NEW t \in Tasks, SweepRemove(t) PROVE FoundInv'
  BY <1>16 DEF SweepRemove, CompleteTask, None, TypeOK, Index, history
<1>17. ASSUME NEW c \in Cancellers, CancelWrite(c) PROVE FoundInv'
  BY <1>17, CancelHas DEF CancelWrite, UpdateStatus, Moved, TypeOK, Index
<1>18. ASSUME NEW c \in Cancellers, NEW t \in Tasks, CancelRead(c, t) PROVE FoundInv'
  BY <1>18 DEF CancelRead, core, history
<1>19. ASSUME NEW k \in Children, CallChild(k) PROVE FoundInv'
  BY <1>19, AgentHas DEF CallChild, AgentShape, TypeOK, history
<1>20. ASSUME NEW k \in Children, FindParent(k) PROVE FoundInv'
  <2>1. PICK t \in Tasks : FindShape(k, t)
    BY <1>20, Finds
  <2>2. SoundEntry(scratch[t], list[t])
    BY DEF AnswerInv, SoundIndex
  <2>3. list[t].asked = k /\ list[t].got = NoChild /\ scratch[t] >= 1
    BY <2>1, <2>2, NullsFresh DEF FindShape, SoundEntry
  <2>4. scratch[t] <= 1 => ~Executing(t)
    BY <2>1, NullsFresh DEF FindShape, RanInv
  <2>5. \A j \in Children : HasFound(j, t) => scratch[t] > 1
    <3> SUFFICES ASSUME NEW j \in Children, HasFound(j, t), scratch[t] <= 1 PROVE FALSE
      BY DEF TypeOK
    <3>1. list[t].asked \in {NoChild, j}
      OBVIOUS
    <3>2. j = k
      BY <2>3, <3>1, NullsFresh
    <3> QED BY <2>1, <3>2 DEF FindShape
  <2>6. /\ UNCHANGED <<list, agent, scratch>>
        /\ \A j \in Children, u \in Tasks : HasFound(j, u)' => HasFound(j, u) \/ (j = k /\ u = t)
    BY <2>1 DEF FindShape, Handed
  <2>7. scratch[t] \in Nat
    BY DEF TypeOK
  <2> HIDE DEF HasFound, Executing
  <2>8. \A u \in Tasks : Executing(u)' = Executing(u)
    BY <2>6 DEF Executing
  <2> QED BY <2>3, <2>4, <2>5, <2>6, <2>7, <2>8 DEF FoundInv
<1>21. ASSUME NEW k \in Children, InjectCallback(k) PROVE FoundInv'
  <2>1. PICK t \in Tasks : InjectShape(k, t)
    BY <1>21, Injects
  <2>2. HasFound(k, t) /\ UNCHANGED <<agent, scratch>> /\ \A u \in Tasks : u # t => list'[u] = list[u]
    BY <2>1 DEF InjectShape, Handed
  <2>3. \A j \in Children, u \in Tasks : HasFound(j, u)' => HasFound(j, u) /\ j # k
    BY <2>1 DEF InjectShape, Handed
  <2>4. \A j \in Children : HasFound(j, t)' => scratch[t] > 1
    <3> SUFFICES ASSUME NEW j \in Children, HasFound(j, t)', scratch[t] <= 1 PROVE FALSE
      BY DEF TypeOK
    <3>1. HasFound(j, t) /\ j # k
      BY <2>3
    <3> QED BY <2>2, <3>1
  <2>5. \A u \in Tasks : Executing(u)' = Executing(u) /\ scratch[u] \in Nat
    BY <2>2 DEF TypeOK
  <2> HIDE DEF HasFound, Executing
  <2> QED BY <2>2, <2>3, <2>4, <2>5 DEF FoundInv
<1>22. ASSUME NEW k \in Children, InjectCancelled(k) PROVE FoundInv'
  BY <1>22 DEF InjectCancelled, TypeOK, history
<1>23. ASSUME NEW k \in Children, DropCancelled(k) PROVE FoundInv'
  <2>1. PICK t \in Tasks : DropShape(k, t)
    BY <1>23, Drops
  <2> QED BY <2>1 DEF DropShape, Handed, None
<1>24. ASSUME NEW k \in Children, SubmitResumed(k) PROVE FoundInv'
  BY <1>24 DEF SubmitResumed, TypeOK, history
<1>25. ASSUME NEW k \in Children, StrayCallback(k) PROVE FoundInv'
  BY <1>25 DEF StrayCallback, TypeOK, history
<1>26. ASSUME NEW w \in Writers, WriteIndex(w) PROVE FoundInv'
  BY <1>26 DEF WriteIndex, core, history
<1>27. CASE CrashAndRestart
  <2>1. \A k \in Children : child'[k].st # "found"
    BY <1>27 DEF CrashAndRestart, ChildInv, InHand, TypeOK
  <2> QED BY <2>1
<1> QED BY <1>1, <1>2, <1>3, <1>4, <1>5, <1>6, <1>7, <1>8, <1>9, <1>10, <1>11, <1>12,
          <1>13, <1>14, <1>15, <1>16, <1>17, <1>18, <1>19, <1>20, <1>21, <1>22, <1>23,
          <1>24, <1>25, <1>26, <1>27
   DEF Next, AgentStep, CallbackArrives, CallbackStep

(* No step of anybody loses track of a task. *)
LEMMA ForgetStep ==
    ASSUME TypeOK, ChildInv, ForgetInv, [Next]_vars
    PROVE  ForgetInv'
<1> USE DEF ForgetInv, Excused, Reporting
<1>1. CASE UNCHANGED vars
  BY <1>1 DEF vars, core, history
<1>2. CASE PriorityEmpty
  BY <1>2 DEF PriorityEmpty, AgentFree, Resting, history
<1>3. ASSUME NEW l \in Lanes, DequeueMissing(l) PROVE ForgetInv'
  BY <1>3 DEF DequeueMissing, CanTake, AgentFree, Resting, history
<1>4. ASSUME NEW l \in Lanes, DequeueCancelled(l) PROVE ForgetInv'
  <2>1. Head(queue[l]) \in Tasks
    BY <1>4, HeadIsTask DEF DequeueCancelled, CanTake
  <2> QED BY <1>4, <2>1, SMTT(30) DEF DequeueCancelled, CanTake, AgentFree, Resting,
       UpdateStatus, Moved, TypeOK, Index, history
<1>5. ASSUME NEW l \in Lanes, DequeueStart(l) PROVE ForgetInv'
  <2>1. Head(queue[l]) \in Tasks
    BY <1>5, HeadIsTask DEF DequeueStart, CanTake
  <2> QED BY <1>5, <2>1, SMTT(30) DEF DequeueStart, CanTake, AgentFree, Resting,
       UpdateStatus, Moved, TypeOK, Index, history
<1>6. CASE RefuseExecution
  <2>1. PICK h \in Tasks : agent.pc = "started" /\ agent.task = h
    BY <1>6, AgentHas DEF RefuseExecution, AgentShape
  <2>2. /\ agent' = [pc |-> "report", task |-> h]
        /\ UNCHANGED <<child, stale, sends, reports, stopped, dropped, lost>>
        /\ list' = list \/ list' = UpdateStatus(list, h, "Failed")
    BY <1>6, <2>1 DEF RefuseExecution, history
  <2>3. CASE list' = list
    BY <2>1, <2>2, <2>3
  <2>4. CASE list' = UpdateStatus(list, h, "Failed")
    BY <2>1, <2>2, <2>4 DEF UpdateStatus, Moved, TypeOK, Index
  <2> QED BY <2>2, <2>3, <2>4
<1>7. CASE RegisterToken
  BY <1>7, AgentHas DEF RegisterToken, AgentShape, history
<1>8. CASE RunEnds
  BY <1>8, AgentHas DEF RunEnds, AgentShape, history
<1>9. CASE RunEndsAsync
  BY <1>9, AgentHas DEF RunEndsAsync, AgentShape, history
<1>10. CASE SaveAsyncState
  BY <1>10, AgentHas DEF SaveAsyncState, AgentShape, Resting, TypeOK, Index, history
<1>11. CASE SendTaskCallback
  BY <1>11, AgentHas DEF SendTaskCallback, AgentShape, TypeOK, history
<1>12. CASE FinishTask
  BY <1>12, AgentHas DEF FinishTask, AgentShape, CompleteTask, None, Resting, TypeOK,
       Index, history
<1>13. ASSUME NEW t \in Tasks, Accept(t) PROVE ForgetInv'
  BY <1>13 DEF Accept, Fresh, TypeOK, Index
<1>14. ASSUME NEW t \in Tasks, RejectFull(t) PROVE ForgetInv'
  BY <1>14 DEF RejectFull, CompleteTask, None, Terminal, TypeOK, Index, history
<1>15. CASE SweepCollect
  BY <1>15 DEF SweepCollect, Terminal, history
<1>16. ASSUME NEW t \in Tasks, SweepRemove(t) PROVE ForgetInv'
  BY <1>16 DEF SweepRemove, CompleteTask, None, Terminal, TypeOK, Index, history
<1>17. ASSUME NEW c \in Cancellers, CancelWrite(c) PROVE ForgetInv'
  BY <1>17, CancelHas DEF CancelWrite, UpdateStatus, Moved, TypeOK, Index
<1>18. ASSUME NEW c \in Cancellers, NEW t \in Tasks, CancelRead(c, t) PROVE ForgetInv'
  BY <1>18 DEF CancelRead, core, history
<1>19. ASSUME NEW k \in Children, CallChild(k) PROVE ForgetInv'
  BY <1>19, AgentHas DEF CallChild, AgentShape, TypeOK, history
<1>20. ASSUME NEW k \in Children, FindParent(k) PROVE ForgetInv'
  <2>1. PICK t \in Tasks : FindShape(k, t)
    BY <1>20, Finds
  <2> QED BY <2>1 DEF FindShape, Handed
<1>21. ASSUME NEW k \in Children, InjectCallback(k) PROVE ForgetInv'
  <2>1. PICK t \in Tasks : InjectShape(k, t)
    BY <1>21, Injects
  <2> QED BY <2>1 DEF InjectShape, Handed, HasFound
<1>22. ASSUME NEW k \in Children, InjectCancelled(k) PROVE ForgetInv'
  BY <1>22 DEF InjectCancelled, ChildInv, InHand, TypeOK, history
<1>23. ASSUME NEW k \in Children, DropCancelled(k) PROVE ForgetInv'
  <2>1. PICK t \in Tasks : DropShape(k, t)
    BY <1>23, Drops
  <2> QED BY <2>1 DEF DropShape, Handed, None
<1>24. ASSUME NEW k \in Children, SubmitResumed(k) PROVE ForgetInv'
  BY <1>24, AgentHas DEF SubmitResumed, AgentShape, TypeOK, history
<1>25. ASSUME NEW k \in Children, StrayCallback(k) PROVE ForgetInv'
  BY <1>25, AgentHas DEF StrayCallback, AgentShape, TypeOK, history
<1>26. ASSUME NEW w \in Writers, WriteIndex(w) PROVE ForgetInv'
  BY <1>26 DEF WriteIndex, core, history
<1>27. CASE CrashAndRestart
  BY <1>27 DEF CrashAndRestart, Recovered, Moved, None, Resting, TypeOK, Index, ChildInv,
       InHand
<1> QED BY <1>1, <1>2, <1>3, <1>4, <1>5, <1>6, <1>7, <1>8, <1>9, <1>10, <1>11, <1>12,
          <1>13, <1>14, <1>15, <1>16, <1>17, <1>18, <1>19, <1>20, <1>21, <1>22, <1>23,
          <1>24, <1>25, <1>26, <1>27
   DEF Next, AgentStep, CallbackArrives, CallbackStep

(* Entry and placeholder come and go together. *)
LEMMA VisibleStep ==
    ASSUME TypeOK, ChildInv, VisibleInv, [Next]_vars
    PROVE  VisibleInv'
<1> USE DEF VisibleInv
<1>1. CASE UNCHANGED vars
  BY <1>1 DEF vars, core, history
<1>2. CASE PriorityEmpty
  BY <1>2 DEF PriorityEmpty, core, history
<1>3. ASSUME NEW l \in Lanes, DequeueMissing(l) PROVE VisibleInv'
  BY <1>3 DEF DequeueMissing, core, history
<1>4. ASSUME NEW l \in Lanes, DequeueCancelled(l) PROVE VisibleInv'
  <2>1. Head(queue[l]) \in Tasks
    BY <1>4, HeadIsTask DEF DequeueCancelled, CanTake
  <2> QED BY <1>4, <2>1 DEF DequeueCancelled, UpdateStatus, Moved, TypeOK, Index, history
<1>5. ASSUME NEW l \in Lanes, DequeueStart(l) PROVE VisibleInv'
  <2>1. Head(queue[l]) \in Tasks
    BY <1>5, HeadIsTask DEF DequeueStart, CanTake
  <2> QED BY <1>5, <2>1 DEF DequeueStart, UpdateStatus, Moved, TypeOK, Index, history
<1>6. CASE RefuseExecution
  BY <1>6, AgentHas DEF RefuseExecution, AgentShape, UpdateStatus, Moved, TypeOK, Index,
       history
<1>7. CASE RegisterToken
  BY <1>7 DEF RegisterToken, core, history
<1>8. CASE RunEnds
  BY <1>8 DEF RunEnds, core, history
<1>9. CASE RunEndsAsync
  BY <1>9 DEF RunEndsAsync, core, history
<1>10. CASE SaveAsyncState
  BY <1>10, AgentHas DEF SaveAsyncState, AgentShape, TypeOK, Index, history
<1>11. CASE SendTaskCallback
  BY <1>11, AgentHas DEF SendTaskCallback, AgentShape, TypeOK, history
<1>12. CASE FinishTask
  BY <1>12, AgentHas DEF FinishTask, AgentShape, CompleteTask, None, TypeOK, Index, history
<1>13. ASSUME NEW t \in Tasks, Accept(t) PROVE VisibleInv'
  BY <1>13 DEF Accept, Fresh, TypeOK, Index
<1>14. ASSUME NEW t \in Tasks, RejectFull(t) PROVE VisibleInv'
  BY <1>14 DEF RejectFull, CompleteTask, None, TypeOK, Index, history
<1>15. CASE SweepCollect
  BY <1>15 DEF SweepCollect, core, history
<1>16. ASSUME NEW t \in Tasks, SweepRemove(t) PROVE VisibleInv'
  BY <1>16 DEF SweepRemove, CompleteTask, None, TypeOK, Index, history
<1>17. ASSUME NEW c \in Cancellers, CancelWrite(c) PROVE VisibleInv'
  BY <1>17, CancelHas DEF CancelWrite, UpdateStatus, Moved, TypeOK, Index
<1>18. ASSUME NEW c \in Cancellers, NEW t \in Tasks, CancelRead(c, t) PROVE VisibleInv'
  BY <1>18 DEF CancelRead, core, history
<1>19. ASSUME NEW k \in Children, CallChild(k) PROVE VisibleInv'
  BY <1>19 DEF CallChild, core, history
<1>20. ASSUME NEW k \in Children, FindParent(k) PROVE VisibleInv'
  <2>1. PICK t \in Tasks : FindShape(k, t)
    BY <1>20, Finds
  <2> QED BY <2>1 DEF FindShape, Handed
<1>21. ASSUME NEW k \in Children, InjectCallback(k) PROVE VisibleInv'
  <2>1. PICK t \in Tasks : InjectShape(k, t)
    BY <1>21, Injects
  <2> QED BY <2>1 DEF InjectShape, Handed, HasFound
<1>22. ASSUME NEW k \in Children, InjectCancelled(k) PROVE VisibleInv'
  BY <1>22 DEF InjectCancelled, core, history
<1>23. ASSUME NEW k \in Children, DropCancelled(k) PROVE VisibleInv'
  <2>1. PICK t \in Tasks : DropShape(k, t)
    BY <1>23, Drops
  <2> QED BY <2>1 DEF DropShape, Handed, None
<1>24. ASSUME NEW k \in Children, SubmitResumed(k) PROVE VisibleInv'
  BY <1>24 DEF SubmitResumed, core, history
<1>25. ASSUME NEW k \in Children, StrayCallback(k) PROVE VisibleInv'
  BY <1>25 DEF StrayCallback, core, history
<1>26. ASSUME NEW w \in Writers, WriteIndex(w) PROVE VisibleInv'
  BY <1>26 DEF WriteIndex, core, history
<1>27. CASE CrashAndRestart
  BY <1>27 DEF CrashAndRestart, TypeOK
<1> QED BY <1>1, <1>2, <1>3, <1>4, <1>5, <1>6, <1>7, <1>8, <1>9, <1>10, <1>11, <1>12,
          <1>13, <1>14, <1>15, <1>16, <1>17, <1>18, <1>19, <1>20, <1>21, <1>22, <1>23,
          <1>24, <1>25, <1>26, <1>27
   DEF Next, AgentStep, CallbackArrives, CallbackStep

(* Taking the head of a lane takes nothing else out of the queue. *)
LEMMA TakeKeeps ==
    ASSUME TypeOK, NEW l \in Lanes, queue[l] # <<>>, Take(l), NEW t \in Tasks, Queued(t),
           t # Head(queue[l])
    PROVE  Queued(t)'
<1>1. PICK m \in Lanes : \E i \in 1..Len(queue[m]) : queue[m][i] = t
  BY DEF Queued
<1>2. PICK i \in 1..Len(queue[m]) : queue[m][i] = t
  BY <1>1
<1>3. CASE m # l
  BY <1>2, <1>3 DEF Take, TypeOK, Queued
<1>4. CASE m = l
  <2>1. queue[l] \in Seq(Tasks) /\ queue'[l] = Tail(queue[l])
    BY DEF Take, TypeOK
  <2>2. i # 1 /\ i \in 1..Len(queue[l]) /\ queue[l][i] = t
    BY <1>2, <1>4, <2>1
  <2>3. i - 1 \in 1..Len(queue'[l]) /\ queue'[l][i - 1] = t
    BY <2>1, <2>2
  <2> QED BY <2>3 DEF Queued
<1> QED BY <1>3, <1>4

LEMMA SubmitKeeps ==
    ASSUME TypeOK, NEW l \in Lanes, NEW h \in Tasks, queue' = Submit(l, h), NEW t \in Tasks,
           Queued(t)
    PROVE  Queued(t)'
<1>1. PICK m \in Lanes : \E i \in 1..Len(queue[m]) : queue[m][i] = t
  BY DEF Queued
<1>2. PICK i \in 1..Len(queue[m]) : queue[m][i] = t
  BY <1>1
<1>3. queue[m] \in Seq(Tasks) /\ queue'[m] \in {queue[m], Append(queue[m], h)}
  BY DEF Submit, TypeOK
<1>4. i \in 1..Len(queue'[m]) /\ queue'[m][i] = t
  <2>1. CASE queue'[m] = queue[m]
    BY <1>2, <2>1
  <2>2. CASE queue'[m] = Append(queue[m], h)
    BY <1>2, <1>3, <2>2
  <2> QED BY <1>3, <2>1, <2>2
<1> QED BY <1>4 DEF Queued

LEMMA SubmitQueues ==
    ASSUME TypeOK, NEW l \in Lanes, NEW h \in Tasks, queue' = Submit(l, h), ~Full(l)
    PROVE  Queued(h)'
<1>1. queue[l] \in Seq(Tasks) /\ queue'[l] = Append(queue[l], h)
  BY DEF Submit, TypeOK
<1>2. Len(queue[l]) + 1 \in 1..Len(queue'[l]) /\ queue'[l][Len(queue[l]) + 1] = h
  BY <1>1
<1> QED BY <1>2 DEF Queued

(* Whatever waits is queued, or about to be. *)
LEMMA PendingStep ==
    ASSUME TypeOK, ChildInv, PendingIsQueued, [Next]_vars
    PROVE  PendingIsQueued'
<1>1. CASE UNCHANGED vars
  BY <1>1 DEF vars, core, history, PendingIsQueued, Queued
<1>2. CASE PriorityEmpty
  BY <1>2 DEF PriorityEmpty, PendingIsQueued, Queued, history
<1>3. ASSUME NEW l \in Lanes, DequeueMissing(l) PROVE PendingIsQueued'
  <2>1. Head(queue[l]) \in Tasks
    BY <1>3, HeadIsTask DEF DequeueMissing, CanTake
  <2>2. \A t \in Tasks : list'[t].st = "Pending" => t # Head(queue[l]) /\ list[t].st = "Pending"
    BY <1>3, <2>1 DEF DequeueMissing
  <2>3. \A t \in Tasks : Queued(t) /\ t # Head(queue[l]) => Queued(t)'
    BY <1>3, TakeKeeps DEF DequeueMissing, CanTake
  <2>4. dropped' = dropped /\ child' = child
    BY <1>3 DEF DequeueMissing, history
  <2> QED BY <2>2, <2>3, <2>4 DEF PendingIsQueued
<1>4. ASSUME NEW l \in Lanes, DequeueCancelled(l) PROVE PendingIsQueued'
  <2>1. Head(queue[l]) \in Tasks
    BY <1>4, HeadIsTask DEF DequeueCancelled, CanTake
  <2>2. \A t \in Tasks : list'[t].st = "Pending" => t # Head(queue[l]) /\ list[t].st = "Pending"
    BY <1>4, <2>1 DEF DequeueCancelled, UpdateStatus, Moved, TypeOK, Index
  <2>3. \A t \in Tasks : Queued(t) /\ t # Head(queue[l]) => Queued(t)'
    BY <1>4, TakeKeeps DEF DequeueCancelled, CanTake
  <2>4. dropped' = dropped /\ child' = child
    BY <1>4 DEF DequeueCancelled, history
  <2> QED BY <2>2, <2>3, <2>4 DEF PendingIsQueued
<1>5. ASSUME NEW l \in Lanes, DequeueStart(l) PROVE PendingIsQueued'
  <2>1. Head(queue[l]) \in Tasks
    BY <1>5, HeadIsTask DEF DequeueStart, CanTake
  <2>2. \A t \in Tasks : list'[t].st = "Pending" => t # Head(queue[l]) /\ list[t].st = "Pending"
    BY <1>5, <2>1 DEF DequeueStart, UpdateStatus, Moved, TypeOK, Index
  <2>3. \A t \in Tasks : Queued(t) /\ t # Head(queue[l]) => Queued(t)'
    BY <1>5, TakeKeeps DEF DequeueStart, CanTake
  <2>4. dropped' = dropped /\ child' = child
    BY <1>5 DEF DequeueStart, history
  <2> QED BY <2>2, <2>3, <2>4 DEF PendingIsQueued
<1>6. CASE RefuseExecution
  <2>1. PICK h \in Tasks : list' = list \/ list' = UpdateStatus(list, h, "Failed")
    BY <1>6, AgentHas DEF RefuseExecution, AgentShape
  <2>2. \A u \in Tasks : list'[u].st = "Pending" => list[u].st = "Pending"
    <3>1. CASE list' = list
      BY <3>1
    <3>2. CASE list' = UpdateStatus(list, h, "Failed")
      BY <3>2 DEF UpdateStatus, Moved, TypeOK, Index
    <3> QED BY <2>1, <3>1, <3>2
  <2>3. queue' = queue /\ dropped' = dropped /\ child' = child
    BY <1>6 DEF RefuseExecution, history
  <2> QED BY <2>2, <2>3 DEF PendingIsQueued, Queued
<1>7. CASE RegisterToken
  BY <1>7 DEF RegisterToken, PendingIsQueued, Queued, history
<1>8. CASE RunEnds
  BY <1>8 DEF RunEnds, PendingIsQueued, Queued, history
<1>9. CASE RunEndsAsync
  BY <1>9 DEF RunEndsAsync, PendingIsQueued, Queued, history
<1>10. CASE SaveAsyncState
  <2>1. \A u \in Tasks : list'[u].st = "Pending" => list[u].st = "Pending"
    BY <1>10, AgentHas DEF SaveAsyncState, AgentShape, TypeOK, Index
  <2>2. queue' = queue /\ dropped \subseteq dropped' /\ child' = child
    BY <1>10 DEF SaveAsyncState, history
  <2> QED BY <2>1, <2>2 DEF PendingIsQueued, Queued
<1>11. CASE SendTaskCallback
  BY <1>11 DEF SendTaskCallback, PendingIsQueued, Queued, history
<1>12. CASE FinishTask
  <2>1. \A u \in Tasks : list'[u].st = "Pending" => list[u].st = "Pending"
    BY <1>12, AgentHas DEF FinishTask, AgentShape, CompleteTask, None, TypeOK, Index
  <2>2. queue' = queue /\ dropped \subseteq dropped' /\ child' = child
    BY <1>12 DEF FinishTask, history
  <2> QED BY <2>1, <2>2 DEF PendingIsQueued, Queued
<1>13. ASSUME NEW t \in Tasks, Accept(t) PROVE PendingIsQueued'
  <2>1. Lane(t) \in Lanes
    BY DEF Lane, Lanes
  <2>2. Queued(t)'
    BY <1>13, <2>1, SubmitQueues DEF Accept
  <2>3. \A u \in Tasks : Queued(u) => Queued(u)'
    BY <1>13, <2>1, SubmitKeeps DEF Accept
  <2>4. \A u \in Tasks : u # t => list'[u] = list[u]
    BY <1>13 DEF Accept, TypeOK, Index
  <2>5. dropped' = dropped /\ child' = child
    BY <1>13 DEF Accept
  <2> QED BY <2>2, <2>3, <2>4, <2>5 DEF PendingIsQueued
<1>14. ASSUME NEW t \in Tasks, RejectFull(t) PROVE PendingIsQueued'
  <2>1. \A u \in Tasks : list'[u].st = "Pending" => list[u].st = "Pending"
    BY <1>14 DEF RejectFull, CompleteTask, None, TypeOK, Index
  <2>2. queue' = queue /\ dropped \subseteq dropped' /\ child' = child
    BY <1>14 DEF RejectFull, history
  <2> QED BY <2>1, <2>2 DEF PendingIsQueued, Queued
<1>15. CASE SweepCollect
  BY <1>15 DEF SweepCollect, PendingIsQueued, Queued, history
<1>16. ASSUME NEW t \in Tasks, SweepRemove(t) PROVE PendingIsQueued'
  <2>1. \A u \in Tasks : list'[u].st = "Pending" => list[u].st = "Pending"
    BY <1>16 DEF SweepRemove, CompleteTask, None, TypeOK, Index
  <2>2. queue' = queue /\ dropped \subseteq dropped' /\ child' = child
    BY <1>16 DEF SweepRemove, history
  <2> QED BY <2>1, <2>2 DEF PendingIsQueued, Queued
<1>17. ASSUME NEW c \in Cancellers, CancelWrite(c) PROVE PendingIsQueued'
  <2>1. \A u \in Tasks : list'[u].st = "Pending" => list[u].st = "Pending"
    BY <1>17, CancelHas DEF CancelWrite, UpdateStatus, Moved, TypeOK, Index
  <2>2. queue' = queue /\ dropped \subseteq dropped' /\ child' = child
    BY <1>17 DEF CancelWrite, history
  <2> QED BY <2>1, <2>2 DEF PendingIsQueued, Queued
<1>18. ASSUME NEW c \in Cancellers, NEW t \in Tasks, CancelRead(c, t) PROVE PendingIsQueued'
  BY <1>18 DEF CancelRead, PendingIsQueued, Queued, history
<1>19. ASSUME NEW k \in Children, CallChild(k) PROVE PendingIsQueued'
  <2>1. \A j \in Children : child'[j].parent = child[j].parent
    BY <1>19 DEF CallChild, TypeOK
  <2>2. UNCHANGED <<list, queue, dropped>>
    BY <1>19 DEF CallChild, history
  <2> QED BY <2>1, <2>2 DEF PendingIsQueued, Queued
<1>20. ASSUME NEW k \in Children, FindParent(k) PROVE PendingIsQueued'
  <2>1. PICK t \in Tasks : FindShape(k, t)
    BY <1>20, Finds
  <2> QED BY <2>1 DEF FindShape, Handed, PendingIsQueued, Queued
<1>21. ASSUME NEW k \in Children, InjectCallback(k) PROVE PendingIsQueued'
  <2>1. PICK t \in Tasks : InjectShape(k, t)
    BY <1>21, Injects
  <2> QED BY <2>1 DEF InjectShape, Handed, HasFound, PendingIsQueued, Queued
<1>22. ASSUME NEW k \in Children, InjectCancelled(k) PROVE PendingIsQueued'
  <2>1. \A j \in Children : child'[j].parent = child[j].parent
    BY <1>22 DEF InjectCancelled, TypeOK
  <2>2. UNCHANGED <<list, queue, dropped>>
    BY <1>22 DEF InjectCancelled, history
  <2> QED BY <2>1, <2>2 DEF PendingIsQueued, Queued
<1>23. ASSUME NEW k \in Children, DropCancelled(k) PROVE PendingIsQueued'
  <2>1. PICK t \in Tasks : DropShape(k, t)
    BY <1>23, Drops
  <2> QED BY <2>1 DEF DropShape, Handed, None, PendingIsQueued, Queued
<1>24. ASSUME NEW k \in Children, SubmitResumed(k) PROVE PendingIsQueued'
  <2>1. PICK h \in Tasks : child[k].parent = h
    BY <1>24 DEF SubmitResumed, ChildInv, InHand
  <2>2. "normal" \in Lanes
    BY DEF Lanes
  <2>3. Queued(h)' \/ h \in dropped'
    BY <1>24, <2>1, <2>2, SubmitQueues DEF SubmitResumed
  <2>4. \A u \in Tasks : Queued(u) => Queued(u)'
    BY <1>24, <2>1, <2>2, SubmitKeeps DEF SubmitResumed
  <2>5. /\ list' = list /\ dropped \subseteq dropped'
        /\ \A j \in Children : j # k => child'[j] = child[j]
    BY <1>24 DEF SubmitResumed, TypeOK
  <2> QED BY <2>1, <2>3, <2>4, <2>5 DEF PendingIsQueued
<1>25. ASSUME NEW k \in Children, StrayCallback(k) PROVE PendingIsQueued'
  <2>1. \A j \in Children : child'[j].parent = child[j].parent
    BY <1>25 DEF StrayCallback, TypeOK
  <2>2. UNCHANGED <<list, queue, dropped>>
    BY <1>25 DEF StrayCallback, history
  <2> QED BY <2>1, <2>2 DEF PendingIsQueued, Queued
<1>26. ASSUME NEW w \in Writers, WriteIndex(w) PROVE PendingIsQueued'
  BY <1>26 DEF WriteIndex, PendingIsQueued, Queued, history
<1>27. CASE CrashAndRestart
  <2>1. Requeue \in SUBSET Tasks
    BY DEF Requeue
  <2>2. PICK q \in Orders(Requeue), n \in Int :
            /\ n = IF Len(q) < QueueCap THEN Len(q) ELSE QueueCap
            /\ queue' = [l \in Lanes |-> IF l = "normal" THEN SubSeq(q, 1, n) ELSE <<>>]
            /\ dropped' = dropped \cup {q[i] : i \in (n + 1)..Len(q)}
    BY <1>27, <2>1, OrderIsSeq, SMTT(30) DEF CrashAndRestart
  <2>3. q \in Seq(Requeue) /\ Len(q) \in Nat
    BY <2>1, <2>2, OrderIsSeq
  <2>4. n \in 0..Len(q)
    BY <2>2, <2>3
  <2> SUFFICES ASSUME NEW t \in Tasks, list'[t].st = "Pending"
               PROVE  Queued(t)' \/ t \in dropped'
    BY DEF PendingIsQueued
  <2>5. t \in Requeue
    BY <1>27 DEF CrashAndRestart, Requeue
  <2>6. PICK i \in DOMAIN q : q[i] = t
    BY <2>2, <2>5 DEF Orders
  <2>7. i \in 1..Len(q)
    BY <2>3, <2>6
  <2>8. CASE i > n
    BY <2>2, <2>4, <2>6, <2>7, <2>8
  <2>9. CASE i <= n
    <3>1. queue'["normal"] = SubSeq(q, 1, n)
      BY <2>2 DEF Lanes
    <3>2. i \in 1..Len(SubSeq(q, 1, n)) /\ SubSeq(q, 1, n)[i] = q[i]
      BY <2>3, <2>4, <2>7, <2>9
    <3> QED BY <2>6, <3>1, <3>2 DEF Queued, Lanes
  <2> QED BY <2>4, <2>7, <2>8, <2>9
<1> QED BY <1>1, <1>2, <1>3, <1>4, <1>5, <1>6, <1>7, <1>8, <1>9, <1>10, <1>11, <1>12,
          <1>13, <1>14, <1>15, <1>16, <1>17, <1>18, <1>19, <1>20, <1>21, <1>22, <1>23,
          <1>24, <1>25, <1>26, <1>27
   DEF Next, AgentStep, CallbackArrives, CallbackStep

(* A report is paid for by the execution it ends. *)
LEMMA CreditStep ==
    ASSUME TypeOK, ChildInv, CreditInv, [Next]_vars
    PROVE  CreditInv'
<1> USE DEF CreditInv, Credit, On
<1>1. CASE UNCHANGED vars
  BY <1>1 DEF vars, core, history
<1>2. CASE PriorityEmpty
  BY <1>2 DEF PriorityEmpty, AgentFree, Resting, history
<1>3. ASSUME NEW l \in Lanes, DequeueMissing(l) PROVE CreditInv'
  BY <1>3 DEF DequeueMissing, CanTake, AgentFree, Resting, history
<1>4. ASSUME NEW l \in Lanes, DequeueCancelled(l) PROVE CreditInv'
  <2>1. Head(queue[l]) \in Tasks /\ agent.pc \in {"idle", "select"}
    BY <1>4, HeadIsTask DEF DequeueCancelled, CanTake, AgentFree, Resting
  <2> QED BY <1>4, <2>1, SMTT(30) DEF DequeueCancelled, UpdateStatus, Moved, TypeOK,
       Index, history
<1>5. ASSUME NEW l \in Lanes, DequeueStart(l) PROVE CreditInv'
  <2>1. Head(queue[l]) \in Tasks /\ agent.pc \in {"idle", "select"}
    BY <1>5, HeadIsTask DEF DequeueStart, CanTake, AgentFree, Resting
  <2> QED BY <1>5, <2>1, SMTT(30) DEF DequeueStart, UpdateStatus, Moved, TypeOK, Index,
       history
<1>6. CASE RefuseExecution
  <2>1. PICK h \in Tasks : agent.pc = "started" /\ agent.task = h
    BY <1>6, AgentHas DEF RefuseExecution, AgentShape
  <2>2. /\ agent' = [pc |-> "report", task |-> h]
        /\ UNCHANGED <<sends, reports, crashes>>
        /\ list' = list \/ list' = UpdateStatus(list, h, "Failed")
    BY <1>6, <2>1 DEF RefuseExecution, history
  <2>3. CASE list' = list
    BY <2>1, <2>2, <2>3
  <2>4. CASE list' = UpdateStatus(list, h, "Failed")
    BY <2>1, <2>2, <2>4 DEF UpdateStatus, Moved, TypeOK, Index
  <2> QED BY <2>2, <2>3, <2>4
<1>7. CASE RegisterToken
  BY <1>7, AgentHas DEF RegisterToken, AgentShape, history
<1>8. CASE RunEnds
  BY <1>8, AgentHas DEF RunEnds, AgentShape, history
<1>9. CASE RunEndsAsync
  BY <1>9, AgentHas DEF RunEndsAsync, AgentShape, history
<1>10. CASE SaveAsyncState
  BY <1>10, AgentHas DEF SaveAsyncState, AgentShape, Resting, TypeOK, Index, history
<1>11. CASE SendTaskCallback
  <2>1. PICK h \in Tasks : agent.pc = "report" /\ agent.task = h
    BY <1>11, AgentHas DEF SendTaskCallback, AgentShape
  <2>2. /\ agent' = [pc |-> "finish", task |-> h] /\ UNCHANGED <<list, sends, crashes>>
        /\ reports' = [reports EXCEPT ![h] = @ + 1]
    BY <1>11, <2>1 DEF SendTaskCallback
  <2>3. reports \in [Tasks -> Nat]
    BY DEF TypeOK
  <2> QED BY <2>1, <2>2, <2>3
<1>12. CASE FinishTask
  BY <1>12, AgentHas DEF FinishTask, AgentShape, CompleteTask, None, Resting, TypeOK,
       Index, history
<1>13. ASSUME NEW t \in Tasks, Accept(t) PROVE CreditInv'
  BY <1>13 DEF Accept, Fresh, TypeOK, Index
<1>14. ASSUME NEW t \in Tasks, RejectFull(t) PROVE CreditInv'
  BY <1>14 DEF RejectFull, CompleteTask, None, Terminal, TypeOK, Index, history
<1>15. CASE SweepCollect
  BY <1>15 DEF SweepCollect, core, history
<1>16. ASSUME NEW t \in Tasks, SweepRemove(t) PROVE CreditInv'
  BY <1>16 DEF SweepRemove, CompleteTask, None, Terminal, TypeOK, Index, history
<1>17. ASSUME NEW c \in Cancellers, CancelWrite(c) PROVE CreditInv'
  BY <1>17, CancelHas DEF CancelWrite, UpdateStatus, Moved, TypeOK, Index
<1>18. ASSUME NEW c \in Cancellers, NEW t \in Tasks, CancelRead(c, t) PROVE CreditInv'
  BY <1>18 DEF CancelRead, core, history
<1>19. ASSUME NEW k \in Children, CallChild(k) PROVE CreditInv'
  BY <1>19, AgentHas DEF CallChild, AgentShape, history
<1>20. ASSUME NEW k \in Children, FindParent(k) PROVE CreditInv'
  <2>1. PICK t \in Tasks : FindShape(k, t)
    BY <1>20, Finds
  <2> QED BY <2>1 DEF FindShape, Handed, TypeOK
<1>21. ASSUME NEW k \in Children, InjectCallback(k) PROVE CreditInv'
  <2>1. PICK t \in Tasks : InjectShape(k, t)
    BY <1>21, Injects
  <2>2. \A u \in Tasks : list'[u].st # "none" => list[u].st # "none"
    BY <2>1 DEF InjectShape
  <2>3. UNCHANGED <<agent, sends, reports, crashes>>
    BY <2>1 DEF InjectShape, Handed
  <2> QED BY <2>2, <2>3 DEF TypeOK
<1>22. ASSUME NEW k \in Children, InjectCancelled(k) PROVE CreditInv'
  BY <1>22 DEF InjectCancelled, core, history
<1>23. ASSUME NEW k \in Children, DropCancelled(k) PROVE CreditInv'
  <2>1. PICK t \in Tasks : DropShape(k, t)
    BY <1>23, Drops
  <2>2. \A u \in Tasks : list'[u].st # "none" => list[u].st # "none"
    BY <2>1 DEF DropShape, None
  <2>3. UNCHANGED <<agent, sends, reports, crashes>>
    BY <2>1 DEF DropShape, Handed
  <2> QED BY <2>2, <2>3 DEF TypeOK
<1>24. ASSUME NEW k \in Children, SubmitResumed(k) PROVE CreditInv'
  BY <1>24 DEF SubmitResumed, core, history
<1>25. ASSUME NEW k \in Children, StrayCallback(k) PROVE CreditInv'
  BY <1>25 DEF StrayCallback, core, history
<1>26. ASSUME NEW w \in Writers, WriteIndex(w) PROVE CreditInv'
  BY <1>26 DEF WriteIndex, core, history
<1>27. CASE CrashAndRestart
  <2>1. sends' = sends /\ reports' = reports /\ crashes' = crashes + 1
    BY <1>27 DEF CrashAndRestart
  <2>2. \A t \in Tasks : Credit(t) >= 0 /\ Credit(t)' <= 1 /\ Credit(t) \in Nat /\ Credit(t)' \in Nat
    BY DEF Credit
  <2>3. \A t \in Tasks : sends[t] \in Nat /\ reports[t] \in Nat /\ crashes \in Nat
    BY DEF TypeOK
  <2> HIDE DEF Credit
  <2> QED BY <2>1, <2>2, <2>3
<1> QED BY <1>1, <1>2, <1>3, <1>4, <1>5, <1>6, <1>7, <1>8, <1>9, <1>10, <1>11, <1>12,
          <1>13, <1>14, <1>15, <1>16, <1>17, <1>18, <1>19, <1>20, <1>21, <1>22, <1>23,
          <1>24, <1>25, <1>26, <1>27
   DEF Next, AgentStep, CallbackArrives, CallbackStep

(* A call is made once and unwinds once. *)
LEMMA UnwoundGrows ==
    ASSUME TypeOK, ChildInv, [Next]_vars
    PROVE  Unwound \subseteq Unwound'
<1> USE DEF Unwound, Calling
<1>1. CASE UNCHANGED vars
  BY <1>1 DEF vars, core, history
<1>2. CASE PriorityEmpty
  BY <1>2 DEF PriorityEmpty, CanTake, AgentFree, Resting, history
<1>3. ASSUME NEW l \in Lanes, DequeueMissing(l) PROVE Unwound \subseteq Unwound'
  BY <1>3 DEF DequeueMissing, CanTake, AgentFree, Resting, history
<1>4. ASSUME NEW l \in Lanes, DequeueCancelled(l) PROVE Unwound \subseteq Unwound'
  BY <1>4 DEF DequeueCancelled, CanTake, AgentFree, Resting, history
<1>5. ASSUME NEW l \in Lanes, DequeueStart(l) PROVE Unwound \subseteq Unwound'
  BY <1>5 DEF DequeueStart, CanTake, AgentFree, Resting, history
<1>6. CASE RefuseExecution
  BY <1>6 DEF RefuseExecution, core, history
<1>7. CASE RegisterToken
  BY <1>7 DEF RegisterToken, core, history
<1>8. CASE RunEnds
  BY <1>8 DEF RunEnds, core, history
<1>9. CASE RunEndsAsync
  BY <1>9 DEF RunEndsAsync, core, history
<1>10. CASE SaveAsyncState
  BY <1>10 DEF SaveAsyncState, Resting, history
<1>11. CASE SendTaskCallback
  BY <1>11 DEF SendTaskCallback, core, history
<1>12. CASE FinishTask
  BY <1>12 DEF FinishTask, Resting, history
<1>13. ASSUME NEW t \in Tasks, Accept(t) PROVE Unwound \subseteq Unwound'
  BY <1>13 DEF Accept, core, history
<1>14. ASSUME NEW t \in Tasks, RejectFull(t) PROVE Unwound \subseteq Unwound'
  BY <1>14 DEF RejectFull, core, history
<1>15. CASE SweepCollect
  BY <1>15 DEF SweepCollect, core, history
<1>16. ASSUME NEW t \in Tasks, SweepRemove(t) PROVE Unwound \subseteq Unwound'
  BY <1>16 DEF SweepRemove, core, history
<1>17. ASSUME NEW c \in Cancellers, CancelWrite(c) PROVE Unwound \subseteq Unwound'
  BY <1>17 DEF CancelWrite, core, history
<1>18. ASSUME NEW c \in Cancellers, NEW t \in Tasks, CancelRead(c, t)
       PROVE  Unwound \subseteq Unwound'
  BY <1>18 DEF CancelRead, core, history
<1>19. ASSUME NEW k \in Children, CallChild(k) PROVE Unwound \subseteq Unwound'
  BY <1>19, AgentHas DEF CallChild, AgentShape, TypeOK, history
<1>20. ASSUME NEW k \in Children, FindParent(k) PROVE Unwound \subseteq Unwound'
  <2>1. PICK t \in Tasks : FindShape(k, t)
    BY <1>20, Finds
  <2> QED BY <2>1 DEF FindShape, Handed
<1>21. ASSUME NEW k \in Children, InjectCallback(k) PROVE Unwound \subseteq Unwound'
  <2>1. PICK t \in Tasks : InjectShape(k, t)
    BY <1>21, Injects
  <2> QED BY <2>1 DEF InjectShape, Handed, HasFound
<1>22. ASSUME NEW k \in Children, InjectCancelled(k) PROVE Unwound \subseteq Unwound'
  BY <1>22 DEF InjectCancelled, TypeOK
<1>23. ASSUME NEW k \in Children, DropCancelled(k) PROVE Unwound \subseteq Unwound'
  <2>1. PICK t \in Tasks : DropShape(k, t)
    BY <1>23, Drops
  <2> QED BY <2>1 DEF DropShape, Handed, None
<1>24. ASSUME NEW k \in Children, SubmitResumed(k) PROVE Unwound \subseteq Unwound'
  BY <1>24 DEF SubmitResumed, Resting, TypeOK
<1>25. ASSUME NEW k \in Children, StrayCallback(k) PROVE Unwound \subseteq Unwound'
  BY <1>25 DEF StrayCallback, Resting, TypeOK
<1>26. ASSUME NEW w \in Writers, WriteIndex(w) PROVE Unwound \subseteq Unwound'
  BY <1>26 DEF WriteIndex, core, history
<1>27. CASE CrashAndRestart
  BY <1>27 DEF CrashAndRestart, Resting, TypeOK
<1> QED BY <1>1, <1>2, <1>3, <1>4, <1>5, <1>6, <1>7, <1>8, <1>9, <1>10, <1>11, <1>12,
          <1>13, <1>14, <1>15, <1>16, <1>17, <1>18, <1>19, <1>20, <1>21, <1>22, <1>23,
          <1>24, <1>25, <1>26, <1>27
   DEF Next, AgentStep, CallbackArrives, CallbackStep

LEMMA NoneIsWaiting == None.wait = NoChild
BY DEF None

LEMMA WaitMonotone ==
    ASSUME NEW i, NEW S, NEW R, S \subseteq R, WaitIndex(i, S)
    PROVE  WaitIndex(i, R)
BY DEF WaitIndex

(* An index some of whose entries no longer wait, or are gone. *)
LEMMA WaitFewer ==
    ASSUME NEW i, NEW j, NEW S, WaitIndex(i, S),
           \A t \in Tasks : j[t].wait \in {i[t].wait, NoChild}
    PROVE  WaitIndex(j, S)
BY DEF WaitIndex

LEMMA UpdatedWaits ==
    ASSUME NEW i \in Index, NEW t \in Tasks, NEW st
    PROVE  \A u \in Tasks : UpdateStatus(i, t, st)[u].wait = i[u].wait
BY DEF UpdateStatus, Moved, Index

LEMMA DroppedWaits ==
    ASSUME TypeOK, NEW t \in Tasks, list' = [list EXCEPT ![t] = None]
    PROVE  \A u \in Tasks : list'[u].wait \in {list[u].wait, NoChild}
BY NoneIsWaiting DEF TypeOK, Index

(* No two entries ever wait for the same call. *)
LEMMA ListWaits ==
    ASSUME TypeOK, ChildInv, WaitInv, Unwound \subseteq Unwound', WaitIndex(list, Unwound'),
           WaitIndex(disk, Unwound'), [Next]_vars
    PROVE  WaitIndex(list', Unwound')
<1>1. CASE UNCHANGED vars
  BY <1>1 DEF vars, core, history
<1>2. CASE PriorityEmpty
  BY <1>2 DEF PriorityEmpty, core, history
<1>3. ASSUME NEW l \in Lanes, DequeueMissing(l) PROVE WaitIndex(list', Unwound')
  BY <1>3 DEF DequeueMissing, core, history
<1>4. ASSUME NEW l \in Lanes, DequeueCancelled(l) PROVE WaitIndex(list', Unwound')
  <2>1. Head(queue[l]) \in Tasks
    BY <1>4, HeadIsTask DEF DequeueCancelled, CanTake
  <2>2. \A u \in Tasks : list'[u].wait \in {list[u].wait, NoChild}
    BY <1>4, <2>1, UpdatedWaits DEF DequeueCancelled, TypeOK
  <2> QED BY <2>2, WaitFewer
<1>5. ASSUME NEW l \in Lanes, DequeueStart(l) PROVE WaitIndex(list', Unwound')
  <2>1. Head(queue[l]) \in Tasks
    BY <1>5, HeadIsTask DEF DequeueStart, CanTake
  <2>2. \A u \in Tasks : list'[u].wait \in {list[u].wait, NoChild}
    BY <1>5, <2>1, UpdatedWaits DEF DequeueStart, TypeOK
  <2> QED BY <2>2, WaitFewer
<1>6. CASE RefuseExecution
  <2>1. \A u \in Tasks : list'[u].wait \in {list[u].wait, NoChild}
    BY <1>6, AgentHas, UpdatedWaits DEF RefuseExecution, AgentShape, TypeOK
  <2> QED BY <2>1, WaitFewer
<1>7. CASE RegisterToken
  BY <1>7 DEF RegisterToken, core, history
<1>8. CASE RunEnds
  BY <1>8 DEF RunEnds, core, history
<1>9. CASE RunEndsAsync
  BY <1>9 DEF RunEndsAsync, core, history
<1>10. CASE SaveAsyncState
  <2>1. PICK h \in Tasks, k \in Children : agent = [pc |-> "saving", task |-> h, child |-> k]
    BY <1>10 DEF SaveAsyncState, TypeOK, Agents, Resting
  <2>2. k \in Unwound' /\ k \notin Unwound
    BY <1>10, <2>1 DEF SaveAsyncState, WaitInv, CallOpen, Unwound, Calling, Resting
  <2>3. CASE list' = list
    BY <2>3
  <2>4. CASE list' = [list EXCEPT ![h] = [st |-> "WaitingRemote", wait |-> k,
                                          asked |-> k, got |-> NoChild]]
    BY <2>2, <2>4, NullsFresh DEF WaitIndex, WaitInv, TypeOK, Index
  <2> QED BY <1>10, <2>1, <2>3, <2>4 DEF SaveAsyncState
<1>11. CASE SendTaskCallback
  BY <1>11 DEF SendTaskCallback, core, history
<1>12. CASE FinishTask
  <2>1. \A u \in Tasks : list'[u].wait \in {list[u].wait, NoChild}
    BY <1>12, AgentHas, DroppedWaits DEF FinishTask, AgentShape, CompleteTask
  <2> QED BY <2>1, WaitFewer
<1>13. ASSUME NEW t \in Tasks, Accept(t) PROVE WaitIndex(list', Unwound')
  <2>1. \A u \in Tasks : list'[u].wait \in {list[u].wait, NoChild}
    BY <1>13 DEF Accept, Fresh, TypeOK, Index
  <2> QED BY <2>1, WaitFewer
<1>14. ASSUME NEW t \in Tasks, RejectFull(t) PROVE WaitIndex(list', Unwound')
  <2>1. \A u \in Tasks : list'[u].wait \in {list[u].wait, NoChild}
    BY <1>14, DroppedWaits DEF RejectFull, CompleteTask
  <2> QED BY <2>1, WaitFewer
<1>15. CASE SweepCollect
  BY <1>15 DEF SweepCollect, core, history
<1>16. ASSUME NEW t \in Tasks, SweepRemove(t) PROVE WaitIndex(list', Unwound')
  <2>1. \A u \in Tasks : list'[u].wait \in {list[u].wait, NoChild}
    BY <1>16, DroppedWaits DEF SweepRemove, CompleteTask
  <2> QED BY <2>1, WaitFewer
<1>17. ASSUME NEW c \in Cancellers, CancelWrite(c) PROVE WaitIndex(list', Unwound')
  <2>1. \A u \in Tasks : list'[u].wait \in {list[u].wait, NoChild}
    BY <1>17, CancelHas, UpdatedWaits DEF CancelWrite, TypeOK
  <2> QED BY <2>1, WaitFewer
<1>18. ASSUME NEW c \in Cancellers, NEW t \in Tasks, CancelRead(c, t)
       PROVE  WaitIndex(list', Unwound')
  BY <1>18 DEF CancelRead, core, history
<1>19. ASSUME NEW k \in Children, CallChild(k) PROVE WaitIndex(list', Unwound')
  BY <1>19 DEF CallChild, core, history
<1>20. ASSUME NEW k \in Children, FindParent(k) PROVE WaitIndex(list', Unwound')
  BY <1>20 DEF FindParent, core, history
<1>21. ASSUME NEW k \in Children, InjectCallback(k) PROVE WaitIndex(list', Unwound')
  <2>1. PICK t \in Tasks : InjectShape(k, t)
    BY <1>21, Injects
  <2>2. \A u \in Tasks : list'[u].wait \in {list[u].wait, NoChild}
    BY <2>1 DEF InjectShape
  <2> QED BY <2>2, WaitFewer
<1>22. ASSUME NEW k \in Children, InjectCancelled(k) PROVE WaitIndex(list', Unwound')
  BY <1>22 DEF InjectCancelled, core, history
<1>23. ASSUME NEW k \in Children, DropCancelled(k) PROVE WaitIndex(list', Unwound')
  <2>1. PICK t \in Tasks : DropShape(k, t)
    BY <1>23, Drops
  <2>2. \A u \in Tasks : list'[u].wait \in {list[u].wait, NoChild}
    BY <2>1, NoneIsWaiting DEF DropShape
  <2> QED BY <2>2, WaitFewer
<1>24. ASSUME NEW k \in Children, SubmitResumed(k) PROVE WaitIndex(list', Unwound')
  BY <1>24 DEF SubmitResumed, core, history
<1>25. ASSUME NEW k \in Children, StrayCallback(k) PROVE WaitIndex(list', Unwound')
  BY <1>25 DEF StrayCallback, core, history
<1>26. ASSUME NEW w \in Writers, WriteIndex(w) PROVE WaitIndex(list', Unwound')
  BY <1>26 DEF WriteIndex, core, history
<1>27. CASE CrashAndRestart
  <2>1. \A u \in Tasks : list'[u].wait \in {disk[u].wait, NoChild}
    BY <1>27, NoneIsWaiting DEF CrashAndRestart, Recovered, Moved
  <2> QED BY <2>1, WaitFewer
<1> QED BY <1>1, <1>2, <1>3, <1>4, <1>5, <1>6, <1>7, <1>8, <1>9, <1>10, <1>11, <1>12,
          <1>13, <1>14, <1>15, <1>16, <1>17, <1>18, <1>19, <1>20, <1>21, <1>22, <1>23,
          <1>24, <1>25, <1>26, <1>27
   DEF Next, AgentStep, CallbackArrives, CallbackStep

LEMMA PersistWaits ==
    ASSUME TypeOK, NEW S, WaitIndex(list', S), NEW w \in Writers, PersistToDisk(w),
           \A v \in Writers : flush[v].pc = "write" => WaitIndex(flush[v].index, S)
    PROVE  \A v \in Writers : flush'[v].pc = "write" => WaitIndex(flush'[v].index, S)
<1>1. WaitIndex(Persisted(list'), S)
  BY NoneIsWaiting, WaitFewer DEF Persisted
<1> QED BY <1>1 DEF PersistToDisk, TypeOK

(* Nor in the file, nor in the writes under way. *)
LEMMA FileWaits ==
    ASSUME TypeOK, WaitIndex(list', Unwound'), WaitIndex(disk, Unwound'),
           \A v \in Writers : flush[v].pc = "write" => WaitIndex(flush[v].index, Unwound'), [Next]_vars
    PROVE  FilesWait'
<1> USE DEF FilesWait
<1>1. CASE UNCHANGED vars
  BY <1>1 DEF vars, core, history
<1>2. CASE PriorityEmpty
  BY <1>2 DEF PriorityEmpty, core, history
<1>3. ASSUME NEW l \in Lanes, DequeueMissing(l) PROVE FilesWait'
  BY <1>3 DEF DequeueMissing, core, history
<1>4. ASSUME NEW l \in Lanes, DequeueCancelled(l) PROVE FilesWait'
  BY <1>4 DEF DequeueCancelled, core, history
<1>5. ASSUME NEW l \in Lanes, DequeueStart(l) PROVE FilesWait'
  BY <1>5 DEF DequeueStart, core, history
<1>6. CASE RefuseExecution
  BY <1>6 DEF RefuseExecution, core, history
<1>7. CASE RegisterToken
  BY <1>7 DEF RegisterToken, core, history
<1>8. CASE RunEnds
  BY <1>8 DEF RunEnds, core, history
<1>9. CASE RunEndsAsync
  BY <1>9 DEF RunEndsAsync, core, history
<1>10. CASE SaveAsyncState
  <2>1. PersistToDisk("agent") /\ disk' = disk
    BY <1>10 DEF SaveAsyncState
  <2> QED BY <2>1, PersistWaits DEF Writers
<1>11. CASE SendTaskCallback
  BY <1>11 DEF SendTaskCallback, core, history
<1>12. CASE FinishTask
  <2>1. PersistToDisk("agent") /\ disk' = disk
    BY <1>12 DEF FinishTask, CompleteTask
  <2> QED BY <2>1, PersistWaits DEF Writers
<1>13. ASSUME NEW t \in Tasks, Accept(t) PROVE FilesWait'
  BY <1>13 DEF Accept, core, history
<1>14. ASSUME NEW t \in Tasks, RejectFull(t) PROVE FilesWait'
  <2>1. PersistToDisk("handler") /\ disk' = disk
    BY <1>14 DEF RejectFull, CompleteTask
  <2> QED BY <2>1, PersistWaits DEF Writers
<1>15. CASE SweepCollect
  BY <1>15 DEF SweepCollect, core, history
<1>16. ASSUME NEW t \in Tasks, SweepRemove(t) PROVE FilesWait'
  <2>1. PersistToDisk("sweep") /\ disk' = disk
    BY <1>16 DEF SweepRemove, CompleteTask
  <2> QED BY <2>1, PersistWaits DEF Writers
<1>17. ASSUME NEW c \in Cancellers, CancelWrite(c) PROVE FilesWait'
  BY <1>17 DEF CancelWrite, core, history
<1>18. ASSUME NEW c \in Cancellers, NEW t \in Tasks, CancelRead(c, t) PROVE FilesWait'
  BY <1>18 DEF CancelRead, core, history
<1>19. ASSUME NEW k \in Children, CallChild(k) PROVE FilesWait'
  BY <1>19 DEF CallChild, core, history
<1>20. ASSUME NEW k \in Children, FindParent(k) PROVE FilesWait'
  BY <1>20 DEF FindParent, core, history
<1>21. ASSUME NEW k \in Children, InjectCallback(k) PROVE FilesWait'
  <2>1. PersistToDisk(k) /\ disk' = disk
    BY <1>21 DEF InjectCallback
  <2> QED BY <2>1, PersistWaits DEF Writers
<1>22. ASSUME NEW k \in Children, InjectCancelled(k) PROVE FilesWait'
  BY <1>22 DEF InjectCancelled, core, history
<1>23. ASSUME NEW k \in Children, DropCancelled(k) PROVE FilesWait'
  <2>1. PersistToDisk(k) /\ disk' = disk
    BY <1>23 DEF DropCancelled, CompleteTask
  <2> QED BY <2>1, PersistWaits DEF Writers
<1>24. ASSUME NEW k \in Children, SubmitResumed(k) PROVE FilesWait'
  BY <1>24 DEF SubmitResumed, core, history
<1>25. ASSUME NEW k \in Children, StrayCallback(k) PROVE FilesWait'
  BY <1>25 DEF StrayCallback, core, history
<1>26. ASSUME NEW w \in Writers, WriteIndex(w) PROVE FilesWait'
  BY <1>26 DEF WriteIndex, TypeOK, Synced
<1>27. CASE CrashAndRestart
  BY <1>27 DEF CrashAndRestart, Synced
<1> QED BY <1>1, <1>2, <1>3, <1>4, <1>5, <1>6, <1>7, <1>8, <1>9, <1>10, <1>11, <1>12,
          <1>13, <1>14, <1>15, <1>16, <1>17, <1>18, <1>19, <1>20, <1>21, <1>22, <1>23,
          <1>24, <1>25, <1>26, <1>27
   DEF Next, AgentStep, CallbackArrives, CallbackStep

(* The call of a run that unwinds is answered to nobody. *)
LEMMA CallOpenStep ==
    ASSUME TypeOK, ChildInv, WaitInv, CallOpen, [Next]_vars
    PROVE  CallOpen'
<1> USE DEF CallOpen, Calling
<1>1. CASE UNCHANGED vars
  BY <1>1 DEF vars, core, history
<1>2. CASE PriorityEmpty
  BY <1>2 DEF PriorityEmpty, CanTake, AgentFree, Resting, history
<1>3. ASSUME NEW l \in Lanes, DequeueMissing(l) PROVE CallOpen'
  BY <1>3 DEF DequeueMissing, CanTake, AgentFree, Resting, history
<1>4. ASSUME NEW l \in Lanes, DequeueCancelled(l) PROVE CallOpen'
  BY <1>4 DEF DequeueCancelled, CanTake, AgentFree, Resting, history
<1>5. ASSUME NEW l \in Lanes, DequeueStart(l) PROVE CallOpen'
  BY <1>5 DEF DequeueStart, CanTake, AgentFree, Resting, history
<1>6. CASE RefuseExecution
  BY <1>6 DEF RefuseExecution, history
<1>7. CASE RegisterToken
  BY <1>7 DEF RegisterToken, history
<1>8. CASE RunEnds
  BY <1>8 DEF RunEnds, history
<1>9. CASE RunEndsAsync
  BY <1>9 DEF RunEndsAsync, history
<1>10. CASE SaveAsyncState
  BY <1>10 DEF SaveAsyncState, Resting, history
<1>11. CASE SendTaskCallback
  BY <1>11 DEF SendTaskCallback, history
<1>12. CASE FinishTask
  BY <1>12 DEF FinishTask, Resting, history
<1>13. ASSUME NEW t \in Tasks, Accept(t) PROVE CallOpen'
  BY <1>13 DEF Accept, core, history
<1>14. ASSUME NEW t \in Tasks, RejectFull(t) PROVE CallOpen'
  BY <1>14 DEF RejectFull, core, history
<1>15. CASE SweepCollect
  BY <1>15 DEF SweepCollect, core, history
<1>16. ASSUME NEW t \in Tasks, SweepRemove(t) PROVE CallOpen'
  BY <1>16 DEF SweepRemove, core, history
<1>17. ASSUME NEW c \in Cancellers, CancelWrite(c) PROVE CallOpen'
  BY <1>17 DEF CancelWrite, core, history
<1>18. ASSUME NEW c \in Cancellers, NEW t \in Tasks, CancelRead(c, t) PROVE CallOpen'
  BY <1>18 DEF CancelRead, core, history
<1>19. ASSUME NEW k \in Children, CallChild(k) PROVE CallOpen'
  BY <1>19 DEF CallChild, TypeOK
<1>20. ASSUME NEW k \in Children, FindParent(k) PROVE CallOpen'
  <2>1. PICK t \in Tasks : FindShape(k, t)
    BY <1>20, Finds
  <2>2. ~(Calling /\ agent.child = k)
    BY <2>1, NullsFresh DEF FindShape, WaitInv, WaitIndex, Unwound, Calling
  <2> QED BY <2>1, <2>2, AgentHas DEF FindShape, Handed, AgentShape
<1>21. ASSUME NEW k \in Children, InjectCallback(k) PROVE CallOpen'
  <2>1. PICK t \in Tasks : InjectShape(k, t)
    BY <1>21, Injects
  <2> QED BY <2>1, AgentHas DEF InjectShape, Handed, HasFound, AgentShape
<1>22. ASSUME NEW k \in Children, InjectCancelled(k) PROVE CallOpen'
  BY <1>22, AgentHas DEF InjectCancelled, AgentShape, TypeOK
<1>23. ASSUME NEW k \in Children, DropCancelled(k) PROVE CallOpen'
  <2>1. PICK t \in Tasks : DropShape(k, t)
    BY <1>23, Drops
  <2> QED BY <2>1, AgentHas DEF DropShape, Handed, AgentShape
<1>24. ASSUME NEW k \in Children, SubmitResumed(k) PROVE CallOpen'
  BY <1>24 DEF SubmitResumed, TypeOK
<1>25. ASSUME NEW k \in Children, StrayCallback(k) PROVE CallOpen'
  BY <1>25, AgentHas DEF StrayCallback, AgentShape, TypeOK
<1>26. ASSUME NEW w \in Writers, WriteIndex(w) PROVE CallOpen'
  BY <1>26 DEF WriteIndex, core, history
<1>27. CASE CrashAndRestart
  BY <1>27 DEF CrashAndRestart, Resting, history
<1> QED BY <1>1, <1>2, <1>3, <1>4, <1>5, <1>6, <1>7, <1>8, <1>9, <1>10, <1>11, <1>12,
          <1>13, <1>14, <1>15, <1>16, <1>17, <1>18, <1>19, <1>20, <1>21, <1>22, <1>23,
          <1>24, <1>25, <1>26, <1>27
   DEF Next, AgentStep, CallbackArrives, CallbackStep

(* Only the task a handler has found still waits for that call. *)
LEMMA OnlyFoundStep ==
    ASSUME TypeOK, ChildInv, WaitInv, OnlyFound, [Next]_vars
    PROVE  OnlyFound'
<1> USE DEF OnlyFound
<1>1. CASE UNCHANGED vars
  BY <1>1 DEF vars, core, history
<1>2. CASE PriorityEmpty
  BY <1>2 DEF PriorityEmpty, core, history
<1>3. ASSUME NEW l \in Lanes, DequeueMissing(l) PROVE OnlyFound'
  BY <1>3 DEF DequeueMissing, core, history
<1>4. ASSUME NEW l \in Lanes, DequeueCancelled(l) PROVE OnlyFound'
  <2>1. Head(queue[l]) \in Tasks
    BY <1>4, HeadIsTask DEF DequeueCancelled, CanTake
  <2>2. \A t \in Tasks : list'[t].wait = list[t].wait
    BY <1>4, <2>1, UpdatedWaits DEF DequeueCancelled, TypeOK
  <2> QED BY <1>4, <2>2 DEF DequeueCancelled
<1>5. ASSUME NEW l \in Lanes, DequeueStart(l) PROVE OnlyFound'
  <2>1. Head(queue[l]) \in Tasks
    BY <1>5, HeadIsTask DEF DequeueStart, CanTake
  <2>2. \A t \in Tasks : list'[t].wait = list[t].wait
    BY <1>5, <2>1, UpdatedWaits DEF DequeueStart, TypeOK
  <2> QED BY <1>5, <2>2 DEF DequeueStart
<1>6. CASE RefuseExecution
  <2>1. \A t \in Tasks : list'[t].wait = list[t].wait
    BY <1>6, AgentHas, UpdatedWaits DEF RefuseExecution, AgentShape, TypeOK
  <2> QED BY <1>6, <2>1 DEF RefuseExecution
<1>7. CASE RegisterToken
  BY <1>7 DEF RegisterToken, core, history
<1>8. CASE RunEnds
  BY <1>8 DEF RunEnds, core, history
<1>9. CASE RunEndsAsync
  BY <1>9 DEF RunEndsAsync, core, history
<1>10. CASE SaveAsyncState
  <2>1. PICK h \in Tasks, c \in Children : agent = [pc |-> "saving", task |-> h, child |-> c]
    BY <1>10 DEF SaveAsyncState, TypeOK, Agents, Resting
  <2>2. child[c].st # "found" /\ child' = child
    BY <1>10, <2>1 DEF SaveAsyncState, WaitInv, CallOpen, Calling
  <2>3. \A t \in Tasks : list'[t].wait \in {list[t].wait, c}
    BY <1>10, <2>1 DEF SaveAsyncState, TypeOK, Index
  <2> QED BY <2>2, <2>3
<1>11. CASE SendTaskCallback
  BY <1>11 DEF SendTaskCallback, core, history
<1>12. CASE FinishTask
  BY <1>12, AgentHas DEF FinishTask, AgentShape, CompleteTask, None, TypeOK, Index
<1>13. ASSUME NEW t \in Tasks, Accept(t) PROVE OnlyFound'
  BY <1>13 DEF Accept, Fresh, TypeOK, Index
<1>14. ASSUME NEW t \in Tasks, RejectFull(t) PROVE OnlyFound'
  BY <1>14 DEF RejectFull, CompleteTask, None, TypeOK, Index
<1>15. CASE SweepCollect
  BY <1>15 DEF SweepCollect, core, history
<1>16. ASSUME NEW t \in Tasks, SweepRemove(t) PROVE OnlyFound'
  BY <1>16 DEF SweepRemove, CompleteTask, None, TypeOK, Index
<1>17. ASSUME NEW c \in Cancellers, CancelWrite(c) PROVE OnlyFound'
  <2>1. \A t \in Tasks : list'[t].wait = list[t].wait
    BY <1>17, CancelHas, UpdatedWaits DEF CancelWrite, TypeOK
  <2> QED BY <1>17, <2>1 DEF CancelWrite
<1>18. ASSUME NEW c \in Cancellers, NEW t \in Tasks, CancelRead(c, t) PROVE OnlyFound'
  BY <1>18 DEF CancelRead, core, history
<1>19. ASSUME NEW k \in Children, CallChild(k) PROVE OnlyFound'
  BY <1>19 DEF CallChild, TypeOK
<1>20. ASSUME NEW k \in Children, FindParent(k) PROVE OnlyFound'
  <2>1. PICK t \in Tasks : FindShape(k, t)
    BY <1>20, Finds
  <2> QED BY <2>1, NullsFresh DEF FindShape, Handed, WaitInv, WaitIndex
<1>21. ASSUME NEW k \in Children, InjectCallback(k) PROVE OnlyFound'
  <2>1. PICK t \in Tasks : InjectShape(k, t)
    BY <1>21, Injects
  <2> QED BY <2>1, NullsFresh DEF InjectShape, Handed, HasFound
<1>22. ASSUME NEW k \in Children, InjectCancelled(k) PROVE OnlyFound'
  BY <1>22 DEF InjectCancelled, TypeOK
<1>23. ASSUME NEW k \in Children, DropCancelled(k) PROVE OnlyFound'
  <2>1. PICK t \in Tasks : DropShape(k, t)
    BY <1>23, Drops
  <2> QED BY <2>1, NullsFresh DEF DropShape, Handed, None
<1>24. ASSUME NEW k \in Children, SubmitResumed(k) PROVE OnlyFound'
  BY <1>24 DEF SubmitResumed, TypeOK
<1>25. ASSUME NEW k \in Children, StrayCallback(k) PROVE OnlyFound'
  BY <1>25 DEF StrayCallback, TypeOK
<1>26. ASSUME NEW w \in Writers, WriteIndex(w) PROVE OnlyFound'
  BY <1>26 DEF WriteIndex, core, history
<1>27. CASE CrashAndRestart
  <2>1. \A k \in Children : child'[k].st # "found"
    BY <1>27 DEF CrashAndRestart, ChildInv, InHand, TypeOK
  <2> QED BY <2>1
<1> QED BY <1>1, <1>2, <1>3, <1>4, <1>5, <1>6, <1>7, <1>8, <1>9, <1>10, <1>11, <1>12,
          <1>13, <1>14, <1>15, <1>16, <1>17, <1>18, <1>19, <1>20, <1>21, <1>22, <1>23,
          <1>24, <1>25, <1>26, <1>27
   DEF Next, AgentStep, CallbackArrives, CallbackStep

LEMMA WaitStep ==
    ASSUME TypeOK, ChildInv, WaitInv, [Next]_vars
    PROVE  WaitInv'
<1>1. Unwound \subseteq Unwound'
  BY UnwoundGrows
<1>2. /\ WaitIndex(list, Unwound') /\ WaitIndex(disk, Unwound')
      /\ \A v \in Writers : flush[v].pc = "write" => WaitIndex(flush[v].index, Unwound')
  BY <1>1, WaitMonotone DEF WaitInv, FilesWait
<1>3. WaitIndex(list', Unwound')
  BY <1>1, <1>2, ListWaits
<1>4. FilesWait'
  BY <1>2, <1>3, FileWaits
<1>5. CallOpen'
  BY CallOpenStep DEF WaitInv
<1>6. OnlyFound'
  BY OnlyFoundStep DEF WaitInv
<1> QED BY <1>3, <1>4, <1>5, <1>6 DEF WaitInv

(* Running entries and parked ones keep their keeper. *)
LEMMA KeeperStep ==
    ASSUME TypeOK, ChildInv, WaitInv, KeeperInv, [Next]_vars
    PROVE  KeeperInv'
<1> USE DEF KeeperInv, On
<1>1. CASE UNCHANGED vars
  BY <1>1 DEF vars, core, history
<1>2. CASE PriorityEmpty
  BY <1>2 DEF PriorityEmpty, AgentFree, Resting, history
<1>3. ASSUME NEW l \in Lanes, DequeueMissing(l) PROVE KeeperInv'
  BY <1>3 DEF DequeueMissing, CanTake, AgentFree, Resting, history
<1>4. ASSUME NEW l \in Lanes, DequeueCancelled(l) PROVE KeeperInv'
  <2>1. Head(queue[l]) \in Tasks /\ agent.pc \in {"idle", "select"}
    BY <1>4, HeadIsTask DEF DequeueCancelled, CanTake, AgentFree, Resting
  <2> QED BY <1>4, <2>1, SMTT(30) DEF DequeueCancelled, UpdateStatus, Moved, TypeOK,
       Index, history
<1>5. ASSUME NEW l \in Lanes, DequeueStart(l) PROVE KeeperInv'
  <2>1. Head(queue[l]) \in Tasks /\ agent.pc \in {"idle", "select"}
    BY <1>5, HeadIsTask DEF DequeueStart, CanTake, AgentFree, Resting
  <2> QED BY <1>5, <2>1, SMTT(30) DEF DequeueStart, UpdateStatus, Moved, TypeOK, Index,
       history
<1>6. CASE RefuseExecution
  <2>1. PICK h \in Tasks : agent.pc = "started" /\ agent.task = h
    BY <1>6, AgentHas DEF RefuseExecution, AgentShape
  <2>2. /\ agent' = [pc |-> "report", task |-> h]
        /\ UNCHANGED <<child, sends>>
        /\ list' = list \/ list' = UpdateStatus(list, h, "Failed")
    BY <1>6, <2>1 DEF RefuseExecution, history
  <2>3. CASE list' = list
    BY <2>1, <2>2, <2>3
  <2>4. CASE list' = UpdateStatus(list, h, "Failed")
    BY <2>1, <2>2, <2>4 DEF UpdateStatus, Moved, TypeOK, Index
  <2> QED BY <2>2, <2>3, <2>4
<1>7. CASE RegisterToken
  BY <1>7, AgentHas DEF RegisterToken, AgentShape, history
<1>8. CASE RunEnds
  BY <1>8, AgentHas DEF RunEnds, AgentShape, history
<1>9. CASE RunEndsAsync
  BY <1>9, AgentHas DEF RunEndsAsync, AgentShape, history
<1>10. CASE SaveAsyncState
  BY <1>10, AgentHas DEF SaveAsyncState, AgentShape, WaitInv, CallOpen, Calling, Open,
       Resting, TypeOK, Index
<1>11. CASE SendTaskCallback
  BY <1>11, AgentHas DEF SendTaskCallback, AgentShape, history
<1>12. CASE FinishTask
  BY <1>12, AgentHas DEF FinishTask, AgentShape, CompleteTask, None, Resting, TypeOK,
       Index, history
<1>13. ASSUME NEW t \in Tasks, Accept(t) PROVE KeeperInv'
  BY <1>13 DEF Accept, Fresh, TypeOK, Index
<1>14. ASSUME NEW t \in Tasks, RejectFull(t) PROVE KeeperInv'
  BY <1>14 DEF RejectFull, CompleteTask, None, Terminal, TypeOK, Index, history
<1>15. CASE SweepCollect
  BY <1>15 DEF SweepCollect, core, history
<1>16. ASSUME NEW t \in Tasks, SweepRemove(t) PROVE KeeperInv'
  BY <1>16 DEF SweepRemove, CompleteTask, None, Terminal, TypeOK, Index, history
<1>17. ASSUME NEW c \in Cancellers, CancelWrite(c) PROVE KeeperInv'
  BY <1>17, CancelHas DEF CancelWrite, UpdateStatus, Moved, TypeOK, Index
<1>18. ASSUME NEW c \in Cancellers, NEW t \in Tasks, CancelRead(c, t) PROVE KeeperInv'
  BY <1>18 DEF CancelRead, core, history
<1>19. ASSUME NEW k \in Children, CallChild(k) PROVE KeeperInv'
  BY <1>19, AgentHas DEF CallChild, AgentShape, Open, TypeOK, Index, Entry, history
<1>20. ASSUME NEW k \in Children, FindParent(k) PROVE KeeperInv'
  <2>1. PICK t \in Tasks : FindShape(k, t)
    BY <1>20, Finds
  <2>2. \A u \in Tasks : list'[u].st = list[u].st /\ list'[u].wait = list[u].wait
    BY <2>1 DEF FindShape, None
  <2>3. agent' = agent /\ \A j \in Children : child[j].st \in Open => child'[j].st \in Open
    BY <2>1 DEF FindShape, Handed, Open
  <2>4. \A u \in Tasks : list[u].wait \in Children \cup {NoChild}
    BY DEF TypeOK, Index, Entry
  <2> QED BY <2>2, <2>3, <2>4
<1>21. ASSUME NEW k \in Children, InjectCallback(k) PROVE KeeperInv'
  <2>1. PICK t \in Tasks : InjectShape(k, t)
    BY <1>21, Injects
  <2>2. list'[t].st \notin {"Running", "WaitingRemote"}
    BY <2>1 DEF InjectShape
  <2>3. \A u \in Tasks : u # t => list'[u] = list[u] /\ list[u].wait # k
    BY <2>1 DEF InjectShape, HasFound, WaitInv, OnlyFound
  <2>4. agent' = agent /\ \A j \in Children : j # k => child'[j] = child[j]
    BY <2>1 DEF InjectShape, Handed
  <2>5. \A u \in Tasks : list[u].wait \in Children \cup {NoChild}
    BY DEF TypeOK, Index, Entry
  <2>6. \A u \in Tasks : list'[u].st = "Running" => On(u)'
    BY <2>2, <2>3, <2>4
  <2>7. \A u \in Tasks : list'[u].st = "WaitingRemote" =>
            list'[u].wait # NoChild /\ child'[list'[u].wait].st \in Open
    BY <2>2, <2>3, <2>4, <2>5
  <2> QED BY <2>6, <2>7
<1>22. ASSUME NEW k \in Children, InjectCancelled(k) PROVE KeeperInv'
  <2>1. PICK t \in Tasks : HasFound(k, t) /\ list[t].st = "Cancelled"
    BY <1>22 DEF InjectCancelled, ChildInv, InHand, HasFound
  <2>2. \A u \in Tasks : list[u].st = "WaitingRemote" => list[u].wait # k
    BY <2>1 DEF HasFound, WaitInv, OnlyFound
  <2>3. UNCHANGED <<list, agent>> /\ \A j \in Children : j # k => child'[j] = child[j]
    BY <1>22 DEF InjectCancelled, TypeOK
  <2>4. \A u \in Tasks : list[u].wait \in Children \cup {NoChild}
    BY DEF TypeOK, Index, Entry
  <2> QED BY <2>2, <2>3, <2>4
<1>23. ASSUME NEW k \in Children, DropCancelled(k) PROVE KeeperInv'
  <2>1. PICK t \in Tasks : DropShape(k, t)
    BY <1>23, Drops
  <2>2. \A u \in Tasks : list'[u] = list[u] \/ list'[u].st = "none"
    BY <2>1 DEF DropShape, None
  <2>3. agent' = agent /\ \A j \in Children : child[j].st \in Open => child'[j].st \in Open
    BY <2>1 DEF DropShape, Handed, Open
  <2>4. \A u \in Tasks : list[u].wait \in Children \cup {NoChild}
    BY DEF TypeOK, Index, Entry
  <2> QED BY <2>2, <2>3, <2>4
<1>24. ASSUME NEW k \in Children, SubmitResumed(k) PROVE KeeperInv'
  BY <1>24, AgentHas DEF SubmitResumed, AgentShape, Open, TypeOK, Index, Entry, history
<1>25. ASSUME NEW k \in Children, StrayCallback(k) PROVE KeeperInv'
  BY <1>25, AgentHas DEF StrayCallback, AgentShape, Open, TypeOK, Index, Entry, history
<1>26. ASSUME NEW w \in Writers, WriteIndex(w) PROVE KeeperInv'
  BY <1>26 DEF WriteIndex, core, history
<1>27. CASE CrashAndRestart
  BY <1>27 DEF CrashAndRestart, Recovered, Moved, None, Resting, TypeOK, Index
<1> QED BY <1>1, <1>2, <1>3, <1>4, <1>5, <1>6, <1>7, <1>8, <1>9, <1>10, <1>11, <1>12,
          <1>13, <1>14, <1>15, <1>16, <1>17, <1>18, <1>19, <1>20, <1>21, <1>22, <1>23,
          <1>24, <1>25, <1>26, <1>27
   DEF Next, AgentStep, CallbackArrives, CallbackStep

LEMMA TokenKeeps ==
    ASSUME NEW t \in Tasks, OneToken(t), NoMore(t)
    PROVE  OneToken(t)'
<1>1. Parked(t)' => Parked(t)
  BY DEF NoMore, Parked
<1>2. (Awaited(t)' => Awaited(t)) /\ (Woken(t)' => Woken(t))
  BY DEF NoMore, Awaited, Woken
<1>3. \A k \in Children : Held(k, t)' => Held(k, t)
  BY DEF NoMore, Held
<1>4. OnePlace(t)'
  BY <1>1, <1>2, <1>3 DEF NoMore, OneToken, OnePlace
<1> QED BY <1>2, <1>4 DEF NoMore, OneToken

(* Taking the head of a lane: positions move up by one. *)
LEMMA TakeUnique ==
    ASSUME TypeOK, NEW l \in Lanes, queue[l] # <<>>, Take(l), NEW t \in Tasks, QueuedOnce(t)
    PROVE  /\ QueuedOnce(t)' /\ (Queued(t)' => Queued(t))
           /\ t = Head(queue[l]) => ~Queued(t)'
<1> DEFINE From(m, i) == IF m = l THEN i + 1 ELSE i
<1>1. \A m \in Lanes : queue[m] \in Seq(Tasks)
  BY DEF TypeOK
<1>2. \A m \in Lanes : queue'[m] = IF m = l THEN Tail(queue[m]) ELSE queue[m]
  BY DEF Take, TypeOK
<1>3. \A m \in Lanes : \A i \in 1..Len(queue'[m]) :
          /\ From(m, i) \in 1..Len(queue[m]) /\ queue'[m][i] = queue[m][From(m, i)]
          /\ From(m, i) \in Nat /\ i \in Nat
  <2> SUFFICES ASSUME NEW m \in Lanes, NEW i \in 1..Len(queue'[m])
               PROVE  /\ From(m, i) \in 1..Len(queue[m]) /\ queue'[m][i] = queue[m][From(m, i)]
                      /\ From(m, i) \in Nat /\ i \in Nat
    OBVIOUS
  <2>1. CASE m = l
    <3>1. queue[l] \in Seq(Tasks) /\ queue'[l] = Tail(queue[l]) /\ i \in 1..Len(Tail(queue[l]))
      BY <1>1, <1>2, <2>1
    <3>2. i + 1 \in 1..Len(queue[l]) /\ Tail(queue[l])[i] = queue[l][i + 1] /\ i \in Nat
      BY <3>1
    <3> QED BY <2>1, <3>1, <3>2
  <2>2. CASE m # l
    BY <1>1, <1>2, <2>2
  <2> QED BY <2>1, <2>2
<1>4. QueuedOnce(t)'
  <2> SUFFICES ASSUME NEW m \in Lanes, NEW n \in Lanes,
                      NEW i \in 1..Len(queue'[m]), NEW j \in 1..Len(queue'[n]),
                      queue'[m][i] = t, queue'[n][j] = t
               PROVE  m = n /\ i = j
    BY DEF QueuedOnce
  <2>1. /\ From(m, i) \in 1..Len(queue[m]) /\ queue[m][From(m, i)] = t
        /\ From(n, j) \in 1..Len(queue[n]) /\ queue[n][From(n, j)] = t
    BY <1>3
  <2>2. m = n /\ From(m, i) = From(n, j)
    <3> HIDE DEF From
    <3> QED BY <2>1 DEF QueuedOnce
  <2> QED BY <1>3, <2>2
<1>5. ASSUME Queued(t)' PROVE Queued(t) /\ t # Head(queue[l])
  <2>1. PICK m \in Lanes : \E i \in 1..Len(queue'[m]) : queue'[m][i] = t
    BY <1>5 DEF Queued
  <2>2. PICK i \in 1..Len(queue'[m]) : queue'[m][i] = t
    BY <2>1
  <2>3. From(m, i) \in 1..Len(queue[m]) /\ queue[m][From(m, i)] = t
    BY <1>3, <2>2
  <2>4. Queued(t)
    BY <2>3 DEF Queued
  <2>5. ASSUME t = Head(queue[l]) PROVE FALSE
    <3>1. 1 \in 1..Len(queue[l]) /\ queue[l][1] = t
      BY <1>1, <2>5
    <3>2. m = l /\ From(m, i) = 1
      BY <2>3, <3>1 DEF QueuedOnce
    <3> QED BY <2>2, <3>2, <1>3
  <2> QED BY <2>4, <2>5
<1> QED BY <1>4, <1>5

(* Appending an id: nothing else is queued, and it is queued once if it was not
   queued before.                                                            *)
LEMMA SubmitUnique ==
    ASSUME TypeOK, NEW l \in Lanes, NEW h \in Tasks, queue' = Submit(l, h), NEW t \in Tasks,
           QueuedOnce(t)
    PROVE  /\ t # h => QueuedOnce(t)' /\ (Queued(t)' => Queued(t))
           /\ ~Queued(t) => QueuedOnce(t)'
<1>1. CASE Full(l)
  BY <1>1 DEF Submit, QueuedOnce, Queued
<1>2. CASE ~Full(l)
  <2>1. \A m \in Lanes : queue[m] \in Seq(Tasks)
    BY DEF TypeOK
  <2>2. \A m \in Lanes : queue'[m] = IF m = l THEN Append(queue[m], h) ELSE queue[m]
    BY <1>2 DEF Submit, TypeOK
  <2>3. \A m \in Lanes : \A i \in 1..Len(queue'[m]) :
            \/ i \in 1..Len(queue[m]) /\ queue'[m][i] = queue[m][i]
            \/ m = l /\ i = Len(queue[l]) + 1 /\ queue'[m][i] = h
    <3> SUFFICES ASSUME NEW m \in Lanes, NEW i \in 1..Len(queue'[m])
                 PROVE  \/ i \in 1..Len(queue[m]) /\ queue'[m][i] = queue[m][i]
                        \/ m = l /\ i = Len(queue[l]) + 1 /\ queue'[m][i] = h
      OBVIOUS
    <3>1. CASE m = l
      <4>1. queue[l] \in Seq(Tasks) /\ queue'[l] = Append(queue[l], h) /\ i \in 1..Len(Append(queue[l], h))
        BY <2>1, <2>2, <3>1
      <4>2. \/ i \in 1..Len(queue[l]) /\ Append(queue[l], h)[i] = queue[l][i]
            \/ i = Len(queue[l]) + 1 /\ Append(queue[l], h)[i] = h
        BY <4>1
      <4> QED BY <3>1, <4>1, <4>2
    <3>2. CASE m # l
      BY <2>1, <2>2, <3>2
    <3> QED BY <3>1, <3>2
  <2>4. ASSUME t # h PROVE QueuedOnce(t)' /\ (Queued(t)' => Queued(t))
    <3>1. \A m \in Lanes : \A i \in 1..Len(queue'[m]) :
              queue'[m][i] = t => i \in 1..Len(queue[m]) /\ queue[m][i] = t
      BY <2>3, <2>4
    <3> QED BY <3>1 DEF QueuedOnce, Queued
  <2>5. ASSUME ~Queued(t) PROVE QueuedOnce(t)'
    <3>1. \A m \in Lanes : \A i \in 1..Len(queue'[m]) :
              queue'[m][i] = t => m = l /\ i = Len(queue[l]) + 1
      BY <2>3, <2>5 DEF Queued
    <3> QED BY <3>1 DEF QueuedOnce
  <2> QED BY <2>4, <2>5
<1> QED BY <1>1, <1>2

LEMMA QueueSame ==
    ASSUME queue' = queue, NEW t \in Tasks, QueuedOnce(t)
    PROVE  QueuedOnce(t)' /\ (Queued(t)' => Queued(t))
BY DEF QueuedOnce, Queued

(* Without a crash no step gives a task that came once a second token. *)
LEMMA TokenStep ==
    ASSUME TypeOK, ChildInv, AnswerInv, NEW u \in Tasks, OneToken(u), sends'[u] <= 1, crashes' = 0, [Next]_vars
    PROVE  OneToken(u)'
<1>1. CASE UNCHANGED vars
  BY <1>1, TokenKeeps, QueueSame DEF vars, core, history, NoMore, OneToken, On
<1>2. CASE PriorityEmpty
  <2>1. QueuedOnce(u)' /\ (Queued(u)' => Queued(u))
    BY <1>2, QueueSame DEF PriorityEmpty, OneToken
  <2>2. NoMore(u)
    BY <1>2, <2>1 DEF PriorityEmpty, NoMore, On, AgentFree, Resting, history
  <2> QED BY <2>2, TokenKeeps
<1>3. ASSUME NEW l \in Lanes, DequeueMissing(l) PROVE OneToken(u)'
  <2>1. QueuedOnce(u)' /\ (Queued(u)' => Queued(u))
    BY <1>3, TakeUnique DEF DequeueMissing, CanTake, OneToken
  <2>2. NoMore(u)
    BY <1>3, <2>1 DEF DequeueMissing, NoMore, On, Resting, history
  <2> QED BY <2>2, TokenKeeps
<1>4. ASSUME NEW l \in Lanes, DequeueCancelled(l) PROVE OneToken(u)'
  <2>1. PICK h \in Tasks : h = Head(queue[l])
    BY <1>4, HeadIsTask DEF DequeueCancelled, CanTake
  <2>2. /\ list[h].st # "none" /\ agent' = [pc |-> "report", task |-> h]
        /\ \A v \in Tasks : /\ v # h => list'[v] = list[v]
                            /\ list'[v].wait = list[v].wait
        /\ UNCHANGED <<child, sends>>
    BY <1>4, <2>1 DEF DequeueCancelled, UpdateStatus, Moved, TypeOK, Index, history
  <2>3. QueuedOnce(u)' /\ (Queued(u)' => Queued(u)) /\ (u = h => ~Queued(u)')
    BY <1>4, <2>1, TakeUnique DEF DequeueCancelled, CanTake, OneToken
  <2>4. CASE u # h
    <3>1. scratch'[u] = scratch[u]
      BY <1>4, <2>1, <2>4 DEF DequeueCancelled, TypeOK, history
    <3>2. NoMore(u)
      BY <2>2, <2>3, <2>4, <3>1 DEF NoMore, On
    <3> QED BY <3>2, TokenKeeps
  <2>5. CASE u = h
    <3>1. Queued(u)
      BY <1>4, <2>1, <2>5 DEF DequeueCancelled, CanTake, Queued, TypeOK
    <3>2. OnePlace(u)'
      BY <2>2, <2>3, <2>5, <3>1 DEF OneToken, OnePlace, Parked, Awaited, Woken, Held
    <3>3. sends[u] # 0 /\ ~Awaited(u)' /\ ~Woken(u)'
      BY <2>2, <3>1 DEF OneToken, OnePlace, Awaited, Woken
    <3>4. scratch'[u] <= sends[u]
      BY <1>4 DEF DequeueCancelled, history, OneToken
    <3> QED BY <2>2, <2>3, <2>5, <3>2, <3>3, <3>4 DEF OneToken
  <2> QED BY <2>4, <2>5
<1>5. ASSUME NEW l \in Lanes, DequeueStart(l) PROVE OneToken(u)'
  <2>1. PICK h \in Tasks : h = Head(queue[l])
    BY <1>5, HeadIsTask DEF DequeueStart, CanTake
  <2>2. /\ list[h].st # "none" /\ agent' = [pc |-> "started", task |-> h]
        /\ \A v \in Tasks : /\ v # h => list'[v] = list[v]
                            /\ list'[v].wait = list[v].wait
        /\ UNCHANGED <<child, sends>>
    BY <1>5, <2>1 DEF DequeueStart, UpdateStatus, Moved, TypeOK, Index, history
  <2>3. QueuedOnce(u)' /\ (Queued(u)' => Queued(u)) /\ (u = h => ~Queued(u)')
    BY <1>5, <2>1, TakeUnique DEF DequeueStart, CanTake, OneToken
  <2>4. CASE u # h
    <3>1. scratch'[u] = scratch[u]
      BY <1>5, <2>1, <2>4 DEF DequeueStart, TypeOK, history
    <3>2. NoMore(u)
      BY <2>2, <2>3, <2>4, <3>1 DEF NoMore, On
    <3> QED BY <3>2, TokenKeeps
  <2>5. CASE u = h
    <3>1. Queued(u)
      BY <1>5, <2>1, <2>5 DEF DequeueStart, CanTake, Queued, TypeOK
    <3>2. OnePlace(u)'
      BY <2>2, <2>3, <2>5, <3>1 DEF OneToken, OnePlace, Parked, Awaited, Woken, Held
    <3>3. sends[u] # 0 /\ ~Awaited(u)' /\ ~Woken(u)'
      BY <2>2, <3>1 DEF OneToken, OnePlace, Awaited, Woken
    <3>4. scratch'[u] <= sends[u]
      <4>1. CASE Resumable(list[u])
        BY <1>5, <2>1, <2>5, <4>1 DEF DequeueStart, OneToken
      <4>2. CASE ~Resumable(list[u])
        <5>1. scratch[u] = 0 /\ scratch'[u] = scratch[u] + 1
          BY <1>5, <2>1, <2>2, <2>5, <3>1, <4>2 DEF DequeueStart, OneToken, TypeOK
        <5> QED BY <3>3, <5>1 DEF TypeOK
      <4> QED BY <4>1, <4>2
    <3> QED BY <2>2, <2>3, <2>5, <3>2, <3>3, <3>4 DEF OneToken
  <2> QED BY <2>4, <2>5
<1>6. CASE RefuseExecution
  <2>1. PICK h \in Tasks : agent.pc = "started" /\ agent.task = h
    BY <1>6, AgentHas DEF RefuseExecution, AgentShape
  <2>2. /\ agent' = [pc |-> "report", task |-> h]
        /\ UNCHANGED <<queue, child, sends, scratch>>
        /\ list' = list \/ list' = UpdateStatus(list, h, "Failed")
    BY <1>6, <2>1 DEF RefuseExecution, history
  <2>3. QueuedOnce(u)' /\ (Queued(u)' => Queued(u))
    BY <2>2, QueueSame DEF OneToken
  <2>4. list'[u].st # "none" => /\ list[u].st # "none" /\ list'[u].wait = list[u].wait
                                /\ Resumable(list[u]) => Resumable(list'[u])
    <3>1. CASE list' = list
      BY <3>1
    <3>2. CASE list' = UpdateStatus(list, h, "Failed")
      BY <3>2 DEF UpdateStatus, Moved, Resumable, TypeOK, Index
    <3> QED BY <2>2, <3>1, <3>2
  <2>5. NoMore(u)
    BY <2>1, <2>2, <2>3, <2>4 DEF NoMore, On
  <2> QED BY <2>5, TokenKeeps
<1>7. CASE RegisterToken
  <2>1. QueuedOnce(u)' /\ (Queued(u)' => Queued(u))
    BY <1>7, QueueSame DEF RegisterToken, OneToken
  <2>2. NoMore(u)
    BY <1>7, <2>1, AgentHas DEF RegisterToken, NoMore, On, AgentShape, history
  <2> QED BY <2>2, TokenKeeps
<1>8. CASE RunEnds
  <2>1. QueuedOnce(u)' /\ (Queued(u)' => Queued(u))
    BY <1>8, QueueSame DEF RunEnds, OneToken
  <2>2. NoMore(u)
    BY <1>8, <2>1, AgentHas DEF RunEnds, NoMore, On, AgentShape, history
  <2> QED BY <2>2, TokenKeeps
<1>9. CASE RunEndsAsync
  <2>1. QueuedOnce(u)' /\ (Queued(u)' => Queued(u))
    BY <1>9, QueueSame DEF RunEndsAsync, OneToken
  <2>2. NoMore(u)
    BY <1>9, <2>1, AgentHas DEF RunEndsAsync, NoMore, On, AgentShape, history
  <2> QED BY <2>2, TokenKeeps
<1>10. CASE SaveAsyncState
  <2>1. PICK h \in Tasks, k \in Children : agent = [pc |-> "saving", task |-> h, child |-> k]
    BY <1>10 DEF SaveAsyncState, TypeOK, Agents, Resting
  <2>2. /\ agent' = Resting /\ UNCHANGED <<queue, child, sends, scratch>>
        /\ \A v \in Tasks : /\ v # h => list'[v] = list[v]
                            /\ list[v].st = "none" => list'[v].st = "none"
    BY <1>10, <2>1 DEF SaveAsyncState, TypeOK, Index, history
  <2>3. QueuedOnce(u)' /\ (Queued(u)' => Queued(u)) /\ (Awaited(u)' => Awaited(u))
    BY <2>2, QueueSame DEF OneToken, Awaited
  <2>4. CASE u # h
    <3>1. NoMore(u)
      BY <2>2, <2>3, <2>4 DEF NoMore, On, Resting
    <3> QED BY <3>1, TokenKeeps
  <2>5. CASE u = h
    <3>1. On(u)
      BY <2>1, <2>5 DEF On
    <3>2. ~Queued(u)' /\ ~Awaited(u)' /\ ~On(u)'
      BY <2>2, <2>3, <3>1 DEF OneToken, OnePlace, On, Resting
    <3>3. OnePlace(u)' /\ ~Woken(u)'
      BY <2>2, <3>2 DEF OneToken, OnePlace, Awaited, Woken, Held
    <3> QED BY <2>2, <2>3, <3>1, <3>2, <3>3 DEF OneToken
  <2> QED BY <2>4, <2>5
<1>11. CASE SendTaskCallback
  <2>1. QueuedOnce(u)' /\ (Queued(u)' => Queued(u))
    BY <1>11, QueueSame DEF SendTaskCallback, OneToken
  <2>2. NoMore(u)
    BY <1>11, <2>1, AgentHas DEF SendTaskCallback, NoMore, On, AgentShape, history
  <2> QED BY <2>2, TokenKeeps
<1>12. CASE FinishTask
  <2>1. QueuedOnce(u)' /\ (Queued(u)' => Queued(u))
    BY <1>12, QueueSame DEF FinishTask, OneToken
  <2>2. NoMore(u)
    BY <1>12, <2>1, AgentHas DEF FinishTask, NoMore, On, AgentShape, CompleteTask, None,
         Resting, TypeOK, Index, history
  <2> QED BY <2>2, TokenKeeps
<1>13. ASSUME NEW t \in Tasks, Accept(t) PROVE OneToken(u)'
  <2>1. Lane(t) \in Lanes /\ queue' = Submit(Lane(t), t) /\ UNCHANGED <<agent, child, scratch>>
    BY <1>13 DEF Accept, Lane, Lanes
  <2>2. CASE u # t
    <3>1. QueuedOnce(u)' /\ (Queued(u)' => Queued(u))
      BY <2>1, <2>2, SubmitUnique DEF OneToken
    <3>2. list'[u] = list[u] /\ sends'[u] = sends[u]
      BY <1>13, <2>2 DEF Accept, TypeOK, Index
    <3>3. NoMore(u)
      BY <2>1, <3>1, <3>2 DEF NoMore, On
    <3> QED BY <3>3, TokenKeeps
  <2>3. CASE u = t
    <3>1. sends[u] = 0 /\ sends'[u] = 1 /\ list'[u] = Fresh
      BY <1>13, <2>3 DEF Accept, TypeOK, Index
    <3>2. ~Queued(u) /\ ~On(u)' /\ ~Awaited(u)' /\ scratch'[u] = 0
      BY <2>1, <3>1 DEF OneToken, On, Awaited, TypeOK
    <3>3. QueuedOnce(u)'
      BY <2>1, <3>2, SubmitUnique DEF OneToken
    <3>4. OnePlace(u)'
      BY <2>1, <3>1, <3>2 DEF OneToken, OnePlace, Parked, Fresh, Awaited, Held
    <3> QED BY <3>1, <3>2, <3>3, <3>4 DEF OneToken
  <2> QED BY <2>2, <2>3
<1>14. ASSUME NEW t \in Tasks, RejectFull(t) PROVE OneToken(u)'
  <2>1. QueuedOnce(u)' /\ (Queued(u)' => Queued(u))
    BY <1>14, QueueSame DEF RejectFull, OneToken
  <2>2. NoMore(u)
    BY <1>14, <2>1 DEF RejectFull, NoMore, On, CompleteTask, None, TypeOK, Index, history
  <2> QED BY <2>2, TokenKeeps
<1>15. CASE SweepCollect
  <2>1. QueuedOnce(u)' /\ (Queued(u)' => Queued(u))
    BY <1>15, QueueSame DEF SweepCollect, OneToken
  <2>2. NoMore(u)
    BY <1>15, <2>1 DEF SweepCollect, NoMore, On, history
  <2> QED BY <2>2, TokenKeeps
<1>16. ASSUME NEW t \in Tasks, SweepRemove(t) PROVE OneToken(u)'
  <2>1. QueuedOnce(u)' /\ (Queued(u)' => Queued(u))
    BY <1>16, QueueSame DEF SweepRemove, OneToken
  <2>2. NoMore(u)
    BY <1>16, <2>1 DEF SweepRemove, NoMore, On, CompleteTask, None, TypeOK, Index, history
  <2> QED BY <2>2, TokenKeeps
<1>17. ASSUME NEW c \in Cancellers, CancelWrite(c) PROVE OneToken(u)'
  <2>1. QueuedOnce(u)' /\ (Queued(u)' => Queued(u))
    BY <1>17, QueueSame DEF CancelWrite, OneToken
  <2>2. NoMore(u)
    BY <1>17, <2>1, CancelHas DEF CancelWrite, NoMore, On, UpdateStatus, Moved,
         Resumable, TypeOK, Index, history
  <2> QED BY <2>2, TokenKeeps
<1>18. ASSUME NEW c \in Cancellers, NEW t \in Tasks, CancelRead(c, t) PROVE OneToken(u)'
  <2>1. QueuedOnce(u)' /\ (Queued(u)' => Queued(u))
    BY <1>18, QueueSame DEF CancelRead, OneToken
  <2>2. NoMore(u)
    BY <1>18, <2>1 DEF CancelRead, NoMore, On, history
  <2> QED BY <2>2, TokenKeeps
<1>19. ASSUME NEW k \in Children, CallChild(k) PROVE OneToken(u)'
  <2>1. QueuedOnce(u)' /\ (Queued(u)' => Queued(u))
    BY <1>19, QueueSame DEF CallChild, OneToken
  <2>2. NoMore(u)
    BY <1>19, <2>1, AgentHas DEF CallChild, NoMore, On, AgentShape, ChildInv, InHand,
         TypeOK, history
  <2> QED BY <2>2, TokenKeeps
<1>20. ASSUME NEW k \in Children, FindParent(k) PROVE OneToken(u)'
  <2>1. PICK t \in Tasks : FindShape(k, t)
    BY <1>20, Finds
  <2>2. QueuedOnce(u)' /\ (Queued(u)' => Queued(u))
    BY <2>1, QueueSame DEF FindShape, Handed, OneToken
  <2>3. CASE u # t
    <3>1. NoMore(u)
      BY <2>1, <2>2, <2>3 DEF FindShape, Handed, NoMore, On
    <3> QED BY <3>1, TokenKeeps
  <2>4. CASE u = t
    <3>1. Parked(u)
      BY <2>1, <2>4, NullsFresh DEF FindShape, Parked
    <3>2. ~Queued(u)' /\ ~On(u)' /\ sends[u] # 0 /\ ~Woken(u)
      BY <2>1, <2>2, <3>1 DEF FindShape, Handed, OneToken, OnePlace, Parked, On
    <3>3. \A j \in Children : child[j].parent # u
      BY <2>1, <2>4, <3>2, NullsFresh DEF FindShape, OneToken, OnePlace, Woken, Held
    <3>4. \A j \in Children : child'[j].parent = u => j = k
      BY <2>1, <3>3 DEF FindShape, Handed
    <3>5. ~Woken(u)'
      BY <2>1, <3>4 DEF FindShape, Woken
    <3>6. OnePlace(u)'
      BY <2>1, <2>4, <3>2, <3>4, <3>5 DEF FindShape, OnePlace, Held
    <3>7. sends'[u] = sends[u] /\ scratch'[u] = scratch[u]
      BY <2>1 DEF FindShape, Handed
    <3> QED BY <2>2, <3>2, <3>5, <3>6, <3>7 DEF OneToken
  <2> QED BY <2>3, <2>4
<1>21. ASSUME NEW k \in Children, InjectCallback(k) PROVE OneToken(u)'
  <2>1. PICK t \in Tasks : InjectShape(k, t)
    BY <1>21, Injects
  <2>2. QueuedOnce(u)' /\ (Queued(u)' => Queued(u))
    BY <2>1, QueueSame DEF InjectShape, Handed, OneToken
  <2>3. CASE u # t
    <3>1. NoMore(u)
      BY <2>1, <2>2, <2>3 DEF InjectShape, Handed, NoMore, On
    <3> QED BY <3>1, TokenKeeps
  <2>4. CASE u = t
    <3>1. Awaited(u) /\ Held(k, u)
      BY <2>1, <2>4 DEF InjectShape, HasFound, Awaited, Held
    <3>2. ~Queued(u)' /\ ~On(u)' /\ sends[u] # 0
      BY <2>1, <2>2, <3>1 DEF InjectShape, Handed, OneToken, OnePlace, On
    <3>3. list'[u].st # "none" => list'[u].wait = NoChild /\ Resumable(list'[u])
      <4>1. list[u].st # "none" => list[u].asked = k
        BY <3>1, NullsFresh DEF OneToken, OnePlace, AnswerInv, SoundIndex, SoundEntry
      <4> QED BY <2>1, <2>4, <4>1, NullsFresh DEF InjectShape, Resumable
    <3>4. \A j \in Children : child'[j].parent = u => j = k
      BY <2>1, <3>1 DEF InjectShape, Handed, OneToken, OnePlace, Held
    <3>5. OnePlace(u)'
      BY <2>1, <3>2, <3>3, <3>4 DEF InjectShape, OnePlace, Held, Parked
    <3>6. sends'[u] = sends[u] /\ scratch'[u] = scratch[u]
      BY <2>1 DEF InjectShape, Handed
    <3> QED BY <2>2, <3>2, <3>3, <3>5, <3>6 DEF OneToken
  <2> QED BY <2>3, <2>4
<1>22. ASSUME NEW k \in Children, InjectCancelled(k) PROVE OneToken(u)'
  <2>1. PICK t \in Tasks : HasFound(k, t)
    BY <1>22 DEF InjectCancelled, ChildInv, InHand, HasFound
  <2>2. /\ UNCHANGED <<list, queue, agent, sends, scratch>>
        /\ child'[k].st = "discard" /\ child'[k].parent = t
        /\ \A j \in Children : j # k => child'[j] = child[j]
    BY <1>22, <2>1 DEF InjectCancelled, HasFound, TypeOK, history
  <2>3. QueuedOnce(u)' /\ (Queued(u)' => Queued(u)) /\ (On(u)' => On(u))
    BY <2>2, QueueSame DEF OneToken, On
  <2>4. \A j \in Children : /\ child'[j].parent = child[j].parent
                            /\ Held(j, u)' => Held(j, u)
    BY <2>1, <2>2 DEF HasFound, Held
  <2>5. (Woken(u)' => Woken(u)) /\ (Awaited(u)' => Awaited(u)) /\ (Parked(u)' => Parked(u))
    BY <2>2, <2>4 DEF Woken, Awaited, Parked
  <2>6. OnePlace(u)'
    BY <2>2, <2>3, <2>4, <2>5 DEF OneToken, OnePlace
  <2> QED BY <2>2, <2>3, <2>5, <2>6 DEF OneToken
<1>23. ASSUME NEW k \in Children, DropCancelled(k) PROVE OneToken(u)'
  <2>1. PICK t \in Tasks : DropShape(k, t)
    BY <1>23, Drops
  <2>2. QueuedOnce(u)' /\ (Queued(u)' => Queued(u))
    BY <2>1, QueueSame DEF DropShape, Handed, OneToken
  <2>3. CASE u # t
    <3>1. NoMore(u)
      BY <2>1, <2>2, <2>3 DEF DropShape, Handed, NoMore, On
    <3> QED BY <3>1, TokenKeeps
  <2>4. CASE u = t
    <3>1. Awaited(u) /\ list'[u].st = "none"
      BY <2>1, <2>4 DEF DropShape, Awaited, None
    <3>2. ~Queued(u)' /\ ~On(u)' /\ sends[u] # 0
      BY <2>1, <2>2, <3>1 DEF DropShape, Handed, OneToken, OnePlace, On
    <3>3. \A j \in Children : child'[j].parent = u => j = k
      BY <2>1, <2>4 DEF DropShape, Handed, OneToken, OnePlace
    <3>4. OnePlace(u)'
      BY <3>1, <3>2, <3>3 DEF OnePlace, Parked
    <3>5. sends'[u] = sends[u] /\ scratch'[u] = scratch[u]
      BY <2>1 DEF DropShape, Handed
    <3> QED BY <2>2, <3>1, <3>2, <3>4, <3>5 DEF OneToken
  <2> QED BY <2>3, <2>4
<1>24. ASSUME NEW k \in Children, SubmitResumed(k) PROVE OneToken(u)'
  <2>1. PICK h \in Tasks : child[k].parent = h /\ child[k].st = "injected"
    BY <1>24 DEF SubmitResumed, ChildInv, InHand
  <2>2. "normal" \in Lanes /\ queue' = Submit("normal", h) /\ UNCHANGED <<list, agent, sends, scratch>>
    BY <1>24, <2>1 DEF SubmitResumed, Lanes
  <2>3. child'[k].parent = NoTask /\ \A j \in Children : j # k => child'[j] = child[j]
    BY <1>24 DEF SubmitResumed, TypeOK
  <2>4. CASE u # h
    <3>1. QueuedOnce(u)' /\ (Queued(u)' => Queued(u))
      BY <2>2, <2>4, SubmitUnique DEF OneToken
    <3>2. NoMore(u)
      BY <2>2, <2>3, <3>1, NullsFresh DEF NoMore, On
    <3> QED BY <3>2, TokenKeeps
  <2>5. CASE u = h
    <3>1. Awaited(u) /\ Woken(u)
      BY <2>1, <2>5 DEF Awaited, Woken
    <3>2. ~Queued(u) /\ ~On(u)' /\ ~Parked(u)' /\ sends[u] # 0
      BY <2>2, <3>1 DEF OneToken, OnePlace, Parked, On
    <3>3. \A j \in Children : child'[j].parent # u
      BY <2>1, <2>3, <2>5, NullsFresh DEF OneToken, OnePlace
    <3>4. QueuedOnce(u)'
      BY <2>2, <3>2, SubmitUnique DEF OneToken
    <3>5. OnePlace(u)'
      BY <3>2, <3>3 DEF OnePlace, Awaited, Woken, Held
    <3> QED BY <2>2, <3>1, <3>2, <3>3, <3>4, <3>5 DEF OneToken, Woken
  <2> QED BY <2>4, <2>5
<1>25. ASSUME NEW k \in Children, StrayCallback(k) PROVE OneToken(u)'
  <2>1. QueuedOnce(u)' /\ (Queued(u)' => Queued(u))
    BY <1>25, QueueSame DEF StrayCallback, OneToken
  <2>2. NoMore(u)
    BY <1>25, <2>1, AgentHas DEF StrayCallback, NoMore, On, AgentShape, ChildInv, InHand,
         TypeOK, history
  <2> QED BY <2>2, TokenKeeps
<1>26. ASSUME NEW w \in Writers, WriteIndex(w) PROVE OneToken(u)'
  <2>1. QueuedOnce(u)' /\ (Queued(u)' => Queued(u))
    BY <1>26, QueueSame DEF WriteIndex, OneToken
  <2>2. NoMore(u)
    BY <1>26, <2>1 DEF WriteIndex, NoMore, On, history
  <2> QED BY <2>2, TokenKeeps
<1>27. CASE CrashAndRestart
  BY <1>27 DEF CrashAndRestart, TypeOK
<1> QED BY <1>1, <1>2, <1>3, <1>4, <1>5, <1>6, <1>7, <1>8, <1>9, <1>10, <1>11, <1>12,
          <1>13, <1>14, <1>15, <1>16, <1>17, <1>18, <1>19, <1>20, <1>21, <1>22, <1>23,
          <1>24, <1>25, <1>26, <1>27
   DEF Next, AgentStep, CallbackArrives, CallbackStep

LEMMA ScratchStep ==
    ASSUME TypeOK, ChildInv, AnswerInv, ScratchInv, [Next]_vars
    PROVE  ScratchInv'
<1> SUFFICES ASSUME NEW u \in Tasks, sends'[u] <= 1, crashes' = 0
             PROVE  OneToken(u)'
  BY DEF ScratchInv
<1>1. sends[u] <= 1 /\ crashes = 0
  <2>1. crashes' \in Nat /\ sends'[u] \in Nat
    BY CountType DEF CountsOK
  <2> QED BY <2>1, HistoryGrows DEF TypeOK
<1>2. OneToken(u)
  BY <1>1 DEF ScratchInv
<1> QED BY <1>2, TokenStep

LEMMA InitInv ==
    ASSUME Init
    PROVE  WorkerInv
<1>1. list \in Index /\ disk \in Index
  BY NoneIsEntry DEF Init, Index
<1>2. hit \in BOOLEAN
  BY Zenon DEF Init
<1>3. queue \in [Lanes -> Seq(Tasks)] /\ \A l \in Lanes : Len(queue[l]) <= QueueCap
  BY DEF Init
<1>4. TypeOK
  BY <1>1, <1>2, <1>3 DEF Init, TypeOK, Agents
<1>5. ChildInv /\ VisibleInv
  BY DEF Init, ChildInv, InHand, VisibleInv, None
<1>6. AnswerInv /\ RanInv /\ FoundInv
  <2>1. AnswerInv
    BY NoneIsSound DEF Init, AnswerInv, SoundIndex, Synced
  <2> QED BY <2>1 DEF Init, RanInv, FoundInv, HasFound, Executing, Resting
<1>7. ForgetInv /\ PendingIsQueued
  BY DEF Init, ForgetInv, PendingIsQueued, None, Resting
<1>8. CreditInv /\ KeeperInv
  BY DEF Init, CreditInv, Credit, KeeperInv, On, None, Resting
<1>9. WaitInv
  BY DEF Init, WaitInv, FilesWait, WaitIndex, CallOpen, OnlyFound, Calling, None, Synced,
       Resting
<1>10. ScratchInv
  <2>1. \A t \in Tasks : ~Queued(t) /\ ~On(t) /\ ~Awaited(t) /\ list[t].st = "none"
    BY <1>3 DEF Init, Queued, On, Awaited, None, Resting
  <2>2. \A t \in Tasks : QueuedOnce(t)
    BY <2>1 DEF QueuedOnce, Queued
  <2>3. \A t \in Tasks : OnePlace(t) /\ ~Woken(t)
    BY <2>1 DEF OnePlace, Parked, Awaited, Woken, Held
  <2> QED BY <2>1, <2>2, <2>3 DEF Init, ScratchInv, OneToken
<1> QED BY <1>4, <1>5, <1>6, <1>7, <1>8, <1>9, <1>10 DEF WorkerInv

(* The inductive invariant of the worker: entries pair results with the calls
   that asked for them in memory, in the file and in the writes under way, until
   the task is started a second time; whoever drops an entry leaves a reason;
   what waits is queued.                                                     *)
THEOREM WorkerInvariant == Spec => []WorkerInv
<1>1. Init => WorkerInv
  BY InitInv
<1>2. WorkerInv /\ [Next]_vars => WorkerInv'
  <2> SUFFICES ASSUME WorkerInv, [Next]_vars PROVE WorkerInv'
    OBVIOUS
  <2>1. TypeOK' /\ ChildInv'
    BY TypeStep DEF WorkerInv
  <2>2. /\ SoundIndex(list, scratch') /\ SoundIndex(disk, scratch')
        /\ \A w \in Writers : flush[w].pc = "write" => SoundIndex(flush[w].index, scratch')
    BY <2>1, HistoryGrows, SoundGrows DEF WorkerInv, AnswerInv, TypeOK
  <2>3. AnswerInv' /\ RanInv' /\ FoundInv'
    BY <2>2, ListSound, AnswerStep, RanStep, FoundStep DEF WorkerInv
  <2>4. ForgetInv' /\ VisibleInv' /\ PendingIsQueued'
    BY ForgetStep, VisibleStep, PendingStep DEF WorkerInv
  <2>5. CreditInv' /\ WaitInv' /\ KeeperInv' /\ ScratchInv'
    BY CreditStep, WaitStep, KeeperStep, ScratchStep DEF WorkerInv
  <2> QED BY <2>1, <2>3, <2>4, <2>5 DEF WorkerInv
<1> QED BY <1>1, <1>2, PTL DEF Spec

(* Every variable keeps its type; no lane ever holds more than its capacity. *)
THEOREM TypeCorrect == Spec => []TypeOK
<1>1. WorkerInv => TypeOK
  BY DEF WorkerInv
<1> QED BY <1>1, WorkerInvariant, PTL

(* No interleaving of execution, parking, resumption, cancellation, sweep and
   restart makes the worker drop a task it has accepted without reporting it,
   having been told to, or a crash or a full queue having taken it
   (cluster_task.rs, cluster_agent.rs).                                      *)
THEOREM NothingForgotten == Spec => []NeverForgotten
<1>1. WorkerInv => NeverForgotten
  BY DEF WorkerInv, ForgetInv, Excused, Reporting, NeverForgotten, Accepted, On
<1> QED BY <1>1, WorkerInvariant, PTL

(* However often a task delegates, and whichever index a restart finds in the
   file, it is resumed with the answer to its own call, unless it was started
   from scratch a second time: only then can it park on another call between a
   handler's find_by_child_task_id and its inject_callback.                  *)
THEOREM ResumedAsAsked == Spec => []ResumedWithItsAnswer
<1>1. WorkerInv => ResumedWithItsAnswer
  BY DEF WorkerInv, AnswerInv, SoundIndex, SoundEntry, ResumedWithItsAnswer, Resumable
<1> QED BY <1>1, WorkerInvariant, PTL

(* No entry of the list is a dead end, in any interleaving of the agent loop,
   the callbacks, the sweep, cancellation and restarts: a Pending entry's id is
   queued or about to be (or a full lane refused it), a Running one is the agent
   loop's, a parked one waits for an answer, a Failed one is being reported
   (begin_execution, save_async_state, inject_callback, recover_task_ids).   *)
THEOREM NothingStranded == Spec => []EntryHasKeeper
<1>1. WorkerInv => EntryHasKeeper
  BY DEF WorkerInv, PendingIsQueued, KeeperInv, Open, ForgetInv, Reporting,
       EntryHasKeeper, Awaited, On
<1> QED BY <1>1, WorkerInvariant, PTL

(* The requester is called back at most once per delivery of its peer_chat and
   once more per crash: a cancelled, swept or resumed task is not reported
   twice (send_task_callback, complete_task).                                *)
THEOREM NoSecondReport == Spec => []ReportedOnce
<1>1. WorkerInv => ReportedOnce
  <2> SUFFICES ASSUME WorkerInv, NEW t \in Tasks PROVE reports[t] <= sends[t] + crashes
    BY DEF ReportedOnce
  <2>1. Credit(t) \in Nat
    BY DEF Credit
  <2>2. reports[t] \in Nat /\ sends[t] \in Nat /\ crashes \in Nat
    BY DEF WorkerInv, TypeOK
  <2>3. reports[t] + Credit(t) <= sends[t] + crashes
    BY DEF WorkerInv, CreditInv
  <2> QED BY <2>1, <2>2, <2>3
<1> QED BY <1>1, WorkerInvariant, PTL

(* A task that came once to a worker that did not crash is started from scratch
   once, however often it delegates and whenever its callbacks, a cancel or the
   sweep arrive: its one token is in the queue, with the agent loop, parked or
   in a callback handler's hands (begin_execution, inject_callback).         *)
THEOREM StartedOnce == Spec => []OneScratchRun
<1>1. WorkerInv => OneScratchRun
  BY DEF WorkerInv, ScratchInv, OneToken, OneScratchRun
<1> QED BY <1>1, WorkerInvariant, PTL

(* Until the first crash query_task_result never denies a task the worker
   still has to report.                                                      *)
THEOREM VisibleUntilCrash == Spec => [](crashes = 0 => LiveTaskIsVisible)
<1>1. WorkerInv => (crashes = 0 => LiveTaskIsVisible)
  BY DEF WorkerInv, VisibleInv, LiveTaskIsVisible, Accepted, Live
<1> QED BY <1>1, WorkerInvariant, PTL
=============================================================================
