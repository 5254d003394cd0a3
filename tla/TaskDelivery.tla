---------------------------- MODULE TaskDelivery ----------------------------
(***************************************************************************)
(* One delegated conversation between a requester A and a worker B: the    *)
(* dispatch (cluster_init.rs, call_fn), the callback (peer_chat_callback), *)
(* the recovery poll (poll_stale_pending_tasks), the cleanup tick, and the *)
(* restart of either side.  It composes what TaskManager, ClusterWorker,   *)
(* TaskResultStore and Continuation show of the parts: a row is settled    *)
(* once, a worker keeps a task until it has reported it, a conversation is *)
(* resumed at most once.                                                   *)
(***************************************************************************)
EXTENDS Naturals, Sequences

CONSTANTS
    MaxRetries,    \* MAX_CALLBACK_RETRIES
    MaxLoss,       \* bound: messages lost
    MaxCrashesA,   \* bound: crashes of the requester
    MaxCrashesB,   \* bound: crashes of the worker
    MayExpire      \* whether a task can outlive the safety net

ASSUME DeliveryBounds ==
    /\ MaxRetries \in Nat \ {0}
    /\ MaxLoss \in Nat /\ MaxCrashesA \in Nat /\ MaxCrashesB \in Nat
    /\ MayExpire \in BOOLEAN

None     == "none"
Replies  == {"success", "error"}                       \* what B reports
Outcomes == Replies \cup {"not_found", "timeout"}      \* what A may conclude

VARIABLES
    call,     \* A: where the dispatching turn stands
    rpc,      \* the peer_chat request or its ACK on the wire
    row,      \* A, durable: the task row (Pending or its outcome)
    snap,     \* A, durable: the continuation snapshot
    merged,   \* A, durable: the result merged into the snapshot
    bus,      \* A: cluster_continuation messages not yet handled
    resuming, \* A: the result the running continuation rests on
    base,     \* A: the snapshot that continuation loaded
    told,     \* A, durable: the outcome the conversation was continued with
    cb,       \* A: the peer_chat_callback handler
    poll,     \* A: the recovery poll
    first,    \* A: the poll's first tick after a restart is still due
    age,      \* age of the task seen by A
    work,     \* B: the task
    reply,    \* B: its outcome
    store,    \* B: its entry in the result store
    tries,    \* B: failed callback attempts
    deleted,  \* history: the dashboard has deleted the row since A started
    late,     \* history: likewise, the turn saved after a wake-up had gone ahead
    loss, crashesA, crashesB

dispatch == <<call, rpc>>
run      == <<resuming, base>>
conv     == <<snap, merged, bus, run, told>>
worker   == <<work, reply, store, tries>>
bounds   == <<loss, crashesA, crashesB, deleted, late>>
vars == <<dispatch, row, conv, cb, poll, first, age, worker, bounds>>

Idle == [pc |-> "idle", out |-> None]

TypeOK ==
    /\ call \in {"idle", "sending", "accepted", "registered", "saved", "failed", "lost"}
    /\ rpc \in {None, "request", "accepted", "rejected"}
    /\ row \in {None, "Pending"} \cup Outcomes
    /\ {snap, base} \subseteq {None, "placeholder", "real"}
    /\ {merged, resuming, told} \subseteq {None} \cup Outcomes
    /\ bus \in Seq(Outcomes)
    /\ cb \in [pc : {"idle", "publish", "settle", "ack"}, out : {None} \cup Replies]
    /\ poll \in [pc : {"idle", "query", "settle", "publish", "confirm"}, out : {None} \cup Outcomes]
    /\ first \in BOOLEAN /\ deleted \in BOOLEAN /\ late \in BOOLEAN
    /\ age \in {"young", "old", "overdue"}
    /\ work \in {None, "running", "sending", "reported", "done"}
    /\ reply \in {None} \cup Replies
    /\ store \in {None, "running"} \cup Replies
    /\ tries \in 0..MaxRetries
    /\ loss \in 0..MaxLoss /\ crashesA \in 0..MaxCrashesA /\ crashesB \in 0..MaxCrashesB

Init ==
    /\ call = "idle" /\ rpc = None
    /\ row = None
    /\ snap = None /\ merged = None /\ bus = <<>> /\ resuming = None /\ base = None /\ told = None
    /\ cb = Idle /\ poll = Idle /\ first = FALSE /\ age = "young"
    /\ work = None /\ reply = None /\ store = None /\ tries = 0
    /\ loss = 0 /\ crashesA = 0 /\ crashesB = 0 /\ deleted = FALSE /\ late = FALSE

Lose == loss < MaxLoss /\ loss' = loss + 1 /\ UNCHANGED <<crashesA, crashesB, deleted, late>>

(* complete_callback: the conditional update; the poll and the callback
   ignore its answer.                                                       *)
Settle(out) == row' = IF row = "Pending" THEN out ELSE row

-----------------------------------------------------------------------------
(* Dispatch: call_fn, then save_async_continuation.                        *)

(* The id is generated and the placeholder snapshot written before the call. *)
Dispatch ==
    /\ call = "idle"
    /\ call' = "sending" /\ rpc' = "request" /\ snap' = "placeholder"
    /\ UNCHANGED <<row, merged, bus, run, told, cb, poll, first, age, worker, bounds>>

(* "peer is offline" or a rejection: the task does not exist at B. *)
CallRefused ==
    /\ call = "sending" /\ rpc \in {"request", "rejected"}
    /\ call' = "failed" /\ rpc' = None /\ snap' = None /\ merged' = None
    /\ UNCHANGED <<row, bus, run, told, cb, poll, first, age, worker, bounds>>

(* Request, ACK or rejection is lost ... *)
RpcLost ==
    /\ rpc # None /\ Lose
    /\ rpc' = None
    /\ UNCHANGED <<call, row, conv, cb, poll, first, age, worker>>

(* ... and the call fails in a way that keeps the placeholder. *)
CallFailed ==
    /\ call = "sending" /\ rpc = None
    /\ call' = "failed"
    /\ UNCHANGED <<rpc, row, conv, cb, poll, first, age, worker, bounds>>

CallAccepted ==
    /\ call = "sending" /\ rpc = "accepted"
    /\ call' = "accepted" /\ rpc' = None
    /\ UNCHANGED <<row, conv, cb, poll, first, age, worker, bounds>>

(* TaskManager::submit after the ACK, created now. *)
RegisterRow ==
    /\ call = "accepted"
    /\ call' = "registered" /\ age' = "young"
    /\ row' = IF row = None THEN "Pending" ELSE row
    /\ UNCHANGED <<rpc, conv, cb, poll, first, worker, bounds>>

(* save_async_continuation; a handler that loaded the placeholder may still
   write its merged copy over it.                                           *)
SaveSnapshot ==
    /\ call = "registered"
    /\ call' = "saved"
    /\ late' = (snap = None \/ base # None)
    /\ \/ snap' = "real" /\ merged' = None
       \/ base = "placeholder" /\ UNCHANGED <<snap, merged>>
    /\ UNCHANGED <<rpc, row, bus, run, told, cb, poll, first, age, worker,
                   loss, crashesA, crashesB, deleted>>

-----------------------------------------------------------------------------
(* The worker, as ClusterWorker describes it.                              *)

(* Mutant: no running placeholder in the result store. *)
WorkerAccepts_NoPlaceholder ==
    /\ rpc = "request" /\ work = None
    /\ work' = "running" /\ UNCHANGED store
    /\ rpc' = IF call = "sending" THEN "accepted" ELSE None
    /\ UNCHANGED <<call, row, conv, cb, poll, first, age, reply, tries, bounds>>

WorkerAccepts ==
    /\ rpc = "request" /\ work = None
    /\ work' = "running" /\ store' = "running"
    /\ rpc' = IF call = "sending" THEN "accepted" ELSE None
    /\ UNCHANGED <<call, row, conv, cb, poll, first, age, reply, tries, bounds>>

WorkerRejects ==
    /\ rpc = "request"
    /\ rpc' = IF call = "sending" THEN "rejected" ELSE None
    /\ UNCHANGED <<call, row, conv, cb, poll, first, age, worker, bounds>>

(* The run ends; a callback handler of an earlier life has long returned. *)
WorkerFinishes ==
    /\ work = "running" /\ cb = Idle
    /\ work' = "sending" /\ reply' \in Replies /\ tries' = 0
    /\ UNCHANGED <<dispatch, row, conv, cb, poll, first, age, store, bounds>>

(* One attempt of send_callback fails before it reaches A. *)
CallbackLost ==
    /\ work = "sending" /\ cb = Idle /\ tries < MaxRetries /\ Lose
    /\ tries' = tries + 1
    /\ UNCHANGED <<dispatch, row, conv, cb, poll, first, age, work, reply, store>>

(* Mutant: after the last failed attempt the result is thrown away. *)
PersistResult_Drop ==
    /\ work = "sending" /\ tries = MaxRetries
    /\ work' = "reported" /\ UNCHANGED store
    /\ UNCHANGED <<dispatch, row, conv, cb, poll, first, age, reply, tries, bounds>>

(* Every attempt failed: set_result. *)
PersistResult ==
    /\ work = "sending" /\ tries = MaxRetries
    /\ work' = "reported" /\ store' = reply
    /\ UNCHANGED <<dispatch, row, conv, cb, poll, first, age, reply, tries, bounds>>

(* complete_task *)
WorkerForgets ==
    /\ work = "reported"
    /\ work' = "done"
    /\ UNCHANGED <<dispatch, row, conv, cb, poll, first, age, reply, store, tries, bounds>>

-----------------------------------------------------------------------------
(* peer_chat_callback at A: Route 2, Route 3, the ACK.                     *)

CallbackArrives ==
    /\ work = "sending" /\ cb = Idle /\ tries < MaxRetries
    /\ cb' = [pc |-> "publish", out |-> reply]
    /\ UNCHANGED <<dispatch, row, conv, poll, first, age, worker, bounds>>

CallbackPublishes ==
    /\ cb.pc = "publish"
    /\ bus' = Append(bus, cb.out)
    /\ cb' = [pc |-> "settle", out |-> cb.out]
    /\ UNCHANGED <<dispatch, row, snap, merged, run, told, poll, first, age, worker, bounds>>

CallbackSettles ==
    /\ cb.pc = "settle"
    /\ Settle(cb.out)
    /\ cb' = [pc |-> "ack", out |-> cb.out]
    /\ UNCHANGED <<dispatch, conv, poll, first, age, worker, bounds>>

(* The ACK arrives and B deletes its entry, or it is lost and B tries again;
   a B that died since has forgotten the attempt.                           *)
CallbackAcked ==
    /\ cb.pc = "ack"
    /\ cb' = Idle
    /\ \/ /\ work = "sending" /\ work' = "reported" /\ store' = None
          /\ UNCHANGED <<tries, bounds>>
       \/ /\ work = "sending" /\ tries' = tries + 1 /\ Lose
          /\ UNCHANGED <<work, store>>
       \/ work # "sending" /\ UNCHANGED <<work, store, tries, bounds>>
    /\ UNCHANGED <<dispatch, row, conv, poll, first, age, reply>>

-----------------------------------------------------------------------------
(* The recovery poll, every 120 s.                                         *)

PollTick ==
    /\ poll = Idle
    /\ IF row = "Pending" /\ (first \/ age # "young")
       THEN poll' = IF age = "overdue" THEN [pc |-> "settle", out |-> "timeout"]
                    ELSE [pc |-> "query", out |-> None]
       ELSE UNCHANGED poll
    /\ first' = FALSE
    /\ UNCHANGED <<dispatch, row, conv, cb, age, worker, bounds>>

(* query_task_result: running or a failed call ends this round. *)
PollQuery ==
    /\ poll.pc = "query"
    /\ \/ /\ poll' = CASE store = None      -> [pc |-> "settle", out |-> "not_found"]
                       [] store = "running" -> Idle
                       [] OTHER             -> [pc |-> "settle", out |-> store]
          /\ UNCHANGED bounds
       \/ Lose /\ poll' = Idle
    /\ UNCHANGED <<dispatch, row, conv, cb, first, age, worker>>

PollSettles ==
    /\ poll.pc = "settle"
    /\ Settle(poll.out)
    /\ poll' = [pc |-> "publish", out |-> poll.out]
    /\ UNCHANGED <<dispatch, conv, cb, first, age, worker, bounds>>

(* Mutant: only a result of B is published; the row is settled all the same. *)
PollPublishes_RepliesOnly ==
    /\ poll.pc = "publish"
    /\ IF poll.out \in Replies
       THEN bus' = Append(bus, poll.out) /\ poll' = [pc |-> "confirm", out |-> poll.out]
       ELSE bus' = bus /\ poll' = Idle
    /\ UNCHANGED <<dispatch, row, snap, merged, run, told, cb, first, age, worker, bounds>>

PollPublishes ==
    /\ poll.pc = "publish"
    /\ bus' = Append(bus, poll.out)
    /\ poll' = IF poll.out \in Replies THEN [pc |-> "confirm", out |-> poll.out] ELSE Idle
    /\ UNCHANGED <<dispatch, row, snap, merged, run, told, cb, first, age, worker, bounds>>

(* confirm_task_delivery removes B's entry; best effort. *)
PollConfirms ==
    /\ poll.pc = "confirm"
    /\ poll' = Idle
    /\ \/ store' = None /\ UNCHANGED bounds
       \/ Lose /\ UNCHANGED store
    /\ UNCHANGED <<dispatch, row, conv, cb, first, age, work, reply, tries>>

-----------------------------------------------------------------------------
(* The cleanup tick, every 30 s.  on_complete is not set: it wakes nobody. *)
CleanupExpires ==
    /\ row = "Pending" /\ age = "overdue"
    /\ row' = "timeout"
    /\ UNCHANGED <<dispatch, conv, cb, poll, first, age, worker, bounds>>

(* A settled row goes two hours later: every handler has returned. *)
CleanupPurges ==
    /\ row \in Outcomes
    /\ cb = Idle /\ poll = Idle /\ ~first /\ bus = <<>> /\ resuming = None
    /\ call \in {"saved", "failed", "lost"}
    /\ row' = None
    /\ UNCHANGED <<dispatch, conv, cb, poll, first, age, worker, bounds>>

(* tasks.cancel of the dashboard: delete_task removes the row, whatever its
   status, and nothing else.                                                *)
DashboardDeletes ==
    /\ row # None
    /\ row' = None /\ deleted' = TRUE
    /\ UNCHANGED <<dispatch, conv, cb, poll, first, age, worker, loss, crashesA, crashesB, late>>

(* Two minutes: the age from which the poll asks for the task. *)
TimePasses ==
    /\ call # "idle" /\ age = "young"
    /\ age' = "old"
    /\ UNCHANGED <<dispatch, row, conv, cb, poll, first, worker, bounds>>

(* The safety net: at least 24 h, while a call gives up after one. *)
SafetyNetPasses ==
    /\ MayExpire /\ age = "old" /\ call \in {"saved", "failed", "lost"}
    /\ age' = "overdue"
    /\ UNCHANGED <<dispatch, row, conv, cb, poll, first, worker, bounds>>

-----------------------------------------------------------------------------
(* Mutant: the result that comes last replaces the one in the snapshot. *)
StartResume_Latest ==
    /\ bus # <<>> /\ resuming = None
    /\ bus' = Tail(bus)
    /\ IF snap = None THEN UNCHANGED <<merged, run>>
       ELSE merged' = Head(bus) /\ resuming' = Head(bus) /\ base' = snap
    /\ UNCHANGED <<dispatch, row, snap, told, cb, poll, first, age, worker, bounds>>

(* The conversation, as Continuation describes it: one handler at a time; it
   waits 5 s for the turn's save and then takes what is on disk, the
   placeholder too, and merges its result unless the snapshot has one.       *)
StartResume ==
    /\ bus # <<>> /\ resuming = None
    /\ bus' = Tail(bus)
    /\ LET result == IF merged = None THEN Head(bus) ELSE merged
       IN  IF snap = None THEN UNCHANGED <<merged, run>>
           ELSE merged' = result /\ resuming' = result /\ base' = snap
    /\ UNCHANGED <<dispatch, row, snap, told, cb, poll, first, age, worker, bounds>>

(* The reply is persisted, a placeholder belongs to no session; memory and
   file are reclaimed, also when the turn has saved in the meantime.         *)
FinishResume ==
    /\ resuming # None
    /\ told' = IF base = "real" THEN resuming ELSE told
    /\ snap' = None /\ merged' = None /\ resuming' = None /\ base' = None
    /\ UNCHANGED <<dispatch, row, bus, cb, poll, first, age, worker, bounds>>

-----------------------------------------------------------------------------
(* Mutant: first_start does not look at the snapshots. *)
CrashA_NoReregister ==
    /\ crashesA < MaxCrashesA /\ call # "idle"
    /\ crashesA' = crashesA + 1 /\ deleted' = FALSE /\ late' = FALSE
    /\ call' = IF call \in {"saved", "failed"} THEN call ELSE "lost"
    /\ rpc' = IF rpc = "request" THEN rpc ELSE None
    /\ bus' = <<>> /\ resuming' = None /\ base' = None /\ cb' = Idle /\ poll' = Idle
    /\ first' = TRUE /\ tries' = IF cb # Idle /\ work = "sending" THEN tries + 1 ELSE tries
    /\ UNCHANGED <<row, snap, merged, told, age, work, reply, store, loss, crashesB>>

(* A dies; first_start registers a snapshot that has no row. *)
CrashA ==
    /\ crashesA < MaxCrashesA /\ call # "idle"
    /\ crashesA' = crashesA + 1 /\ deleted' = FALSE /\ late' = FALSE
    /\ call' = IF call \in {"saved", "failed"} THEN call ELSE "lost"
    /\ rpc' = IF rpc = "request" THEN rpc ELSE None
    /\ bus' = <<>> /\ resuming' = None /\ base' = None /\ cb' = Idle /\ poll' = Idle
    /\ first' = TRUE /\ tries' = IF cb # Idle /\ work = "sending" THEN tries + 1 ELSE tries
    /\ row' = IF row = None /\ snap # None THEN "Pending" ELSE row
    /\ UNCHANGED <<snap, merged, told, age, work, reply, store, loss, crashesB>>

(* B dies; a task not yet forgotten runs again, without its placeholder. *)
CrashB ==
    /\ crashesB < MaxCrashesB /\ work \in {"running", "sending", "reported"}
    /\ crashesB' = crashesB + 1
    /\ work' = "running" /\ tries' = 0
    /\ store' = IF store = "running" THEN None ELSE store
    /\ UNCHANGED <<dispatch, row, conv, cb, poll, first, age, reply,
                   loss, crashesA, deleted, late>>

-----------------------------------------------------------------------------
Turn     == CallRefused \/ CallFailed \/ CallAccepted \/ RegisterRow \/ SaveSnapshot
Callback == CallbackArrives \/ CallbackPublishes \/ CallbackSettles \/ CallbackAcked
Poll     == PollTick \/ PollQuery \/ PollSettles \/ PollPublishes \/ PollConfirms
Worker   == WorkerFinishes \/ PersistResult \/ WorkerForgets

Next ==
    \/ Dispatch \/ RpcLost \/ WorkerAccepts \/ WorkerRejects \/ CallbackLost
    \/ Turn \/ Callback \/ Poll \/ Worker
    \/ CleanupExpires \/ CleanupPurges \/ DashboardDeletes \/ TimePasses \/ SafetyNetPasses
    \/ StartResume \/ FinishResume
    \/ CrashA \/ CrashB

Spec == Init /\ [][Next]_vars

(* Every loop and handler of the two processes keeps running, and two minutes
   pass.  Nothing makes messages get lost, processes crash, a turn dispatch or
   a task reach the safety net.                                             *)
FairSpec ==
    /\ Spec
    /\ WF_vars(Turn) /\ WF_vars(Callback) /\ WF_vars(Poll) /\ WF_vars(Worker)
    /\ WF_vars(CleanupExpires) /\ WF_vars(TimePasses)
    /\ WF_vars(StartResume) /\ WF_vars(FinishResume)

-----------------------------------------------------------------------------
(* Properties.                                                             *)

(* When neither side crashes, the safety net is not reached and no wake-up
   outran the turn's save, lost messages and the races of callback and poll
   never make the conversation go on with anything but B's own reply: no
   "remote task not found" for a task that B has or has delivered.           *)
NoFalseAlarm ==
    crashesA = 0 /\ crashesB = 0 /\ age # "overdue" /\ ~late => told \in {None, reply}

(* While a saved conversation waits, somebody is going to wake it: its row is
   Pending, which the poll asks for, or a wake-up is queued, handled or about
   to be published.  Whoever settles the row has published or will: callback,
   poll and a B that lost the task leave no settled row behind a sleeping
   conversation.  The exceptions are a crash of A, the safety net, whose tick
   wakes nobody, a row that the dashboard deleted, and a wake-up that was
   spent on the placeholder because the save outlasted the 5 s barrier.      *)
WakeUpAhead ==
    call = "saved" /\ snap = "real" /\ crashesA = 0 /\ age # "overdue" /\ ~deleted /\ ~late =>
        row = "Pending" \/ bus # <<>> \/ resuming # None \/ poll.pc = "publish"

(* Where the conversation stands for its user.  One that was saved under a
   handler of the placeholder goes with it: it does not count as suspended.  *)
TalkNow == IF told # None THEN [phase |-> "answered", with |-> told]
           ELSE IF snap # "real" \/ base = "placeholder" THEN [phase |-> "open"]
           ELSE IF merged = None THEN [phase |-> "waiting"]
           ELSE [phase |-> "merged", with |-> merged]

Talk == INSTANCE Conversation WITH talk <- TalkNow

(* The conversation as its user sees it: no loss, crash or duplicated wake-up
   drops a saved conversation, replaces a result merged into it or continues
   it twice; only a handler that outwaited the save takes one with it.       *)
RefinesConversation == Talk!Spec

(* A conversation that was suspended is eventually continued, by callback or
   by poll, with B's reply or an honest error, whatever messages are lost and
   whenever B crashes; unless it outlives the safety net, A crashes, a wake-up
   outran its save, or the dashboard deletes the row, after which only the
   callback can wake it.                                                     *)
EventuallyTold ==
    (call = "saved" /\ snap = "real")
        ~> (told # None \/ age = "overdue" \/ crashesA > 0 \/ deleted \/ late)

(* cluster_init.rs on the safety net: "an honest end, the conversation no
   longer hangs for ever"; a row deleted by hand and a wake-up spent before
   the save are not the safety net's.                                        *)
NeverHangs == (call = "saved" /\ snap = "real") ~> (told # None \/ deleted \/ late)

(* When A comes back with a snapshot on disk, even one of a call whose ACK it
   never saw, the call is accounted for: its row is settled or the
   conversation resumed, whatever B lost in the meantime.  That includes a
   row the dashboard had deleted before; deleting it again ends the poll.    *)
RestartSettles == (first /\ snap # None) ~> (row \in Outcomes \/ snap = None \/ deleted)

(* "Restart, reload, and the continuation goes on with the result on disk":
   a result merged into the snapshot eventually reaches the conversation.    *)
ResumesAfterRestart == (snap = "real" /\ merged # None) ~> (told # None \/ deleted)
=============================================================================
