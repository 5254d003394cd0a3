---------------------------- MODULE Continuation ----------------------------
(***************************************************************************)
(* How a suspended conversation is resumed (nemesis-agent:                 *)
(* loop_continuation.rs).  The turn that called a peer leaves a snapshot   *)
(* in memory and on disk; a cluster_continuation message wakes a handler,  *)
(* which merges the result into the snapshot, runs the LLM, persists and   *)
(* sends the reply and reclaims the snapshot.  Wake-ups are duplicated by  *)
(* the callback and the recovery poll, and the process may crash anywhere. *)
(* One task; several handlers.                                             *)
(***************************************************************************)
EXTENDS Naturals, Sequences, FiniteSets

CONSTANTS
    Wakes,         \* the cluster_continuation messages of the task
    Permits,       \* max_continuation_permits: 0 means inline, one at a time
    SlowSave,      \* the turn's save may outlast the 5 s barrier of a waiting handler
    MaxCrashes     \* bound: process crashes

ASSUME ContinuationBounds ==
    Permits \in Nat /\ SlowSave \in BOOLEAN /\ MaxCrashes \in Nat /\ IsFiniteSet(Wakes)

ASSUME WakesAreNotWriters == Wakes \cap {"nobody", "turn", "disk"} = {}

NoResult == "none"                       \* no tool message yet, or the synthesised placeholder
Results  == {"answer", "not_found"}

VARIABLES
    turn,     \* the turn that made the call
    mem,      \* continuations: the entry of the task
    disk,     \* the snapshot file of the task
    claimed,  \* handling contains the task
    phase,    \* restore_phases of the task
    pc,       \* the handlers (handle_cluster_continuation): where each one is,
    msg,      \*   the result its wake-up brings,
    real,     \*   whether the snapshot it loaded is the turn's or the placeholder,
    res,      \*   and the result in that snapshot
    log,      \* replies persisted in the session, by the result they rest on
    unmarked, \* history: a continuation ended without leaving the final_persisted mark
    torn,     \* history: crashes between persist_final_reply and its mark
    crashes

loaded  == <<real, res>>
handler == <<pc, msg, loaded>>
history == <<unmarked, torn>>
vars == <<turn, mem, disk, claimed, phase, handler, log, history, crashes>>

Nobody == "nobody"
NoMem  == [real |-> FALSE, res |-> NoResult, ready |-> FALSE, by |-> Nobody]
NoFile == [kind |-> "none", res |-> NoResult, final |-> FALSE]

Working == {"merge", "write", "ready", "llm", "append", "mark", "send"}
Closing == {"release", "drop", "unlink", "clear1", "clear2"}
Running == {"check", "load", "confirm", "giveup"} \cup Working \cup Closing

Shape ==
    /\ turn \in {"idle", "dispatched", "acked", "inserted", "written", "saved", "failed", "gone"}
    /\ mem \in [real : BOOLEAN, res : {NoResult} \cup Results, ready : BOOLEAN,
                by : {Nobody, "turn", "disk"} \cup Wakes]
    /\ disk \in [kind : {"none", "placeholder", "real"}, res : {NoResult} \cup Results,
                 final : BOOLEAN]
    /\ phase \in {"checkpoint", "restored", "confirmed"}
    /\ pc \in [Wakes -> {"new", "done", "lost"} \cup Running]
    /\ msg \in [Wakes -> {NoResult} \cup Results]
    /\ real \in [Wakes -> BOOLEAN]
    /\ res \in [Wakes -> {NoResult} \cup Results]
    /\ log \in Seq(Results)
    /\ crashes \in 0..MaxCrashes
    /\ torn \in 0..crashes

Flags == claimed \in BOOLEAN /\ unmarked \in BOOLEAN

TypeOK == Shape /\ Flags

Init ==
    /\ turn = "idle"
    /\ mem = NoMem
    /\ disk = NoFile
    /\ claimed = FALSE
    /\ phase = "checkpoint"
    /\ pc = [w \in Wakes |-> "new"]
    /\ msg = [w \in Wakes |-> NoResult]
    /\ real = [w \in Wakes |-> FALSE]
    /\ res = [w \in Wakes |-> NoResult]
    /\ log = <<>>
    /\ unmarked = FALSE
    /\ torn = 0
    /\ crashes = 0

Goto(w, l) == pc' = [pc EXCEPT ![w] = l] /\ UNCHANGED <<msg, loaded>>

Ready(m) == [real |-> m.real, res |-> m.res, ready |-> TRUE, by |-> m.by]

-----------------------------------------------------------------------------
(* The calling turn.                                                       *)

(* call_fn: the placeholder snapshot is on disk before the request leaves. *)
Dispatch ==
    /\ turn = "idle"
    /\ turn' = "dispatched"
    /\ disk' = [kind |-> "placeholder", res |-> NoResult, final |-> FALSE]
    /\ UNCHANGED <<mem, claimed, phase, handler, log, history, crashes>>

(* The peer is offline or rejects the task: the placeholder is deleted.  Any
   other error keeps it, the peer may have taken the task.                  *)
DispatchFails ==
    /\ turn = "dispatched"
    /\ turn' = "failed"
    /\ disk' \in {disk, NoFile}
    /\ UNCHANGED <<mem, claimed, phase, handler, log, history, crashes>>

(* The peer accepted; save_async_continuation spawns the save. *)
Accepted ==
    /\ turn = "dispatched"
    /\ turn' = "acked"
    /\ UNCHANGED <<mem, disk, claimed, phase, handler, log, history, crashes>>

(* save_continuation_with_images in three steps: the entry appears in memory
   not ready, the file is written, the entry becomes ready.                 *)
TurnInserts ==
    /\ turn = "acked"
    /\ turn' = "inserted"
    /\ mem' = [real |-> TRUE, res |-> NoResult, ready |-> FALSE, by |-> "turn"]
    /\ UNCHANGED <<disk, claimed, phase, handler, log, history, crashes>>

TurnWrites ==
    /\ turn = "inserted"
    /\ turn' = "written"
    /\ disk' = [kind |-> "real", res |-> NoResult, final |-> FALSE]
    /\ UNCHANGED <<mem, claimed, phase, handler, log, history, crashes>>

TurnReady ==
    /\ turn = "written"
    /\ turn' = "saved"
    /\ mem' = IF mem.by = "turn" THEN Ready(mem) ELSE mem
    /\ UNCHANGED <<disk, claimed, phase, handler, log, history, crashes>>

-----------------------------------------------------------------------------
(* handle_cluster_continuation.                                            *)

InFlight == {w \in Wakes : pc[w] \in Running}

(* Mutant: the handling set is not consulted. *)
Claim_Unguarded(w) ==
    /\ turn # "idle" /\ pc[w] = "new"
    /\ Cardinality(InFlight) < IF Permits = 0 THEN 1 ELSE Permits
    /\ pc' = [pc EXCEPT ![w] = "check"]
    /\ \E r \in Results : msg' = [msg EXCEPT ![w] = r]
    /\ claimed' = TRUE
    /\ UNCHANGED <<loaded, turn, mem, disk, phase, log, history, crashes>>

(* A wake-up reaches dispatch_continuation, inline or under the semaphore;
   claim_handling lets one handler in, a duplicate returns.                 *)
Claim(w) ==
    /\ turn # "idle" /\ pc[w] = "new"
    /\ Cardinality(InFlight) < IF Permits = 0 THEN 1 ELSE Permits
    /\ pc' = [pc EXCEPT ![w] = IF claimed THEN "done" ELSE "check"]
    /\ \E r \in Results : msg' = [msg EXCEPT ![w] = r]
    /\ claimed' = TRUE
    /\ UNCHANGED <<loaded, turn, mem, disk, phase, log, history, crashes>>

(* A reply already persisted before a crash: only reclaim the snapshot. *)
CheckFinal(w) ==
    /\ pc[w] = "check"
    /\ Goto(w, IF disk.final THEN "release" ELSE "load")
    /\ UNCHANGED <<turn, mem, disk, claimed, phase, log, history, crashes>>

(* wait_for_continuation finds the entry ready. *)
LoadMemory(w) ==
    /\ pc[w] = "load" /\ mem.ready
    /\ pc' = [pc EXCEPT ![w] = "confirm"]
    /\ real' = [real EXCEPT ![w] = mem.real]
    /\ res' = [res EXCEPT ![w] = mem.res]
    /\ UNCHANGED <<msg, turn, mem, disk, claimed, phase, log, history, crashes>>

(* The 5 s barrier runs out: try_load_from_disk, or give up. *)
LoadDisk(w) ==
    /\ pc[w] = "load" /\ ~mem.ready
    /\ SlowSave \/ turn \in {"saved", "failed", "gone"}
    /\ pc' = [pc EXCEPT ![w] = IF disk.kind = "none" THEN "giveup" ELSE "confirm"]
    /\ real' = [real EXCEPT ![w] = disk.kind = "real"]
    /\ res' = [res EXCEPT ![w] = disk.res]
    /\ UNCHANGED <<msg, turn, mem, disk, claimed, phase, log, history, crashes>>

(* Mutant: the snapshot is reclaimed when the handler starts. *)
Confirm_Reclaim(w) ==
    /\ pc[w] = "confirm"
    /\ Goto(w, IF phase = "confirmed" THEN "giveup" ELSE "merge")
    /\ phase' = "confirmed"
    /\ mem' = NoMem
    /\ disk' = NoFile
    /\ UNCHANGED <<turn, claimed, log, history, crashes>>

(* Mutant: the phase gate takes a fresh snapshot for one in progress. *)
Confirm_RestoredOnly(w) ==
    /\ pc[w] = "confirm"
    /\ Goto(w, IF phase # "restored" THEN "giveup" ELSE "merge")
    /\ phase' = IF phase = "restored" THEN "confirmed" ELSE phase
    /\ UNCHANGED <<turn, mem, disk, claimed, log, history, crashes>>

(* confirm_continuation: refused once confirmed. *)
Confirm(w) ==
    /\ pc[w] = "confirm"
    /\ Goto(w, IF phase = "confirmed" THEN "giveup" ELSE "merge")
    /\ phase' = "confirmed"
    /\ UNCHANGED <<turn, mem, disk, claimed, log, history, crashes>>

(* release_handling on the early returns. *)
GiveUp(w) ==
    /\ pc[w] = "giveup"
    /\ claimed' = FALSE
    /\ Goto(w, "done")
    /\ UNCHANGED <<turn, mem, disk, phase, log, history, crashes>>

(* Mutant: the arriving result always replaces the one in the snapshot. *)
MergedResult_Latest(w) == msg[w]

(* merge_real_tool_result: a real result already in the snapshot stays. *)
MergedResult(w) == IF res[w] = NoResult THEN msg[w] ELSE res[w]

(* The merged snapshot is saved in the same three steps. *)
Merge(w) ==
    /\ pc[w] = "merge"
    /\ pc' = [pc EXCEPT ![w] = "write"]
    /\ res' = [res EXCEPT ![w] = MergedResult(w)]
    /\ mem' = [real |-> real[w], res |-> MergedResult(w), ready |-> FALSE, by |-> w]
    /\ UNCHANGED <<msg, real, turn, disk, claimed, phase, log, history, crashes>>

WriteMerged(w) ==
    /\ pc[w] = "write"
    /\ disk' = [kind |-> IF real[w] THEN "real" ELSE "placeholder", res |-> res[w],
                final |-> FALSE]
    /\ Goto(w, "ready")
    /\ UNCHANGED <<turn, mem, claimed, phase, log, history, crashes>>

MergedReady(w) ==
    /\ pc[w] = "ready"
    /\ mem' = IF mem.by = w THEN Ready(mem) ELSE mem
    /\ Goto(w, "llm")
    /\ UNCHANGED <<turn, disk, claimed, phase, log, history, crashes>>

(* The LLM and tool loop ends with content; a provider error, the budget of
   continued generation and an E-stop give content too.  A snapshot without
   session has nothing to persist or mark.                                  *)
RunLoop(w) ==
    /\ pc[w] = "llm"
    /\ \/ real[w] /\ Goto(w, "append") /\ UNCHANGED unmarked
       \/ ~real[w] /\ Goto(w, "send") /\ unmarked' = TRUE
    /\ UNCHANGED <<turn, mem, disk, claimed, phase, log, torn, crashes>>

(* The loop ends without: an empty answer, or 20 rounds of tool calls. *)
RunOut(w) ==
    /\ pc[w] = "llm"
    /\ Goto(w, "release")
    /\ unmarked' = TRUE
    /\ UNCHANGED <<turn, mem, disk, claimed, phase, log, torn, crashes>>

(* persist_final_reply; a snapshot without session_key skips it. *)
PersistReply(w) ==
    /\ pc[w] = "append"
    /\ log' = Append(log, res[w])
    /\ Goto(w, "mark")
    /\ UNCHANGED <<turn, mem, disk, claimed, phase, unmarked, torn, crashes>>

MarkFinal(w) ==
    /\ pc[w] = "mark"
    /\ disk' = IF disk.kind = "none" THEN disk
             ELSE [kind |-> disk.kind, res |-> disk.res, final |-> TRUE]
    /\ Goto(w, "send")
    /\ UNCHANGED <<turn, mem, claimed, phase, log, history, crashes>>

(* The reply goes to the outbound channel; a crash before this leaves it to the
   client's sync of the session.                                            *)
SendReply(w) ==
    /\ pc[w] = "send"
    /\ Goto(w, "release")
    /\ UNCHANGED <<turn, mem, disk, claimed, phase, log, history, crashes>>

(* finish_handling: release the claim, then memory, file and phase go.  The
   phase is cleared by remove_continuation and once more at the end.        *)
Release(w) ==
    /\ pc[w] = "release"
    /\ claimed' = FALSE
    /\ Goto(w, "drop")
    /\ UNCHANGED <<turn, mem, disk, phase, log, history, crashes>>

DropMemory(w) ==
    /\ pc[w] = "drop"
    /\ mem' = NoMem
    /\ Goto(w, "unlink")
    /\ UNCHANGED <<turn, disk, claimed, phase, log, history, crashes>>

Unlink(w) ==
    /\ pc[w] = "unlink"
    /\ disk' = NoFile
    /\ Goto(w, "clear1")
    /\ UNCHANGED <<turn, mem, claimed, phase, log, history, crashes>>

ClearPhase(w) ==
    /\ pc[w] \in {"clear1", "clear2"}
    /\ phase' = "checkpoint"
    /\ Goto(w, IF pc[w] = "clear1" THEN "clear2" ELSE "done")
    /\ UNCHANGED <<turn, mem, disk, claimed, log, history, crashes>>

-----------------------------------------------------------------------------
(* The process dies; recover_to_manager reloads the snapshot file, a final
   one too, and marks it restored.                                          *)
CrashAndRecover ==
    /\ crashes < MaxCrashes
    /\ crashes' = crashes + 1
    /\ turn' = IF turn \in {"idle", "saved", "failed"} THEN turn ELSE "gone"
    /\ mem' = IF disk.kind = "none" THEN NoMem
              ELSE [real |-> disk.kind = "real", res |-> disk.res, ready |-> TRUE, by |-> "disk"]
    /\ phase' = IF disk.kind = "none" THEN "checkpoint" ELSE "restored"
    /\ claimed' = FALSE
    /\ pc' = [w \in Wakes |-> IF pc[w] \in Running THEN "lost" ELSE pc[w]]
    /\ torn' = torn + IF \E w \in Wakes : pc[w] = "mark" THEN 1 ELSE 0
    /\ UNCHANGED <<disk, msg, loaded, log, unmarked>>

-----------------------------------------------------------------------------
Turn == Dispatch \/ DispatchFails \/ Accepted \/ TurnInserts \/ TurnWrites \/ TurnReady

Handler(w) ==
    \/ Claim(w) \/ CheckFinal(w) \/ LoadMemory(w) \/ LoadDisk(w) \/ Confirm(w) \/ GiveUp(w)
    \/ Merge(w) \/ WriteMerged(w) \/ MergedReady(w) \/ RunLoop(w) \/ RunOut(w)
    \/ PersistReply(w) \/ MarkFinal(w) \/ SendReply(w)
    \/ Release(w) \/ DropMemory(w) \/ Unlink(w) \/ ClearPhase(w)

Next == Turn \/ (\E w \in Wakes : Handler(w)) \/ CrashAndRecover

Spec == Init /\ [][Next]_vars

(* The turn's spawned save and a started handler are tokio tasks that run on;
   nothing makes a wake-up arrive.                                          *)
FairSpec ==
    /\ Spec
    /\ WF_vars(TurnInserts \/ TurnWrites \/ TurnReady)
    /\ \A w \in Wakes : WF_vars(pc[w] # "new" /\ Handler(w))

-----------------------------------------------------------------------------
(* Properties.                                                             *)

(* Duplicate wake-ups and crashes never make the session hold the reply
   twice, but for a crash in the documented window between
   persist_final_reply and the final_persisted mark.  finish_handling gives
   up the claim before it removes the snapshot, so this needs handlers that
   run one at a time, or that all leave the mark.                           *)
ReplyOnce == Permits <= 1 \/ ~unmarked => Len(log) <= 1 + torn

(* A handler outwaited the barrier and merged its result into the placeholder. *)
Outwaited == \E w \in Wakes : ~real[w] /\ res[w] # NoResult

(* A saved conversation survives on disk until its reply is persisted,
   whatever handlers and crashes come in between: finish_handling is the only
   place that may delete the file.  Excepted are an LLM that had nothing to
   say, and a handler that outwaited the 5 s barrier and saved the
   placeholder over the conversation.                                       *)
SnapshotKept ==
    turn = "saved" /\ log = <<>> /\ ~unmarked /\ ~Outwaited => disk.kind = "real"

(* The file holds the saved conversation with a result merged into it. *)
Stored == disk.kind = "real" /\ disk.res # NoResult

KeepsStored ==
    Stored => /\ disk'.kind # "none" => disk'.res = disk.res
              /\ Len(log') > Len(log) => log'[Len(log')] = disk.res

(* Once a result is in the file of the saved conversation, no later wake-up
   replaces it: a recovery poll that answers "remote task not found" after a
   crash does not displace the answer, and the reply rests on it.  This is what
   merge_real_tool_result does and what the comment inside it asks for; its doc
   comment still says that a repeated result overwrites the content with the
   newest one, which the code no longer does.                               *)
StoredResultWins == [][KeepsStored]_vars

(* Without a crash, a wake-up for a saved conversation ends in a reply in the
   session, or the LLM was asked with the saved conversation and had nothing
   to say: the barrier, the claim and the phase gate never send every wake-up
   away.  A wake-up is spent on the placeholder only if the save took longer
   than the barrier.                                                        *)
WokenIsAnswered ==
    (turn = "saved" /\ \E w \in Wakes : pc[w] # "new")
        ~> \/ log # <<>>
           \/ unmarked /\ \E w \in Wakes : real[w]
           \/ SlowSave /\ Outwaited
           \/ crashes > 0
=============================================================================
