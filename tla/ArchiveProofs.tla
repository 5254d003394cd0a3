---------------------------- MODULE ArchiveProofs ----------------------------
(* Machine-checked proofs about Archive, for any number of lost calls and
   restarts.                                                                *)
EXTENDS Archive, TLAPS

-----------------------------------------------------------------------------
(* The inductive invariant, in parts. *)

\* A push works on the entry it picked; a merge has what it took from PLACED.
Carried ==
    /\ entry # None => payload \in Contents
    /\ loop # "idle" => entry # None
    /\ at["end"] \in {"land", "seal"} => entry # None /\ hold["end"] = payload
    /\ \A t \in Threads : at[t] = "commit" => hold[t] \in Contents

Base == TypeOK /\ Carried

\* The archives of the task at the worker: delivered, or in the outbox.
Known == acked \cup (IF entry = None THEN {} ELSE {payload})

\* The working copy goes when its content is in the outbox or beyond, and has in
\* it all that was put there before.
CopyInv ==
    /\ boot = "startup" => copy = None
    /\ agent # "running" => copy \in {None, "full"}
    /\ (copy = None \/ \E f \in Finishers : fin[f] = "clear") => Known # {}
    /\ copy # None => \A c \in Known : copy \in AtLeast(c)

\* What is on the master.
Held == records \cup {inbox}

\* A receipt is for something the master has, never for what is being landed; a
\* handler that is past its landing has left the content there.
SinkInv ==
    /\ receipt => inbox # None /\ dedup \in Held
    /\ (at["end"] = "land" \/ (loop = "chunks" /\ payload \in staging))
            => ~(receipt /\ dedup = payload)
    /\ at["end"] = "seal" => ~receipt /\ payload \in Held
    /\ at["end"] \in {"ingest", "merge", "take", "commit", "ok"} /\ loop = "wait"
          => payload \in Held
    /\ acked # {} => records # {} \/ inbox # None

\* As long as nothing is resent, archives only get better.
KeptInv ==
    "resent" \notin spoilt =>
        /\ \A c \in acked : Held \cap AtLeast(c) # {}
        /\ entry # None => \A c \in acked : payload \in AtLeast(c)

Complete == {None, "full"}

\* Outside the three windows the changeset is with every archive.
FullInv ==
    spoilt \cap {"early", "cut", "resent"} = {} =>
        /\ payload \in Complete /\ staging \subseteq {"full"}
        /\ inbox \in Complete \cup {"empty"} /\ placed \in Complete
        /\ \A t \in Threads : hold[t] \in Complete
        /\ \A i \in DOMAIN commits : commits[i] = "full"

\* One thread at most has taken the archive, and then PLACED is empty; whoever
\* comes too late to see MERGED finds it empty too; MERGED accounts for the merge
\* of this life of the master.
MergeInv ==
    "relanded" \notin spoilt =>
        /\ \A t, u \in Threads : at[t] = "commit" /\ at[u] = "commit" => t = u
        /\ (\E t \in Threads : at[t] = "commit") => placed = None /\ ~merged
        /\ merged /\ (\E t \in Threads : at[t] = "take") => placed = None
        /\ Len(commits) <= faults["master"] + (IF merged THEN 1 ELSE 0)

ArchiveInv == Base /\ CopyInv /\ SinkInv /\ KeptInv /\ FullInv /\ MergeInv

-----------------------------------------------------------------------------
(* The steps, one by one. *)
LEMMA NextCases ==
    ASSUME [Next]_vars
    PROVE  \/ AgentEnds \/ PlainEnqueue \/ ResidualSwept \/ Startup
           \/ Pick \/ TooLarge \/ Begin \/ NoStaging \/ CallEnd \/ Abandoned
           \/ EndLand \/ EndSeal \/ AnswerEnd \/ SweepPulls \/ RequestPull
           \/ PullTimesOut \/ WriteBack
           \/ Lose \/ ReplayDead \/ RaiseLimit \/ RowFails \/ CrashWorker \/ CrashMaster
           \/ \E f \in Finishers : StartFinish(f)
           \/ \E f \in Finishers : DiffIt(f)
           \/ \E f \in Finishers : ClearCopy(f)
           \/ \E t \in Threads : Ingest(t)
           \/ \E t \in Threads : MergeAttempt(t)
           \/ \E t \in Threads : TakePlaced(t)
           \/ \E t \in Threads : Commit(t)
           \/ UNCHANGED vars
  BY DEF Next, OwnStep, WorkerStep, PushStep, EndStep, PullStep, ReportStep, ThreadStep,
     Threads

USE DEF worker, box, sink, thread, board, project, master, vars

(* TypeOK by the kind of value: the provers take them one at a time. *)
Flags ==
    /\ known \in BOOLEAN /\ marker \in BOOLEAN /\ small \in BOOLEAN
    /\ report \in BOOLEAN /\ receipt \in BOOLEAN
    /\ merged \in BOOLEAN /\ seen \in BOOLEAN /\ pull \in BOOLEAN

Words ==
    /\ boot \in {"residual", "startup", "up"}
    /\ agent \in {"running", "told", "over"}
    /\ copy \in Contents \cup {None}
    /\ entry \in {None, "pending", "pushing", "over_limit", "dead"}
    /\ payload \in Contents \cup {None}
    /\ loop \in {"idle", "begin", "chunks", "wait"}
    /\ row \in {"active", "done", "failed"}
    /\ inbox \in Contents \cup {None, "empty"}
    /\ dedup \in Contents \cup {None}
    /\ placed \in Contents \cup {None}

Maps ==
    /\ fin \in [Finishers -> {"idle", "diff", "clear"}]
    /\ at \in [Threads -> {"idle", "land", "seal", "ingest", "merge", "take", "commit",
                         "ok", "pull"}]
    /\ hold \in [Threads -> Contents \cup {None}]
    /\ faults \in [{"master", "other"} -> 0..MaxFaults]

Collections ==
    /\ staging \subseteq Contents
    /\ records \subseteq Contents \cup {"empty"}
    /\ acked \subseteq Contents
    /\ commits \in Seq(Contents)
    /\ spoilt \subseteq Windows

(* The four kinds together. *)
LEMMA TypeParts == TypeOK <=> Flags /\ Words /\ Maps /\ Collections
  BY DEF TypeOK, Flags, Words, Maps, Collections

(* Types, given that a push has its entry and a merge its archive. *)
LEMMA TypeStep ==
    ASSUME Base, [Next]_vars
    PROVE  TypeOK'
<1> USE DEF Base
<1>1. CASE AgentEnds
  <2>1. Flags'
    BY <1>1 DEF AgentEnds, TypeOK, Flags
  <2>2. Words'
    BY <1>1 DEF AgentEnds, TypeOK, Carried, Words, Contents, None, Threads
  <2>3. Maps'
    BY <1>1 DEF AgentEnds, TypeOK, Maps, Contents, None, Threads, Finishers, Carried
  <2>4. Collections'
    BY <1>1 DEF AgentEnds, TypeOK, Carried, Collections, Contents, None, Windows, Threads
  <2> QED BY <2>1, <2>2, <2>3, <2>4 DEF TypeOK, Flags, Words, Maps, Collections
<1>2. CASE PlainEnqueue
  BY <1>2 DEF PlainEnqueue, EnqueueRecords, Enqueue, Spoil, TypeOK, Carried, Contents, None,
     Threads, Finishers, Windows
<1>3. CASE ResidualSwept
  BY <1>3 DEF ResidualSwept, TypeOK, Carried, Contents, None, Threads, Finishers, Windows
<1>4. CASE Startup
  <2>1. Flags'
    BY <1>4 DEF Startup, EnqueueRecords, Enqueue, Spoil, TypeOK, Flags
  <2>2. Words'
    BY <1>4 DEF Startup, EnqueueRecords, Enqueue, Spoil, TypeOK, Carried, Words, Contents, None,
       Threads
  <2>3. Maps'
    BY <1>4 DEF Startup, EnqueueRecords, Enqueue, Spoil, TypeOK, Maps, Contents, None, Threads,
       Finishers, Carried
  <2>4. Collections'
    BY <1>4 DEF Startup, EnqueueRecords, Enqueue, Spoil, TypeOK, Carried, Collections, Contents,
       None, Windows, Threads
  <2> QED BY <2>1, <2>2, <2>3, <2>4 DEF TypeOK, Flags, Words, Maps, Collections
<1>5. CASE Pick
  BY <1>5 DEF Pick, TypeOK, Carried, Contents, None, Threads, Finishers, Windows
<1>6. CASE TooLarge
  BY <1>6 DEF TooLarge, TypeOK, Carried, Contents, None, Threads, Finishers, Windows
<1>7. CASE Begin
  <2>1. Flags'
    BY <1>7 DEF Begin, Delivered, TypeOK, Flags
  <2>2. Words'
    BY <1>7 DEF Begin, Delivered, TypeOK, Carried, Words, Contents, None, Threads
  <2>3. Maps'
    BY <1>7 DEF Begin, Delivered, TypeOK, Maps, Contents, None, Threads, Finishers, Carried
  <2>4. Collections'
    BY ZenonT(40), <1>7 DEF Begin, Delivered, TypeOK, Carried, Collections, Contents, None,
       Windows, Threads
  <2> QED BY <2>1, <2>2, <2>3, <2>4 DEF TypeOK, Flags, Words, Maps, Collections
<1>8. CASE NoStaging
  BY <1>8 DEF NoStaging, FailPush, TypeOK, Carried, Contents, None, Threads, Finishers, Windows
<1>9. CASE CallEnd
  BY <1>9 DEF CallEnd, Goto, TypeOK, Carried, Contents, None, Threads, Finishers, Windows
<1>10. CASE Abandoned
  BY <1>10 DEF Abandoned, FailPush, TypeOK, Carried, Contents, None, Threads, Finishers, Windows
<1>11. CASE EndLand
  <2>1. Flags'
    BY <1>11 DEF EndLand, Goto, TypeOK, Flags
  <2>2. Words'
    BY <1>11 DEF EndLand, Goto, TypeOK, Carried, Words, Contents, None, Threads
  <2>3. Maps'
    BY <1>11 DEF EndLand, Goto, TypeOK, Maps, Contents, None, Threads, Finishers, Carried
  <2>4. Collections'
    BY <1>11 DEF EndLand, Goto, TypeOK, Carried, Collections, Contents, None, Windows, Threads
  <2> QED BY <2>1, <2>2, <2>3, <2>4 DEF TypeOK, Flags, Words, Maps, Collections
<1>12. CASE EndSeal
  <2>1. Flags'
    BY <1>12 DEF EndSeal, Goto, TypeOK, Flags
  <2>2. Words'
    BY <1>12 DEF EndSeal, Goto, TypeOK, Carried, Words, Contents, None, Threads
  <2>3. Maps'
    BY <1>12 DEF EndSeal, Goto, TypeOK, Maps, Contents, None, Threads, Finishers, Carried
  <2>4. Collections'
    BY <1>12 DEF EndSeal, Goto, TypeOK, Carried, Collections, Contents, None, Windows, Threads
  <2> QED BY <2>1, <2>2, <2>3, <2>4 DEF TypeOK, Flags, Words, Maps, Collections
<1>13. CASE AnswerEnd
  <2>1. Flags'
    BY <1>13 DEF AnswerEnd, Goto, Delivered, TypeOK, Flags
  <2>2. Words'
    BY <1>13 DEF AnswerEnd, Goto, Delivered, TypeOK, Carried, Words, Contents, None, Threads
  <2>3. Maps'
    BY <1>13 DEF AnswerEnd, Goto, Delivered, TypeOK, Maps, Contents, None, Threads, Finishers,
       Carried
  <2>4. Collections'
    BY <1>13 DEF AnswerEnd, Goto, Delivered, TypeOK, Carried, Collections, Contents, None,
       Windows, Threads
  <2> QED BY <2>1, <2>2, <2>3, <2>4 DEF TypeOK, Flags, Words, Maps, Collections
<1>14. CASE SweepPulls
  <2>1. Flags'
    BY <1>14 DEF SweepPulls, Goto, TypeOK, Flags
  <2>2. Words'
    BY <1>14 DEF SweepPulls, Goto, TypeOK, Carried, Words, Contents, None, Threads
  <2>3. Maps'
    BY <1>14 DEF SweepPulls, Goto, TypeOK, Maps, Contents, None, Threads, Finishers, Carried
  <2>4. Collections'
    BY <1>14 DEF SweepPulls, Goto, TypeOK, Carried, Collections, Contents, None, Windows,
       Threads
  <2> QED BY <2>1, <2>2, <2>3, <2>4 DEF TypeOK, Flags, Words, Maps, Collections
<1>15. CASE RequestPull
  <2>1. Flags'
    BY <1>15 DEF RequestPull, AnswerPull, PullRecords, Goto, Enqueue, TypeOK, Flags
  <2>2. Words'
    BY <1>15 DEF RequestPull, AnswerPull, PullRecords, Goto, Enqueue, TypeOK, Carried,
       Words, Contents, None, Threads
  <2>3. Maps'
    BY <1>15 DEF RequestPull, AnswerPull, PullRecords, Goto, Enqueue, TypeOK, Maps,
       Contents, None, Threads, Finishers, Carried
  <2>4. Collections'
    BY <1>15 DEF RequestPull, AnswerPull, PullRecords, Goto, Enqueue, TypeOK, Carried,
       Collections, Contents, None, Windows, Threads
  <2> QED BY <2>1, <2>2, <2>3, <2>4 DEF TypeOK, Flags, Words, Maps, Collections
<1>16. CASE PullTimesOut
  <2>1. Flags'
    BY <1>16, ArchiveBounds DEF PullTimesOut, Fault, Goto, TypeOK, Flags
  <2>2. Words'
    BY <1>16, ArchiveBounds DEF PullTimesOut, Fault, Goto, TypeOK, Carried, Words, Contents,
       None, Threads
  <2>3. Maps'
    BY <1>16, ArchiveBounds DEF PullTimesOut, Fault, Goto, TypeOK, Maps, Contents, None,
       Threads, Finishers, Carried
  <2>4. Collections'
    BY <1>16, ArchiveBounds DEF PullTimesOut, Fault, Goto, TypeOK, Carried, Collections,
       Contents, None, Windows, Threads
  <2> QED BY <2>1, <2>2, <2>3, <2>4 DEF TypeOK, Flags, Words, Maps, Collections
<1>17. CASE WriteBack
  BY <1>17 DEF WriteBack, Goto, TypeOK, Carried, Contents, None, Threads, Finishers, Windows
<1>18. CASE Lose
  BY <1>18, ArchiveBounds DEF Lose, FailPush, Fault, TypeOK, Carried, Contents, None, Threads,
     Finishers, Windows
<1>19. CASE ReplayDead
  BY <1>19 DEF ReplayDead, TypeOK, Carried, Contents, None, Threads, Finishers, Windows
<1>20. CASE RaiseLimit
  <2>1. Flags'
    BY <1>20 DEF RaiseLimit, TypeOK, Flags
  <2>2. Words'
    BY <1>20 DEF RaiseLimit, TypeOK, Carried, Words, Contents, None, Threads
  <2>3. Maps'
    BY <1>20 DEF RaiseLimit, TypeOK, Maps, Contents, None, Threads, Finishers, Carried
  <2>4. Collections'
    BY <1>20 DEF RaiseLimit, TypeOK, Carried, Collections, Contents, None, Windows, Threads
  <2> QED BY <2>1, <2>2, <2>3, <2>4 DEF TypeOK, Flags, Words, Maps, Collections
<1>21. CASE RowFails
  BY <1>21 DEF RowFails, TypeOK, Carried, Contents, None, Threads, Finishers, Windows
<1>22. CASE CrashWorker
  <2>1. Flags'
    BY <1>22, ArchiveBounds DEF CrashWorker, Fault, AnswerPull, Goto, TypeOK, Flags
  <2>2. Words'
    BY <1>22, ArchiveBounds DEF CrashWorker, Fault, AnswerPull, Goto, TypeOK, Carried, Words,
       Contents, None, Threads
  <2>3. Maps'
    BY <1>22, ArchiveBounds DEF CrashWorker, Fault, AnswerPull, Goto, TypeOK, Maps, Contents,
       None, Threads, Finishers, Carried
  <2>4. Collections'
    BY <1>22, ArchiveBounds DEF CrashWorker, Fault, AnswerPull, Goto, TypeOK, Carried,
       Collections, Contents, None, Windows, Threads
  <2> QED BY <2>1, <2>2, <2>3, <2>4 DEF TypeOK, Flags, Words, Maps, Collections
<1>23. CASE CrashMaster
  <2>1. Flags'
    BY <1>23, ArchiveBounds DEF CrashMaster, Fault, Spoil, TypeOK, Flags
  <2>2. Words'
    BY <1>23, ArchiveBounds DEF CrashMaster, Fault, Spoil, TypeOK, Carried, Words, Contents,
       None, Threads
  <2>3. Maps'
    BY <1>23, ArchiveBounds DEF CrashMaster, Fault, Spoil, TypeOK, Maps, Contents, None,
       Threads, Finishers, Carried
  <2>4. Collections'
    BY <1>23, ArchiveBounds DEF CrashMaster, Fault, Spoil, TypeOK, Carried, Collections,
       Contents, None, Windows, Threads
  <2> QED BY <2>1, <2>2, <2>3, <2>4 DEF TypeOK, Flags, Words, Maps, Collections
<1>24. CASE \E f \in Finishers : StartFinish(f)
  BY <1>24 DEF StartFinish, TypeOK, Carried, Contents, None, Threads, Finishers, Windows
<1>25. ASSUME NEW f \in Finishers, DiffIt(f) PROVE TypeOK'
  <2>1. Flags'
    BY <1>25 DEF DiffIt, HookOver, Enqueue, Spoil, TypeOK, Flags
  <2>2. Words'
    BY <1>25 DEF DiffIt, HookOver, Enqueue, Spoil, TypeOK, Carried, Words, Contents, None,
       Threads
  <2>3. Maps'
    BY <1>25 DEF DiffIt, HookOver, Enqueue, Spoil, TypeOK, Maps, Contents, None, Threads,
       Finishers, Carried
  <2>4. Collections'
    BY <1>25 DEF DiffIt, HookOver, Enqueue, Spoil, TypeOK, Carried, Collections, Contents, None,
       Windows, Threads
  <2> QED BY <2>1, <2>2, <2>3, <2>4 DEF TypeOK, Flags, Words, Maps, Collections
<1>26. ASSUME NEW f \in Finishers, ClearCopy(f) PROVE TypeOK'
  <2>1. Flags'
    BY <1>26 DEF ClearCopy, HookOver, TypeOK, Flags
  <2>2. Words'
    BY <1>26 DEF ClearCopy, HookOver, TypeOK, Carried, Words, Contents, None, Threads
  <2>3. Maps'
    BY <1>26 DEF ClearCopy, HookOver, TypeOK, Maps, Contents, None, Threads, Finishers, Carried
  <2>4. Collections'
    BY <1>26 DEF ClearCopy, HookOver, TypeOK, Carried, Collections, Contents, None, Windows,
       Threads
  <2> QED BY <2>1, <2>2, <2>3, <2>4 DEF TypeOK, Flags, Words, Maps, Collections
<1>27. ASSUME NEW t \in Threads, Ingest(t) PROVE TypeOK'
  <2>1. Flags'
    BY <1>27 DEF Ingest, Goto, Leave, Spoil, TypeOK, Flags
  <2>2. Words'
    BY <1>27 DEF Ingest, Goto, Leave, Spoil, TypeOK, Carried, Words, Contents, None, Threads
  <2>3. Maps'
    BY <1>27 DEF Ingest, Goto, Leave, Spoil, TypeOK, Maps, Contents, None, Threads, Finishers,
       Carried
  <2>4. Collections'
    BY <1>27 DEF Ingest, Goto, Leave, Spoil, TypeOK, Carried, Collections, Contents, None,
       Windows, Threads
  <2> QED BY <2>1, <2>2, <2>3, <2>4 DEF TypeOK, Flags, Words, Maps, Collections
<1>28. CASE \E t \in Threads : MergeAttempt(t)
  BY <1>28 DEF MergeAttempt, Goto, Leave, TypeOK, Carried, Contents, None, Threads, Finishers,
     Windows
<1>29. ASSUME NEW t \in Threads, TakePlaced(t) PROVE TypeOK'
  <2>1. Flags'
    BY <1>29 DEF TakePlaced, Goto, Leave, TypeOK, Flags
  <2>2. Words'
    BY <1>29 DEF TakePlaced, Goto, Leave, TypeOK, Carried, Words, Contents, None, Threads
  <2>3. Maps'
    BY <1>29 DEF TakePlaced, Goto, Leave, TypeOK, Maps, Contents, None, Threads, Finishers,
       Carried
  <2>4. Collections'
    BY <1>29 DEF TakePlaced, Goto, Leave, TypeOK, Carried, Collections, Contents, None,
       Windows, Threads
  <2> QED BY <2>1, <2>2, <2>3, <2>4 DEF TypeOK, Flags, Words, Maps, Collections
<1>30. CASE \E t \in Threads : Commit(t)
  BY <1>30 DEF Commit, Goto, Leave, TypeOK, Carried, Contents, None, Threads, Finishers, Windows
<1>31. CASE UNCHANGED vars
  BY <1>31 DEF TypeOK, Carried, Contents, None, Threads, Finishers, Windows
<1> QED BY <1>1, <1>2, <1>3, <1>4, <1>5, <1>6, <1>7, <1>8, <1>9, <1>10, <1>11, <1>12, <1>13,
   <1>14, <1>15, <1>16, <1>17, <1>18, <1>19, <1>20, <1>21, <1>22, <1>23, <1>24, <1>25,
   <1>26, <1>27, <1>28, <1>29, <1>30, <1>31, NextCases

(* An entry leaves the outbox only when no handler is landing its content. *)
LEMMA CarriedStep ==
    ASSUME Base, SinkInv, [Next]_vars
    PROVE  Carried'
<1>1. CASE PlainEnqueue
  BY <1>1 DEF PlainEnqueue, EnqueueRecords, Enqueue, Spoil, Base, TypeOK, Carried, Contents,
     None, Threads
<1>2. CASE Startup
  BY <1>2 DEF Startup, EnqueueRecords, Enqueue, Spoil, Base, TypeOK, Carried, Contents, None,
     Threads
<1>3. CASE Pick
  BY <1>3 DEF Pick, Base, TypeOK, Carried, Contents, None, Threads
<1>4. CASE TooLarge
  BY <1>4 DEF TooLarge, Base, TypeOK, Carried, Contents, None, Threads
<1>5. CASE Begin
  BY <1>5 DEF Begin, Delivered, Base, TypeOK, Carried, Contents, None, Threads, SinkInv
<1>6. CASE NoStaging
  BY <1>6 DEF NoStaging, FailPush, Base, TypeOK, Carried, Contents, None, Threads
<1>7. CASE CallEnd
  BY <1>7 DEF CallEnd, Goto, Base, TypeOK, Carried, Contents, None, Threads
<1>8. CASE Abandoned
  BY <1>8 DEF Abandoned, FailPush, Base, TypeOK, Carried, Contents, None, Threads
<1>9. CASE EndLand
  BY <1>9 DEF EndLand, Goto, Base, TypeOK, Carried, Contents, None, Threads
<1>10. CASE EndSeal
  BY <1>10 DEF EndSeal, Goto, Base, TypeOK, Carried, Contents, None, Threads
<1>11. CASE AnswerEnd
  BY <1>11 DEF AnswerEnd, Goto, Delivered, Base, TypeOK, Carried, Contents, None, Threads
<1>12. CASE SweepPulls
  BY <1>12 DEF SweepPulls, Goto, Base, TypeOK, Carried, Contents, None, Threads
<1>13. CASE RequestPull
  BY <1>13 DEF RequestPull, AnswerPull, PullRecords, Goto, Enqueue, Base, TypeOK, Carried,
     Contents, None, Threads
<1>14. CASE PullTimesOut
  BY <1>14 DEF PullTimesOut, Fault, Goto, Base, TypeOK, Carried, Contents, None, Threads
<1>15. CASE WriteBack
  BY <1>15 DEF WriteBack, Goto, Base, TypeOK, Carried, Contents, None, Threads
<1>16. CASE Lose
  BY <1>16 DEF Lose, FailPush, Fault, Base, TypeOK, Carried, Contents, None, Threads
<1>17. CASE ReplayDead
  BY <1>17 DEF ReplayDead, Base, TypeOK, Carried, Contents, None, Threads
<1>18. CASE CrashWorker
  BY <1>18 DEF CrashWorker, Fault, AnswerPull, Goto, Base, TypeOK, Carried, Contents, None,
     Threads
<1>19. CASE CrashMaster
  BY <1>19 DEF CrashMaster, Fault, Spoil, Base, TypeOK, Carried, Contents, None, Threads
<1>20. CASE \E f \in Finishers : DiffIt(f)
  BY <1>20 DEF DiffIt, HookOver, Enqueue, Spoil, Base, TypeOK, Carried, Contents, None, Threads
<1>21. CASE \E t \in Threads : Ingest(t)
  BY <1>21 DEF Ingest, Goto, Leave, Spoil, Base, TypeOK, Carried, Contents, None, Threads
<1>22. CASE \E t \in Threads : MergeAttempt(t)
  BY <1>22 DEF MergeAttempt, Goto, Leave, Base, TypeOK, Carried, Contents, None, Threads
<1>23. CASE \E t \in Threads : TakePlaced(t)
  BY <1>23 DEF TakePlaced, Goto, Leave, Base, TypeOK, Carried, Contents, None, Threads
<1>24. CASE \E t \in Threads : Commit(t)
  BY <1>24 DEF Commit, Goto, Leave, Base, TypeOK, Carried, Contents, None, Threads
<1>25. CASE AgentEnds \/ ResidualSwept \/ RaiseLimit \/ RowFails \/
         (\E f \in Finishers : StartFinish(f)) \/ (\E f \in Finishers : ClearCopy(f)) \/
         UNCHANGED vars
  BY <1>25 DEF AgentEnds, ResidualSwept, RaiseLimit, RowFails, StartFinish, ClearCopy, Carried,
     Base
<1> QED BY <1>1, <1>2, <1>3, <1>4, <1>5, <1>6, <1>7, <1>8, <1>9, <1>10, <1>11, <1>12, <1>13,
   <1>14, <1>15, <1>16, <1>17, <1>18, <1>19, <1>20, <1>21, <1>22, <1>23, <1>24, <1>25,
   NextCases

(* The working copy outlives the enqueue of its content, whoever is first. *)
LEMMA CopyStep ==
    ASSUME Base, CopyInv, SinkInv, [Next]_vars
    PROVE  CopyInv'
<1>1. CASE AgentEnds
  BY <1>1 DEF AgentEnds, Base, TypeOK, Carried, CopyInv, Known, AtLeast, Contents, None,
     Finishers
<1>2. CASE PlainEnqueue
  BY <1>2 DEF PlainEnqueue, EnqueueRecords, Enqueue, Spoil, Base, TypeOK, Carried, CopyInv,
     Known, AtLeast, Contents, None, Finishers
<1>3. CASE ResidualSwept
  BY <1>3 DEF ResidualSwept, Base, TypeOK, Carried, CopyInv, Known, AtLeast, Contents, None,
     Finishers
<1>4. CASE Startup
  BY <1>4 DEF Startup, EnqueueRecords, Enqueue, Spoil, Base, TypeOK, Carried, CopyInv, Known,
     AtLeast, Contents, None, Finishers
<1>5. CASE Pick
  BY <1>5 DEF Pick, Base, TypeOK, Carried, CopyInv, Known, AtLeast, Contents, None, Finishers
<1>6. CASE TooLarge
  BY <1>6 DEF TooLarge, Base, TypeOK, Carried, CopyInv, Known, AtLeast, Contents, None,
     Finishers
<1>7. CASE Begin
  BY ZenonT(40), <1>7 DEF Begin, Delivered, Base, TypeOK, Carried, CopyInv, Known, AtLeast,
     Contents, None, Finishers
<1>8. CASE NoStaging
  BY <1>8 DEF NoStaging, FailPush, Base, TypeOK, Carried, CopyInv, Known, AtLeast, Contents,
     None, Finishers
<1>9. CASE Abandoned
  BY <1>9 DEF Abandoned, FailPush, Base, TypeOK, Carried, CopyInv, Known, AtLeast, Contents,
     None, Finishers
<1>10. CASE AnswerEnd
  BY <1>10 DEF AnswerEnd, Goto, Delivered, Base, TypeOK, Carried, CopyInv, Known, AtLeast,
     Contents, None, Finishers
<1>11. CASE RequestPull
  BY <1>11 DEF RequestPull, AnswerPull, PullRecords, Goto, Enqueue, Base, TypeOK, Carried,
     CopyInv, Known, AtLeast, Contents, None, Finishers
<1>12. CASE Lose
  BY <1>12 DEF Lose, FailPush, Fault, Base, TypeOK, Carried, CopyInv, Known, AtLeast, Contents,
     None, Finishers
<1>13. CASE ReplayDead
  BY <1>13 DEF ReplayDead, Base, TypeOK, Carried, CopyInv, Known, AtLeast, Contents, None,
     Finishers
<1>14. CASE CrashWorker
  BY <1>14 DEF CrashWorker, Fault, AnswerPull, Goto, Base, TypeOK, Carried, CopyInv, Known,
     AtLeast, Contents, None, Finishers
<1>15. CASE \E f \in Finishers : StartFinish(f)
  BY SMTT(30), <1>15 DEF StartFinish, Base, TypeOK, Carried, CopyInv, Known, AtLeast,
     Contents, None, Finishers
<1>16. CASE \E f \in Finishers : DiffIt(f)
  BY <1>16 DEF DiffIt, HookOver, Enqueue, Spoil, Base, TypeOK, Carried, CopyInv, Known, AtLeast,
     Contents, None, Finishers
<1>17. CASE \E f \in Finishers : ClearCopy(f)
  BY <1>17 DEF ClearCopy, HookOver, Base, TypeOK, Carried, CopyInv, Known, AtLeast, Contents,
     None, Finishers
<1>18. CASE CallEnd \/ EndLand \/ EndSeal \/ WriteBack \/ RaiseLimit \/ RowFails \/
     CrashMaster \/ (\E t \in Threads : Ingest(t)) \/ (\E t \in Threads : MergeAttempt(t)) \/
     (\E t \in Threads : TakePlaced(t)) \/ (\E t \in Threads : Commit(t)) \/ SweepPulls \/
     PullTimesOut \/ UNCHANGED vars
  BY <1>18 DEF SweepPulls, PullTimesOut, CallEnd, EndLand, EndSeal, WriteBack, RaiseLimit,
     RowFails, CrashMaster, Ingest, MergeAttempt, TakePlaced, Commit, CopyInv, Known
<1> QED BY <1>1, <1>2, <1>3, <1>4, <1>5, <1>6, <1>7, <1>8, <1>9, <1>10, <1>11, <1>12, <1>13,
   <1>14, <1>15, <1>16, <1>17, <1>18, NextCases

(* Receipt and index are written after the landing and fall with it. *)
LEMMA SinkStep ==
    ASSUME Base, SinkInv, [Next]_vars
    PROVE  SinkInv'
<1>1. CASE PlainEnqueue
  BY <1>1 DEF PlainEnqueue, EnqueueRecords, Enqueue, Spoil, Base, TypeOK, Carried, SinkInv,
     Held, Contents, None, Threads
<1>2. CASE Startup
  BY <1>2 DEF Startup, EnqueueRecords, Enqueue, Spoil, Base, TypeOK, Carried, SinkInv, Held,
     Contents, None, Threads
<1>3. CASE Pick
  BY <1>3 DEF Pick, Base, TypeOK, Carried, SinkInv, Held, Contents, None, Threads
<1>4. CASE TooLarge
  BY <1>4 DEF TooLarge, Base, TypeOK, Carried, SinkInv, Held, Contents, None, Threads
<1>5. CASE Begin
  BY <1>5 DEF Begin, Delivered, Base, TypeOK, Carried, SinkInv, Held, Contents, None, Threads
<1>6. CASE NoStaging
  BY <1>6 DEF NoStaging, FailPush, Base, TypeOK, Carried, SinkInv, Held, Contents, None, Threads
<1>7. CASE CallEnd
  BY <1>7 DEF CallEnd, Goto, Base, TypeOK, Carried, SinkInv, Held, Contents, None, Threads
<1>8. CASE Abandoned
  BY <1>8 DEF Abandoned, FailPush, Base, TypeOK, Carried, SinkInv, Held, Contents, None, Threads
<1>9. CASE EndLand
  BY <1>9 DEF EndLand, Goto, Base, TypeOK, Carried, SinkInv, Held, Contents, None, Threads
<1>10. CASE EndSeal
  BY <1>10 DEF EndSeal, Goto, Base, TypeOK, Carried, SinkInv, Held, Contents, None, Threads
<1>11. CASE AnswerEnd
  BY <1>11 DEF AnswerEnd, Goto, Delivered, Base, TypeOK, Carried, SinkInv, Held, Contents, None,
     Threads
<1>12. CASE SweepPulls
  BY <1>12 DEF SweepPulls, Goto, Base, TypeOK, Carried, SinkInv, Held, Contents, None,
     Threads
<1>13. CASE RequestPull
  BY <1>13 DEF RequestPull, AnswerPull, PullRecords, Goto, Enqueue, Base, TypeOK, Carried,
     SinkInv, Held, Contents, None, Threads
<1>14. CASE PullTimesOut
  BY <1>14 DEF PullTimesOut, Fault, Goto, Base, TypeOK, Carried, SinkInv, Held, Contents,
     None, Threads
<1>15. CASE WriteBack
  BY <1>15 DEF WriteBack, Goto, Base, TypeOK, Carried, SinkInv, Held, Contents, None, Threads
<1>16. CASE Lose
  BY <1>16 DEF Lose, FailPush, Fault, Base, TypeOK, Carried, SinkInv, Held, Contents, None,
     Threads
<1>17. CASE CrashWorker
  BY <1>17 DEF CrashWorker, Fault, AnswerPull, Goto, Base, TypeOK, Carried, SinkInv, Held,
     Contents, None, Threads
<1>18. CASE CrashMaster
  BY <1>18 DEF CrashMaster, Fault, Spoil, Base, TypeOK, Carried, SinkInv, Held, Contents, None,
     Threads
<1>19. CASE \E f \in Finishers : DiffIt(f)
  BY <1>19 DEF DiffIt, HookOver, Enqueue, Spoil, Base, TypeOK, Carried, SinkInv, Held, Contents,
     None, Threads
<1>20. ASSUME NEW t \in Threads, Ingest(t) PROVE SinkInv'
  <2>1. Held \ {None} \subseteq Held' /\ records' # {}
    BY <1>20 DEF Ingest, Held
  <2>2. receipt' => receipt /\ inbox' # None /\ dedup' = dedup /\ dedup # None
    BY <1>20, <2>1 DEF Ingest, Base, TypeOK, SinkInv, Held, Contents, None
  <2>3. at'["end"] \in {"land", "seal"} => at'["end"] = at["end"]
    BY <1>20 DEF Ingest, Goto, Leave, Base, TypeOK, Threads
  <2>4. at'["end"] \in {"ingest", "merge", "take", "commit", "ok"} =>
            at["end"] \in {"ingest", "merge", "take", "commit", "ok"}
    BY <1>20 DEF Ingest, Goto, Leave, Base, TypeOK, Threads
  <2>5. UNCHANGED <<loop, payload, entry, staging, dedup, acked>>
    BY <1>20 DEF Ingest
  <2>6. loop = "wait" \/ at["end"] = "seal" => payload # None
    BY DEF Base, Carried, Contents, None
  <2> QED BY <2>1, <2>2, <2>3, <2>4, <2>5, <2>6 DEF SinkInv
<1>21. CASE \E t \in Threads : MergeAttempt(t)
  BY <1>21 DEF MergeAttempt, Goto, Leave, Base, TypeOK, Carried, SinkInv, Held, Contents, None,
     Threads
<1>22. CASE \E t \in Threads : TakePlaced(t)
  BY <1>22 DEF TakePlaced, Goto, Leave, Base, TypeOK, Carried, SinkInv, Held, Contents,
     None, Threads
<1>23. CASE \E t \in Threads : Commit(t)
  BY <1>23 DEF Commit, Goto, Leave, Base, TypeOK, Carried, SinkInv, Held, Contents, None,
     Threads
<1>24. CASE AgentEnds \/ ResidualSwept \/ ReplayDead \/ RaiseLimit \/ RowFails \/
         (\E f \in Finishers : StartFinish(f)) \/ (\E f \in Finishers : ClearCopy(f)) \/
         UNCHANGED vars
  BY <1>24 DEF AgentEnds, ResidualSwept, ReplayDead, RaiseLimit, RowFails, StartFinish,
     ClearCopy, SinkInv, Held
<1> QED BY <1>1, <1>2, <1>3, <1>4, <1>5, <1>6, <1>7, <1>8, <1>9, <1>10, <1>11, <1>12, <1>13,
   <1>14, <1>15, <1>16, <1>17, <1>18, <1>19, <1>20, <1>21, <1>22, <1>23, <1>24, NextCases

(* What lands over the inbox is at least what was delivered. *)
LEMMA KeptStep ==
    ASSUME Base, CopyInv, SinkInv, KeptInv, [Next]_vars
    PROVE  KeptInv'
<1>1. CASE PlainEnqueue
  BY <1>1 DEF PlainEnqueue, EnqueueRecords, Enqueue, Spoil, Base, TypeOK, Carried, SinkInv,
     CopyInv, Known, KeptInv, Held, AtLeast, Contents, None, Threads
<1>2. CASE Startup
  BY <1>2 DEF Startup, EnqueueRecords, Enqueue, Spoil, Base, TypeOK, Carried, SinkInv, CopyInv,
     Known, KeptInv, Held, AtLeast, Contents, None, Threads
<1>3. CASE Pick
  BY <1>3 DEF Pick, Base, TypeOK, Carried, SinkInv, CopyInv, Known, KeptInv, Held, AtLeast,
     Contents, None, Threads
<1>4. CASE TooLarge
  BY <1>4 DEF TooLarge, Base, TypeOK, Carried, SinkInv, CopyInv, Known, KeptInv, Held, AtLeast,
     Contents, None, Threads
<1>5. CASE Begin
  <2>1. UNCHANGED <<records, inbox, spoilt>>
    BY <1>5 DEF Begin
  <2>2. CASE dedup = payload /\ receipt
    <3>1. payload \in Held /\ payload \in Contents
      BY <1>5, <2>2 DEF Begin, Base, Carried, SinkInv
    <3>2. payload \in AtLeast(payload)
      BY <3>1 DEF AtLeast, Contents
    <3> QED BY <1>5, <2>1, <2>2, <3>1, <3>2 DEF Begin, Delivered, KeptInv, Held
  <2>3. CASE ~(dedup = payload /\ receipt)
    BY <1>5, <2>1, <2>3 DEF Begin, KeptInv, Held
  <2> QED BY <2>2, <2>3
<1>6. CASE NoStaging
  BY <1>6 DEF NoStaging, FailPush, Base, TypeOK, Carried, SinkInv, CopyInv, Known, KeptInv,
     Held, AtLeast, Contents, None, Threads
<1>7. CASE Abandoned
  BY <1>7 DEF Abandoned, FailPush, Base, TypeOK, Carried, SinkInv, CopyInv, Known, KeptInv,
     Held, AtLeast, Contents, None, Threads
<1>8. CASE EndLand
  BY <1>8 DEF EndLand, Goto, Base, TypeOK, Carried, SinkInv, CopyInv, Known, KeptInv, Held,
     AtLeast, Contents, None, Threads
<1>9. CASE EndSeal
  BY <1>9 DEF EndSeal, Goto, Base, TypeOK, Carried, SinkInv, CopyInv, Known, KeptInv, Held,
     AtLeast, Contents, None, Threads
<1>10. CASE AnswerEnd
  BY <1>10 DEF AnswerEnd, Goto, Delivered, Base, TypeOK, Carried, SinkInv, CopyInv, Known,
     KeptInv, Held, AtLeast, Contents, None, Threads
<1>11. CASE RequestPull
  BY <1>11 DEF RequestPull, AnswerPull, PullRecords, Goto, Enqueue, Base, TypeOK, Carried,
     SinkInv, CopyInv, Known, KeptInv, Held, AtLeast, Contents, None, Threads
<1>12. CASE Lose
  BY <1>12 DEF Lose, FailPush, Fault, Base, TypeOK, Carried, SinkInv, CopyInv, Known, KeptInv,
     Held, AtLeast, Contents, None, Threads
<1>13. CASE ReplayDead
  BY <1>13 DEF ReplayDead, Base, TypeOK, Carried, SinkInv, CopyInv, Known, KeptInv, Held,
     AtLeast, Contents, None, Threads
<1>14. CASE CrashMaster
  BY <1>14 DEF CrashMaster, Fault, Spoil, Base, TypeOK, Carried, SinkInv, CopyInv, Known,
     KeptInv, Held, AtLeast, Contents, None, Threads
<1>15. CASE \E f \in Finishers : DiffIt(f)
  BY <1>15 DEF DiffIt, HookOver, Enqueue, Spoil, Base, TypeOK, Carried, SinkInv, CopyInv, Known,
     KeptInv, Held, AtLeast, Contents, None, Threads
<1>16. CASE \E t \in Threads : Ingest(t)
  BY <1>16 DEF Ingest, Goto, Leave, Spoil, Base, TypeOK, Carried, SinkInv, CopyInv, Known,
     KeptInv, Held, AtLeast, Contents, None, Threads
<1>17. CASE AgentEnds \/ ResidualSwept \/ CallEnd \/ WriteBack \/ RaiseLimit \/ RowFails \/
     CrashWorker \/ (\E f \in Finishers : StartFinish(f)) \/ (\E f \in Finishers :
     ClearCopy(f)) \/ (\E t \in Threads : MergeAttempt(t)) \/ (\E t \in Threads :
     TakePlaced(t)) \/ (\E t \in Threads : Commit(t)) \/ SweepPulls \/ PullTimesOut \/
     UNCHANGED vars
  BY <1>17 DEF SweepPulls, PullTimesOut, AgentEnds, ResidualSwept, CallEnd, WriteBack,
     RaiseLimit, RowFails, CrashWorker, StartFinish, ClearCopy, MergeAttempt, TakePlaced,
     Commit, KeptInv, Held
<1> QED BY <1>1, <1>2, <1>3, <1>4, <1>5, <1>6, <1>7, <1>8, <1>9, <1>10, <1>11, <1>12, <1>13,
   <1>14, <1>15, <1>16, <1>17, NextCases

(* Every enqueue of less than the finished work is in one of the windows. *)
LEMMA FullStep ==
    ASSUME Base, CopyInv, SinkInv, FullInv, [Next]_vars
    PROVE  FullInv'
<1>1. CASE PlainEnqueue
  BY <1>1 DEF PlainEnqueue, EnqueueRecords, Enqueue, Spoil, Base, TypeOK, Carried, SinkInv,
     CopyInv, Known, FullInv, Complete, Contents, None, Threads
<1>2. CASE Startup
  BY <1>2 DEF Startup, EnqueueRecords, Enqueue, Spoil, Base, TypeOK, Carried, SinkInv, CopyInv,
     Known, FullInv, Complete, Contents, None, Threads
<1>3. CASE Begin
  BY ZenonT(40), <1>3 DEF Begin, Delivered, Base, TypeOK, Carried, SinkInv, CopyInv, Known,
     FullInv, Complete, Contents, None, Threads
<1>4. CASE CallEnd
  BY <1>4 DEF CallEnd, Goto, Base, TypeOK, Carried, SinkInv, CopyInv, Known, FullInv, Complete,
     Contents, None, Threads
<1>5. CASE EndLand
  BY <1>5 DEF EndLand, Goto, Base, TypeOK, Carried, SinkInv, CopyInv, Known, FullInv, Complete,
     Contents, None, Threads
<1>6. CASE EndSeal
  BY <1>6 DEF EndSeal, Goto, Base, TypeOK, Carried, SinkInv, CopyInv, Known, FullInv, Complete,
     Contents, None, Threads
<1>7. CASE AnswerEnd
  BY <1>7 DEF AnswerEnd, Goto, Delivered, Base, TypeOK, Carried, SinkInv, CopyInv, Known,
     FullInv, Complete, Contents, None, Threads
<1>8. CASE RequestPull
  BY <1>8 DEF RequestPull, AnswerPull, PullRecords, Goto, Enqueue, Base, TypeOK, Carried,
     CopyInv, Known, FullInv, Complete, Contents, None, Threads
<1>9. CASE CrashMaster
  BY <1>9 DEF CrashMaster, Fault, Spoil, Base, TypeOK, Carried, SinkInv, CopyInv, Known,
     FullInv, Complete, Contents, None, Threads
<1>10. ASSUME NEW f \in Finishers, DiffIt(f) PROVE FullInv'
  <2>1. UNCHANGED master /\ spoilt \subseteq spoilt'
    BY <1>10 DEF DiffIt, Spoil
  <2>2. CASE copy = None \/ entry # None
    BY <1>10, <2>1, <2>2 DEF DiffIt, Enqueue, box, master, sink, thread, board, project, FullInv
  <2>3. CASE copy # None /\ entry = None
    <3>1. payload' = copy /\ (agent = "running" => "cut" \in spoilt')
      BY <1>10, <2>3 DEF DiffIt, Enqueue, Spoil
    <3>2. spoilt' \cap {"early", "cut", "resent"} = {} => payload' \in Complete
      BY <1>10, <2>1, <2>3, <3>1 DEF DiffIt, Base, TypeOK, CopyInv, Known, Complete, Contents,
         None
    <3> QED BY <2>1, <3>2 DEF master, sink, thread, board, project, FullInv
  <2> QED BY <2>2, <2>3
<1>11. CASE \E t \in Threads : Ingest(t)
  BY <1>11 DEF Ingest, Goto, Leave, Spoil, Base, TypeOK, Carried, SinkInv, CopyInv, Known,
     FullInv, Complete, Contents, None, Threads
<1>12. CASE \E t \in Threads : MergeAttempt(t)
  BY <1>12 DEF MergeAttempt, Goto, Leave, Base, TypeOK, Carried, SinkInv, CopyInv, Known,
     FullInv, Complete, Contents, None, Threads
<1>13. CASE \E t \in Threads : TakePlaced(t)
  BY <1>13 DEF TakePlaced, Goto, Leave, Base, TypeOK, Carried, CopyInv, Known, FullInv,
     Complete, Contents, None, Threads
<1>14. CASE \E t \in Threads : Commit(t)
  BY <1>14 DEF Commit, Goto, Leave, Base, TypeOK, Carried, SinkInv, CopyInv, Known, FullInv,
     Complete, Contents, None, Threads
<1>15. CASE AgentEnds \/ ResidualSwept \/ Pick \/ TooLarge \/ NoStaging \/ Abandoned \/
         WriteBack \/ Lose \/ ReplayDead \/ RaiseLimit \/ RowFails \/ CrashWorker \/
         (\E f \in Finishers : StartFinish(f)) \/ (\E f \in Finishers : ClearCopy(f)) \/
         SweepPulls \/ PullTimesOut \/ UNCHANGED vars
  BY <1>15 DEF SweepPulls, PullTimesOut, AgentEnds, ResidualSwept, Pick, TooLarge, NoStaging,
     Abandoned, WriteBack, Lose, ReplayDead, RaiseLimit, RowFails, CrashWorker, StartFinish,
     ClearCopy, FailPush, FullInv
<1> QED BY <1>1, <1>2, <1>3, <1>4, <1>5, <1>6, <1>7, <1>8, <1>9, <1>10, <1>11, <1>12, <1>13,
   <1>14, <1>15, NextCases

(* Whoever takes the entry from PLACED is alone until the commit. *)
LEMMA MergeStep ==
    ASSUME Base, MergeInv, [Next]_vars
    PROVE  MergeInv'
<1>1. CASE PlainEnqueue
  BY <1>1 DEF PlainEnqueue, EnqueueRecords, Enqueue, Spoil, Base, TypeOK, MergeInv, Contents,
     None, Threads
<1>2. CASE Startup
  BY <1>2 DEF Startup, EnqueueRecords, Enqueue, Spoil, Base, TypeOK, MergeInv, Contents, None,
     Threads
<1>3. CASE CallEnd
  BY <1>3 DEF CallEnd, Goto, Base, TypeOK, MergeInv, Contents, None, Threads
<1>4. CASE EndLand
  BY <1>4 DEF EndLand, Goto, Base, TypeOK, MergeInv, Contents, None, Threads
<1>5. CASE EndSeal
  BY <1>5 DEF EndSeal, Goto, Base, TypeOK, MergeInv, Contents, None, Threads
<1>6. CASE AnswerEnd
  BY <1>6 DEF AnswerEnd, Goto, Delivered, Base, TypeOK, MergeInv, Contents, None, Threads
<1>7. CASE SweepPulls
  BY <1>7 DEF SweepPulls, Goto, Base, TypeOK, MergeInv, Contents, None, Threads
<1>8. CASE RequestPull
  BY <1>8 DEF RequestPull, AnswerPull, PullRecords, Goto, Enqueue, Base, TypeOK, MergeInv,
     Contents, None, Threads
<1>9. CASE PullTimesOut
  BY <1>9 DEF PullTimesOut, Fault, Goto, Base, TypeOK, MergeInv, Contents, None, Threads
<1>10. CASE WriteBack
  BY <1>10 DEF WriteBack, Goto, Base, TypeOK, MergeInv, Contents, None, Threads
<1>11. CASE Lose
  BY <1>11 DEF Lose, FailPush, Fault, Base, TypeOK, MergeInv, Contents, None, Threads
<1>12. CASE CrashWorker
  BY <1>12 DEF CrashWorker, Fault, AnswerPull, Goto, Base, TypeOK, MergeInv, Contents, None,
     Threads
<1>13. CASE CrashMaster
  BY <1>13 DEF CrashMaster, Fault, Spoil, Base, TypeOK, MergeInv, Contents, None, Threads
<1>14. CASE \E f \in Finishers : DiffIt(f)
  BY <1>14 DEF DiffIt, HookOver, Enqueue, Spoil, Base, TypeOK, MergeInv, Contents, None, Threads
<1>15. CASE \E t \in Threads : Ingest(t)
  BY <1>15 DEF Ingest, Goto, Leave, Spoil, Base, TypeOK, MergeInv, Contents, None, Threads
<1>16. CASE \E t \in Threads : MergeAttempt(t)
  BY <1>16 DEF MergeAttempt, Goto, Leave, Base, TypeOK, MergeInv, Contents, None, Threads
<1>17. CASE \E t \in Threads : TakePlaced(t)
  BY <1>17 DEF TakePlaced, Goto, Leave, Base, TypeOK, MergeInv, Contents, None, Threads
<1>18. CASE \E t \in Threads : Commit(t)
  BY <1>18 DEF Commit, Goto, Leave, Base, TypeOK, MergeInv, Contents, None, Threads
<1>19. CASE AgentEnds \/ ResidualSwept \/ Pick \/ TooLarge \/ Begin \/ NoStaging \/ Abandoned \/
         ReplayDead \/ RaiseLimit \/ RowFails \/ (\E f \in Finishers : StartFinish(f)) \/
         (\E f \in Finishers : ClearCopy(f)) \/ UNCHANGED vars
  BY <1>19 DEF AgentEnds, ResidualSwept, Pick, TooLarge, Begin, NoStaging, Abandoned,
     ReplayDead, RaiseLimit, RowFails, StartFinish, ClearCopy, FailPush, MergeInv
<1> QED BY <1>1, <1>2, <1>3, <1>4, <1>5, <1>6, <1>7, <1>8, <1>9, <1>10, <1>11, <1>12, <1>13,
   <1>14, <1>15, <1>16, <1>17, <1>18, <1>19, NextCases

-----------------------------------------------------------------------------
(* The invariant holds at the start. *)
LEMMA Start ==
    ASSUME Init
    PROVE  ArchiveInv
<1> USE DEF Init
<1>1. TypeOK
  <2>1. Flags
    BY DEF Flags
  <2>2. Words
    BY DEF Words, Contents, None
  <2>3. Maps
    BY ArchiveBounds DEF Maps, Contents, None, Threads, Finishers
  <2>4. Collections
    BY DEF Collections
  <2> QED BY <2>1, <2>2, <2>3, <2>4, TypeParts
<1>2. Carried /\ CopyInv /\ SinkInv
  BY DEF Carried, CopyInv, Known, SinkInv, Contents, None, Threads, Finishers
<1>3. KeptInv /\ FullInv /\ MergeInv
  BY DEF KeptInv, FullInv, MergeInv, Complete, None, Threads
<1> QED BY <1>1, <1>2, <1>3 DEF ArchiveInv, Base

(* The invariant behind the other theorems: every content on the way from the
   working copy to the commit is accounted for, across lost calls, restarts and
   every interleaving of the sweeps.                                        *)
THEOREM ArchiveInvariant == Spec => []ArchiveInv
<1>1. Init => ArchiveInv
  BY Start
<1>2. ArchiveInv /\ [Next]_vars => ArchiveInv'
  BY TypeStep, CarriedStep, CopyStep, SinkStep, KeptStep, FullStep, MergeStep DEF ArchiveInv,
     Base
<1> QED BY <1>1, <1>2, PTL DEF Spec

(* Every variable keeps its type, for any number of faults. *)
THEOREM TypeCorrect == Spec => []TypeOK
  BY ArchiveInvariant, PTL DEF ArchiveInv, Base

(* What the outbox deleted as delivered is on the master, unless records were
   resent: begin's dedup answer and end's acknowledgement are never given for
   content the inbox and the records do not have.                           *)
THEOREM NoDeliveryLost == Spec => []DeliveredIsKept
<1>1. ArchiveInv => DeliveredIsKept
  BY DEF ArchiveInv, KeptInv, Held, DeliveredIsKept
<1> QED BY <1>1, ArchiveInvariant, PTL

(* Outside the three windows a merge has the finished work in it. *)
THEOREM FinishedWorkIsMerged == Spec => []WorkIsMerged
<1>1. ArchiveInv => WorkIsMerged
  BY DEF ArchiveInv, FullInv, WorkIsMerged
<1> QED BY <1>1, ArchiveInvariant, PTL

(* One merge for each life of the master, unless an archive is placed while a
   merge of the task is under way.                                          *)
THEOREM SingleMerge == Spec => []MergedOnce
<1>1. ArchiveInv => MergedOnce
  BY ArchiveBounds DEF ArchiveInv, Base, TypeOK, MergeInv, MergedOnce
<1> QED BY <1>1, ArchiveInvariant, PTL
-----------------------------------------------------------------------------
(* No archive is left behind. *)

\* PLACED, a merge under way or one that is done accounts for the records, and
\* whoever is last of landing and report still has its merge attempt ahead.
LegsInv ==
    "forgotten" \notin spoilt =>
        /\ merged => commits # <<>>
        /\ records \cap Contents # {} /\ commits = <<>> /\ row # "failed" =>
              placed # None \/ \E t \in Threads : at[t] = "commit"
        /\ row = "done" /\ placed # None /\ commits = <<>> =>
              \E t \in Threads : at[t] \in {"merge", "take", "commit"}

\* A directory without files comes only after one with them; a master that has
\* stopped asking has been told of a parked entry, or has the archive; an entry
\* is in the push loop's hands, or a start will arm it; a marker has its owner; a
\* sweep that waits for the answer to a pull has one under way.
AheadInv ==
    /\ inbox = "empty" \/ "empty" \in records
       \/ (at["end"] \in {"seal", "ingest"} /\ inbox \notin Contents)
          => records \cap Contents # {}
    /\ seen /\ records \cap Contents = {} => entry # None \/ inbox \in Contents
    /\ entry = "pushing" => loop # "idle" \/ boot # "up"
    /\ copy # None /\ marker => boot = "residual" \/ \E f \in Finishers : fin[f] # "idle"
    /\ at["sweep"] = "pull" => pull

\* Merges without its fairness, its second half: as long as nothing is merged of
\* a task reported as done whose archive has landed, somebody is about to merge
\* it.  Write-back and landing (write_back_board_dispatch, ingest_landed) both
\* try, and the one that comes second finds what the first left.
MergeAhead ==
    row = "done" /\ records \cap Contents # {} /\ "forgotten" \notin spoilt =>
        commits # <<>> \/ \E t \in Threads : at[t] \in {"merge", "take", "commit"}

\* Merges without its fairness, its first half: an archive that the master lacks,
\* of a task that is settled, is in the outbox and on its way or parked in the
\* open, or in the inbox, or will be asked for, if the sweep does not wait for an
\* answer that cannot come; and whoever asks for it is turned away only for a
\* working copy that somebody is finishing.
ArchiveAhead ==
    row # "active" /\ records \cap Contents = {} =>
        \/ entry = "pending" \/ Parked
        \/ entry = "pushing" /\ (loop # "idle" \/ boot # "up")
        \/ inbox \in Contents
        \/ /\ MissingArchive
           /\ at["sweep"] = "pull" => pull
           /\ copy # None /\ marker => boot = "residual" \/ \E f \in Finishers : fin[f] # "idle"

(* Neither of the two drops what only it holds. *)
LEMMA LegsStep ==
    ASSUME Base, LegsInv, [Next]_vars
    PROVE  LegsInv'
<1>1. CASE PlainEnqueue
  BY <1>1 DEF PlainEnqueue, EnqueueRecords, Enqueue, Spoil, LegsInv, Base, TypeOK, Contents,
     None, Threads
<1>2. CASE Startup
  BY <1>2 DEF Startup, EnqueueRecords, Enqueue, Spoil, LegsInv, Base, TypeOK, Contents,
     None, Threads
<1>3. CASE CallEnd
  BY <1>3 DEF CallEnd, Goto, LegsInv, Base, TypeOK, Contents, None, Threads
<1>4. CASE EndLand
  BY <1>4 DEF EndLand, Goto, LegsInv, Base, TypeOK, Contents, None, Threads
<1>5. CASE EndSeal
  BY <1>5 DEF EndSeal, Goto, LegsInv, Base, TypeOK, Contents, None, Threads
<1>6. CASE AnswerEnd
  BY <1>6 DEF AnswerEnd, Goto, Delivered, LegsInv, Base, TypeOK, Contents, None, Threads
<1>7. CASE SweepPulls
  BY <1>7 DEF SweepPulls, Goto, MissingArchive, LegsInv, Base, TypeOK, Contents, None,
     Threads
<1>8. CASE RequestPull
  BY <1>8 DEF RequestPull, AnswerPull, PullRecords, Goto, Enqueue, LegsInv, Base, TypeOK,
     Contents, None, Threads
<1>9. CASE PullTimesOut
  BY <1>9 DEF PullTimesOut, Fault, Goto, LegsInv, Base, TypeOK, Contents, None, Threads
<1>10. CASE WriteBack
  BY <1>10 DEF WriteBack, Goto, LegsInv, Base, TypeOK, Contents, None, Threads
<1>11. CASE RowFails
  BY <1>11 DEF RowFails, LegsInv, Base, TypeOK, Contents, None, Threads
<1>12. CASE CrashWorker
  BY <1>12 DEF CrashWorker, Fault, AnswerPull, Goto, LegsInv, Base, TypeOK, Contents, None,
     Threads
<1>13. CASE CrashMaster
  BY <1>13 DEF CrashMaster, Fault, Spoil, LegsInv, Base, TypeOK, Contents, None, Threads
<1>14. ASSUME NEW f \in Finishers, DiffIt(f) PROVE LegsInv'
  BY <1>14 DEF DiffIt, HookOver, Enqueue, Spoil, LegsInv, Base, TypeOK, Contents, None,
     Threads
<1>15. ASSUME NEW t \in Threads, Ingest(t) PROVE LegsInv'
  BY <1>15 DEF Ingest, Goto, Leave, Spoil, LegsInv, Base, TypeOK, Contents, None, Threads
<1>16. ASSUME NEW t \in Threads, MergeAttempt(t) PROVE LegsInv'
  BY <1>16 DEF MergeAttempt, Goto, Leave, LegsInv, Base, TypeOK, Contents, None, Threads
<1>17. ASSUME NEW t \in Threads, TakePlaced(t) PROVE LegsInv'
  BY <1>17 DEF TakePlaced, Goto, Leave, LegsInv, Base, TypeOK, Contents, None, Threads
<1>18. ASSUME NEW t \in Threads, Commit(t) PROVE LegsInv'
  BY <1>18 DEF Commit, Goto, Leave, LegsInv, Base, TypeOK, Contents, None, Threads
<1>19. CASE AgentEnds \/ ResidualSwept \/ Pick \/ TooLarge \/ Begin \/ NoStaging \/
         Abandoned \/ Lose \/ ReplayDead \/ RaiseLimit \/ (\E f \in Finishers :
         StartFinish(f)) \/ (\E f \in Finishers : ClearCopy(f)) \/ UNCHANGED vars
  BY <1>19 DEF AgentEnds, ResidualSwept, Pick, TooLarge, Begin, NoStaging, Abandoned, Lose,
     ReplayDead, RaiseLimit, StartFinish, ClearCopy, LegsInv, Base, TypeOK, Contents, None,
     Threads
<1> QED BY <1>1, <1>2, <1>3, <1>4, <1>5, <1>6, <1>7, <1>8, <1>9, <1>10, <1>11, <1>12, <1>13,
   <1>14, <1>15, <1>16, <1>17, <1>18, <1>19, NextCases

(* What the receipt and the index say is with the master. *)
LEMMA AheadStep ==
    ASSUME Base, SinkInv, AheadInv, [Next]_vars
    PROVE  AheadInv'
<1>1. CASE AgentEnds
  BY <1>1 DEF AgentEnds, AheadInv, Finishers, Base, TypeOK, Contents, None, Threads
<1>2. CASE PlainEnqueue
  BY <1>2 DEF PlainEnqueue, EnqueueRecords, Enqueue, Spoil, AheadInv, Finishers, Base,
     TypeOK, Contents, None, Threads
<1>3. CASE ResidualSwept
  BY <1>3 DEF ResidualSwept, AheadInv, Finishers, Base, TypeOK, Contents, None, Threads
<1>4. CASE Startup
  BY <1>4 DEF Startup, EnqueueRecords, Enqueue, Spoil, AheadInv, Finishers, Base, TypeOK,
     Contents, None, Threads
<1>5. CASE Pick
  BY <1>5 DEF Pick, AheadInv, Finishers, Base, TypeOK, Contents, None, Threads
<1>6. CASE TooLarge
  BY <1>6 DEF TooLarge, AheadInv, Finishers, Base, TypeOK, Contents, None, Threads
<1>7. CASE Begin
  BY <1>7 DEF Begin, Delivered, AheadInv, Finishers, Base, TypeOK, Contents, None, Threads,
     Carried, SinkInv, Held
<1>8. CASE NoStaging
  BY <1>8 DEF NoStaging, FailPush, AheadInv, Finishers, Base, TypeOK, Contents, None,
     Threads
<1>9. CASE CallEnd
  BY <1>9 DEF CallEnd, Goto, AheadInv, Finishers, Base, TypeOK, Contents, None, Threads,
     Carried
<1>10. CASE Abandoned
  BY <1>10 DEF Abandoned, FailPush, AheadInv, Finishers, Base, TypeOK, Contents, None,
     Threads
<1>11. CASE EndLand
  BY <1>11 DEF EndLand, Goto, AheadInv, Finishers, Base, TypeOK, Contents, None, Threads,
     Carried
<1>12. CASE EndSeal
  BY <1>12 DEF EndSeal, Goto, AheadInv, Finishers, Base, TypeOK, Contents, None, Threads,
     Carried
<1>13. CASE AnswerEnd
  BY <1>13 DEF AnswerEnd, Goto, Delivered, AheadInv, Finishers, Base, TypeOK, Contents,
     None, Threads, Carried, SinkInv, Held
<1>14. CASE SweepPulls
  BY <1>14 DEF SweepPulls, Goto, MissingArchive, AheadInv, Finishers, Base, TypeOK,
     Contents, None, Threads
<1>15. CASE RequestPull
  BY <1>15 DEF RequestPull, AnswerPull, PullRecords, Goto, Enqueue, AheadInv, Finishers,
     Base, TypeOK, Contents, None, Threads
<1>16. CASE PullTimesOut
  BY <1>16 DEF PullTimesOut, Fault, Goto, AheadInv, Finishers, Base, TypeOK, Contents, None,
     Threads
<1>17. CASE WriteBack
  BY <1>17 DEF WriteBack, Goto, AheadInv, Finishers, Base, TypeOK, Contents, None, Threads
<1>18. CASE Lose
  BY <1>18 DEF Lose, FailPush, Fault, AheadInv, Finishers, Base, TypeOK, Contents, None,
     Threads
<1>19. CASE ReplayDead
  BY <1>19 DEF ReplayDead, AheadInv, Finishers, Base, TypeOK, Contents, None, Threads
<1>20. CASE CrashWorker
  BY <1>20 DEF CrashWorker, Fault, AnswerPull, Goto, AheadInv, Finishers, Base, TypeOK,
     Contents, None, Threads
<1>21. CASE CrashMaster
  BY <1>21 DEF CrashMaster, Fault, Spoil, AheadInv, Finishers, Base, TypeOK, Contents, None,
     Threads
<1>22. ASSUME NEW f \in Finishers, StartFinish(f) PROVE AheadInv'
  BY <1>22 DEF StartFinish, AheadInv, Finishers, Base, TypeOK, Contents, None, Threads
<1>23. ASSUME NEW f \in Finishers, DiffIt(f) PROVE AheadInv'
  BY <1>23 DEF DiffIt, HookOver, Enqueue, Spoil, AheadInv, Finishers, Base, TypeOK,
     Contents, None, Threads
<1>24. ASSUME NEW f \in Finishers, ClearCopy(f) PROVE AheadInv'
  BY <1>24 DEF ClearCopy, HookOver, AheadInv, Finishers, Base, TypeOK, Contents, None,
     Threads
<1>25. ASSUME NEW t \in Threads, Ingest(t) PROVE AheadInv'
  BY <1>25 DEF Ingest, Goto, Leave, Spoil, AheadInv, Finishers, Base, TypeOK, Contents,
     None, Threads
<1>26. ASSUME NEW t \in Threads, MergeAttempt(t) PROVE AheadInv'
  BY <1>26 DEF MergeAttempt, Goto, Leave, AheadInv, Finishers, Base, TypeOK, Contents, None,
     Threads
<1>27. ASSUME NEW t \in Threads, TakePlaced(t) PROVE AheadInv'
  BY <1>27 DEF TakePlaced, Goto, Leave, AheadInv, Finishers, Base, TypeOK, Contents, None,
     Threads
<1>28. ASSUME NEW t \in Threads, Commit(t) PROVE AheadInv'
  BY <1>28 DEF Commit, Goto, Leave, AheadInv, Finishers, Base, TypeOK, Contents, None,
     Threads
<1>29. CASE RaiseLimit \/ RowFails \/ UNCHANGED vars
  BY <1>29 DEF RowFails, RaiseLimit, AheadInv, Finishers, Base, TypeOK, Contents, None,
     Threads
<1> QED BY <1>1, <1>2, <1>3, <1>4, <1>5, <1>6, <1>7, <1>8, <1>9, <1>10, <1>11, <1>12, <1>13,
   <1>14, <1>15, <1>16, <1>17, <1>18, <1>19, <1>20, <1>21, <1>22, <1>23, <1>24, <1>25,
   <1>26, <1>27, <1>28, <1>29, NextCases

(* Of write-back and landing the second always finds what the first left, for
   any number of faults: neither leaves the merge to the other.             *)
THEOREM NeitherLegLeavesIt == Spec => []MergeAhead
<1>1. Init => LegsInv
  BY DEF Init, LegsInv
<1>2. LegsInv => MergeAhead
  BY DEF LegsInv, MergeAhead
<1> QED BY <1>1, <1>2, LegsStep, ArchiveInvariant, PTL DEF Spec, ArchiveInv

(* Push loop, sweeps of the start and pull of the master never lose sight of an
   archive the master lacks, for any number of lost calls and restarts.     *)
THEOREM NoArchiveLostSightOf == Spec => []ArchiveAhead
<1>1. Init => AheadInv
  BY DEF Init, AheadInv, None, Contents, Threads
<1>2. Base /\ AheadInv => ArchiveAhead
  BY DEF AheadInv, ArchiveAhead, MissingArchive, Parked, Base, TypeOK, None, Contents
<1> QED BY <1>1, <1>2, AheadStep, ArchiveInvariant, PTL DEF Spec, ArchiveInv
=============================================================================
