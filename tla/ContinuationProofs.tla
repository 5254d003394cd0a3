------------------------ MODULE ContinuationProofs ------------------------
(* Machine-checked proofs about Continuation, for any number of wake-ups,
   permits and crashes.                                                    *)
EXTENDS Continuation, FiniteSetTheorems, TLAPS

USE DEF NoMem, NoFile, NoResult, Nobody, Results, loaded, handler, history

-----------------------------------------------------------------------------
(* Type correctness.                                                       *)

(* A handler past the merge carries a real result. *)
Carries ==
    \A w \in Wakes : /\ pc[w] # "new" => msg[w] \in Results
                     /\ pc[w] \in {"write", "ready", "llm", "append"} => res[w] \in Results

LEMMA TypeInit == Init => TypeOK /\ Carries
<1>1. Init => Shape
  BY ContinuationBounds DEF Init, Shape
<1>2. Init => Flags
  BY DEF Init, Flags
<1>3. Init => Carries
  BY DEF Init, Carries
<1>4. QED
  BY <1>1, <1>2, <1>3 DEF TypeOK

(* claimed and unmarked stay Boolean. *)
LEMMA FlagsStep == Flags /\ [Next]_vars => Flags'
  BY ZenonT(40) DEF Flags, Next, Turn, Handler, vars,
         Dispatch, DispatchFails, Accepted, TurnInserts, TurnWrites, TurnReady,
         Claim, CheckFinal, LoadMemory, LoadDisk, Confirm, GiveUp, Merge, WriteMerged,
         MergedReady, RunLoop, RunOut, PersistReply, MarkFinal, SendReply, Release, DropMemory,
         Unlink, ClearPhase, CrashAndRecover

LEMMA ShapeStep == Shape /\ Carries /\ [Next]_vars => Shape'
<1> SUFFICES ASSUME Shape, Carries, [Next]_vars PROVE Shape'
  OBVIOUS
<1> USE DEF Shape, Running, Working, Closing, Goto, Ready
<1>1. CASE Dispatch
  BY <1>1 DEF Dispatch
<1>2. CASE DispatchFails
  <2>1. CASE disk' = disk
    BY <1>2, <2>1 DEF DispatchFails
  <2>2. CASE disk' = NoFile
    BY <1>2, <2>2 DEF DispatchFails
  <2>3. QED
    BY <1>2, <2>1, <2>2 DEF DispatchFails
<1>3. CASE Accepted
  BY <1>3 DEF Accepted
<1>4. CASE TurnInserts
  BY <1>4 DEF TurnInserts
<1>5. CASE TurnWrites
  BY <1>5 DEF TurnWrites
<1>6. CASE TurnReady
  BY <1>6 DEF TurnReady
<1>7. ASSUME NEW w \in Wakes, Claim(w) PROVE Shape'
  BY <1>7 DEF Claim
<1>8. ASSUME NEW w \in Wakes, CheckFinal(w) \/ Confirm(w) \/ GiveUp(w) PROVE Shape'
  BY <1>8 DEF CheckFinal, Confirm, GiveUp
<1>9. ASSUME NEW w \in Wakes, LoadMemory(w) PROVE Shape'
  BY <1>9 DEF LoadMemory
<1>10. ASSUME NEW w \in Wakes, LoadDisk(w) PROVE Shape'
  BY <1>10 DEF LoadDisk
<1>11. ASSUME NEW w \in Wakes, Merge(w) PROVE Shape'
  BY <1>11 DEF Merge, MergedResult
<1>12. ASSUME NEW w \in Wakes, WriteMerged(w) PROVE Shape'
  BY <1>12 DEF WriteMerged
<1>13. ASSUME NEW w \in Wakes, MergedReady(w) PROVE Shape'
  BY <1>13, WakesAreNotWriters DEF MergedReady
<1>14. ASSUME NEW w \in Wakes, RunLoop(w) \/ RunOut(w) PROVE Shape'
  BY <1>14 DEF RunLoop, RunOut
<1>15. ASSUME NEW w \in Wakes, PersistReply(w) PROVE Shape'
  BY <1>15 DEF PersistReply, Carries
<1>16. ASSUME NEW w \in Wakes, MarkFinal(w) PROVE Shape'
  BY <1>16 DEF MarkFinal
<1>17. ASSUME NEW w \in Wakes, SendReply(w) \/ Release(w) PROVE Shape'
  BY <1>17 DEF SendReply, Release
<1>18. ASSUME NEW w \in Wakes, DropMemory(w) PROVE Shape'
  BY <1>18 DEF DropMemory
<1>19. ASSUME NEW w \in Wakes, Unlink(w) PROVE Shape'
  BY <1>19 DEF Unlink
<1>20. ASSUME NEW w \in Wakes, ClearPhase(w) PROVE Shape'
  BY <1>20 DEF ClearPhase
<1>21. CASE CrashAndRecover
  <2>1. mem' \in [real : BOOLEAN, res : {NoResult} \cup Results, ready : BOOLEAN,
                  by : {Nobody, "turn", "disk"} \cup Wakes]
    BY <1>21 DEF CrashAndRecover
  <2>2. crashes' \in 0..MaxCrashes /\ torn' \in 0..crashes'
    BY <1>21, ContinuationBounds DEF CrashAndRecover
  <2>3. pc' \in [Wakes -> {"new", "done", "lost"} \cup Running]
    BY <1>21 DEF CrashAndRecover
  <2>4. /\ turn' \in {"idle", "dispatched", "acked", "inserted", "written", "saved",
                      "failed", "gone"}
        /\ phase' \in {"checkpoint", "restored", "confirmed"}
        /\ UNCHANGED <<disk, msg, real, res, log>>
    BY <1>21 DEF CrashAndRecover
  <2>5. QED
    BY <2>1, <2>2, <2>3, <2>4
<1>22. CASE UNCHANGED vars
  BY <1>22 DEF vars
<1>23. QED
  BY <1>1, <1>2, <1>3, <1>4, <1>5, <1>6, <1>7, <1>8, <1>9, <1>10, <1>11, <1>12, <1>13,
     <1>14, <1>15, <1>16, <1>17, <1>18, <1>19, <1>20, <1>21, <1>22
  DEF Next, Turn, Handler

LEMMA CarriesStep == Shape /\ Carries /\ [Next]_vars => Carries'
<1> SUFFICES ASSUME Shape, Carries, [Next]_vars PROVE Carries'
  OBVIOUS
<1> USE DEF Shape, Carries, Goto
<1>1. CASE Turn
  BY <1>1 DEF Turn, Dispatch, DispatchFails, Accepted, TurnInserts, TurnWrites, TurnReady
<1>2. ASSUME NEW w \in Wakes, Claim(w) PROVE Carries'
  BY <1>2 DEF Claim
<1>3. ASSUME NEW w \in Wakes, CheckFinal(w) \/ Confirm(w) \/ GiveUp(w) PROVE Carries'
  BY <1>3 DEF CheckFinal, Confirm, GiveUp
<1>4. ASSUME NEW w \in Wakes, LoadMemory(w) \/ LoadDisk(w) PROVE Carries'
  BY <1>4 DEF LoadMemory, LoadDisk
<1>5. ASSUME NEW w \in Wakes, Merge(w) PROVE Carries'
  BY <1>5 DEF Merge, MergedResult
<1>6. ASSUME NEW w \in Wakes,
             WriteMerged(w) \/ MergedReady(w) \/ RunLoop(w) \/ RunOut(w)
      PROVE  Carries'
  BY <1>6 DEF WriteMerged, MergedReady, RunLoop, RunOut
<1>7. ASSUME NEW w \in Wakes, PersistReply(w) \/ MarkFinal(w) \/ SendReply(w) PROVE Carries'
  BY <1>7 DEF PersistReply, MarkFinal, SendReply
<1>8. ASSUME NEW w \in Wakes, Release(w) \/ DropMemory(w) \/ Unlink(w) \/ ClearPhase(w)
      PROVE  Carries'
  BY <1>8 DEF Release, DropMemory, Unlink, ClearPhase
<1>9. CASE CrashAndRecover
  BY <1>9 DEF CrashAndRecover, Running, Working, Closing
<1>10. CASE UNCHANGED vars
  BY <1>10 DEF vars
<1>11. QED
  BY <1>1, <1>2, <1>3, <1>4, <1>5, <1>6, <1>7, <1>8, <1>9, <1>10 DEF Next, Handler

LEMMA CarriesAlways == Spec => [](TypeOK /\ Carries)
<1>1. TypeOK /\ Carries /\ [Next]_vars => (TypeOK /\ Carries)'
  BY FlagsStep, ShapeStep, CarriesStep DEF TypeOK
<1>2. QED
  BY <1>1, TypeInit, PTL DEF Spec

(* The state always has its declared shape; in particular a reply is never
   persisted before a result was merged.                                   *)
THEOREM TypeCorrect == Spec => []TypeOK
  BY CarriesAlways, PTL

-----------------------------------------------------------------------------
(* The inductive invariant behind ReplyOnce.                               *)

Holding == {"check", "load", "confirm", "giveup", "release"} \cup Working
Merging == {"merge", "write", "ready", "llm", "append"}
Early   == {"idle", "dispatched", "acked", "inserted"}

(* The last reply is persisted and no crash has torn it from its mark. *)
Answered == Len(log) > torn

(* Handlers run one at a time, or all of them left the mark. *)
Orderly == Permits <= 1 \/ ~unmarked

(* The claim excludes handlers from each other until finish_handling, and a
   single permit excludes them altogether.                                 *)
Claimed ==
    /\ \A w \in Wakes : pc[w] \in Holding => claimed
    /\ \A v, w \in Wakes : pc[v] \in Holding /\ pc[w] \in Holding => v = w

OneAtATime ==
    Permits <= 1 => \A v, w \in Wakes : pc[v] \in Running /\ pc[w] \in Running => v = w

(* Whatever holds the conversation of the turn comes from the turn's save. *)
FromTheTurn ==
    /\ disk.kind = "real" => turn \notin Early
    /\ mem.real /\ (mem.ready \/ mem.by # "turn") => turn \notin Early
    /\ \A w \in Wakes : pc[w] = "new" => ~real[w]
    /\ \A w \in Wakes : real[w] /\ pc[w] \in Running => turn \notin Early
    /\ Len(log) > 0 => turn \notin Early
    /\ \A w \in Wakes : pc[w] \in {"append", "mark"} => real[w]
    /\ \A w \in Wakes : real[w] /\ pc[w] \in {"write", "ready", "llm", "append", "mark"}
                          => mem.by # "turn"
    /\ Answered => mem.by # "turn"

(* The mark is on disk only when the reply is in the session. *)
MarkMeansReply ==
    /\ torn <= Len(log)
    /\ disk.final => Answered
    /\ \A w \in Wakes : real[w] /\ pc[w] \in {"ready", "llm", "append", "mark"} => ~disk.final
    /\ \A w \in Wakes : pc[w] = "mark" => Answered
    /\ \A w \in Wakes : pc[w] = "send" => Answered \/ unmarked
    /\ ~unmarked => \A w \in Wakes : pc[w] \in Closing => Answered

(* Once answered, nobody is on the way to a second reply: the file is marked
   or gone, memory holds nothing to resume from, and no handler is past the
   gates.                                                                  *)
NoSecondReply ==
    Orderly =>
      /\ Len(log) <= torn + 1
      /\ \A v, w \in Wakes : pc[v] \in Closing /\ pc[w] \in Merging \cup {"mark"} => v = w
      /\ \A w \in Wakes : real[w] /\ pc[w] \in {"ready", "llm", "append", "mark"}
                            => disk.kind = "real"
      /\ Answered =>
           /\ \A w \in Wakes : pc[w] \notin Merging \cup {"confirm"}
           /\ \A w \in Wakes : pc[w] = "load" => disk.kind = "none"
           /\ \A w \in Wakes : pc[w] = "unlink" => ~mem.ready
           /\ \/ \E w \in Wakes : pc[w] = "mark"
              \/ disk.kind = "none" /\ ~mem.ready
              \/ disk.kind # "none" /\ disk.final

ReplyInv == Claimed /\ OneAtATime /\ FromTheTurn /\ MarkMeansReply /\ NoSecondReply

USE DEF Running, Working, Closing, Holding, Merging, Early, Goto, Ready

LEMMA ReplyInit == Init => ReplyInv
  BY DEF Init, ReplyInv, Claimed, OneAtATime, FromTheTurn, MarkMeansReply, NoSecondReply, Answered

LEMMA ClaimedStep == TypeOK /\ Claimed /\ [Next]_vars => Claimed'
<1> SUFFICES ASSUME Shape, Claimed, [Next]_vars PROVE Claimed'
  BY DEF TypeOK
<1> USE DEF Shape, Claimed
<1>1. CASE Turn
  BY <1>1 DEF Turn, Dispatch, DispatchFails, Accepted, TurnInserts, TurnWrites, TurnReady
<1>2. ASSUME NEW w \in Wakes, Claim(w) PROVE Claimed'
  BY <1>2 DEF Claim
<1>3. ASSUME NEW w \in Wakes, CheckFinal(w) \/ LoadMemory(w) \/ LoadDisk(w) \/ Confirm(w)
      PROVE  Claimed'
  BY <1>3 DEF CheckFinal, LoadMemory, LoadDisk, Confirm
<1>4. ASSUME NEW w \in Wakes, GiveUp(w) \/ Release(w) PROVE Claimed'
  BY SMTT(30), <1>4 DEF GiveUp, Release
<1>5. ASSUME NEW w \in Wakes,
             Merge(w) \/ WriteMerged(w) \/ MergedReady(w) \/ RunLoop(w) \/ RunOut(w)
      PROVE  Claimed'
  BY <1>5 DEF Merge, WriteMerged, MergedReady, RunLoop, RunOut
<1>6. ASSUME NEW w \in Wakes, PersistReply(w) \/ MarkFinal(w) \/ SendReply(w) PROVE Claimed'
  BY <1>6 DEF PersistReply, MarkFinal, SendReply
<1>7. ASSUME NEW w \in Wakes, DropMemory(w) \/ Unlink(w) \/ ClearPhase(w) PROVE Claimed'
  BY <1>7 DEF DropMemory, Unlink, ClearPhase
<1>8. CASE CrashAndRecover
  BY <1>8 DEF CrashAndRecover
<1>9. CASE UNCHANGED vars
  BY <1>9 DEF vars
<1>10. QED
  BY <1>1, <1>2, <1>3, <1>4, <1>5, <1>6, <1>7, <1>8, <1>9 DEF Next, Handler

(* A permit count of at most one lets a handler in only when none is in flight. *)
LEMMA OnePermit ==
    ASSUME Permits <= 1, NEW w \in Wakes, Claim(w)
    PROVE  \A v \in Wakes : pc[v] \notin Running
<1>1. IsFiniteSet(InFlight)
  BY ContinuationBounds, FS_Subset DEF InFlight
<1>2. Cardinality(InFlight) \in Nat /\ Cardinality(InFlight) < 1
  BY <1>1, FS_CardinalityType, ContinuationBounds DEF Claim
<1>3. InFlight = {}
  BY <1>1, <1>2, FS_EmptySet
<1>4. QED
  BY <1>3 DEF InFlight

LEMMA OneAtATimeStep == TypeOK /\ OneAtATime /\ [Next]_vars => OneAtATime'
<1> SUFFICES ASSUME Shape, OneAtATime, [Next]_vars PROVE OneAtATime'
  BY DEF TypeOK
<1> USE DEF Shape, OneAtATime
<1>1. CASE Turn
  BY <1>1 DEF Turn, Dispatch, DispatchFails, Accepted, TurnInserts, TurnWrites, TurnReady
<1>2. ASSUME NEW w \in Wakes, Claim(w) PROVE OneAtATime'
  <2>1. ASSUME Permits <= 1 PROVE \A v \in Wakes : pc[v] \notin Running
    BY <1>2, <2>1, OnePermit
  <2>2. ASSUME Permits <= 1 PROVE \A v \in Wakes : v # w => pc'[v] \notin Running
    BY <1>2, <2>1, <2>2 DEF Claim
  <2>3. QED
    BY <2>2
<1>3. ASSUME NEW w \in Wakes, CheckFinal(w) \/ LoadMemory(w) \/ LoadDisk(w) \/ Confirm(w)
      PROVE  OneAtATime'
  BY <1>3 DEF CheckFinal, LoadMemory, LoadDisk, Confirm
<1>4. ASSUME NEW w \in Wakes, GiveUp(w) \/ Release(w) PROVE OneAtATime'
  BY <1>4 DEF GiveUp, Release
<1>5. ASSUME NEW w \in Wakes,
             Merge(w) \/ WriteMerged(w) \/ MergedReady(w) \/ RunLoop(w) \/ RunOut(w)
      PROVE  OneAtATime'
  BY <1>5 DEF Merge, WriteMerged, MergedReady, RunLoop, RunOut
<1>6. ASSUME NEW w \in Wakes, PersistReply(w) \/ MarkFinal(w) \/ SendReply(w) PROVE OneAtATime'
  BY <1>6 DEF PersistReply, MarkFinal, SendReply
<1>7. ASSUME NEW w \in Wakes, DropMemory(w) \/ Unlink(w) \/ ClearPhase(w) PROVE OneAtATime'
  BY <1>7 DEF DropMemory, Unlink, ClearPhase
<1>8. CASE CrashAndRecover
  BY <1>8 DEF CrashAndRecover
<1>9. CASE UNCHANGED vars
  BY <1>9 DEF vars
<1>10. QED
  BY <1>1, <1>2, <1>3, <1>4, <1>5, <1>6, <1>7, <1>8, <1>9 DEF Next, Handler

LEMMA FromTheTurnStep == TypeOK /\ FromTheTurn /\ [Next]_vars => FromTheTurn'
<1> SUFFICES ASSUME Shape, FromTheTurn, [Next]_vars PROVE FromTheTurn'
  BY DEF TypeOK
<1> USE DEF Shape, FromTheTurn, Answered
<1>1. CASE Dispatch
  BY <1>1 DEF Dispatch
<1>2. CASE DispatchFails
  BY <1>2 DEF DispatchFails
<1>3. CASE Accepted
  BY <1>3 DEF Accepted
<1>4. CASE TurnInserts
  BY <1>4 DEF TurnInserts
<1>5. CASE TurnWrites
  BY <1>5 DEF TurnWrites
<1>6. CASE TurnReady
  BY <1>6 DEF TurnReady
<1>7. ASSUME NEW w \in Wakes, Claim(w) PROVE FromTheTurn'
  BY <1>7 DEF Claim
<1>8. ASSUME NEW w \in Wakes, CheckFinal(w) \/ Confirm(w) \/ GiveUp(w) PROVE FromTheTurn'
  BY <1>8 DEF CheckFinal, Confirm, GiveUp
<1>9. ASSUME NEW w \in Wakes, LoadMemory(w) PROVE FromTheTurn'
  BY <1>9 DEF LoadMemory
<1>10. ASSUME NEW w \in Wakes, LoadDisk(w) PROVE FromTheTurn'
  BY <1>10 DEF LoadDisk
<1>11. ASSUME NEW w \in Wakes, Merge(w) PROVE FromTheTurn'
  BY <1>11, WakesAreNotWriters DEF Merge
<1>12. ASSUME NEW w \in Wakes, WriteMerged(w) PROVE FromTheTurn'
  BY <1>12 DEF WriteMerged
<1>13. ASSUME NEW w \in Wakes, MergedReady(w) PROVE FromTheTurn'
  BY <1>13, WakesAreNotWriters DEF MergedReady
<1>14. ASSUME NEW w \in Wakes, RunLoop(w) \/ RunOut(w) PROVE FromTheTurn'
  BY <1>14 DEF RunLoop, RunOut
<1>15. ASSUME NEW w \in Wakes, PersistReply(w) PROVE FromTheTurn'
  BY <1>15 DEF PersistReply
<1>16. ASSUME NEW w \in Wakes, MarkFinal(w) PROVE FromTheTurn'
  BY <1>16 DEF MarkFinal
<1>17. ASSUME NEW w \in Wakes, SendReply(w) \/ Release(w) PROVE FromTheTurn'
  BY <1>17 DEF SendReply, Release
<1>18. ASSUME NEW w \in Wakes, DropMemory(w) PROVE FromTheTurn'
  BY <1>18 DEF DropMemory
<1>19. ASSUME NEW w \in Wakes, Unlink(w) PROVE FromTheTurn'
  BY <1>19 DEF Unlink
<1>20. ASSUME NEW w \in Wakes, ClearPhase(w) PROVE FromTheTurn'
  BY <1>20 DEF ClearPhase
<1>21. CASE CrashAndRecover
  BY <1>21 DEF CrashAndRecover
<1>22. CASE UNCHANGED vars
  BY <1>22 DEF vars
<1>23. QED
  BY <1>1, <1>2, <1>3, <1>4, <1>5, <1>6, <1>7, <1>8, <1>9, <1>10, <1>11, <1>12, <1>13,
     <1>14, <1>15, <1>16, <1>17, <1>18, <1>19, <1>20, <1>21, <1>22
  DEF Next, Turn, Handler

LEMMA MarkMeansReplyStep == TypeOK /\ ReplyInv /\ [Next]_vars => MarkMeansReply'
<1> SUFFICES ASSUME Shape, Claimed, FromTheTurn, MarkMeansReply, [Next]_vars
             PROVE  MarkMeansReply'
  BY DEF TypeOK, ReplyInv
<1> USE DEF Shape, MarkMeansReply, Answered
<1>1. CASE Dispatch
  BY <1>1 DEF Dispatch
<1>2. CASE DispatchFails
  BY <1>2 DEF DispatchFails
<1>3. CASE Accepted
  BY <1>3 DEF Accepted
<1>4. CASE TurnInserts
  BY <1>4 DEF TurnInserts
<1>5. CASE TurnWrites
  BY <1>5 DEF TurnWrites
<1>6. CASE TurnReady
  BY <1>6 DEF TurnReady
<1>7. ASSUME NEW w \in Wakes, Claim(w) PROVE MarkMeansReply'
  BY <1>7 DEF Claim
<1>8. ASSUME NEW w \in Wakes, CheckFinal(w) \/ Confirm(w) \/ GiveUp(w) PROVE MarkMeansReply'
  BY <1>8 DEF CheckFinal, Confirm, GiveUp
<1>9. ASSUME NEW w \in Wakes, LoadMemory(w) PROVE MarkMeansReply'
  BY <1>9 DEF LoadMemory
<1>10. ASSUME NEW w \in Wakes, LoadDisk(w) PROVE MarkMeansReply'
  BY <1>10 DEF LoadDisk
<1>11. ASSUME NEW w \in Wakes, Merge(w) PROVE MarkMeansReply'
  BY <1>11, WakesAreNotWriters DEF Merge
<1>12. ASSUME NEW w \in Wakes, WriteMerged(w) PROVE MarkMeansReply'
  BY <1>12 DEF WriteMerged
<1>13. ASSUME NEW w \in Wakes, MergedReady(w) PROVE MarkMeansReply'
  BY <1>13 DEF MergedReady
<1>14. ASSUME NEW w \in Wakes, RunLoop(w) \/ RunOut(w) PROVE MarkMeansReply'
  <2>1. CASE RunLoop(w) /\ real[w]
    BY <2>1 DEF RunLoop
  <2>2. CASE RunLoop(w) /\ ~real[w]
    BY <2>2 DEF RunLoop
  <2>3. CASE RunOut(w)
    BY <2>3 DEF RunOut
  <2>4. QED
    BY <1>14, <2>1, <2>2, <2>3
<1>15. ASSUME NEW w \in Wakes, PersistReply(w) PROVE MarkMeansReply'
  BY <1>15 DEF PersistReply
<1>16. ASSUME NEW w \in Wakes, MarkFinal(w) PROVE MarkMeansReply'
  BY <1>16 DEF MarkFinal, Claimed
<1>17. ASSUME NEW w \in Wakes, SendReply(w) \/ Release(w) PROVE MarkMeansReply'
  BY <1>17 DEF SendReply, Release
<1>18. ASSUME NEW w \in Wakes, DropMemory(w) PROVE MarkMeansReply'
  BY <1>18 DEF DropMemory
<1>19. ASSUME NEW w \in Wakes, Unlink(w) PROVE MarkMeansReply'
  BY <1>19 DEF Unlink
<1>20. ASSUME NEW w \in Wakes, ClearPhase(w) PROVE MarkMeansReply'
  BY <1>20 DEF ClearPhase
<1>21. CASE CrashAndRecover
  BY <1>21 DEF CrashAndRecover, FromTheTurn
<1>22. CASE UNCHANGED vars
  BY <1>22 DEF vars
<1>23. QED
  BY <1>1, <1>2, <1>3, <1>4, <1>5, <1>6, <1>7, <1>8, <1>9, <1>10, <1>11, <1>12, <1>13,
     <1>14, <1>15, <1>16, <1>17, <1>18, <1>19, <1>20, <1>21, <1>22
  DEF Next, Turn, Handler

LEMMA NoSecondReplyStep == TypeOK /\ ReplyInv /\ [Next]_vars => NoSecondReply'
<1> SUFFICES ASSUME Shape, Claimed, OneAtATime, FromTheTurn, MarkMeansReply,
                    NoSecondReply, [Next]_vars
             PROVE  NoSecondReply'
  BY DEF TypeOK, ReplyInv
<1> USE DEF Shape, NoSecondReply, Answered, Orderly
<1>1. CASE Dispatch
  BY <1>1 DEF Dispatch, FromTheTurn
<1>2. CASE DispatchFails
  BY <1>2 DEF DispatchFails, FromTheTurn
<1>3. CASE Accepted
  BY <1>3 DEF Accepted
<1>4. CASE TurnInserts
  BY <1>4 DEF TurnInserts
<1>5. CASE TurnWrites
  BY <1>5 DEF TurnWrites, FromTheTurn
<1>6. CASE TurnReady
  BY <1>6 DEF TurnReady, FromTheTurn
<1>7. ASSUME NEW w \in Wakes, Claim(w) PROVE NoSecondReply'
  BY <1>7 DEF Claim
<1>8. ASSUME NEW w \in Wakes, CheckFinal(w) \/ Confirm(w) \/ GiveUp(w) PROVE NoSecondReply'
  <2>1. CASE CheckFinal(w)
    BY <2>1 DEF CheckFinal, Claimed
  <2>2. CASE Confirm(w)
    BY <2>2 DEF Confirm, OneAtATime, MarkMeansReply
  <2>3. CASE GiveUp(w)
    BY <2>3 DEF GiveUp
  <2>4. QED
    BY <1>8, <2>1, <2>2, <2>3
<1>9. ASSUME NEW w \in Wakes, LoadMemory(w) PROVE NoSecondReply'
  BY <1>9 DEF LoadMemory, Claimed
<1>10. ASSUME NEW w \in Wakes, LoadDisk(w) PROVE NoSecondReply'
  BY <1>10 DEF LoadDisk
<1>11. ASSUME NEW w \in Wakes, Merge(w) PROVE NoSecondReply'
  BY <1>11, WakesAreNotWriters DEF Merge
<1>12. ASSUME NEW w \in Wakes, WriteMerged(w) PROVE NoSecondReply'
  BY <1>12 DEF WriteMerged, Claimed
<1>13. ASSUME NEW w \in Wakes, MergedReady(w) PROVE NoSecondReply'
  BY <1>13 DEF MergedReady
<1>14. ASSUME NEW w \in Wakes, RunLoop(w) \/ RunOut(w) PROVE NoSecondReply'
  <2>1. CASE RunLoop(w) /\ real[w]
    BY <2>1 DEF RunLoop, Claimed
  <2>2. CASE RunLoop(w) /\ ~real[w]
    BY <2>2 DEF RunLoop, Claimed
  <2>3. CASE RunOut(w)
    BY <2>3 DEF RunOut, Claimed
  <2>4. QED
    BY <1>14, <2>1, <2>2, <2>3
<1>15. ASSUME NEW w \in Wakes, PersistReply(w) PROVE NoSecondReply'
  BY <1>15 DEF PersistReply, Claimed, MarkMeansReply
<1>16. ASSUME NEW w \in Wakes, MarkFinal(w) PROVE NoSecondReply'
  BY <1>16 DEF MarkFinal, Claimed, FromTheTurn, MarkMeansReply
<1>17. ASSUME NEW w \in Wakes, SendReply(w) \/ Release(w) PROVE NoSecondReply'
  <2>1. CASE SendReply(w)
    BY <2>1 DEF SendReply, Claimed
  <2>2. CASE Release(w)
    BY <2>2 DEF Release
  <2>3. QED
    BY <1>17, <2>1, <2>2
<1>18. ASSUME NEW w \in Wakes, DropMemory(w) PROVE NoSecondReply'
  BY <1>18 DEF DropMemory
<1>19. ASSUME NEW w \in Wakes, Unlink(w) PROVE NoSecondReply'
  BY <1>19 DEF Unlink
<1>20. ASSUME NEW w \in Wakes, ClearPhase(w) PROVE NoSecondReply'
  BY <1>20 DEF ClearPhase
<1>21. CASE CrashAndRecover
  BY <1>21 DEF CrashAndRecover
<1>22. CASE UNCHANGED vars
  BY <1>22 DEF vars
<1>23. QED
  BY <1>1, <1>2, <1>3, <1>4, <1>5, <1>6, <1>7, <1>8, <1>9, <1>10, <1>11, <1>12, <1>13,
     <1>14, <1>15, <1>16, <1>17, <1>18, <1>19, <1>20, <1>21, <1>22
  DEF Next, Turn, Handler

LEMMA ReplyStep == TypeOK /\ ReplyInv /\ [Next]_vars => ReplyInv'
  BY ClaimedStep, OneAtATimeStep, FromTheTurnStep, MarkMeansReplyStep, NoSecondReplyStep
  DEF ReplyInv

(* The gates of handle_cluster_continuation (claim, final_persisted mark,
   confirm phase) keep their joint invariant through every step.           *)
THEOREM ReplyInvariant == Spec => []ReplyInv
  BY ReplyInit, ReplyStep, TypeCorrect, PTL DEF Spec

(* However many wake-ups the callback and the poll send and wherever the
   process crashes, persist_final_reply writes one reply per conversation,
   save one more per crash between the reply and its mark, as long as
   handlers run one at a time or all of them leave the mark.               *)
THEOREM ReplyOnceAlways == Spec => []ReplyOnce
<1>1. ReplyInv /\ TypeOK => ReplyOnce
  BY ContinuationBounds DEF ReplyInv, NoSecondReply, Orderly, ReplyOnce, TypeOK, Shape
<1>2. QED
  BY <1>1, ReplyInvariant, TypeCorrect, PTL

-----------------------------------------------------------------------------
(* The snapshot and the result in it.                                      *)

(* Before anything was answered, and short of the two exceptions, nobody is
   on the way to delete the file of the saved conversation.                *)
KeptInv ==
    /\ \A w \in Wakes : pc[w] \in {"new", "check", "load"} => res[w] = NoResult
    /\ log = <<>> /\ ~unmarked =>
         ~disk.final /\ \A w \in Wakes : pc[w] \notin Closing \cup {"mark", "send"}
    /\ log = <<>> /\ ~unmarked /\ ~Outwaited =>
         (turn \in {"written", "saved"} => disk.kind = "real")

(* Every copy that a reply may come from agrees with the stored result, and
   the copy of the turn can become ready only while none is stored.        *)
StoredInv ==
    /\ \A w \in Wakes : Stored /\ pc[w] \in {"confirm"} \cup Merging => res[w] = disk.res
    /\ Stored /\ mem.ready => mem.res = disk.res
    /\ mem.by = "turn" => ~Stored
    /\ \A w \in Wakes : mem.by = w /\ pc[w] \in {"write", "ready"} => mem.res = res[w]
    /\ \A w \in Wakes : real[w] /\ pc[w] = "write" => ~mem.ready

LEMMA KeptStep ==
    ASSUME TypeOK, Carries, KeptInv, [Next]_vars
    PROVE  KeptInv'
<1> USE DEF TypeOK, Shape, KeptInv, Outwaited
<1>1. CASE Dispatch
  BY <1>1 DEF Dispatch
<1>2. CASE DispatchFails
  BY <1>2 DEF DispatchFails
<1>3. CASE Accepted
  BY <1>3 DEF Accepted
<1>4. CASE TurnInserts
  BY <1>4 DEF TurnInserts
<1>5. CASE TurnWrites
  BY <1>5 DEF TurnWrites
<1>6. CASE TurnReady
  BY <1>6 DEF TurnReady
<1>7. ASSUME NEW w \in Wakes, Claim(w) PROVE KeptInv'
  BY <1>7 DEF Claim
<1>8. ASSUME NEW w \in Wakes, CheckFinal(w) PROVE KeptInv'
  BY <1>8 DEF CheckFinal
<1>9. ASSUME NEW w \in Wakes, LoadMemory(w) PROVE KeptInv'
  BY <1>9 DEF LoadMemory
<1>10. ASSUME NEW w \in Wakes, LoadDisk(w) PROVE KeptInv'
  BY <1>10 DEF LoadDisk
<1>11. ASSUME NEW w \in Wakes, Confirm(w) PROVE KeptInv'
  BY <1>11 DEF Confirm
<1>12. ASSUME NEW w \in Wakes, GiveUp(w) PROVE KeptInv'
  BY <1>12 DEF GiveUp
<1>13. ASSUME NEW w \in Wakes, Merge(w) PROVE KeptInv'
  BY <1>13 DEF Merge, MergedResult
<1>14. ASSUME NEW w \in Wakes, WriteMerged(w) PROVE KeptInv'
  BY <1>14 DEF WriteMerged, Carries
<1>15. ASSUME NEW w \in Wakes, MergedReady(w) PROVE KeptInv'
  BY <1>15 DEF MergedReady
<1>16. ASSUME NEW w \in Wakes, RunLoop(w) PROVE KeptInv'
  BY <1>16 DEF RunLoop
<1>17. ASSUME NEW w \in Wakes, RunOut(w) PROVE KeptInv'
  BY <1>17 DEF RunOut
<1>18. ASSUME NEW w \in Wakes, PersistReply(w) PROVE KeptInv'
  BY <1>18 DEF PersistReply
<1>19. ASSUME NEW w \in Wakes, MarkFinal(w) PROVE KeptInv'
  BY <1>19 DEF MarkFinal
<1>20. ASSUME NEW w \in Wakes, SendReply(w) PROVE KeptInv'
  BY <1>20 DEF SendReply
<1>21. ASSUME NEW w \in Wakes, Release(w) PROVE KeptInv'
  BY <1>21 DEF Release
<1>22. ASSUME NEW w \in Wakes, DropMemory(w) PROVE KeptInv'
  BY <1>22 DEF DropMemory
<1>23. ASSUME NEW w \in Wakes, Unlink(w) PROVE KeptInv'
  BY <1>23 DEF Unlink
<1>24. ASSUME NEW w \in Wakes, ClearPhase(w) PROVE KeptInv'
  BY <1>24 DEF ClearPhase
<1>25. CASE CrashAndRecover
  BY <1>25 DEF CrashAndRecover
<1>26. CASE UNCHANGED vars
  BY <1>26 DEF vars
<1>27. QED
  BY <1>1, <1>2, <1>3, <1>4, <1>5, <1>6, <1>7, <1>8, <1>9, <1>10, <1>11, <1>12, <1>13,
     <1>14, <1>15, <1>16, <1>17, <1>18, <1>19, <1>20, <1>21, <1>22, <1>23, <1>24, <1>25, <1>26
  DEF Next, Turn, Handler

LEMMA StoredStep ==
    ASSUME TypeOK, Carries, Claimed, FromTheTurn, StoredInv, [Next]_vars
    PROVE  StoredInv'
<1> USE DEF TypeOK, Shape, StoredInv, Stored
<1>1. CASE Dispatch
  BY <1>1 DEF Dispatch
<1>2. CASE DispatchFails
  BY <1>2 DEF DispatchFails
<1>3. CASE Accepted
  BY <1>3 DEF Accepted
<1>4. CASE TurnInserts
  BY <1>4, WakesAreNotWriters DEF TurnInserts, FromTheTurn
<1>5. CASE TurnWrites
  BY <1>5 DEF TurnWrites
<1>6. CASE TurnReady
  BY <1>6 DEF TurnReady, FromTheTurn
<1>7. ASSUME NEW w \in Wakes, Claim(w) PROVE StoredInv'
  BY <1>7 DEF Claim
<1>8. ASSUME NEW w \in Wakes, CheckFinal(w) PROVE StoredInv'
  BY <1>8 DEF CheckFinal
<1>9. ASSUME NEW w \in Wakes, LoadMemory(w) PROVE StoredInv'
  BY <1>9 DEF LoadMemory
<1>10. ASSUME NEW w \in Wakes, LoadDisk(w) PROVE StoredInv'
  BY <1>10 DEF LoadDisk
<1>11. ASSUME NEW w \in Wakes, Confirm(w) PROVE StoredInv'
  BY <1>11 DEF Confirm
<1>12. ASSUME NEW w \in Wakes, GiveUp(w) PROVE StoredInv'
  BY <1>12 DEF GiveUp
<1>13. ASSUME NEW w \in Wakes, Merge(w) PROVE StoredInv'
  BY <1>13, WakesAreNotWriters DEF Merge, MergedResult
<1>14. ASSUME NEW w \in Wakes, WriteMerged(w) PROVE StoredInv'
  BY <1>14 DEF WriteMerged, Claimed, FromTheTurn
<1>15. ASSUME NEW w \in Wakes, MergedReady(w) PROVE StoredInv'
  BY <1>15, WakesAreNotWriters DEF MergedReady, Claimed
<1>16. ASSUME NEW w \in Wakes, RunLoop(w) PROVE StoredInv'
  BY <1>16 DEF RunLoop
<1>17. ASSUME NEW w \in Wakes, RunOut(w) PROVE StoredInv'
  BY <1>17 DEF RunOut
<1>18. ASSUME NEW w \in Wakes, PersistReply(w) PROVE StoredInv'
  BY <1>18 DEF PersistReply
<1>19. ASSUME NEW w \in Wakes, MarkFinal(w) PROVE StoredInv'
  BY <1>19 DEF MarkFinal
<1>20. ASSUME NEW w \in Wakes, SendReply(w) PROVE StoredInv'
  BY <1>20 DEF SendReply
<1>21. ASSUME NEW w \in Wakes, Release(w) PROVE StoredInv'
  BY <1>21 DEF Release
<1>22. ASSUME NEW w \in Wakes, DropMemory(w) PROVE StoredInv'
  BY <1>22, WakesAreNotWriters DEF DropMemory
<1>23. ASSUME NEW w \in Wakes, Unlink(w) PROVE StoredInv'
  BY <1>23 DEF Unlink
<1>24. ASSUME NEW w \in Wakes, ClearPhase(w) PROVE StoredInv'
  BY <1>24 DEF ClearPhase
<1>25. CASE CrashAndRecover
  BY <1>25, WakesAreNotWriters DEF CrashAndRecover
<1>26. CASE UNCHANGED vars
  BY <1>26 DEF vars
<1>27. QED
  BY <1>1, <1>2, <1>3, <1>4, <1>5, <1>6, <1>7, <1>8, <1>9, <1>10, <1>11, <1>12, <1>13,
     <1>14, <1>15, <1>16, <1>17, <1>18, <1>19, <1>20, <1>21, <1>22, <1>23, <1>24, <1>25, <1>26
  DEF Next, Turn, Handler

LEMMA StoredKept ==
    ASSUME TypeOK, Carries, Claimed, FromTheTurn, StoredInv, [Next]_vars
    PROVE  KeepsStored
<1> USE DEF TypeOK, Shape, KeepsStored, StoredInv, Stored
<1>1. CASE Dispatch
  BY <1>1 DEF Dispatch, FromTheTurn
<1>2. CASE DispatchFails
  BY <1>2 DEF DispatchFails
<1>3. CASE Accepted
  BY <1>3 DEF Accepted
<1>4. CASE TurnInserts
  BY <1>4 DEF TurnInserts
<1>5. CASE TurnWrites
  BY <1>5 DEF TurnWrites, FromTheTurn
<1>6. CASE TurnReady
  BY <1>6 DEF TurnReady
<1>7. ASSUME NEW w \in Wakes, Claim(w) PROVE KeepsStored
  BY <1>7 DEF Claim
<1>8. ASSUME NEW w \in Wakes, CheckFinal(w) PROVE KeepsStored
  BY <1>8 DEF CheckFinal
<1>9. ASSUME NEW w \in Wakes, LoadMemory(w) PROVE KeepsStored
  BY <1>9 DEF LoadMemory
<1>10. ASSUME NEW w \in Wakes, LoadDisk(w) PROVE KeepsStored
  BY <1>10 DEF LoadDisk
<1>11. ASSUME NEW w \in Wakes, Confirm(w) PROVE KeepsStored
  BY <1>11 DEF Confirm
<1>12. ASSUME NEW w \in Wakes, GiveUp(w) PROVE KeepsStored
  BY <1>12 DEF GiveUp
<1>13. ASSUME NEW w \in Wakes, Merge(w) PROVE KeepsStored
  BY <1>13 DEF Merge, MergedResult
<1>14. ASSUME NEW w \in Wakes, WriteMerged(w) PROVE KeepsStored
  BY <1>14 DEF WriteMerged
<1>15. ASSUME NEW w \in Wakes, MergedReady(w) PROVE KeepsStored
  BY <1>15 DEF MergedReady
<1>16. ASSUME NEW w \in Wakes, RunLoop(w) PROVE KeepsStored
  BY <1>16 DEF RunLoop
<1>17. ASSUME NEW w \in Wakes, RunOut(w) PROVE KeepsStored
  BY <1>17 DEF RunOut
<1>18. ASSUME NEW w \in Wakes, PersistReply(w) PROVE KeepsStored
  BY <1>18 DEF PersistReply
<1>19. ASSUME NEW w \in Wakes, MarkFinal(w) PROVE KeepsStored
  BY <1>19 DEF MarkFinal
<1>20. ASSUME NEW w \in Wakes, SendReply(w) PROVE KeepsStored
  BY <1>20 DEF SendReply
<1>21. ASSUME NEW w \in Wakes, Release(w) PROVE KeepsStored
  BY <1>21 DEF Release
<1>22. ASSUME NEW w \in Wakes, DropMemory(w) PROVE KeepsStored
  BY <1>22 DEF DropMemory
<1>23. ASSUME NEW w \in Wakes, Unlink(w) PROVE KeepsStored
  BY <1>23 DEF Unlink
<1>24. ASSUME NEW w \in Wakes, ClearPhase(w) PROVE KeepsStored
  BY <1>24 DEF ClearPhase
<1>25. CASE CrashAndRecover
  BY <1>25 DEF CrashAndRecover
<1>26. CASE UNCHANGED vars
  BY <1>26 DEF vars
<1>27. QED
  BY <1>1, <1>2, <1>3, <1>4, <1>5, <1>6, <1>7, <1>8, <1>9, <1>10, <1>11, <1>12, <1>13,
     <1>14, <1>15, <1>16, <1>17, <1>18, <1>19, <1>20, <1>21, <1>22, <1>23, <1>24, <1>25, <1>26
  DEF Next, Turn, Handler

(* What the conversation and its result rest on, in every reachable state. *)
THEOREM SnapshotInvariant == Spec => [](KeptInv /\ StoredInv)
<1>1. Init => KeptInv /\ StoredInv
  BY DEF Init, KeptInv, StoredInv, Stored
<1>2. /\ TypeOK /\ Carries /\ ReplyInv /\ KeptInv /\ StoredInv /\ [Next]_vars
      => KeptInv' /\ StoredInv'
  BY KeptStep, StoredStep DEF ReplyInv
<1>3. QED
  BY <1>1, <1>2, CarriesAlways, ReplyInvariant, PTL DEF Spec

(* No handler and no crash deletes the file of a saved conversation before its
   reply is in the session, save the two exceptions SnapshotKept names
   (finish_handling, recover_to_manager).                                  *)
THEOREM SnapshotAlwaysKept == Spec => []SnapshotKept
<1>1. KeptInv => SnapshotKept
  BY DEF KeptInv, SnapshotKept
<1>2. QED
  BY <1>1, SnapshotInvariant, PTL

(* The first result merged into the saved conversation is the one the reply
   rests on, for any number of wake-ups, permits and crashes
   (merge_real_tool_result).                                               *)
THEOREM FirstResultWins == Spec => StoredResultWins
<1>1. TypeOK /\ Carries /\ ReplyInv /\ KeptInv /\ StoredInv /\ [Next]_vars => [KeepsStored]_vars
  BY StoredKept DEF ReplyInv
<1>2. QED
  BY <1>1, CarriesAlways, ReplyInvariant, SnapshotInvariant, PTL DEF Spec, StoredResultWins

-----------------------------------------------------------------------------
(* No wake-up of a saved conversation is wasted.                           *)

(* A reply is in the session, or the LLM had nothing to say. *)
Ended == log # <<>> \/ unmarked

(* A handler that can still come to an end of its own. *)
Carrying == \E w \in Wakes : pc[w] \in {"check", "load", "confirm"} \cup Working

(* Whatever turns a handler away, claim, confirmed phase or a missing file, is
   the work of another that carries the conversation on or has ended it.   *)
TurnedInv ==
    /\ disk.kind = "none" => disk = NoFile /\ (turn \in {"idle", "failed"} \/ Ended)
    /\ phase = "confirmed" => Ended \/ \E w \in Wakes : pc[w] \in Working
    /\ claimed => \E w \in Wakes : pc[w] \in Holding
    /\ \A w \in Wakes : pc[w] # "new" => turn # "idle"
    /\ crashes = 0 => /\ turn # "gone"
                      /\ \A w \in Wakes : pc[w] # "lost"
    /\ crashes = 0 /\ (\E w \in Wakes : pc[w] \in {"giveup", "done"}) =>
          turn = "failed" \/ Ended \/ Carrying

(* The LLM is only asked with a conversation, or with a placeholder into which
   a result was merged; the latter only if the save was slow.              *)
AskedInv ==
    /\ \A w \in Wakes : pc[w] \in {"new", "check", "load"} => ~real[w] /\ res[w] = NoResult
    /\ unmarked => Outwaited \/ \E w \in Wakes : real[w]
    /\ crashes = 0 /\ ~SlowSave /\ turn # "failed" =>
          /\ \A w \in Wakes : ~real[w] => res[w] = NoResult /\ pc[w] \notin {"confirm"} \cup Working
          /\ turn \in {"written", "saved"} => disk.kind # "placeholder"
          /\ mem = NoMem \/ mem.real

(* WokenIsAnswered without its fairness: when no handler runs any more, a
   saved conversation that was woken has its reply, or the LLM was asked with
   it and had nothing to say; claim_handling, try_load_from_disk and
   confirm_continuation never turn away the last one that could have
   continued it.                                                           *)
NotTurnedAway ==
    crashes = 0 /\ turn = "saved" /\ InFlight = {} /\ (\E w \in Wakes : pc[w] # "new") =>
        \/ log # <<>>
        \/ unmarked /\ \E w \in Wakes : real[w]
        \/ SlowSave /\ Outwaited

LEMMA TurnedStep ==
    ASSUME TypeOK, KeptInv, TurnedInv, [Next]_vars
    PROVE  TurnedInv'
<1> USE DEF TypeOK, Shape, TurnedInv, Ended, Carrying
<1>1. CASE Dispatch
  BY <1>1 DEF Dispatch
<1>2. CASE DispatchFails
  BY <1>2 DEF DispatchFails
<1>3. CASE Accepted
  BY <1>3 DEF Accepted
<1>4. CASE TurnInserts
  BY <1>4 DEF TurnInserts
<1>5. CASE TurnWrites
  BY <1>5 DEF TurnWrites
<1>6. CASE TurnReady
  BY <1>6 DEF TurnReady
<1>7. ASSUME NEW w \in Wakes, Claim(w) PROVE TurnedInv'
  BY <1>7 DEF Claim, KeptInv
<1>8. ASSUME NEW w \in Wakes, CheckFinal(w) PROVE TurnedInv'
  BY <1>8 DEF CheckFinal, KeptInv
<1>9. ASSUME NEW w \in Wakes, LoadMemory(w) PROVE TurnedInv'
  BY <1>9 DEF LoadMemory
<1>10. ASSUME NEW w \in Wakes, LoadDisk(w) PROVE TurnedInv'
  BY <1>10 DEF LoadDisk
<1>11. ASSUME NEW w \in Wakes, Confirm(w) PROVE TurnedInv'
  BY <1>11 DEF Confirm
<1>12. ASSUME NEW w \in Wakes, GiveUp(w) PROVE TurnedInv'
  BY <1>12 DEF GiveUp
<1>13. ASSUME NEW w \in Wakes, Merge(w) PROVE TurnedInv'
  BY <1>13 DEF Merge
<1>14. ASSUME NEW w \in Wakes, WriteMerged(w) PROVE TurnedInv'
  BY <1>14 DEF WriteMerged
<1>15. ASSUME NEW w \in Wakes, MergedReady(w) PROVE TurnedInv'
  BY <1>15 DEF MergedReady
<1>16. ASSUME NEW w \in Wakes, RunLoop(w) PROVE TurnedInv'
  BY <1>16 DEF RunLoop
<1>17. ASSUME NEW w \in Wakes, RunOut(w) PROVE TurnedInv'
  BY <1>17 DEF RunOut
<1>18. ASSUME NEW w \in Wakes, PersistReply(w) PROVE TurnedInv'
  BY <1>18 DEF PersistReply
<1>19. ASSUME NEW w \in Wakes, MarkFinal(w) PROVE TurnedInv'
  BY <1>19 DEF MarkFinal, KeptInv
<1>20. ASSUME NEW w \in Wakes, SendReply(w) PROVE TurnedInv'
  BY <1>20 DEF SendReply, KeptInv
<1>21. ASSUME NEW w \in Wakes, Release(w) PROVE TurnedInv'
  BY <1>21 DEF Release, KeptInv
<1>22. ASSUME NEW w \in Wakes, DropMemory(w) PROVE TurnedInv'
  BY <1>22 DEF DropMemory, KeptInv
<1>23. ASSUME NEW w \in Wakes, Unlink(w) PROVE TurnedInv'
  BY <1>23 DEF Unlink, KeptInv
<1>24. ASSUME NEW w \in Wakes, ClearPhase(w) PROVE TurnedInv'
  BY <1>24 DEF ClearPhase, KeptInv
<1>25. CASE CrashAndRecover
  BY <1>25 DEF CrashAndRecover
<1>26. CASE UNCHANGED vars
  BY <1>26 DEF vars
<1>27. QED
  BY <1>1, <1>2, <1>3, <1>4, <1>5, <1>6, <1>7, <1>8, <1>9, <1>10, <1>11, <1>12, <1>13, <1>14,
     <1>15, <1>16, <1>17, <1>18, <1>19, <1>20, <1>21, <1>22, <1>23, <1>24, <1>25, <1>26
  DEF Next, Turn, Handler

LEMMA AskedStep ==
    ASSUME TypeOK, Carries, TurnedInv, AskedInv, [Next]_vars
    PROVE  AskedInv'
<1> USE DEF TypeOK, Shape, AskedInv, Outwaited
<1>1. CASE Dispatch
  BY <1>1 DEF Dispatch
<1>2. CASE DispatchFails
  BY <1>2 DEF DispatchFails
<1>3. CASE Accepted
  BY <1>3 DEF Accepted
<1>4. CASE TurnInserts
  BY <1>4 DEF TurnInserts
<1>5. CASE TurnWrites
  BY <1>5 DEF TurnWrites
<1>6. CASE TurnReady
  <2>1. UNCHANGED <<disk, handler, unmarked, crashes>> /\ turn = "written" /\ turn' = "saved"
    BY <1>6 DEF TurnReady
  <2>2. mem = NoMem \/ mem.real => mem' = NoMem \/ mem'.real
    <3>1. CASE mem.by = "turn"
      BY <1>6, <3>1 DEF TurnReady
    <3>2. CASE mem.by # "turn"
      BY <1>6, <3>2 DEF TurnReady
    <3> QED BY <3>1, <3>2
  <2> QED BY <2>1, <2>2
<1>7. ASSUME NEW w \in Wakes, Claim(w) PROVE AskedInv'
  BY <1>7 DEF Claim
<1>8. ASSUME NEW w \in Wakes, CheckFinal(w) PROVE AskedInv'
  BY <1>8 DEF CheckFinal
<1>9. ASSUME NEW w \in Wakes, LoadMemory(w) PROVE AskedInv'
  BY <1>9 DEF LoadMemory
<1>10. ASSUME NEW w \in Wakes, LoadDisk(w) PROVE AskedInv'
  <2>1. /\ UNCHANGED <<turn, mem, disk, unmarked, crashes>>
        /\ pc[w] = "load" /\ real[w] = FALSE /\ res[w] = NoResult
        /\ pc' = [pc EXCEPT ![w] = IF disk.kind = "none" THEN "giveup" ELSE "confirm"]
        /\ real' = [real EXCEPT ![w] = disk.kind = "real"]
        /\ res' = [res EXCEPT ![w] = disk.res]
    BY <1>10 DEF LoadDisk
  <2>2. unmarked' => Outwaited' \/ \E v \in Wakes : real'[v]
    BY <2>1
  <2>3. ASSUME crashes = 0, ~SlowSave, turn # "failed"
        PROVE  disk.kind = "real" \/ disk = NoFile
    BY <1>10, <2>3 DEF LoadDisk, TurnedInv
  <2>4. ASSUME crashes = 0, ~SlowSave, turn # "failed"
        PROVE  \A v \in Wakes :
                 ~real'[v] => res'[v] = NoResult /\ pc'[v] \notin {"confirm"} \cup Working
    <3>1. CASE disk.kind = "real"
      <4>1. real'[w]
        BY <2>1, <3>1
      <4> QED BY <2>1, <2>4, <4>1
    <3>2. CASE disk = NoFile
      <4>1. pc'[w] = "giveup" /\ res'[w] = NoResult
        BY <2>1, <3>2
      <4> QED BY <2>1, <2>4, <4>1
    <3> QED BY <2>3, <2>4, <3>1, <3>2
  <2> QED BY <2>1, <2>2, <2>4
<1>11. ASSUME NEW w \in Wakes, Confirm(w) PROVE AskedInv'
  BY <1>11 DEF Confirm
<1>12. ASSUME NEW w \in Wakes, GiveUp(w) PROVE AskedInv'
  BY <1>12 DEF GiveUp
<1>13. ASSUME NEW w \in Wakes, Merge(w) PROVE AskedInv'
  BY <1>13 DEF Merge, MergedResult
<1>14. ASSUME NEW w \in Wakes, WriteMerged(w) PROVE AskedInv'
  BY <1>14 DEF WriteMerged
<1>15. ASSUME NEW w \in Wakes, MergedReady(w) PROVE AskedInv'
  <2>1. /\ UNCHANGED <<disk, turn, real, res, unmarked, crashes>>
        /\ pc[w] = "ready" /\ pc' = [pc EXCEPT ![w] = "llm"]
    BY <1>15 DEF MergedReady
  <2>2. mem = NoMem \/ mem.real => mem' = NoMem \/ mem'.real
    <3>1. CASE mem.by = w
      BY <1>15, <3>1, WakesAreNotWriters DEF MergedReady
    <3>2. CASE mem.by # w
      BY <1>15, <3>2 DEF MergedReady
    <3> QED BY <3>1, <3>2
  <2> QED BY <2>1, <2>2
<1>16. ASSUME NEW w \in Wakes, RunLoop(w) PROVE AskedInv'
  BY <1>16 DEF RunLoop, Carries
<1>17. ASSUME NEW w \in Wakes, RunOut(w) PROVE AskedInv'
  BY <1>17 DEF RunOut, Carries
<1>18. ASSUME NEW w \in Wakes, PersistReply(w) PROVE AskedInv'
  BY <1>18 DEF PersistReply
<1>19. ASSUME NEW w \in Wakes, MarkFinal(w) PROVE AskedInv'
  BY <1>19 DEF MarkFinal
<1>20. ASSUME NEW w \in Wakes, SendReply(w) PROVE AskedInv'
  BY <1>20 DEF SendReply
<1>21. ASSUME NEW w \in Wakes, Release(w) PROVE AskedInv'
  BY <1>21 DEF Release
<1>22. ASSUME NEW w \in Wakes, DropMemory(w) PROVE AskedInv'
  BY <1>22 DEF DropMemory
<1>23. ASSUME NEW w \in Wakes, Unlink(w) PROVE AskedInv'
  BY <1>23 DEF Unlink
<1>24. ASSUME NEW w \in Wakes, ClearPhase(w) PROVE AskedInv'
  BY <1>24 DEF ClearPhase
<1>25. CASE CrashAndRecover
  BY <1>25, ContinuationBounds DEF CrashAndRecover
<1>26. CASE UNCHANGED vars
  BY <1>26 DEF vars
<1>27. QED
  BY <1>1, <1>2, <1>3, <1>4, <1>5, <1>6, <1>7, <1>8, <1>9, <1>10, <1>11, <1>12, <1>13, <1>14,
     <1>15, <1>16, <1>17, <1>18, <1>19, <1>20, <1>21, <1>22, <1>23, <1>24, <1>25, <1>26
  DEF Next, Turn, Handler

(* Without a crash, for any number of wake-ups and permits: the gates of
   handle_cluster_continuation do not send every wake-up away.             *)
THEOREM NoWakeUpWasted == Spec => []NotTurnedAway
<1>1. Init => TurnedInv /\ AskedInv
  BY DEF Init, TurnedInv, AskedInv, Outwaited
<1>2. /\ TypeOK /\ Carries /\ KeptInv /\ TurnedInv /\ AskedInv /\ [Next]_vars
      => TurnedInv' /\ AskedInv'
  BY TurnedStep, AskedStep
<1>3. TypeOK /\ TurnedInv /\ AskedInv => NotTurnedAway
  <2> SUFFICES ASSUME TypeOK, TurnedInv, AskedInv, crashes = 0, turn = "saved", InFlight = {},
                      NEW v \in Wakes, pc[v] # "new"
               PROVE  \/ log # <<>>
                      \/ unmarked /\ \E w \in Wakes : real[w]
                      \/ SlowSave /\ Outwaited
    BY DEF NotTurnedAway
  <2>1. \A w \in Wakes : pc[w] \notin Running
    BY DEF InFlight
  <2>2. pc[v] = "done"
    BY <2>1 DEF TypeOK, Shape, TurnedInv
  <2>3. Ended
    BY <2>1, <2>2 DEF TurnedInv, Carrying
  <2>4. Outwaited => SlowSave
    BY DEF AskedInv, Outwaited
  <2> QED
    BY <2>3, <2>4 DEF Ended, AskedInv
<1>4. QED
  BY <1>1, <1>2, <1>3, CarriesAlways, SnapshotInvariant, PTL DEF Spec
=============================================================================
