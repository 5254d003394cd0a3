------------------------ MODULE BoardDispatchProofs ------------------------
(* Machine-checked proofs about BoardDispatch, for any number of dispatch
   attempts, retries, restarts and interventions.                           *)
EXTENDS BoardDispatch, TLAPS

(* A dispatch attempt has no row before it has claimed one, ... *)
NoRowYet == \A t \in Tasks : pc[t] \in {"free", "entering", "gated"} => row[t] = "none"

(* ... its row is untouched until it is sent, but for a cancellation, ... *)
ClaimHolds ==
    \A t \in Tasks : pc[t] \in {"claimed", "refused"} => row[t] \in {"dispatched", "cancelled"}

(* ... and only what was sent can be with a worker, or be reported. *)
HasIsSent == \A t \in has : pc[t] \in {"calling", "failing", "rolling", "marking", "over"}

ReportedHad == reported \subseteq has

(* Somebody will still see to an issue in progress: the dispatch in flight that
   moved it there, the roll-back of a failed send, or a write-back.  A dispatch
   that found it there and is about to be refused will not.                 *)
Responsible(t) ==
    \/ Active(t) /\ pc[t] # "refused" /\ (pc[t] = "claimed" => snap[t] = "in_progress")
    \/ pc[t] \in {"failing", "rolling", "marking"}
    \/ then[t] = "report"

Watched ==
    /\ status = "in_progress" /\ mover = "system" /\ crashes = 0 /\ sys = "none"
    /\ \A t \in Tasks : row[t] # "cancelled"
    => \E t \in Tasks : Responsible(t)

(* A mark that counts belongs to the last row, and its worker never had it. *)
MarkIsTrue ==
    /\ sys = "mark" /\ fresh /\ ~stray
    /\ rows # <<>> /\ row[rows[Len(rows)]] = "failed"
    => rows[Len(rows)] \notin reported

RowInv == NoRowYet /\ ClaimHolds /\ HasIsSent /\ ReportedHad

-----------------------------------------------------------------------------
LEMMA ShapeInit == Init => Shape
  BY Bounds DEF Init, Shape, Statuses, RowStates, Places, Callers

(* Every step keeps the shape of the state. *)
LEMMA ShapeStep == Shape /\ [Next]_vars => Shape'
<1> SUFFICES ASSUME Shape, [Next]_vars PROVE Shape'
  OBVIOUS
<1> USE DEF Shape, Statuses, RowStates, Places, Callers, Active, issue, ledger, thread,
      attempt, settling, review, outside
<1>1. ASSUME NEW t \in Tasks, DispatchByHand(t) PROVE Shape'
  BY <1>1, Bounds DEF DispatchByHand, Through, Fresh, Gate, FromOutside
<1>2. ASSUME NEW t \in Tasks, DispatchAuto(t) PROVE Shape'
  BY <1>2, Bounds DEF DispatchAuto, Through, Fresh, Gate
<1>3. ASSUME NEW t \in Tasks, RetrySend(t) PROVE Shape'
  BY <1>3, Bounds DEF RetrySend, Through, Fresh, Gate
<1>4. ASSUME NEW t \in Tasks, RebalanceList(t) PROVE Shape'
  BY <1>4, Bounds DEF RebalanceList, FromOutside
<1>5. ASSUME NEW t \in Tasks, RebalanceMove(t) PROVE Shape'
  BY <1>5, Bounds DEF RebalanceMove, FinishDispatch, Call, Fresh
<1>6. ASSUME NEW t \in Tasks, RebalanceRefused(t) PROVE Shape'
  BY <1>6, Bounds DEF RebalanceRefused, Leave, SystemComment
<1>7. ASSUME NEW t \in Tasks, EnterCore(t) PROVE Shape'
  BY <1>7, Bounds DEF EnterCore, Gate, Abort, Leave, Goto
<1>8. ASSUME NEW t \in Tasks, BaselineFails(t) PROVE Shape'
  BY SMTT(30), <1>8, Bounds DEF BaselineFails, FromOutside, Abort, Leave, Goto, SystemComment
<1>9. ASSUME NEW t \in Tasks, TryClaimDispatch(t) PROVE Shape'
  <2>1. /\ pc' \in [Tasks -> Places] /\ snap' \in [Tasks -> Statuses]
        /\ src' \in [Tasks -> Callers]
    BY <1>9 DEF TryClaimDispatch, Goto, Abort, Leave
  <2>2. row' \in [Tasks -> RowStates]
    BY <1>9 DEF TryClaimDispatch
  <2>3. rows' \in Seq(Tasks)
    <3>1. CASE rows' = Append(rows, t)
      BY <3>1
    <3>2. CASE rows' = rows
      BY <3>2
    <3> QED
      BY <1>9, <3>1, <3>2 DEF TryClaimDispatch
  <2>4. UNCHANGED <<issue, thread, settling, review, outside, crashes>>
    BY <1>9 DEF TryClaimDispatch
  <2> QED
    BY <2>1, <2>2, <2>3, <2>4
<1>10. ASSUME NEW t \in Tasks, Advance(t) PROVE Shape'
  BY <1>10, Bounds DEF Advance, Sent, Goto, SystemComment, TransitionIssue
<1>11. ASSUME NEW t \in Tasks, Refuse(t) PROVE Shape'
  <2>1. /\ pc' \in [Tasks -> Places] /\ snap' \in [Tasks -> Statuses]
        /\ src' \in [Tasks -> Callers]
    BY <1>11 DEF Refuse, Goto, Abort, Leave
  <2>2. row' \in [Tasks -> RowStates]
    BY <1>11 DEF Refuse, FinishDispatch
  <2>3. UNCHANGED <<issue, rows, sys, marks, settling, review, outside, crashes>>
    BY <1>11 DEF Refuse
  <2> QED
    BY <2>1, <2>2, <2>3
<1>12. ASSUME NEW t \in Tasks, WorkerAccepts(t) PROVE Shape'
  BY <1>12, Bounds DEF WorkerAccepts
<1>13. ASSUME NEW t \in Tasks, RpcAcked(t) PROVE Shape'
  BY <1>13, Bounds DEF RpcAcked, Leave
<1>14. ASSUME NEW t \in Tasks, RpcFails(t) PROVE Shape'
  BY <1>14, Bounds DEF RpcFails, Goto
<1>15. ASSUME NEW t \in Tasks, SendFailed(t) PROVE Shape'
  BY <1>15, Bounds DEF SendFailed, FinishDispatch, Goto
<1>16. ASSUME NEW t \in Tasks, RollbackDispatchFailure(t) PROVE Shape'
  BY <1>16, Bounds DEF RollbackDispatchFailure, Goto
<1>17. ASSUME NEW t \in Tasks, MarkSendFailure(t) PROVE Shape'
  BY <1>17, Bounds DEF MarkSendFailure, Leave, SystemComment
<1>18. ASSUME NEW t \in Tasks, TaskStarted(t) PROVE Shape'
  BY <1>18, Bounds DEF TaskStarted
<1>19. ASSUME NEW t \in Tasks, WriteBackIssue(t) PROVE Shape'
  BY <1>19, Bounds DEF WriteBackIssue, Reflow, TransitionIssue
<1>20. ASSUME NEW t \in Tasks, NEW outcome \in {"done", "failed"}, WriteBack(t, outcome)
       PROVE  Shape'
  BY <1>20, Bounds DEF WriteBack, FinishDispatch
<1>21. ASSUME NEW t \in Tasks, SweepTimeout(t) PROVE Shape'
  BY <1>21, Bounds DEF SweepTimeout, Overdue, SystemComment
<1>22. ASSUME NEW t \in Tasks, SweepReflow(t) PROVE Shape'
  BY <1>22, Bounds DEF SweepReflow, Swept, Reflow, TransitionIssue
<1>23. ASSUME NEW t \in Tasks, SweepFreeze(t) PROVE Shape'
  BY <1>23, Bounds DEF SweepFreeze, Swept, SystemComment
<1>24. ASSUME NEW t \in Tasks, SweepRefused(t) PROVE Shape'
  BY <1>24, Bounds DEF SweepRefused, Leave, SystemComment, Reflow, TransitionIssue
<1>25. ASSUME NEW t \in Tasks, NEW u \in Tasks, SweepRedispatch(t, u) PROVE Shape'
  BY <1>25, Bounds DEF SweepRedispatch, Swept, Call, Fresh
<1>26. ASSUME NEW t \in Tasks, ReviewStart(t) PROVE Shape'
  BY <1>26, Bounds DEF ReviewStart
<1>27. ASSUME NEW t \in Tasks, NEW verdict \in {"pass", "fail", "over"}, ReviewVerdict(t, verdict)
       PROVE  Shape'
  BY <1>27, Bounds DEF ReviewVerdict
<1>28. ASSUME NEW t \in Tasks, ReviewAccept(t) PROVE Shape'
  BY <1>28, Bounds DEF ReviewAccept, ReviewOver, TransitionIssue
<1>29. ASSUME NEW t \in Tasks, ReviewGivesWay(t) PROVE Shape'
  BY <1>29, Bounds DEF ReviewGivesWay, ReviewOver
<1>30. ASSUME NEW t \in Tasks, ReviewStops(t) PROVE Shape'
  BY <1>30, Bounds DEF ReviewStops, ReviewOver, SystemComment
<1>31. ASSUME NEW t \in Tasks, ReviewRefused(t) PROVE Shape'
  BY <1>31, Bounds DEF ReviewRefused, Leave, SystemComment
<1>32. ASSUME NEW t \in Tasks, NEW u \in Tasks, ReviewRedispatch(t, u) PROVE Shape'
  BY <1>32, Bounds DEF ReviewRedispatch, ReviewOver, Call, Fresh
<1>33. ASSUME NEW to \in Statuses, MoveByHand(to) PROVE Shape'
  BY <1>33, Bounds DEF MoveByHand, FromOutside, TransitionIssue
<1>34. CASE CancelReads
  BY <1>34, Bounds DEF CancelReads, FromOutside
<1>35. CASE CancelRow
  BY <1>35, Bounds DEF CancelRow, FinishDispatch
<1>36. CASE CancelIssue
  BY <1>36, Bounds DEF CancelIssue, TransitionIssue
<1>37. ASSUME NEW t \in Tasks, CancelDispatch(t) PROVE Shape'
  BY <1>37, Bounds DEF CancelDispatch, FromOutside, SystemComment
<1>38. CASE Park
  BY <1>38, Bounds DEF Park, FromOutside, SystemComment
<1>39. CASE GiveUpSend
  BY <1>39, Bounds DEF GiveUpSend, SystemComment
<1>40. CASE Restart
  BY <1>40, Bounds DEF Restart
<1>41. CASE UNCHANGED vars
  BY <1>41 DEF vars
<1>42. ASSUME NEW t \in Tasks, SweepHolds(t) PROVE Shape'
  BY <1>42, Bounds DEF SweepHolds, Overdue, SystemComment
<1>43. ASSUME NEW t \in Tasks, ReviewSuspends(t) PROVE Shape'
  BY <1>43, Bounds DEF ReviewSuspends
<1>44. ASSUME NEW t \in Tasks, ReviewDrops(t) PROVE Shape'
  BY <1>44, Bounds DEF ReviewDrops
<1>45. ASSUME NEW t \in Tasks, ReviewResumes(t) PROVE Shape'
  BY <1>45, Bounds DEF ReviewResumes, FromOutside
<1>46. CASE NodeFills
  BY <1>46, Bounds DEF NodeFills, FromOutside
<1>47. CASE NodeFrees
  BY <1>47, Bounds DEF NodeFrees
<1> QED
  BY <1>1, <1>2, <1>3, <1>4, <1>5, <1>6, <1>7, <1>8, <1>9, <1>10, <1>11, <1>12, <1>13,
     <1>14, <1>15, <1>16, <1>17, <1>18, <1>19, <1>20, <1>21, <1>22, <1>23, <1>24, <1>25,
     <1>26, <1>27, <1>28, <1>29, <1>30, <1>31, <1>32, <1>33, <1>34, <1>35, <1>36, <1>37,
     <1>38, <1>39, <1>40, <1>41, <1>42, <1>43, <1>44, <1>45, <1>46, <1>47
     DEF Next, Dispatching, Sending, Answering, Sweeping, Reviewing, ByHand

(* The claim is the only step that opens a row, and it looks first. *)
LEMMA OneActiveStep == Shape /\ OneActive /\ [Next]_vars => OneActive'
<1> SUFFICES ASSUME Shape, OneActive, [Next]_vars PROVE OneActive'
  OBVIOUS
<1> USE DEF Shape, OneActive, HasActive, Active, issue, ledger, thread, attempt,
      settling, review, outside
<1>1. ASSUME NEW t \in Tasks, DispatchByHand(t) PROVE OneActive'
  BY <1>1 DEF DispatchByHand, Through, Fresh, Gate, FromOutside
<1>2. ASSUME NEW t \in Tasks, DispatchAuto(t) PROVE OneActive'
  BY <1>2 DEF DispatchAuto, Through, Fresh, Gate
<1>3. ASSUME NEW t \in Tasks, RetrySend(t) PROVE OneActive'
  BY <1>3 DEF RetrySend, Through, Fresh, Gate
<1>4. ASSUME NEW t \in Tasks, RebalanceList(t) PROVE OneActive'
  BY <1>4 DEF RebalanceList, FromOutside
<1>5. ASSUME NEW t \in Tasks, RebalanceMove(t) PROVE OneActive'
  BY <1>5 DEF RebalanceMove, FinishDispatch, Call, Fresh
<1>6. ASSUME NEW t \in Tasks, RebalanceRefused(t) PROVE OneActive'
  BY <1>6 DEF RebalanceRefused, Leave, SystemComment
<1>7. ASSUME NEW t \in Tasks, EnterCore(t) PROVE OneActive'
  BY <1>7 DEF EnterCore, Gate, Abort, Leave, Goto
<1>8. ASSUME NEW t \in Tasks, BaselineFails(t) PROVE OneActive'
  BY <1>8 DEF BaselineFails, FromOutside, Abort, Leave, Goto, SystemComment
<1>9. ASSUME NEW t \in Tasks, TryClaimDispatch(t) PROVE OneActive'
  BY <1>9 DEF TryClaimDispatch, Goto, Abort, Leave
<1>10. ASSUME NEW t \in Tasks, Advance(t) PROVE OneActive'
  BY <1>10 DEF Advance, Sent, Goto, SystemComment, TransitionIssue
<1>11. ASSUME NEW t \in Tasks, Refuse(t) PROVE OneActive'
  BY <1>11 DEF Refuse, FinishDispatch, Abort, Leave, Goto
<1>12. ASSUME NEW t \in Tasks, WorkerAccepts(t) PROVE OneActive'
  BY <1>12 DEF WorkerAccepts
<1>13. ASSUME NEW t \in Tasks, RpcAcked(t) PROVE OneActive'
  BY <1>13 DEF RpcAcked, Leave
<1>14. ASSUME NEW t \in Tasks, RpcFails(t) PROVE OneActive'
  BY <1>14 DEF RpcFails, Goto
<1>15. ASSUME NEW t \in Tasks, SendFailed(t) PROVE OneActive'
  BY <1>15 DEF SendFailed, FinishDispatch, Goto
<1>16. ASSUME NEW t \in Tasks, RollbackDispatchFailure(t) PROVE OneActive'
  BY <1>16 DEF RollbackDispatchFailure, Goto
<1>17. ASSUME NEW t \in Tasks, MarkSendFailure(t) PROVE OneActive'
  BY <1>17 DEF MarkSendFailure, Leave, SystemComment
<1>18. ASSUME NEW t \in Tasks, TaskStarted(t) PROVE OneActive'
  BY <1>18 DEF TaskStarted
<1>19. ASSUME NEW t \in Tasks, WriteBackIssue(t) PROVE OneActive'
  BY <1>19 DEF WriteBackIssue, Reflow, TransitionIssue
<1>20. ASSUME NEW t \in Tasks, NEW outcome \in {"done", "failed"}, WriteBack(t, outcome)
       PROVE  OneActive'
  BY <1>20 DEF WriteBack, FinishDispatch
<1>21. ASSUME NEW t \in Tasks, SweepTimeout(t) PROVE OneActive'
  BY <1>21 DEF SweepTimeout, Overdue, SystemComment
<1>22. ASSUME NEW t \in Tasks, SweepReflow(t) PROVE OneActive'
  BY <1>22 DEF SweepReflow, Swept, Reflow, TransitionIssue
<1>23. ASSUME NEW t \in Tasks, SweepFreeze(t) PROVE OneActive'
  BY <1>23 DEF SweepFreeze, Swept, SystemComment
<1>24. ASSUME NEW t \in Tasks, SweepRefused(t) PROVE OneActive'
  BY <1>24 DEF SweepRefused, Leave, SystemComment, Reflow, TransitionIssue
<1>25. ASSUME NEW t \in Tasks, NEW u \in Tasks, SweepRedispatch(t, u) PROVE OneActive'
  BY <1>25 DEF SweepRedispatch, Swept, Call, Fresh
<1>26. ASSUME NEW t \in Tasks, ReviewStart(t) PROVE OneActive'
  BY <1>26 DEF ReviewStart
<1>27. ASSUME NEW t \in Tasks, NEW verdict \in {"pass", "fail", "over"}, ReviewVerdict(t, verdict)
       PROVE  OneActive'
  BY <1>27 DEF ReviewVerdict
<1>28. ASSUME NEW t \in Tasks, ReviewAccept(t) PROVE OneActive'
  BY <1>28 DEF ReviewAccept, ReviewOver, TransitionIssue
<1>29. ASSUME NEW t \in Tasks, ReviewGivesWay(t) PROVE OneActive'
  BY <1>29 DEF ReviewGivesWay, ReviewOver
<1>30. ASSUME NEW t \in Tasks, ReviewStops(t) PROVE OneActive'
  BY <1>30 DEF ReviewStops, ReviewOver, SystemComment
<1>31. ASSUME NEW t \in Tasks, ReviewRefused(t) PROVE OneActive'
  BY <1>31 DEF ReviewRefused, Leave, SystemComment
<1>32. ASSUME NEW t \in Tasks, NEW u \in Tasks, ReviewRedispatch(t, u) PROVE OneActive'
  BY <1>32 DEF ReviewRedispatch, ReviewOver, Call, Fresh
<1>33. ASSUME NEW to \in Statuses, MoveByHand(to) PROVE OneActive'
  BY <1>33 DEF MoveByHand, FromOutside, TransitionIssue
<1>34. CASE CancelReads
  BY <1>34 DEF CancelReads, FromOutside
<1>35. CASE CancelRow
  BY <1>35 DEF CancelRow, FinishDispatch
<1>36. CASE CancelIssue
  BY <1>36 DEF CancelIssue, TransitionIssue
<1>37. ASSUME NEW t \in Tasks, CancelDispatch(t) PROVE OneActive'
  BY <1>37 DEF CancelDispatch, FromOutside, SystemComment
<1>38. CASE Park
  BY <1>38 DEF Park, FromOutside, SystemComment
<1>39. CASE GiveUpSend
  BY <1>39 DEF GiveUpSend, SystemComment
<1>40. CASE Restart
  BY <1>40 DEF Restart
<1>41. CASE UNCHANGED vars
  BY <1>41 DEF vars
<1>42. ASSUME NEW t \in Tasks, SweepHolds(t) PROVE OneActive'
  BY <1>42 DEF SweepHolds, Overdue, SystemComment
<1>43. ASSUME NEW t \in Tasks, ReviewSuspends(t) PROVE OneActive'
  BY <1>43 DEF ReviewSuspends
<1>44. ASSUME NEW t \in Tasks, ReviewDrops(t) PROVE OneActive'
  BY <1>44 DEF ReviewDrops
<1>45. ASSUME NEW t \in Tasks, ReviewResumes(t) PROVE OneActive'
  BY <1>45 DEF ReviewResumes, FromOutside
<1>46. CASE NodeFills
  BY <1>46 DEF NodeFills, FromOutside
<1>47. CASE NodeFrees
  BY <1>47 DEF NodeFrees
<1> QED
  BY <1>1, <1>2, <1>3, <1>4, <1>5, <1>6, <1>7, <1>8, <1>9, <1>10, <1>11, <1>12, <1>13,
     <1>14, <1>15, <1>16, <1>17, <1>18, <1>19, <1>20, <1>21, <1>22, <1>23, <1>24, <1>25,
     <1>26, <1>27, <1>28, <1>29, <1>30, <1>31, <1>32, <1>33, <1>34, <1>35, <1>36, <1>37,
     <1>38, <1>39, <1>40, <1>41, <1>42, <1>43, <1>44, <1>45, <1>46, <1>47
     DEF Next, Dispatching, Sending, Answering, Sweeping, Reviewing, ByHand

(* The row follows the attempt. *)
LEMMA RowStep == Shape /\ RowInv /\ [Next]_vars => RowInv'
<1> SUFFICES ASSUME Shape, RowInv, [Next]_vars PROVE RowInv'
  OBVIOUS
<1> USE DEF Shape, RowInv, NoRowYet, ClaimHolds, HasIsSent, ReportedHad, Active, issue,
      ledger, thread, attempt, settling, review, outside
<1>1. ASSUME NEW t \in Tasks, DispatchByHand(t) PROVE RowInv'
  BY <1>1 DEF DispatchByHand, Through, Fresh, Gate, FromOutside
<1>2. ASSUME NEW t \in Tasks, DispatchAuto(t) PROVE RowInv'
  BY <1>2 DEF DispatchAuto, Through, Fresh, Gate
<1>3. ASSUME NEW t \in Tasks, RetrySend(t) PROVE RowInv'
  BY <1>3 DEF RetrySend, Through, Fresh, Gate
<1>4. ASSUME NEW t \in Tasks, RebalanceList(t) PROVE RowInv'
  BY <1>4 DEF RebalanceList, FromOutside
<1>5. ASSUME NEW t \in Tasks, RebalanceMove(t) PROVE RowInv'
  BY <1>5 DEF RebalanceMove, FinishDispatch, Call, Fresh
<1>6. ASSUME NEW t \in Tasks, RebalanceRefused(t) PROVE RowInv'
  BY <1>6 DEF RebalanceRefused, Leave, SystemComment
<1>7. ASSUME NEW t \in Tasks, EnterCore(t) PROVE RowInv'
  BY <1>7 DEF EnterCore, Gate, Abort, Leave, Goto
<1>8. ASSUME NEW t \in Tasks, BaselineFails(t) PROVE RowInv'
  BY <1>8 DEF BaselineFails, FromOutside, Abort, Leave, Goto, SystemComment
<1>9. ASSUME NEW t \in Tasks, TryClaimDispatch(t) PROVE RowInv'
  <2>1. CASE HasActive
    BY <1>9, <2>1 DEF TryClaimDispatch, Goto, Abort, Leave
  <2>2. CASE ~HasActive
    <3>1. /\ pc[t] = "gated" /\ pc' = [pc EXCEPT ![t] = "claimed"]
          /\ row' = [row EXCEPT ![t] = "dispatched"] /\ UNCHANGED <<has, reported>>
      BY <1>9, <2>2 DEF TryClaimDispatch, Goto
    <3> QED BY <3>1
  <2> QED BY <2>1, <2>2
<1>10. ASSUME NEW t \in Tasks, Advance(t) PROVE RowInv'
  BY <1>10 DEF Advance, Sent, Goto, SystemComment, TransitionIssue
<1>11. ASSUME NEW t \in Tasks, Refuse(t) PROVE RowInv'
  BY <1>11 DEF Refuse, FinishDispatch, Abort, Leave, Goto
<1>12. ASSUME NEW t \in Tasks, WorkerAccepts(t) PROVE RowInv'
  BY <1>12 DEF WorkerAccepts
<1>13. ASSUME NEW t \in Tasks, RpcAcked(t) PROVE RowInv'
  BY <1>13 DEF RpcAcked, Leave
<1>14. ASSUME NEW t \in Tasks, RpcFails(t) PROVE RowInv'
  BY <1>14 DEF RpcFails, Goto
<1>15. ASSUME NEW t \in Tasks, SendFailed(t) PROVE RowInv'
  BY <1>15 DEF SendFailed, FinishDispatch, Goto
<1>16. ASSUME NEW t \in Tasks, RollbackDispatchFailure(t) PROVE RowInv'
  BY <1>16 DEF RollbackDispatchFailure, Goto
<1>17. ASSUME NEW t \in Tasks, MarkSendFailure(t) PROVE RowInv'
  BY <1>17 DEF MarkSendFailure, Leave, SystemComment
<1>18. ASSUME NEW t \in Tasks, TaskStarted(t) PROVE RowInv'
  BY <1>18 DEF TaskStarted
<1>19. ASSUME NEW t \in Tasks, WriteBackIssue(t) PROVE RowInv'
  BY <1>19 DEF WriteBackIssue, Reflow, TransitionIssue
<1>20. ASSUME NEW t \in Tasks, NEW outcome \in {"done", "failed"}, WriteBack(t, outcome)
       PROVE  RowInv'
  BY <1>20 DEF WriteBack, FinishDispatch
<1>21. ASSUME NEW t \in Tasks, SweepTimeout(t) PROVE RowInv'
  BY <1>21 DEF SweepTimeout, Overdue, SystemComment
<1>22. ASSUME NEW t \in Tasks, SweepReflow(t) PROVE RowInv'
  BY <1>22 DEF SweepReflow, Swept, Reflow, TransitionIssue
<1>23. ASSUME NEW t \in Tasks, SweepFreeze(t) PROVE RowInv'
  BY <1>23 DEF SweepFreeze, Swept, SystemComment
<1>24. ASSUME NEW t \in Tasks, SweepRefused(t) PROVE RowInv'
  BY <1>24 DEF SweepRefused, Leave, SystemComment, Reflow, TransitionIssue
<1>25. ASSUME NEW t \in Tasks, NEW u \in Tasks, SweepRedispatch(t, u) PROVE RowInv'
  BY <1>25 DEF SweepRedispatch, Swept, Call, Fresh
<1>26. ASSUME NEW t \in Tasks, ReviewStart(t) PROVE RowInv'
  BY <1>26 DEF ReviewStart
<1>27. ASSUME NEW t \in Tasks, NEW verdict \in {"pass", "fail", "over"}, ReviewVerdict(t, verdict)
       PROVE  RowInv'
  BY <1>27 DEF ReviewVerdict
<1>28. ASSUME NEW t \in Tasks, ReviewAccept(t) PROVE RowInv'
  BY <1>28 DEF ReviewAccept, ReviewOver, TransitionIssue
<1>29. ASSUME NEW t \in Tasks, ReviewGivesWay(t) PROVE RowInv'
  BY <1>29 DEF ReviewGivesWay, ReviewOver
<1>30. ASSUME NEW t \in Tasks, ReviewStops(t) PROVE RowInv'
  BY <1>30 DEF ReviewStops, ReviewOver, SystemComment
<1>31. ASSUME NEW t \in Tasks, ReviewRefused(t) PROVE RowInv'
  BY <1>31 DEF ReviewRefused, Leave, SystemComment
<1>32. ASSUME NEW t \in Tasks, NEW u \in Tasks, ReviewRedispatch(t, u) PROVE RowInv'
  BY <1>32 DEF ReviewRedispatch, ReviewOver, Call, Fresh
<1>33. ASSUME NEW to \in Statuses, MoveByHand(to) PROVE RowInv'
  BY <1>33 DEF MoveByHand, FromOutside, TransitionIssue
<1>34. CASE CancelReads
  BY <1>34 DEF CancelReads, FromOutside
<1>35. CASE CancelRow
  BY <1>35 DEF CancelRow, FinishDispatch
<1>36. CASE CancelIssue
  BY <1>36 DEF CancelIssue, TransitionIssue
<1>37. ASSUME NEW t \in Tasks, CancelDispatch(t) PROVE RowInv'
  BY <1>37 DEF CancelDispatch, FromOutside, SystemComment
<1>38. CASE Park
  BY <1>38 DEF Park, FromOutside, SystemComment
<1>39. CASE GiveUpSend
  BY <1>39 DEF GiveUpSend, SystemComment
<1>40. CASE Restart
  BY <1>40 DEF Restart
<1>41. CASE UNCHANGED vars
  BY <1>41 DEF vars
<1>42. ASSUME NEW t \in Tasks, SweepHolds(t) PROVE RowInv'
  BY <1>42 DEF SweepHolds, Overdue, SystemComment
<1>43. ASSUME NEW t \in Tasks, ReviewSuspends(t) PROVE RowInv'
  BY <1>43 DEF ReviewSuspends
<1>44. ASSUME NEW t \in Tasks, ReviewDrops(t) PROVE RowInv'
  BY <1>44 DEF ReviewDrops
<1>45. ASSUME NEW t \in Tasks, ReviewResumes(t) PROVE RowInv'
  BY <1>45 DEF ReviewResumes, FromOutside
<1>46. CASE NodeFills
  BY <1>46 DEF NodeFills, FromOutside
<1>47. CASE NodeFrees
  BY <1>47 DEF NodeFrees
<1> QED
  BY <1>1, <1>2, <1>3, <1>4, <1>5, <1>6, <1>7, <1>8, <1>9, <1>10, <1>11, <1>12, <1>13,
     <1>14, <1>15, <1>16, <1>17, <1>18, <1>19, <1>20, <1>21, <1>22, <1>23, <1>24, <1>25,
     <1>26, <1>27, <1>28, <1>29, <1>30, <1>31, <1>32, <1>33, <1>34, <1>35, <1>36, <1>37,
     <1>38, <1>39, <1>40, <1>41, <1>42, <1>43, <1>44, <1>45, <1>46, <1>47
     DEF Next, Dispatching, Sending, Answering, Sweeping, Reviewing, ByHand

(* An issue in progress passes from one responsible hand to the next. *)
LEMMA WatchedStep == Shape /\ RowInv /\ Watched /\ [Next]_vars => Watched'
<1> SUFFICES ASSUME Shape, RowInv, Watched, [Next]_vars PROVE Watched'
  OBVIOUS
<1> USE DEF Shape, RowInv, NoRowYet, ClaimHolds, HasIsSent, Watched, Responsible,
      Active, issue, ledger, thread, attempt, settling, review, outside
<1>1. ASSUME NEW t \in Tasks, DispatchByHand(t) PROVE Watched'
  BY <1>1 DEF DispatchByHand, Through, Fresh, Gate, FromOutside
<1>2. ASSUME NEW t \in Tasks, DispatchAuto(t) PROVE Watched'
  BY <1>2 DEF DispatchAuto, Through, Fresh, Gate
<1>3. ASSUME NEW t \in Tasks, RetrySend(t) PROVE Watched'
  BY <1>3 DEF RetrySend, Through, Fresh, Gate
<1>4. ASSUME NEW t \in Tasks, RebalanceList(t) PROVE Watched'
  BY <1>4 DEF RebalanceList, FromOutside
<1>5. ASSUME NEW t \in Tasks, RebalanceMove(t) PROVE Watched'
  BY <1>5 DEF RebalanceMove, FinishDispatch, Call, Fresh
<1>6. ASSUME NEW t \in Tasks, RebalanceRefused(t) PROVE Watched'
  BY <1>6 DEF RebalanceRefused, Leave, SystemComment
<1>7. ASSUME NEW t \in Tasks, EnterCore(t) PROVE Watched'
  BY <1>7 DEF EnterCore, Gate, Abort, Leave, Goto
<1>8. ASSUME NEW t \in Tasks, BaselineFails(t) PROVE Watched'
  BY <1>8 DEF BaselineFails, FromOutside, Abort, Leave, Goto, SystemComment
<1>9. ASSUME NEW t \in Tasks, TryClaimDispatch(t) PROVE Watched'
  <2>1. UNCHANGED <<status, mover, crashes, sys, then>>
    BY <1>9 DEF TryClaimDispatch
  <2>2. CASE HasActive
    BY <1>9, <2>1, <2>2 DEF TryClaimDispatch, Goto, Abort, Leave
  <2>3. CASE ~HasActive
    BY <1>9, <2>1, <2>3 DEF TryClaimDispatch, Goto, HasActive
  <2> QED BY <2>2, <2>3
<1>10. ASSUME NEW t \in Tasks, Advance(t) PROVE Watched'
  BY <1>10 DEF Advance, Sent, Goto, SystemComment, TransitionIssue
<1>11. ASSUME NEW t \in Tasks, Refuse(t) PROVE Watched'
  BY <1>11 DEF Refuse, FinishDispatch, Abort, Leave, Goto
<1>12. ASSUME NEW t \in Tasks, WorkerAccepts(t) PROVE Watched'
  BY <1>12 DEF WorkerAccepts
<1>13. ASSUME NEW t \in Tasks, RpcAcked(t) PROVE Watched'
  BY <1>13 DEF RpcAcked, Leave
<1>14. ASSUME NEW t \in Tasks, RpcFails(t) PROVE Watched'
  BY <1>14 DEF RpcFails, Goto
<1>15. ASSUME NEW t \in Tasks, SendFailed(t) PROVE Watched'
  BY <1>15 DEF SendFailed, FinishDispatch, Goto
<1>16. ASSUME NEW t \in Tasks, RollbackDispatchFailure(t) PROVE Watched'
  BY <1>16 DEF RollbackDispatchFailure, Goto
<1>17. ASSUME NEW t \in Tasks, MarkSendFailure(t) PROVE Watched'
  BY <1>17 DEF MarkSendFailure, Leave, SystemComment
<1>18. ASSUME NEW t \in Tasks, TaskStarted(t) PROVE Watched'
  BY <1>18 DEF TaskStarted
<1>19. ASSUME NEW t \in Tasks, WriteBackIssue(t) PROVE Watched'
  BY <1>19 DEF WriteBackIssue, Reflow, TransitionIssue
<1>20. ASSUME NEW t \in Tasks, NEW outcome \in {"done", "failed"}, WriteBack(t, outcome)
       PROVE  Watched'
  BY <1>20 DEF WriteBack, FinishDispatch
<1>21. ASSUME NEW t \in Tasks, SweepTimeout(t) PROVE Watched'
  BY <1>21 DEF SweepTimeout, Overdue, SystemComment
<1>22. ASSUME NEW t \in Tasks, SweepReflow(t) PROVE Watched'
  BY <1>22 DEF SweepReflow, Swept, Reflow, TransitionIssue
<1>23. ASSUME NEW t \in Tasks, SweepFreeze(t) PROVE Watched'
  BY <1>23 DEF SweepFreeze, Swept, SystemComment
<1>24. ASSUME NEW t \in Tasks, SweepRefused(t) PROVE Watched'
  BY <1>24 DEF SweepRefused, Leave, SystemComment, Reflow, TransitionIssue
<1>25. ASSUME NEW t \in Tasks, NEW u \in Tasks, SweepRedispatch(t, u) PROVE Watched'
  BY <1>25 DEF SweepRedispatch, Swept, Call, Fresh
<1>26. ASSUME NEW t \in Tasks, ReviewStart(t) PROVE Watched'
  BY <1>26 DEF ReviewStart
<1>27. ASSUME NEW t \in Tasks, NEW verdict \in {"pass", "fail", "over"}, ReviewVerdict(t, verdict)
       PROVE  Watched'
  BY <1>27 DEF ReviewVerdict
<1>28. ASSUME NEW t \in Tasks, ReviewAccept(t) PROVE Watched'
  BY <1>28 DEF ReviewAccept, ReviewOver, TransitionIssue
<1>29. ASSUME NEW t \in Tasks, ReviewGivesWay(t) PROVE Watched'
  BY <1>29 DEF ReviewGivesWay, ReviewOver
<1>30. ASSUME NEW t \in Tasks, ReviewStops(t) PROVE Watched'
  BY <1>30 DEF ReviewStops, ReviewOver, SystemComment
<1>31. ASSUME NEW t \in Tasks, ReviewRefused(t) PROVE Watched'
  BY <1>31 DEF ReviewRefused, Leave, SystemComment
<1>32. ASSUME NEW t \in Tasks, NEW u \in Tasks, ReviewRedispatch(t, u) PROVE Watched'
  BY <1>32 DEF ReviewRedispatch, ReviewOver, Call, Fresh
<1>33. ASSUME NEW to \in Statuses, MoveByHand(to) PROVE Watched'
  BY <1>33 DEF MoveByHand, FromOutside, TransitionIssue
<1>34. CASE CancelReads
  BY <1>34 DEF CancelReads, FromOutside
<1>35. CASE CancelRow
  BY <1>35 DEF CancelRow, FinishDispatch
<1>36. CASE CancelIssue
  BY <1>36 DEF CancelIssue, TransitionIssue
<1>37. ASSUME NEW t \in Tasks, CancelDispatch(t) PROVE Watched'
  BY <1>37 DEF CancelDispatch, FromOutside, SystemComment
<1>38. CASE Park
  BY <1>38 DEF Park, FromOutside, SystemComment
<1>39. CASE GiveUpSend
  BY <1>39 DEF GiveUpSend, SystemComment
<1>40. CASE Restart
  BY <1>40 DEF Restart
<1>41. CASE UNCHANGED vars
  BY <1>41 DEF vars
<1>42. ASSUME NEW t \in Tasks, SweepHolds(t) PROVE Watched'
  BY <1>42 DEF SweepHolds, Overdue, SystemComment
<1>43. ASSUME NEW t \in Tasks, ReviewSuspends(t) PROVE Watched'
  BY <1>43 DEF ReviewSuspends
<1>44. ASSUME NEW t \in Tasks, ReviewDrops(t) PROVE Watched'
  BY <1>44 DEF ReviewDrops
<1>45. ASSUME NEW t \in Tasks, ReviewResumes(t) PROVE Watched'
  BY <1>45 DEF ReviewResumes, FromOutside
<1>46. CASE NodeFills
  BY <1>46 DEF NodeFills, FromOutside
<1>47. CASE NodeFrees
  BY <1>47 DEF NodeFrees
<1> QED
  BY <1>1, <1>2, <1>3, <1>4, <1>5, <1>6, <1>7, <1>8, <1>9, <1>10, <1>11, <1>12, <1>13,
     <1>14, <1>15, <1>16, <1>17, <1>18, <1>19, <1>20, <1>21, <1>22, <1>23, <1>24, <1>25,
     <1>26, <1>27, <1>28, <1>29, <1>30, <1>31, <1>32, <1>33, <1>34, <1>35, <1>36, <1>37,
     <1>38, <1>39, <1>40, <1>41, <1>42, <1>43, <1>44, <1>45, <1>46, <1>47
     DEF Next, Dispatching, Sending, Answering, Sweeping, Reviewing, ByHand

(* A mark that counts is about the last row. *)
LEMMA MarkStep == Shape /\ RowInv /\ MarkIsTrue /\ [Next]_vars => MarkIsTrue'
<1> SUFFICES ASSUME Shape, RowInv, MarkIsTrue, [Next]_vars PROVE MarkIsTrue'
  OBVIOUS
<1> USE DEF Shape, RowInv, HasIsSent, ReportedHad, NoRowYet, MarkIsTrue, Active, issue,
      ledger, thread, attempt, settling, review, outside
<1>1. ASSUME NEW t \in Tasks, DispatchByHand(t) PROVE MarkIsTrue'
  BY <1>1 DEF DispatchByHand, Through, Fresh, Gate, FromOutside
<1>2. ASSUME NEW t \in Tasks, DispatchAuto(t) PROVE MarkIsTrue'
  BY <1>2 DEF DispatchAuto, Through, Fresh, Gate
<1>3. ASSUME NEW t \in Tasks, RetrySend(t) PROVE MarkIsTrue'
  BY <1>3 DEF RetrySend, Through, Fresh, Gate
<1>4. ASSUME NEW t \in Tasks, RebalanceList(t) PROVE MarkIsTrue'
  BY <1>4 DEF RebalanceList, FromOutside
<1>5. ASSUME NEW t \in Tasks, RebalanceMove(t) PROVE MarkIsTrue'
  BY <1>5 DEF RebalanceMove, FinishDispatch, Call, Fresh
<1>6. ASSUME NEW t \in Tasks, RebalanceRefused(t) PROVE MarkIsTrue'
  BY <1>6 DEF RebalanceRefused, Leave, SystemComment
<1>7. ASSUME NEW t \in Tasks, EnterCore(t) PROVE MarkIsTrue'
  BY <1>7 DEF EnterCore, Gate, Abort, Leave, Goto
<1>8. ASSUME NEW t \in Tasks, BaselineFails(t) PROVE MarkIsTrue'
  BY <1>8 DEF BaselineFails, FromOutside, Abort, Leave, Goto, SystemComment
<1>9. ASSUME NEW t \in Tasks, TryClaimDispatch(t) PROVE MarkIsTrue'
  BY <1>9 DEF TryClaimDispatch, Goto, Abort, Leave
<1>10. ASSUME NEW t \in Tasks, Advance(t) PROVE MarkIsTrue'
  BY <1>10 DEF Advance, Sent, Goto, SystemComment, TransitionIssue
<1>11. ASSUME NEW t \in Tasks, Refuse(t) PROVE MarkIsTrue'
  BY <1>11 DEF Refuse, FinishDispatch, Abort, Leave, Goto
<1>12. ASSUME NEW t \in Tasks, WorkerAccepts(t) PROVE MarkIsTrue'
  BY <1>12 DEF WorkerAccepts
<1>13. ASSUME NEW t \in Tasks, RpcAcked(t) PROVE MarkIsTrue'
  BY <1>13 DEF RpcAcked, Leave
<1>14. ASSUME NEW t \in Tasks, RpcFails(t) PROVE MarkIsTrue'
  BY <1>14 DEF RpcFails, Goto
<1>15. ASSUME NEW t \in Tasks, SendFailed(t) PROVE MarkIsTrue'
  BY <1>15 DEF SendFailed, FinishDispatch, Goto
<1>16. ASSUME NEW t \in Tasks, RollbackDispatchFailure(t) PROVE MarkIsTrue'
  BY <1>16 DEF RollbackDispatchFailure, Goto
<1>17. ASSUME NEW t \in Tasks, MarkSendFailure(t) PROVE MarkIsTrue'
  BY <1>17 DEF MarkSendFailure, Leave, SystemComment
<1>18. ASSUME NEW t \in Tasks, TaskStarted(t) PROVE MarkIsTrue'
  BY <1>18 DEF TaskStarted
<1>19. ASSUME NEW t \in Tasks, WriteBackIssue(t) PROVE MarkIsTrue'
  BY <1>19 DEF WriteBackIssue, Reflow, TransitionIssue
<1>20. ASSUME NEW t \in Tasks, NEW outcome \in {"done", "failed"}, WriteBack(t, outcome)
       PROVE  MarkIsTrue'
  BY <1>20 DEF WriteBack, FinishDispatch
<1>21. ASSUME NEW t \in Tasks, SweepTimeout(t) PROVE MarkIsTrue'
  BY <1>21 DEF SweepTimeout, Overdue, SystemComment
<1>22. ASSUME NEW t \in Tasks, SweepReflow(t) PROVE MarkIsTrue'
  BY <1>22 DEF SweepReflow, Swept, Reflow, TransitionIssue
<1>23. ASSUME NEW t \in Tasks, SweepFreeze(t) PROVE MarkIsTrue'
  BY <1>23 DEF SweepFreeze, Swept, SystemComment
<1>24. ASSUME NEW t \in Tasks, SweepRefused(t) PROVE MarkIsTrue'
  BY <1>24 DEF SweepRefused, Leave, SystemComment, Reflow, TransitionIssue
<1>25. ASSUME NEW t \in Tasks, NEW u \in Tasks, SweepRedispatch(t, u) PROVE MarkIsTrue'
  BY <1>25 DEF SweepRedispatch, Swept, Call, Fresh
<1>26. ASSUME NEW t \in Tasks, ReviewStart(t) PROVE MarkIsTrue'
  BY <1>26 DEF ReviewStart
<1>27. ASSUME NEW t \in Tasks, NEW verdict \in {"pass", "fail", "over"}, ReviewVerdict(t, verdict)
       PROVE  MarkIsTrue'
  BY <1>27 DEF ReviewVerdict
<1>28. ASSUME NEW t \in Tasks, ReviewAccept(t) PROVE MarkIsTrue'
  BY <1>28 DEF ReviewAccept, ReviewOver, TransitionIssue
<1>29. ASSUME NEW t \in Tasks, ReviewGivesWay(t) PROVE MarkIsTrue'
  BY <1>29 DEF ReviewGivesWay, ReviewOver
<1>30. ASSUME NEW t \in Tasks, ReviewStops(t) PROVE MarkIsTrue'
  BY <1>30 DEF ReviewStops, ReviewOver, SystemComment
<1>31. ASSUME NEW t \in Tasks, ReviewRefused(t) PROVE MarkIsTrue'
  BY <1>31 DEF ReviewRefused, Leave, SystemComment
<1>32. ASSUME NEW t \in Tasks, NEW u \in Tasks, ReviewRedispatch(t, u) PROVE MarkIsTrue'
  BY <1>32 DEF ReviewRedispatch, ReviewOver, Call, Fresh
<1>33. ASSUME NEW to \in Statuses, MoveByHand(to) PROVE MarkIsTrue'
  BY <1>33 DEF MoveByHand, FromOutside, TransitionIssue
<1>34. CASE CancelReads
  BY <1>34 DEF CancelReads, FromOutside
<1>35. CASE CancelRow
  BY <1>35 DEF CancelRow, FinishDispatch
<1>36. CASE CancelIssue
  BY <1>36 DEF CancelIssue, TransitionIssue
<1>37. ASSUME NEW t \in Tasks, CancelDispatch(t) PROVE MarkIsTrue'
  BY <1>37 DEF CancelDispatch, FromOutside, SystemComment
<1>38. CASE Park
  BY <1>38 DEF Park, FromOutside, SystemComment
<1>39. CASE GiveUpSend
  BY <1>39 DEF GiveUpSend, SystemComment
<1>40. CASE Restart
  BY <1>40 DEF Restart
<1>41. CASE UNCHANGED vars
  BY <1>41 DEF vars
<1>42. ASSUME NEW t \in Tasks, SweepHolds(t) PROVE MarkIsTrue'
  BY <1>42 DEF SweepHolds, Overdue, SystemComment
<1>43. ASSUME NEW t \in Tasks, ReviewSuspends(t) PROVE MarkIsTrue'
  BY <1>43 DEF ReviewSuspends
<1>44. ASSUME NEW t \in Tasks, ReviewDrops(t) PROVE MarkIsTrue'
  BY <1>44 DEF ReviewDrops
<1>45. ASSUME NEW t \in Tasks, ReviewResumes(t) PROVE MarkIsTrue'
  BY <1>45 DEF ReviewResumes, FromOutside
<1>46. CASE NodeFills
  BY <1>46 DEF NodeFills, FromOutside
<1>47. CASE NodeFrees
  BY <1>47 DEF NodeFrees
<1> QED
  BY <1>1, <1>2, <1>3, <1>4, <1>5, <1>6, <1>7, <1>8, <1>9, <1>10, <1>11, <1>12, <1>13,
     <1>14, <1>15, <1>16, <1>17, <1>18, <1>19, <1>20, <1>21, <1>22, <1>23, <1>24, <1>25,
     <1>26, <1>27, <1>28, <1>29, <1>30, <1>31, <1>32, <1>33, <1>34, <1>35, <1>36, <1>37,
     <1>38, <1>39, <1>40, <1>41, <1>42, <1>43, <1>44, <1>45, <1>46, <1>47
     DEF Next, Dispatching, Sending, Answering, Sweeping, Reviewing, ByHand

(* The Boolean variables stay Boolean. *)
LEMMA FlagsStep == Flags /\ [Next]_vars => Flags'
<1> SUFFICES ASSUME Flags, [Next]_vars PROVE Flags'
  OBVIOUS
<1> USE DEF Flags, issue, ledger, thread, attempt, settling, review, outside
<1>1. ASSUME NEW t \in Tasks, DispatchByHand(t) PROVE Flags'
  BY <1>1 DEF DispatchByHand, Through, Fresh, Gate, FromOutside
<1>2. ASSUME NEW t \in Tasks, DispatchAuto(t) PROVE Flags'
  BY <1>2 DEF DispatchAuto, Through, Fresh, Gate
<1>3. ASSUME NEW t \in Tasks, RetrySend(t) PROVE Flags'
  BY <1>3 DEF RetrySend, Through, Fresh, Gate
<1>4. ASSUME NEW t \in Tasks, RebalanceList(t) PROVE Flags'
  BY <1>4 DEF RebalanceList, FromOutside
<1>5. ASSUME NEW t \in Tasks, RebalanceMove(t) PROVE Flags'
  BY <1>5 DEF RebalanceMove, FinishDispatch, Call, Fresh
<1>6. ASSUME NEW t \in Tasks, RebalanceRefused(t) PROVE Flags'
  BY <1>6 DEF RebalanceRefused, Leave, SystemComment
<1>7. ASSUME NEW t \in Tasks, EnterCore(t) PROVE Flags'
  BY <1>7 DEF EnterCore, Gate, Abort, Leave, Goto
<1>8. ASSUME NEW t \in Tasks, BaselineFails(t) PROVE Flags'
  BY <1>8 DEF BaselineFails, FromOutside, Abort, Leave, Goto, SystemComment
<1>9. ASSUME NEW t \in Tasks, TryClaimDispatch(t) PROVE Flags'
  BY <1>9 DEF TryClaimDispatch, Goto, Abort, Leave
<1>10. ASSUME NEW t \in Tasks, Advance(t) PROVE Flags'
  BY <1>10 DEF Advance, Sent, Goto, SystemComment, TransitionIssue
<1>11. ASSUME NEW t \in Tasks, Refuse(t) PROVE Flags'
  BY <1>11 DEF Refuse, FinishDispatch, Abort, Leave, Goto
<1>12. ASSUME NEW t \in Tasks, WorkerAccepts(t) PROVE Flags'
  BY <1>12 DEF WorkerAccepts
<1>13. ASSUME NEW t \in Tasks, RpcAcked(t) PROVE Flags'
  BY <1>13 DEF RpcAcked, Leave
<1>14. ASSUME NEW t \in Tasks, RpcFails(t) PROVE Flags'
  BY <1>14 DEF RpcFails, Goto
<1>15. ASSUME NEW t \in Tasks, SendFailed(t) PROVE Flags'
  BY <1>15 DEF SendFailed, FinishDispatch, Goto
<1>16. ASSUME NEW t \in Tasks, RollbackDispatchFailure(t) PROVE Flags'
  BY <1>16 DEF RollbackDispatchFailure, Goto
<1>17. ASSUME NEW t \in Tasks, MarkSendFailure(t) PROVE Flags'
  BY <1>17 DEF MarkSendFailure, Leave, SystemComment
<1>18. ASSUME NEW t \in Tasks, TaskStarted(t) PROVE Flags'
  BY <1>18 DEF TaskStarted
<1>19. ASSUME NEW t \in Tasks, WriteBackIssue(t) PROVE Flags'
  BY <1>19 DEF WriteBackIssue, Reflow, TransitionIssue
<1>20. ASSUME NEW t \in Tasks, NEW outcome \in {"done", "failed"}, WriteBack(t, outcome)
       PROVE  Flags'
  BY <1>20 DEF WriteBack, FinishDispatch
<1>21. ASSUME NEW t \in Tasks, SweepTimeout(t) PROVE Flags'
  BY <1>21 DEF SweepTimeout, Overdue, SystemComment
<1>22. ASSUME NEW t \in Tasks, SweepReflow(t) PROVE Flags'
  BY <1>22 DEF SweepReflow, Swept, Reflow, TransitionIssue
<1>23. ASSUME NEW t \in Tasks, SweepFreeze(t) PROVE Flags'
  BY <1>23 DEF SweepFreeze, Swept, SystemComment
<1>24. ASSUME NEW t \in Tasks, SweepRefused(t) PROVE Flags'
  BY <1>24 DEF SweepRefused, Leave, SystemComment, Reflow, TransitionIssue
<1>25. ASSUME NEW t \in Tasks, NEW u \in Tasks, SweepRedispatch(t, u) PROVE Flags'
  BY <1>25 DEF SweepRedispatch, Swept, Call, Fresh
<1>26. ASSUME NEW t \in Tasks, ReviewStart(t) PROVE Flags'
  BY <1>26 DEF ReviewStart
<1>27. ASSUME NEW t \in Tasks, NEW verdict \in {"pass", "fail", "over"}, ReviewVerdict(t, verdict)
       PROVE  Flags'
  BY <1>27 DEF ReviewVerdict
<1>28. ASSUME NEW t \in Tasks, ReviewAccept(t) PROVE Flags'
  BY <1>28 DEF ReviewAccept, ReviewOver, TransitionIssue
<1>29. ASSUME NEW t \in Tasks, ReviewGivesWay(t) PROVE Flags'
  BY <1>29 DEF ReviewGivesWay, ReviewOver
<1>30. ASSUME NEW t \in Tasks, ReviewStops(t) PROVE Flags'
  BY <1>30 DEF ReviewStops, ReviewOver, SystemComment
<1>31. ASSUME NEW t \in Tasks, ReviewRefused(t) PROVE Flags'
  BY <1>31 DEF ReviewRefused, Leave, SystemComment
<1>32. ASSUME NEW t \in Tasks, NEW u \in Tasks, ReviewRedispatch(t, u) PROVE Flags'
  BY <1>32 DEF ReviewRedispatch, ReviewOver, Call, Fresh
<1>33. ASSUME NEW to \in Statuses, MoveByHand(to) PROVE Flags'
  BY <1>33 DEF MoveByHand, FromOutside, TransitionIssue
<1>34. CASE CancelReads
  BY <1>34 DEF CancelReads, FromOutside
<1>35. CASE CancelRow
  BY <1>35 DEF CancelRow, FinishDispatch
<1>36. CASE CancelIssue
  BY <1>36 DEF CancelIssue, TransitionIssue
<1>37. ASSUME NEW t \in Tasks, CancelDispatch(t) PROVE Flags'
  BY <1>37 DEF CancelDispatch, FromOutside, SystemComment
<1>38. CASE Park
  BY <1>38 DEF Park, FromOutside, SystemComment
<1>39. CASE GiveUpSend
  BY <1>39 DEF GiveUpSend, SystemComment
<1>40. CASE Restart
  BY <1>40 DEF Restart
<1>41. CASE UNCHANGED vars
  BY <1>41 DEF vars
<1>42. ASSUME NEW t \in Tasks, SweepHolds(t) PROVE Flags'
  BY <1>42 DEF SweepHolds, Overdue, SystemComment
<1>43. ASSUME NEW t \in Tasks, ReviewSuspends(t) PROVE Flags'
  BY <1>43 DEF ReviewSuspends
<1>44. ASSUME NEW t \in Tasks, ReviewDrops(t) PROVE Flags'
  BY <1>44 DEF ReviewDrops
<1>45. ASSUME NEW t \in Tasks, ReviewResumes(t) PROVE Flags'
  BY <1>45 DEF ReviewResumes, FromOutside
<1>46. CASE NodeFills
  BY <1>46 DEF NodeFills, FromOutside
<1>47. CASE NodeFrees
  BY <1>47 DEF NodeFrees
<1> QED
  BY <1>1, <1>2, <1>3, <1>4, <1>5, <1>6, <1>7, <1>8, <1>9, <1>10, <1>11, <1>12, <1>13,
     <1>14, <1>15, <1>16, <1>17, <1>18, <1>19, <1>20, <1>21, <1>22, <1>23, <1>24, <1>25,
     <1>26, <1>27, <1>28, <1>29, <1>30, <1>31, <1>32, <1>33, <1>34, <1>35, <1>36, <1>37,
     <1>38, <1>39, <1>40, <1>41, <1>42, <1>43, <1>44, <1>45, <1>46, <1>47
     DEF Next, Dispatching, Sending, Answering, Sweeping, Reviewing, ByHand

(* What one step may do to a closed issue. *)
Closed == (status \in {"done", "cancelled"} /\ status' # status) => (mover' = "human")

(* No step of the system moves a closed issue. *)
LEMMA ClosedStep == [Next]_vars => Closed
<1> SUFFICES ASSUME [Next]_vars PROVE Closed
  OBVIOUS
<1> USE DEF Closed, CanTransition, issue, ledger, thread, attempt, settling, review, outside
<1>1. ASSUME NEW t \in Tasks, DispatchByHand(t) PROVE Closed
  BY <1>1 DEF DispatchByHand, Through, Fresh, Gate, FromOutside
<1>2. ASSUME NEW t \in Tasks, DispatchAuto(t) PROVE Closed
  BY <1>2 DEF DispatchAuto, Through, Fresh, Gate
<1>3. ASSUME NEW t \in Tasks, RetrySend(t) PROVE Closed
  BY <1>3 DEF RetrySend, Through, Fresh, Gate
<1>4. ASSUME NEW t \in Tasks, RebalanceList(t) PROVE Closed
  BY <1>4 DEF RebalanceList, FromOutside
<1>5. ASSUME NEW t \in Tasks, RebalanceMove(t) PROVE Closed
  BY <1>5 DEF RebalanceMove, FinishDispatch, Call, Fresh
<1>6. ASSUME NEW t \in Tasks, RebalanceRefused(t) PROVE Closed
  BY <1>6 DEF RebalanceRefused, Leave, SystemComment
<1>7. ASSUME NEW t \in Tasks, EnterCore(t) PROVE Closed
  BY <1>7 DEF EnterCore, Gate, Abort, Leave, Goto
<1>8. ASSUME NEW t \in Tasks, BaselineFails(t) PROVE Closed
  BY <1>8 DEF BaselineFails, FromOutside, Abort, Leave, Goto, SystemComment
<1>9. ASSUME NEW t \in Tasks, TryClaimDispatch(t) PROVE Closed
  BY <1>9 DEF TryClaimDispatch, Goto, Abort, Leave
<1>10. ASSUME NEW t \in Tasks, Advance(t) PROVE Closed
  BY <1>10 DEF Advance, Sent, Goto, SystemComment, TransitionIssue
<1>11. ASSUME NEW t \in Tasks, Refuse(t) PROVE Closed
  BY <1>11 DEF Refuse, FinishDispatch, Abort, Leave, Goto
<1>12. ASSUME NEW t \in Tasks, WorkerAccepts(t) PROVE Closed
  BY <1>12 DEF WorkerAccepts
<1>13. ASSUME NEW t \in Tasks, RpcAcked(t) PROVE Closed
  BY <1>13 DEF RpcAcked, Leave
<1>14. ASSUME NEW t \in Tasks, RpcFails(t) PROVE Closed
  BY <1>14 DEF RpcFails, Goto
<1>15. ASSUME NEW t \in Tasks, SendFailed(t) PROVE Closed
  BY <1>15 DEF SendFailed, FinishDispatch, Goto
<1>16. ASSUME NEW t \in Tasks, RollbackDispatchFailure(t) PROVE Closed
  BY <1>16 DEF RollbackDispatchFailure, Goto
<1>17. ASSUME NEW t \in Tasks, MarkSendFailure(t) PROVE Closed
  BY <1>17 DEF MarkSendFailure, Leave, SystemComment
<1>18. ASSUME NEW t \in Tasks, TaskStarted(t) PROVE Closed
  BY <1>18 DEF TaskStarted
<1>19. ASSUME NEW t \in Tasks, WriteBackIssue(t) PROVE Closed
  BY <1>19 DEF WriteBackIssue, Reflow, TransitionIssue
<1>20. ASSUME NEW t \in Tasks, NEW outcome \in {"done", "failed"}, WriteBack(t, outcome)
       PROVE  Closed
  BY <1>20 DEF WriteBack, FinishDispatch
<1>21. ASSUME NEW t \in Tasks, SweepTimeout(t) PROVE Closed
  BY <1>21 DEF SweepTimeout, Overdue, SystemComment
<1>22. ASSUME NEW t \in Tasks, SweepReflow(t) PROVE Closed
  BY <1>22 DEF SweepReflow, Swept, Reflow, TransitionIssue
<1>23. ASSUME NEW t \in Tasks, SweepFreeze(t) PROVE Closed
  BY <1>23 DEF SweepFreeze, Swept, SystemComment
<1>24. ASSUME NEW t \in Tasks, SweepRefused(t) PROVE Closed
  BY <1>24 DEF SweepRefused, Leave, SystemComment, Reflow, TransitionIssue
<1>25. ASSUME NEW t \in Tasks, NEW u \in Tasks, SweepRedispatch(t, u) PROVE Closed
  BY <1>25 DEF SweepRedispatch, Swept, Call, Fresh
<1>26. ASSUME NEW t \in Tasks, ReviewStart(t) PROVE Closed
  BY <1>26 DEF ReviewStart
<1>27. ASSUME NEW t \in Tasks, NEW verdict \in {"pass", "fail", "over"}, ReviewVerdict(t, verdict)
       PROVE  Closed
  BY <1>27 DEF ReviewVerdict
<1>28. ASSUME NEW t \in Tasks, ReviewAccept(t) PROVE Closed
  BY <1>28 DEF ReviewAccept, ReviewOver, TransitionIssue
<1>29. ASSUME NEW t \in Tasks, ReviewGivesWay(t) PROVE Closed
  BY <1>29 DEF ReviewGivesWay, ReviewOver
<1>30. ASSUME NEW t \in Tasks, ReviewStops(t) PROVE Closed
  BY <1>30 DEF ReviewStops, ReviewOver, SystemComment
<1>31. ASSUME NEW t \in Tasks, ReviewRefused(t) PROVE Closed
  BY <1>31 DEF ReviewRefused, Leave, SystemComment
<1>32. ASSUME NEW t \in Tasks, NEW u \in Tasks, ReviewRedispatch(t, u) PROVE Closed
  BY <1>32 DEF ReviewRedispatch, ReviewOver, Call, Fresh
<1>33. ASSUME NEW to \in Statuses, MoveByHand(to) PROVE Closed
  BY <1>33 DEF MoveByHand, FromOutside, TransitionIssue
<1>34. CASE CancelReads
  BY <1>34 DEF CancelReads, FromOutside
<1>35. CASE CancelRow
  BY <1>35 DEF CancelRow, FinishDispatch
<1>36. CASE CancelIssue
  BY <1>36 DEF CancelIssue, TransitionIssue
<1>37. ASSUME NEW t \in Tasks, CancelDispatch(t) PROVE Closed
  BY <1>37 DEF CancelDispatch, FromOutside, SystemComment
<1>38. CASE Park
  BY <1>38 DEF Park, FromOutside, SystemComment
<1>39. CASE GiveUpSend
  BY <1>39 DEF GiveUpSend, SystemComment
<1>40. CASE Restart
  BY <1>40 DEF Restart
<1>41. CASE UNCHANGED vars
  BY <1>41 DEF vars
<1>42. ASSUME NEW t \in Tasks, SweepHolds(t) PROVE Closed
  BY <1>42 DEF SweepHolds, Overdue, SystemComment
<1>43. ASSUME NEW t \in Tasks, ReviewSuspends(t) PROVE Closed
  BY <1>43 DEF ReviewSuspends
<1>44. ASSUME NEW t \in Tasks, ReviewDrops(t) PROVE Closed
  BY <1>44 DEF ReviewDrops
<1>45. ASSUME NEW t \in Tasks, ReviewResumes(t) PROVE Closed
  BY <1>45 DEF ReviewResumes, FromOutside
<1>46. CASE NodeFills
  BY <1>46 DEF NodeFills, FromOutside
<1>47. CASE NodeFrees
  BY <1>47 DEF NodeFrees
<1> QED
  BY <1>1, <1>2, <1>3, <1>4, <1>5, <1>6, <1>7, <1>8, <1>9, <1>10, <1>11, <1>12, <1>13,
     <1>14, <1>15, <1>16, <1>17, <1>18, <1>19, <1>20, <1>21, <1>22, <1>23, <1>24, <1>25,
     <1>26, <1>27, <1>28, <1>29, <1>30, <1>31, <1>32, <1>33, <1>34, <1>35, <1>36, <1>37,
     <1>38, <1>39, <1>40, <1>41, <1>42, <1>43, <1>44, <1>45, <1>46, <1>47
     DEF Next, Dispatching, Sending, Answering, Sweeping, Reviewing, ByHand

-----------------------------------------------------------------------------
LEMMA InvInit == Init => OneActive /\ RowInv /\ Watched /\ MarkIsTrue /\ Flags
  BY DEF Init, OneActive, RowInv, NoRowYet, ClaimHolds, HasIsSent, ReportedHad, Watched,
         MarkIsTrue, Flags, Active

(* The state always has its declared shape. *)
THEOREM TypeCorrect == Spec => []TypeOK
  BY InvInit, ShapeInit, ShapeStep, FlagsStep, PTL DEF Spec, TypeOK

(* However many dispatchers race for an issue, at most one dispatch of it is
   in flight (try_claim_dispatch).                                          *)
THEOREM AtMostOneDispatch == Spec => []OneActive
  BY InvInit, ShapeInit, ShapeStep, OneActiveStep, PTL DEF Spec

(* Only humans reopen a closed issue: no dispatcher, write-back, sweep, review
   or roll-back with a stale copy of it does.                               *)
THEOREM OnlyHumansReopen == Spec => ClosedStaysClosed
<1>1. [Next]_vars => [Closed]_vars
  BY ClosedStep
<1> QED
  BY <1>1, PTL DEF Spec, ClosedStaysClosed, Closed

(* Rows follow their attempts, an issue in progress is always in somebody's
   hands, and a mark that counts is true: the inductive invariant.          *)
THEOREM DispatchInvariant == Spec => [](Shape /\ RowInv /\ Watched /\ MarkIsTrue)
<1>1. Init => Shape /\ RowInv /\ Watched /\ MarkIsTrue
  BY InvInit, ShapeInit
<1>2. Shape /\ RowInv /\ Watched /\ MarkIsTrue /\ [Next]_vars
        => (Shape /\ RowInv /\ Watched /\ MarkIsTrue)'
  BY ShapeStep, RowStep, WatchedStep, MarkStep
<1> QED
  BY <1>1, <1>2, PTL DEF Spec

(* Short of a crash, an issue in progress that nobody works on is announced. *)
THEOREM NoSilentStrand == Spec => []StrandedIsVisible
<1>1. Shape /\ Watched => StrandedIsVisible
  BY DEF Shape, Watched, Responsible, StrandedIsVisible, Quiet, HasActive, Active
<1> QED
  BY <1>1, DispatchInvariant, PTL

(* What a worker has reported is not sent again as an undelivered dispatch. *)
THEOREM NoFalseRetry == Spec => []ReportedIsNotRetried
<1>1. MarkIsTrue => ReportedIsNotRetried
  BY DEF MarkIsTrue, ReportedIsNotRetried, SendFailureCandidate
<1> QED
  BY <1>1, DispatchInvariant, PTL

-----------------------------------------------------------------------------
(* An issue under review comes to a verdict.                               *)

(* The worker of some dispatch has reported, or it was timed out. *)
Settled == \E t \in Tasks : row[t] \in {"done", "failed"}

(* Every row is among the rows of the issue. *)
Listed == \A t \in Tasks : row[t] # "none" => \E i \in DOMAIN rows : rows[i] = t

(* What leads to a review comes after a settlement: without one replay_stuck_reviews
   would find nothing to replay.                                           *)
AfterSettlement ==
    /\ \A t \in Tasks : then[t] # "none" \/ rev[t] # "none" \/ src[t] \in {"sweep", "review"}
                          => Settled
    /\ status = "in_review" /\ mover = "system" => Settled

(* A review that will move the issue on or record a decision, or the dispatch
   it has called for.                                                      *)
Deciding(t) ==
    \/ rev[t] \in {"pending", "running", "pass", "fail"}
    \/ src[t] = "review" /\ pc[t] \in {"entering", "gated", "aborted"}

(* UnderReviewIsDecided without its fairness: an issue that the system has put
   under review after its first dispatch and that has no decision yet is in
   the hands of a review, of its replay, or of the dispatch the review asked
   for, or its review has left it to the probe or to a human (review_issue,
   replay_stuck_reviews).                                                  *)
VerdictAhead ==
    status = "in_review" /\ mover = "system" /\ ~decided /\ Len(rows) = 1 =>
        \E t \in Tasks : Deciding(t) \/ rev[t] = "left"

(* What was reported or timed out stays so. *)
KeepsSettled == \A v \in Tasks : row[v] \in {"done", "failed"} => row'[v] = row[v]

LEMMA SettledStays ==
    ASSUME Shape, NoRowYet, [Next]_vars
    PROVE  KeepsSettled
<1> USE DEF Shape, NoRowYet, KeepsSettled,
      Active, issue, ledger, thread, attempt, settling, review, outside
<1>1. ASSUME NEW t \in Tasks, DispatchByHand(t) PROVE KeepsSettled
  BY <1>1 DEF DispatchByHand, Through, Fresh, Gate, FromOutside
<1>2. ASSUME NEW t \in Tasks, DispatchAuto(t) PROVE KeepsSettled
  BY <1>2 DEF DispatchAuto, Through, Fresh, Gate
<1>3. ASSUME NEW t \in Tasks, RetrySend(t) PROVE KeepsSettled
  BY <1>3 DEF RetrySend, Through, Fresh, Gate
<1>4. ASSUME NEW t \in Tasks, RebalanceList(t) PROVE KeepsSettled
  BY <1>4 DEF RebalanceList, FromOutside
<1>5. ASSUME NEW t \in Tasks, RebalanceMove(t) PROVE KeepsSettled
  BY <1>5 DEF RebalanceMove, FinishDispatch, Call, Fresh
<1>6. ASSUME NEW t \in Tasks, RebalanceRefused(t) PROVE KeepsSettled
  BY <1>6 DEF RebalanceRefused, Leave, SystemComment
<1>7. ASSUME NEW t \in Tasks, EnterCore(t) PROVE KeepsSettled
  BY <1>7 DEF EnterCore, Gate, Abort, Leave, Goto
<1>8. ASSUME NEW t \in Tasks, BaselineFails(t) PROVE KeepsSettled
  BY <1>8 DEF BaselineFails, FromOutside, Abort, Leave, Goto, SystemComment
<1>9. ASSUME NEW t \in Tasks, TryClaimDispatch(t) PROVE KeepsSettled
  BY <1>9 DEF TryClaimDispatch, Goto, Abort, Leave
<1>10. ASSUME NEW t \in Tasks, Advance(t) PROVE KeepsSettled
  BY <1>10 DEF Advance, Sent, Goto, SystemComment, TransitionIssue
<1>11. ASSUME NEW t \in Tasks, Refuse(t) PROVE KeepsSettled
  BY <1>11 DEF Refuse, FinishDispatch, Abort, Leave, Goto
<1>12. ASSUME NEW t \in Tasks, WorkerAccepts(t) PROVE KeepsSettled
  BY <1>12 DEF WorkerAccepts
<1>13. ASSUME NEW t \in Tasks, RpcAcked(t) PROVE KeepsSettled
  BY <1>13 DEF RpcAcked, Leave
<1>14. ASSUME NEW t \in Tasks, RpcFails(t) PROVE KeepsSettled
  BY <1>14 DEF RpcFails, Goto
<1>15. ASSUME NEW t \in Tasks, SendFailed(t) PROVE KeepsSettled
  BY <1>15 DEF SendFailed, FinishDispatch, Goto
<1>16. ASSUME NEW t \in Tasks, RollbackDispatchFailure(t) PROVE KeepsSettled
  BY <1>16 DEF RollbackDispatchFailure, Goto
<1>17. ASSUME NEW t \in Tasks, MarkSendFailure(t) PROVE KeepsSettled
  BY <1>17 DEF MarkSendFailure, Leave, SystemComment
<1>18. ASSUME NEW t \in Tasks, TaskStarted(t) PROVE KeepsSettled
  BY <1>18 DEF TaskStarted
<1>19. ASSUME NEW t \in Tasks, WriteBackIssue(t) PROVE KeepsSettled
  BY <1>19 DEF WriteBackIssue, Reflow, TransitionIssue
<1>20. ASSUME NEW t \in Tasks, NEW outcome \in {"done", "failed"}, WriteBack(t, outcome)
       PROVE  KeepsSettled
  BY <1>20 DEF WriteBack, FinishDispatch
<1>21. ASSUME NEW t \in Tasks, SweepTimeout(t) PROVE KeepsSettled
  BY <1>21 DEF SweepTimeout, Overdue, SystemComment
<1>22. ASSUME NEW t \in Tasks, SweepReflow(t) PROVE KeepsSettled
  BY <1>22 DEF SweepReflow, Swept, Reflow, TransitionIssue
<1>23. ASSUME NEW t \in Tasks, SweepFreeze(t) PROVE KeepsSettled
  BY <1>23 DEF SweepFreeze, Swept, SystemComment
<1>24. ASSUME NEW t \in Tasks, SweepRefused(t) PROVE KeepsSettled
  BY <1>24 DEF SweepRefused, Leave, SystemComment, Reflow, TransitionIssue
<1>25. ASSUME NEW t \in Tasks, NEW u \in Tasks, SweepRedispatch(t, u) PROVE KeepsSettled
  BY <1>25 DEF SweepRedispatch, Swept, Call, Fresh
<1>26. ASSUME NEW t \in Tasks, ReviewStart(t) PROVE KeepsSettled
  BY <1>26 DEF ReviewStart
<1>27. ASSUME NEW t \in Tasks, NEW verdict \in {"pass", "fail", "over"}, ReviewVerdict(t, verdict)
       PROVE  KeepsSettled
  BY <1>27 DEF ReviewVerdict
<1>28. ASSUME NEW t \in Tasks, ReviewAccept(t) PROVE KeepsSettled
  BY <1>28 DEF ReviewAccept, ReviewOver, TransitionIssue
<1>29. ASSUME NEW t \in Tasks, ReviewGivesWay(t) PROVE KeepsSettled
  BY <1>29 DEF ReviewGivesWay, ReviewOver
<1>30. ASSUME NEW t \in Tasks, ReviewStops(t) PROVE KeepsSettled
  BY <1>30 DEF ReviewStops, ReviewOver, SystemComment
<1>31. ASSUME NEW t \in Tasks, ReviewRefused(t) PROVE KeepsSettled
  BY <1>31 DEF ReviewRefused, Leave, SystemComment
<1>32. ASSUME NEW t \in Tasks, NEW u \in Tasks, ReviewRedispatch(t, u) PROVE KeepsSettled
  BY <1>32 DEF ReviewRedispatch, ReviewOver, Call, Fresh
<1>33. ASSUME NEW to \in Statuses, MoveByHand(to) PROVE KeepsSettled
  BY <1>33 DEF MoveByHand, FromOutside, TransitionIssue
<1>34. CASE CancelReads
  BY <1>34 DEF CancelReads, FromOutside
<1>35. CASE CancelRow
  BY <1>35 DEF CancelRow, FinishDispatch
<1>36. CASE CancelIssue
  BY <1>36 DEF CancelIssue, TransitionIssue
<1>37. ASSUME NEW t \in Tasks, CancelDispatch(t) PROVE KeepsSettled
  BY <1>37 DEF CancelDispatch, FromOutside, SystemComment
<1>38. CASE Park
  BY <1>38 DEF Park, FromOutside, SystemComment
<1>39. CASE GiveUpSend
  BY <1>39 DEF GiveUpSend, SystemComment
<1>40. CASE Restart
  BY <1>40 DEF Restart
<1>41. CASE UNCHANGED vars
  BY <1>41 DEF vars
<1>42. ASSUME NEW t \in Tasks, SweepHolds(t) PROVE KeepsSettled
  BY <1>42 DEF SweepHolds, Overdue, SystemComment
<1>43. ASSUME NEW t \in Tasks, ReviewSuspends(t) PROVE KeepsSettled
  BY <1>43 DEF ReviewSuspends
<1>44. ASSUME NEW t \in Tasks, ReviewDrops(t) PROVE KeepsSettled
  BY <1>44 DEF ReviewDrops
<1>45. ASSUME NEW t \in Tasks, ReviewResumes(t) PROVE KeepsSettled
  BY <1>45 DEF ReviewResumes, FromOutside
<1>46. CASE NodeFills
  BY <1>46 DEF NodeFills, FromOutside
<1>47. CASE NodeFrees
  BY <1>47 DEF NodeFrees
<1> QED
  BY <1>1, <1>2, <1>3, <1>4, <1>5, <1>6, <1>7, <1>8, <1>9, <1>10, <1>11, <1>12, <1>13,
     <1>14, <1>15, <1>16, <1>17, <1>18, <1>19, <1>20, <1>21, <1>22, <1>23, <1>24, <1>25,
     <1>26, <1>27, <1>28, <1>29, <1>30, <1>31, <1>32, <1>33, <1>34, <1>35, <1>36, <1>37,
     <1>38, <1>39, <1>40, <1>41, <1>42, <1>43, <1>44, <1>45, <1>46, <1>47
     DEF Next, Dispatching, Sending, Answering, Sweeping, Reviewing, ByHand

(* A row is written with its place in the list. *)
LEMMA ListedStep ==
    ASSUME Shape, NoRowYet, Listed, [Next]_vars
    PROVE  Listed'
<1> USE DEF Shape, NoRowYet, Listed,
      Active, issue, ledger, thread, attempt, settling, review, outside
<1>1. ASSUME NEW t \in Tasks, DispatchByHand(t) PROVE Listed'
  BY <1>1 DEF DispatchByHand, Through, Fresh, Gate, FromOutside
<1>2. ASSUME NEW t \in Tasks, DispatchAuto(t) PROVE Listed'
  BY <1>2 DEF DispatchAuto, Through, Fresh, Gate
<1>3. ASSUME NEW t \in Tasks, RetrySend(t) PROVE Listed'
  BY <1>3 DEF RetrySend, Through, Fresh, Gate
<1>4. ASSUME NEW t \in Tasks, RebalanceList(t) PROVE Listed'
  BY <1>4 DEF RebalanceList, FromOutside
<1>5. ASSUME NEW t \in Tasks, RebalanceMove(t) PROVE Listed'
  BY <1>5 DEF RebalanceMove, FinishDispatch, Call, Fresh
<1>6. ASSUME NEW t \in Tasks, RebalanceRefused(t) PROVE Listed'
  BY <1>6 DEF RebalanceRefused, Leave, SystemComment
<1>7. ASSUME NEW t \in Tasks, EnterCore(t) PROVE Listed'
  BY <1>7 DEF EnterCore, Gate, Abort, Leave, Goto
<1>8. ASSUME NEW t \in Tasks, BaselineFails(t) PROVE Listed'
  BY <1>8 DEF BaselineFails, FromOutside, Abort, Leave, Goto, SystemComment
<1>9. ASSUME NEW t \in Tasks, TryClaimDispatch(t) PROVE Listed'
  <2>1. CASE HasActive
    BY <1>9, <2>1 DEF TryClaimDispatch
  <2>2. CASE ~HasActive
    <3>1. row' = [row EXCEPT ![t] = "dispatched"] /\ rows' = Append(rows, t)
      BY <1>9, <2>2 DEF TryClaimDispatch
    <3>2. Len(rows') = Len(rows) + 1 /\ rows'[Len(rows) + 1] = t
          /\ \A i \in DOMAIN rows : i \in DOMAIN rows' /\ rows'[i] = rows[i]
      BY <3>1
    <3>3. Len(rows) + 1 \in DOMAIN rows'
      BY <3>1
    <3>4. ASSUME NEW v \in Tasks, row'[v] # "none"
          PROVE  \E i \in DOMAIN rows' : rows'[i] = v
      <4>1. CASE v = t
        BY <3>2, <3>3, <4>1
      <4>2. CASE v # t
        BY <3>1, <3>2, <3>4, <4>2
      <4> QED BY <4>1, <4>2
    <3> QED BY <3>4
  <2> QED BY <2>1, <2>2
<1>10. ASSUME NEW t \in Tasks, Advance(t) PROVE Listed'
  BY <1>10 DEF Advance, Sent, Goto, SystemComment, TransitionIssue
<1>11. ASSUME NEW t \in Tasks, Refuse(t) PROVE Listed'
  BY <1>11 DEF Refuse, FinishDispatch, Abort, Leave, Goto
<1>12. ASSUME NEW t \in Tasks, WorkerAccepts(t) PROVE Listed'
  BY <1>12 DEF WorkerAccepts
<1>13. ASSUME NEW t \in Tasks, RpcAcked(t) PROVE Listed'
  BY <1>13 DEF RpcAcked, Leave
<1>14. ASSUME NEW t \in Tasks, RpcFails(t) PROVE Listed'
  BY <1>14 DEF RpcFails, Goto
<1>15. ASSUME NEW t \in Tasks, SendFailed(t) PROVE Listed'
  BY <1>15 DEF SendFailed, FinishDispatch, Goto
<1>16. ASSUME NEW t \in Tasks, RollbackDispatchFailure(t) PROVE Listed'
  BY <1>16 DEF RollbackDispatchFailure, Goto
<1>17. ASSUME NEW t \in Tasks, MarkSendFailure(t) PROVE Listed'
  BY <1>17 DEF MarkSendFailure, Leave, SystemComment
<1>18. ASSUME NEW t \in Tasks, TaskStarted(t) PROVE Listed'
  BY <1>18 DEF TaskStarted
<1>19. ASSUME NEW t \in Tasks, WriteBackIssue(t) PROVE Listed'
  BY <1>19 DEF WriteBackIssue, Reflow, TransitionIssue
<1>20. ASSUME NEW t \in Tasks, NEW outcome \in {"done", "failed"}, WriteBack(t, outcome)
       PROVE  Listed'
  BY <1>20 DEF WriteBack, FinishDispatch
<1>21. ASSUME NEW t \in Tasks, SweepTimeout(t) PROVE Listed'
  BY <1>21 DEF SweepTimeout, Overdue, SystemComment
<1>22. ASSUME NEW t \in Tasks, SweepReflow(t) PROVE Listed'
  BY <1>22 DEF SweepReflow, Swept, Reflow, TransitionIssue
<1>23. ASSUME NEW t \in Tasks, SweepFreeze(t) PROVE Listed'
  BY <1>23 DEF SweepFreeze, Swept, SystemComment
<1>24. ASSUME NEW t \in Tasks, SweepRefused(t) PROVE Listed'
  BY <1>24 DEF SweepRefused, Leave, SystemComment, Reflow, TransitionIssue
<1>25. ASSUME NEW t \in Tasks, NEW u \in Tasks, SweepRedispatch(t, u) PROVE Listed'
  BY <1>25 DEF SweepRedispatch, Swept, Call, Fresh
<1>26. ASSUME NEW t \in Tasks, ReviewStart(t) PROVE Listed'
  BY <1>26 DEF ReviewStart
<1>27. ASSUME NEW t \in Tasks, NEW verdict \in {"pass", "fail", "over"}, ReviewVerdict(t, verdict)
       PROVE  Listed'
  BY <1>27 DEF ReviewVerdict
<1>28. ASSUME NEW t \in Tasks, ReviewAccept(t) PROVE Listed'
  BY <1>28 DEF ReviewAccept, ReviewOver, TransitionIssue
<1>29. ASSUME NEW t \in Tasks, ReviewGivesWay(t) PROVE Listed'
  BY <1>29 DEF ReviewGivesWay, ReviewOver
<1>30. ASSUME NEW t \in Tasks, ReviewStops(t) PROVE Listed'
  BY <1>30 DEF ReviewStops, ReviewOver, SystemComment
<1>31. ASSUME NEW t \in Tasks, ReviewRefused(t) PROVE Listed'
  BY <1>31 DEF ReviewRefused, Leave, SystemComment
<1>32. ASSUME NEW t \in Tasks, NEW u \in Tasks, ReviewRedispatch(t, u) PROVE Listed'
  BY <1>32 DEF ReviewRedispatch, ReviewOver, Call, Fresh
<1>33. ASSUME NEW to \in Statuses, MoveByHand(to) PROVE Listed'
  BY <1>33 DEF MoveByHand, FromOutside, TransitionIssue
<1>34. CASE CancelReads
  BY <1>34 DEF CancelReads, FromOutside
<1>35. CASE CancelRow
  BY <1>35 DEF CancelRow, FinishDispatch
<1>36. CASE CancelIssue
  BY <1>36 DEF CancelIssue, TransitionIssue
<1>37. ASSUME NEW t \in Tasks, CancelDispatch(t) PROVE Listed'
  BY <1>37 DEF CancelDispatch, FromOutside, SystemComment
<1>38. CASE Park
  BY <1>38 DEF Park, FromOutside, SystemComment
<1>39. CASE GiveUpSend
  BY <1>39 DEF GiveUpSend, SystemComment
<1>40. CASE Restart
  BY <1>40 DEF Restart
<1>41. CASE UNCHANGED vars
  BY <1>41 DEF vars
<1>42. ASSUME NEW t \in Tasks, SweepHolds(t) PROVE Listed'
  BY <1>42 DEF SweepHolds, Overdue, SystemComment
<1>43. ASSUME NEW t \in Tasks, ReviewSuspends(t) PROVE Listed'
  BY <1>43 DEF ReviewSuspends
<1>44. ASSUME NEW t \in Tasks, ReviewDrops(t) PROVE Listed'
  BY <1>44 DEF ReviewDrops
<1>45. ASSUME NEW t \in Tasks, ReviewResumes(t) PROVE Listed'
  BY <1>45 DEF ReviewResumes, FromOutside
<1>46. CASE NodeFills
  BY <1>46 DEF NodeFills, FromOutside
<1>47. CASE NodeFrees
  BY <1>47 DEF NodeFrees
<1> QED
  BY <1>1, <1>2, <1>3, <1>4, <1>5, <1>6, <1>7, <1>8, <1>9, <1>10, <1>11, <1>12, <1>13,
     <1>14, <1>15, <1>16, <1>17, <1>18, <1>19, <1>20, <1>21, <1>22, <1>23, <1>24, <1>25,
     <1>26, <1>27, <1>28, <1>29, <1>30, <1>31, <1>32, <1>33, <1>34, <1>35, <1>36, <1>37,
     <1>38, <1>39, <1>40, <1>41, <1>42, <1>43, <1>44, <1>45, <1>46, <1>47
     DEF Next, Dispatching, Sending, Answering, Sweeping, Reviewing, ByHand

(* Nothing but a settlement leads to a review. *)
LEMMA AfterSettlementStep ==
    ASSUME Shape, KeepsSettled, AfterSettlement, [Next]_vars
    PROVE  AfterSettlement'
<1> USE DEF Shape, KeepsSettled, AfterSettlement, Settled,
      Active, issue, ledger, thread, attempt, settling, review, outside
<1>1. ASSUME NEW t \in Tasks, DispatchByHand(t) PROVE AfterSettlement'
  BY <1>1 DEF DispatchByHand, Through, Fresh, Gate, FromOutside
<1>2. ASSUME NEW t \in Tasks, DispatchAuto(t) PROVE AfterSettlement'
  BY <1>2 DEF DispatchAuto, Through, Fresh, Gate
<1>3. ASSUME NEW t \in Tasks, RetrySend(t) PROVE AfterSettlement'
  BY <1>3 DEF RetrySend, Through, Fresh, Gate
<1>4. ASSUME NEW t \in Tasks, RebalanceList(t) PROVE AfterSettlement'
  BY <1>4 DEF RebalanceList, FromOutside
<1>5. ASSUME NEW t \in Tasks, RebalanceMove(t) PROVE AfterSettlement'
  BY <1>5 DEF RebalanceMove, FinishDispatch, Call, Fresh
<1>6. ASSUME NEW t \in Tasks, RebalanceRefused(t) PROVE AfterSettlement'
  BY <1>6 DEF RebalanceRefused, Leave, SystemComment
<1>7. ASSUME NEW t \in Tasks, EnterCore(t) PROVE AfterSettlement'
  BY <1>7 DEF EnterCore, Gate, Abort, Leave, Goto
<1>8. ASSUME NEW t \in Tasks, BaselineFails(t) PROVE AfterSettlement'
  BY <1>8 DEF BaselineFails, FromOutside, Abort, Leave, Goto, SystemComment
<1>9. ASSUME NEW t \in Tasks, TryClaimDispatch(t) PROVE AfterSettlement'
  BY <1>9 DEF TryClaimDispatch, Goto, Abort, Leave
<1>10. ASSUME NEW t \in Tasks, Advance(t) PROVE AfterSettlement'
  BY <1>10 DEF Advance, Sent, Goto, SystemComment, TransitionIssue
<1>11. ASSUME NEW t \in Tasks, Refuse(t) PROVE AfterSettlement'
  BY <1>11 DEF Refuse, FinishDispatch, Abort, Leave, Goto
<1>12. ASSUME NEW t \in Tasks, WorkerAccepts(t) PROVE AfterSettlement'
  BY <1>12 DEF WorkerAccepts
<1>13. ASSUME NEW t \in Tasks, RpcAcked(t) PROVE AfterSettlement'
  BY <1>13 DEF RpcAcked, Leave
<1>14. ASSUME NEW t \in Tasks, RpcFails(t) PROVE AfterSettlement'
  BY <1>14 DEF RpcFails, Goto
<1>15. ASSUME NEW t \in Tasks, SendFailed(t) PROVE AfterSettlement'
  BY <1>15 DEF SendFailed, FinishDispatch, Goto
<1>16. ASSUME NEW t \in Tasks, RollbackDispatchFailure(t) PROVE AfterSettlement'
  BY <1>16 DEF RollbackDispatchFailure, Goto
<1>17. ASSUME NEW t \in Tasks, MarkSendFailure(t) PROVE AfterSettlement'
  BY <1>17 DEF MarkSendFailure, Leave, SystemComment
<1>18. ASSUME NEW t \in Tasks, TaskStarted(t) PROVE AfterSettlement'
  BY <1>18 DEF TaskStarted
<1>19. ASSUME NEW t \in Tasks, WriteBackIssue(t) PROVE AfterSettlement'
  BY <1>19 DEF WriteBackIssue, Reflow, TransitionIssue
<1>20. ASSUME NEW t \in Tasks, NEW outcome \in {"done", "failed"}, WriteBack(t, outcome)
       PROVE  AfterSettlement'
  BY <1>20 DEF WriteBack, FinishDispatch
<1>21. ASSUME NEW t \in Tasks, SweepTimeout(t) PROVE AfterSettlement'
  BY <1>21 DEF SweepTimeout, Overdue, SystemComment
<1>22. ASSUME NEW t \in Tasks, SweepReflow(t) PROVE AfterSettlement'
  BY <1>22 DEF SweepReflow, Swept, Reflow, TransitionIssue
<1>23. ASSUME NEW t \in Tasks, SweepFreeze(t) PROVE AfterSettlement'
  BY <1>23 DEF SweepFreeze, Swept, SystemComment
<1>24. ASSUME NEW t \in Tasks, SweepRefused(t) PROVE AfterSettlement'
  BY <1>24 DEF SweepRefused, Leave, SystemComment, Reflow, TransitionIssue
<1>25. ASSUME NEW t \in Tasks, NEW u \in Tasks, SweepRedispatch(t, u) PROVE AfterSettlement'
  BY <1>25 DEF SweepRedispatch, Swept, Call, Fresh
<1>26. ASSUME NEW t \in Tasks, ReviewStart(t) PROVE AfterSettlement'
  BY <1>26 DEF ReviewStart
<1>27. ASSUME NEW t \in Tasks, NEW verdict \in {"pass", "fail", "over"}, ReviewVerdict(t, verdict)
       PROVE  AfterSettlement'
  BY <1>27 DEF ReviewVerdict
<1>28. ASSUME NEW t \in Tasks, ReviewAccept(t) PROVE AfterSettlement'
  BY <1>28 DEF ReviewAccept, ReviewOver, TransitionIssue
<1>29. ASSUME NEW t \in Tasks, ReviewGivesWay(t) PROVE AfterSettlement'
  BY <1>29 DEF ReviewGivesWay, ReviewOver
<1>30. ASSUME NEW t \in Tasks, ReviewStops(t) PROVE AfterSettlement'
  BY <1>30 DEF ReviewStops, ReviewOver, SystemComment
<1>31. ASSUME NEW t \in Tasks, ReviewRefused(t) PROVE AfterSettlement'
  BY <1>31 DEF ReviewRefused, Leave, SystemComment
<1>32. ASSUME NEW t \in Tasks, NEW u \in Tasks, ReviewRedispatch(t, u) PROVE AfterSettlement'
  BY <1>32 DEF ReviewRedispatch, ReviewOver, Call, Fresh
<1>33. ASSUME NEW to \in Statuses, MoveByHand(to) PROVE AfterSettlement'
  BY <1>33 DEF MoveByHand, FromOutside, TransitionIssue
<1>34. CASE CancelReads
  BY <1>34 DEF CancelReads, FromOutside
<1>35. CASE CancelRow
  BY <1>35 DEF CancelRow, FinishDispatch
<1>36. CASE CancelIssue
  BY <1>36 DEF CancelIssue, TransitionIssue
<1>37. ASSUME NEW t \in Tasks, CancelDispatch(t) PROVE AfterSettlement'
  BY <1>37 DEF CancelDispatch, FromOutside, SystemComment
<1>38. CASE Park
  BY <1>38 DEF Park, FromOutside, SystemComment
<1>39. CASE GiveUpSend
  BY <1>39 DEF GiveUpSend, SystemComment
<1>40. CASE Restart
  BY <1>40 DEF Restart
<1>41. CASE UNCHANGED vars
  BY <1>41 DEF vars
<1>42. ASSUME NEW t \in Tasks, SweepHolds(t) PROVE AfterSettlement'
  BY <1>42 DEF SweepHolds, Overdue, SystemComment
<1>43. ASSUME NEW t \in Tasks, ReviewSuspends(t) PROVE AfterSettlement'
  BY <1>43 DEF ReviewSuspends
<1>44. ASSUME NEW t \in Tasks, ReviewDrops(t) PROVE AfterSettlement'
  BY <1>44 DEF ReviewDrops
<1>45. ASSUME NEW t \in Tasks, ReviewResumes(t) PROVE AfterSettlement'
  BY <1>45 DEF ReviewResumes, FromOutside
<1>46. CASE NodeFills
  BY <1>46 DEF NodeFills, FromOutside
<1>47. CASE NodeFrees
  BY <1>47 DEF NodeFrees
<1> QED
  BY <1>1, <1>2, <1>3, <1>4, <1>5, <1>6, <1>7, <1>8, <1>9, <1>10, <1>11, <1>12, <1>13,
     <1>14, <1>15, <1>16, <1>17, <1>18, <1>19, <1>20, <1>21, <1>22, <1>23, <1>24, <1>25,
     <1>26, <1>27, <1>28, <1>29, <1>30, <1>31, <1>32, <1>33, <1>34, <1>35, <1>36, <1>37,
     <1>38, <1>39, <1>40, <1>41, <1>42, <1>43, <1>44, <1>45, <1>46, <1>47
     DEF Next, Dispatching, Sending, Answering, Sweeping, Reviewing, ByHand

(* Step by step, a review is handed on until there is a verdict. *)
LEMMA VerdictStep ==
    ASSUME Shape, Listed, AfterSettlement, VerdictAhead, [Next]_vars
    PROVE  VerdictAhead'
<1> USE DEF Shape, VerdictAhead, Deciding,
      Active, issue, ledger, thread, attempt, settling, review, outside
<1>1. ASSUME NEW t \in Tasks, DispatchByHand(t) PROVE VerdictAhead'
  BY <1>1 DEF DispatchByHand, Through, Fresh, Gate, FromOutside
<1>2. ASSUME NEW t \in Tasks, DispatchAuto(t) PROVE VerdictAhead'
  BY <1>2 DEF DispatchAuto, Through, Fresh, Gate
<1>3. ASSUME NEW t \in Tasks, RetrySend(t) PROVE VerdictAhead'
  BY <1>3 DEF RetrySend, Through, Fresh, Gate
<1>4. ASSUME NEW t \in Tasks, RebalanceList(t) PROVE VerdictAhead'
  BY <1>4 DEF RebalanceList, FromOutside
<1>5. ASSUME NEW t \in Tasks, RebalanceMove(t) PROVE VerdictAhead'
  BY <1>5 DEF RebalanceMove, FinishDispatch, Call, Fresh
<1>6. ASSUME NEW t \in Tasks, RebalanceRefused(t) PROVE VerdictAhead'
  BY <1>6 DEF RebalanceRefused, Leave, SystemComment
<1>7. ASSUME NEW t \in Tasks, EnterCore(t) PROVE VerdictAhead'
  BY <1>7 DEF EnterCore, Gate, Abort, Leave, Goto
<1>8. ASSUME NEW t \in Tasks, BaselineFails(t) PROVE VerdictAhead'
  BY <1>8 DEF BaselineFails, FromOutside, Abort, Leave, Goto, SystemComment
<1>9. ASSUME NEW t \in Tasks, TryClaimDispatch(t) PROVE VerdictAhead'
  <2>1. UNCHANGED <<status, mover, decided, rev>>
    BY <1>9 DEF TryClaimDispatch
  <2>2. CASE HasActive
    BY <1>9, <2>1, <2>2 DEF TryClaimDispatch, Goto, Abort, Leave
  <2>3. CASE ~HasActive
    <3> SUFFICES ASSUME status = "in_review", mover = "system", Len(rows') = 1
                 PROVE  FALSE
      BY <2>1
    <3>1. rows' = Append(rows, t)
      BY <1>9, <2>3 DEF TryClaimDispatch
    <3>2. PICK v \in Tasks : row[v] \in {"done", "failed"}
      BY DEF AfterSettlement, Settled
    <3>3. PICK i \in DOMAIN rows : rows[i] = v
      BY <3>2 DEF Listed
    <3> QED BY <3>1, <3>3
  <2> QED BY <2>2, <2>3
<1>10. ASSUME NEW t \in Tasks, Advance(t) PROVE VerdictAhead'
  BY <1>10 DEF Advance, Sent, Goto, SystemComment, TransitionIssue
<1>11. ASSUME NEW t \in Tasks, Refuse(t) PROVE VerdictAhead'
  BY <1>11 DEF Refuse, FinishDispatch, Abort, Leave, Goto
<1>12. ASSUME NEW t \in Tasks, WorkerAccepts(t) PROVE VerdictAhead'
  BY <1>12 DEF WorkerAccepts
<1>13. ASSUME NEW t \in Tasks, RpcAcked(t) PROVE VerdictAhead'
  BY <1>13 DEF RpcAcked, Leave
<1>14. ASSUME NEW t \in Tasks, RpcFails(t) PROVE VerdictAhead'
  BY <1>14 DEF RpcFails, Goto
<1>15. ASSUME NEW t \in Tasks, SendFailed(t) PROVE VerdictAhead'
  BY <1>15 DEF SendFailed, FinishDispatch, Goto
<1>16. ASSUME NEW t \in Tasks, RollbackDispatchFailure(t) PROVE VerdictAhead'
  BY <1>16 DEF RollbackDispatchFailure, Goto
<1>17. ASSUME NEW t \in Tasks, MarkSendFailure(t) PROVE VerdictAhead'
  BY <1>17 DEF MarkSendFailure, Leave, SystemComment
<1>18. ASSUME NEW t \in Tasks, TaskStarted(t) PROVE VerdictAhead'
  BY <1>18 DEF TaskStarted
<1>19. ASSUME NEW t \in Tasks, WriteBackIssue(t) PROVE VerdictAhead'
  BY <1>19 DEF WriteBackIssue, Reflow, TransitionIssue
<1>20. ASSUME NEW t \in Tasks, NEW outcome \in {"done", "failed"}, WriteBack(t, outcome)
       PROVE  VerdictAhead'
  BY <1>20 DEF WriteBack, FinishDispatch
<1>21. ASSUME NEW t \in Tasks, SweepTimeout(t) PROVE VerdictAhead'
  BY <1>21 DEF SweepTimeout, Overdue, SystemComment
<1>22. ASSUME NEW t \in Tasks, SweepReflow(t) PROVE VerdictAhead'
  BY <1>22 DEF SweepReflow, Swept, Reflow, TransitionIssue
<1>23. ASSUME NEW t \in Tasks, SweepFreeze(t) PROVE VerdictAhead'
  BY <1>23 DEF SweepFreeze, Swept, SystemComment
<1>24. ASSUME NEW t \in Tasks, SweepRefused(t) PROVE VerdictAhead'
  BY <1>24 DEF SweepRefused, Leave, SystemComment, Reflow, TransitionIssue
<1>25. ASSUME NEW t \in Tasks, NEW u \in Tasks, SweepRedispatch(t, u) PROVE VerdictAhead'
  BY <1>25 DEF SweepRedispatch, Swept, Call, Fresh
<1>26. ASSUME NEW t \in Tasks, ReviewStart(t) PROVE VerdictAhead'
  BY <1>26 DEF ReviewStart
<1>27. ASSUME NEW t \in Tasks, NEW verdict \in {"pass", "fail", "over"}, ReviewVerdict(t, verdict)
       PROVE  VerdictAhead'
  BY <1>27 DEF ReviewVerdict
<1>28. ASSUME NEW t \in Tasks, ReviewAccept(t) PROVE VerdictAhead'
  BY <1>28 DEF ReviewAccept, ReviewOver, TransitionIssue, CanTransition
<1>29. ASSUME NEW t \in Tasks, ReviewGivesWay(t) PROVE VerdictAhead'
  BY <1>29 DEF ReviewGivesWay, ReviewOver, AfterSettlement, Settled, Listed, HasActive
<1>30. ASSUME NEW t \in Tasks, ReviewStops(t) PROVE VerdictAhead'
  BY <1>30 DEF ReviewStops, ReviewOver, SystemComment
<1>31. ASSUME NEW t \in Tasks, ReviewRefused(t) PROVE VerdictAhead'
  BY <1>31 DEF ReviewRefused, Leave, SystemComment, AfterSettlement, Settled, Listed, HasActive
<1>32. ASSUME NEW t \in Tasks, NEW u \in Tasks, ReviewRedispatch(t, u) PROVE VerdictAhead'
  BY <1>32 DEF ReviewRedispatch, ReviewOver, Call, Fresh
<1>33. ASSUME NEW to \in Statuses, MoveByHand(to) PROVE VerdictAhead'
  BY <1>33 DEF MoveByHand, FromOutside, TransitionIssue
<1>34. CASE CancelReads
  BY <1>34 DEF CancelReads, FromOutside
<1>35. CASE CancelRow
  BY <1>35 DEF CancelRow, FinishDispatch
<1>36. CASE CancelIssue
  BY <1>36 DEF CancelIssue, TransitionIssue
<1>37. ASSUME NEW t \in Tasks, CancelDispatch(t) PROVE VerdictAhead'
  BY <1>37 DEF CancelDispatch, FromOutside, SystemComment
<1>38. CASE Park
  BY <1>38 DEF Park, FromOutside, SystemComment
<1>39. CASE GiveUpSend
  BY <1>39 DEF GiveUpSend, SystemComment
<1>40. CASE Restart
  <2> SUFFICES ASSUME status = "in_review", mover = "system", ~decided, Len(rows) = 1
               PROVE  \E t \in Tasks : rev'[t] = "pending"
    BY <1>40 DEF Restart
  <2>1. \E u \in Tasks : row[u] \in {"done", "failed"}
    BY DEF AfterSettlement, Settled
  <2>2. rows # <<>> /\ rows[Len(rows)] \in Tasks
    <3>1. rows \in Seq(Tasks) /\ Len(rows) = 1
      OBVIOUS
    <3> QED BY ONLY <3>1
  <2>3. rev'[rows[Len(rows)]] = "pending"
    BY <1>40, <2>1, <2>2 DEF Restart
  <2> QED BY <2>2, <2>3
<1>41. CASE UNCHANGED vars
  BY <1>41 DEF vars
<1>42. ASSUME NEW t \in Tasks, SweepHolds(t) PROVE VerdictAhead'
  BY <1>42 DEF SweepHolds, Overdue, SystemComment
<1>43. ASSUME NEW t \in Tasks, ReviewSuspends(t) PROVE VerdictAhead'
  BY <1>43 DEF ReviewSuspends
<1>44. ASSUME NEW t \in Tasks, ReviewDrops(t) PROVE VerdictAhead'
  BY <1>44 DEF ReviewDrops
<1>45. ASSUME NEW t \in Tasks, ReviewResumes(t) PROVE VerdictAhead'
  BY <1>45 DEF ReviewResumes, FromOutside
<1>46. CASE NodeFills
  BY <1>46 DEF NodeFills, FromOutside
<1>47. CASE NodeFrees
  BY <1>47 DEF NodeFrees
<1> QED
  BY <1>1, <1>2, <1>3, <1>4, <1>5, <1>6, <1>7, <1>8, <1>9, <1>10, <1>11, <1>12, <1>13,
     <1>14, <1>15, <1>16, <1>17, <1>18, <1>19, <1>20, <1>21, <1>22, <1>23, <1>24, <1>25,
     <1>26, <1>27, <1>28, <1>29, <1>30, <1>31, <1>32, <1>33, <1>34, <1>35, <1>36, <1>37,
     <1>38, <1>39, <1>40, <1>41, <1>42, <1>43, <1>44, <1>45, <1>46, <1>47
     DEF Next, Dispatching, Sending, Answering, Sweeping, Reviewing, ByHand

(* For any number of dispatchers, interventions and restarts, no race and no
   restart loses a review on its way to a verdict: an undecided issue has one,
   unless that review itself gave up, on a suspended endpoint or its own
   failure.                                                                *)
THEOREM NoReviewLost == Spec => []VerdictAhead
<1>1. Init => Listed /\ AfterSettlement /\ VerdictAhead
  BY DEF Init, Listed, AfterSettlement, VerdictAhead
<1>2. /\ Shape /\ RowInv /\ Listed /\ AfterSettlement /\ VerdictAhead /\ [Next]_vars
      => (Listed /\ AfterSettlement /\ VerdictAhead)'
  BY SettledStays, ListedStep, AfterSettlementStep, VerdictStep DEF RowInv
<1> QED
  BY <1>1, <1>2, DispatchInvariant, PTL DEF Spec
=============================================================================
