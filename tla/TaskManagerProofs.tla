------------------------- MODULE TaskManagerProofs -------------------------
(* Machine-checked proofs about TaskManager, for any number of tasks, ledger
   runs, callers, results and restarts.                                    *)
EXTENDS TaskManager, FiniteSetTheorems, TLAPS

USE DEF Ids, Terminal, Open, Settled, Status

(* Init and every step preserve the shape of the state. *)
LEMMA TypeInit == Init => TypeOK
  BY Bounds DEF Init, TypeOK, CallStates, CleanStates, OwnerStates, Idle

LEMMA TypeStep == TypeOK /\ [Next]_vars => TypeOK'
<1> SUFFICES ASSUME TypeOK, [Next]_vars PROVE TypeOK'
  OBVIOUS
<1> USE DEF TypeOK
<1>1. ASSUME NEW t \in Tasks, Submit(t) PROVE TypeOK'
  BY <1>1 DEF Submit, route, history
<1>2. ASSUME NEW c \in Callers, NEW t \in Tasks, AssignTask(c, t) PROVE TypeOK'
  BY <1>2 DEF AssignTask, UpdateResultIfStatus, CallStates, route, history
<1>3. ASSUME NEW c \in Callers, NEW t \in Tasks, NEW to \in Settled,
             SettleRefused(c, t, to)
      PROVE  TypeOK'
  BY <1>3 DEF SettleRefused, CallStates, table, route, history
<1>4. ASSUME NEW c \in Callers, NEW t \in Tasks, NEW to \in Settled, NEW v \in Values,
             SettleTask(c, t, to, v)
      PROVE  TypeOK'
  BY <1>4 DEF SettleTask, UpdateResultIfStatus, CallStates, route, history
<1>5. ASSUME NEW c \in Callers, BeginClusterAttempt(c) PROVE TypeOK'
  BY <1>5 DEF BeginClusterAttempt, CallStates, Idle, route, history
<1>6. ASSUME NEW c \in Callers, FireCallback(c) PROVE TypeOK'
  BY SMTT(30), <1>6 DEF FireCallback, FinishOpenAttempts, CallStates, Idle, route
<1>7. ASSUME NEW c \in Callers, IdempotentReply(c) PROVE TypeOK'
  BY <1>7 DEF IdempotentReply, CallStates, Idle, table, route
<1>8. ASSUME NEW c \in Callers, RecordRouteOutcome(c) PROVE TypeOK'
  BY <1>8 DEF RecordRouteOutcome, RecordRoute, CallStates, Idle, table, history
<1>9. ASSUME NEW i \in Ids, DeleteTask(i) PROVE TypeOK'
  BY <1>9 DEF DeleteTask, DeleteRow, route, history
<1>10. ASSUME NEW i \in Ids, CleanPurge(i) PROVE TypeOK'
  BY <1>10 DEF CleanPurge, DeleteRow, CleanStates, Idle, table, route, history
<1>11. ASSUME NEW i \in Ids, CleanExpire(i) PROVE TypeOK'
  BY <1>11 DEF CleanExpire, UpdateResultIfStatus, CleanStates, Idle, route, history
<1>12. ASSUME NEW i \in Ids, CleanSkip(i) PROVE TypeOK'
  BY <1>12 DEF CleanSkip, CleanStates, Idle, table, route, history
<1>13. ASSUME NEW i \in Ids, PassSafetyNet(i) PROVE TypeOK'
  BY <1>13 DEF PassSafetyNet, route, history
<1>14. ASSUME NEW i \in Ids, PassTwoHours(i) PROVE TypeOK'
  BY <1>14 DEF PassTwoHours, route, history
<1>15. CASE CleanStart \/ CleanListPending \/ CleanListRunning \/ CleanEnd
  BY <1>15 DEF CleanStart, CleanListPending, CleanListRunning, CleanEnd, ListByStatus,
               CleanStates, table, route, history
<1>16. CASE CleanFire
  BY <1>16 DEF CleanFire, FinishOpenAttempts, RecordRoute, CleanStates, Idle, history
<1>17. ASSUME NEW r \in Runs, CreateRun(r) PROVE TypeOK'
  BY <1>17 DEF CreateRun, OwnerStates, route, history
<1>18. ASSUME NEW r \in Runs, SetRunRunning(r) PROVE TypeOK'
  BY <1>18 DEF SetRunRunning, OwnerStates, route, history
<1>19. ASSUME NEW r \in Runs, BeginRunAttempt(r) PROVE TypeOK'
  BY <1>19 DEF BeginRunAttempt, OwnerStates, route, history
<1>20. ASSUME NEW r \in Runs, SetRunStatus(r) PROVE TypeOK'
  BY <1>20 DEF SetRunStatus, OwnerStates, route, history
<1>21. ASSUME NEW r \in Runs, NEW to \in Terminal, SettleRun(r, to) PROVE TypeOK'
  BY <1>21 DEF SettleRun, FinishOpenAttempts, OwnerStates, route, history
<1>22. CASE Restart
  BY <1>22, Bounds DEF Restart, CallStates, CleanStates, OwnerStates, table
<1>23. CASE UNCHANGED vars
  BY <1>23 DEF vars, table, route, history
<1>24. QED
  BY <1>1, <1>2, <1>3, <1>4, <1>5, <1>6, <1>7, <1>8, <1>9, <1>10, <1>11, <1>12, <1>13,
     <1>14, <1>15, <1>16, <1>17, <1>18, <1>19, <1>20, <1>21, <1>22, <1>23 DEF Next

(* The state always has its declared shape. *)
THEOREM TypeCorrect == Spec => []TypeOK
  BY TypeInit, TypeStep, PTL DEF Spec

-----------------------------------------------------------------------------
LEMMA SettleInit == Init => SettleInv
  BY DEF Init, SettleInv, WinnerHoldsRow, CleanerHoldsRow, UnsettledIsUnannounced,
         SettlingRunIsClosed, AckedOutcomesAgree, AnnouncedOnce, NoOrphanAttempt, Idle

LEMMA SettleStep == TypeOK /\ SettleInv /\ [Next]_vars => SettleInv'
<1> SUFFICES ASSUME TypeOK, SettleInv, [Next]_vars PROVE SettleInv'
  OBVIOUS
<1> USE DisjointIds DEF TypeOK, CallStates, CleanStates, OwnerStates, SettleInv, WinnerHoldsRow,
        CleanerHoldsRow, UnsettledIsUnannounced, SettlingRunIsClosed, AckedOutcomesAgree,
        AnnouncedOnce, NoOrphanAttempt, Announcing
<1>1. ASSUME NEW t \in Tasks, Submit(t) PROVE SettleInv'
  BY <1>1 DEF Submit, route, history
<1>2. ASSUME NEW c \in Callers, NEW t \in Tasks, AssignTask(c, t) PROVE SettleInv'
  BY <1>2 DEF AssignTask, UpdateResultIfStatus, Idle, route, history
<1>3. ASSUME NEW c \in Callers, NEW t \in Tasks, NEW to \in Settled, SettleRefused(c, t, to) PROVE SettleInv'
  BY <1>3 DEF SettleRefused, Idle, table, route, history
<1>4. ASSUME NEW c \in Callers, NEW t \in Tasks, NEW to \in Settled, NEW v \in Values,
             SettleTask(c, t, to, v) PROVE SettleInv'
  BY <1>4 DEF SettleTask, UpdateResultIfStatus, Idle, route, history
<1>5. ASSUME NEW c \in Callers, BeginClusterAttempt(c) PROVE SettleInv'
  BY <1>5 DEF BeginClusterAttempt, Idle, route, history
<1>6. ASSUME NEW c \in Callers, FireCallback(c) PROVE SettleInv'
  BY <1>6 DEF FireCallback, FinishOpenAttempts, Idle, route
<1>7. ASSUME NEW c \in Callers, IdempotentReply(c) PROVE SettleInv'
  BY <1>7 DEF IdempotentReply, Idle, table, route
<1>8. ASSUME NEW c \in Callers, RecordRouteOutcome(c) PROVE SettleInv'
  BY <1>8 DEF RecordRouteOutcome, Idle, table, history
<1>9. ASSUME NEW i \in Ids, DeleteTask(i) PROVE SettleInv'
  BY <1>9 DEF DeleteTask, DeleteRow, route, history
<1>10. ASSUME NEW i \in Ids, CleanPurge(i) PROVE SettleInv'
  BY <1>10 DEF CleanPurge, DeleteRow, Idle, table, route, history
<1>11. ASSUME NEW i \in Ids, CleanExpire(i) PROVE SettleInv'
  BY <1>11 DEF CleanExpire, UpdateResultIfStatus, Idle, route, history
<1>12. ASSUME NEW i \in Ids, CleanSkip(i) PROVE SettleInv'
  BY <1>12 DEF CleanSkip, Idle, table, route, history
<1>13. ASSUME NEW i \in Ids, PassSafetyNet(i) PROVE SettleInv'
  BY <1>13 DEF PassSafetyNet, route, history
<1>14. ASSUME NEW i \in Ids, PassTwoHours(i) PROVE SettleInv'
  BY <1>14 DEF PassTwoHours, route, history
<1>15. CASE CleanStart \/ CleanListPending \/ CleanListRunning \/ CleanEnd
  BY <1>15 DEF CleanStart, CleanListPending, CleanListRunning, CleanEnd, Idle, table, route, history
<1>16. CASE CleanFire
  BY <1>16 DEF CleanFire, FinishOpenAttempts, Idle, history
<1>17. ASSUME NEW r \in Runs, CreateRun(r) PROVE SettleInv'
  BY <1>17 DEF CreateRun, route, history
<1>18. ASSUME NEW r \in Runs, SetRunRunning(r) PROVE SettleInv'
  <2>0. /\ \A t \in Tasks : status'[t] = status[t]
        /\ UNCHANGED <<attempt, issued, call, clean, fired, acked, lost>>
    BY <1>18 DEF SetRunRunning, route, history
  <2>1. WinnerHoldsRow'
    <3>1. \A c \in Callers : call[c].pc = "won" => call[c].task \in Tasks
      BY DEF Idle
    <3> HIDE DEF TypeOK
    <3>2. QED
      BY <2>0, <3>1
  <2>2. CleanerHoldsRow'
    BY <1>18, <2>0 DEF SetRunRunning
  <2>3. UnsettledIsUnannounced'
    BY <1>18, <2>0 DEF SetRunRunning
  <2>4. SettlingRunIsClosed'
    BY <1>18, <2>0 DEF SetRunRunning
  <2>5. AckedOutcomesAgree'
    BY <1>18, <2>0 DEF SetRunRunning
  <2>6. AnnouncedOnce'
    BY <1>18, <2>0 DEF SetRunRunning
  <2>7. NoOrphanAttempt'
    BY <1>18, <2>0 DEF SetRunRunning
  <2>8. QED
    BY <2>1, <2>2, <2>3, <2>4, <2>5, <2>6, <2>7
<1>19. ASSUME NEW r \in Runs, BeginRunAttempt(r) PROVE SettleInv'
  BY <1>19 DEF BeginRunAttempt, route, history
<1>20. ASSUME NEW r \in Runs, SetRunStatus(r) PROVE SettleInv'
  <2>0. /\ \A t \in Tasks : status'[t] = status[t]
        /\ UNCHANGED <<attempt, issued, call, clean, fired, acked, lost>>
    BY <1>20 DEF SetRunStatus, route, history
  <2>1. WinnerHoldsRow'
    <3>1. \A c \in Callers : call[c].pc = "won" => call[c].task \in Tasks
      BY DEF Idle
    <3> HIDE DEF TypeOK
    <3>2. QED
      BY <2>0, <3>1
  <2>2. CleanerHoldsRow'
    BY <1>20, <2>0 DEF SetRunStatus
  <2>3. UnsettledIsUnannounced'
    BY <1>20, <2>0 DEF SetRunStatus
  <2>4. SettlingRunIsClosed'
    BY <1>20, <2>0 DEF SetRunStatus
  <2>5. AckedOutcomesAgree'
    BY <1>20, <2>0 DEF SetRunStatus
  <2>6. AnnouncedOnce'
    BY <1>20, <2>0 DEF SetRunStatus
  <2>7. NoOrphanAttempt'
    BY <1>20, <2>0 DEF SetRunStatus
  <2>8. QED
    BY <2>1, <2>2, <2>3, <2>4, <2>5, <2>6, <2>7
<1>21. ASSUME NEW r \in Runs, NEW to \in Terminal, SettleRun(r, to) PROVE SettleInv'
  BY <1>21 DEF SettleRun, FinishOpenAttempts, route, history
<1>22. CASE Restart
  BY <1>22 DEF Restart, Idle, table
<1>23. CASE UNCHANGED vars
  BY <1>23 DEF vars, table, route, history
<1> HIDE DEF TypeOK, CallStates, CleanStates, OwnerStates, SettleInv
<1>24. QED
  BY <1>1, <1>2, <1>3, <1>4, <1>5, <1>6, <1>7, <1>8, <1>9, <1>10, <1>11, <1>12, <1>13,
     <1>14, <1>15, <1>16, <1>17, <1>18, <1>19, <1>20, <1>21, <1>22, <1>23 DEF Next

(* SettleInv, the inductive invariant, holds in every reachable state. *)
THEOREM SettleInvariant == Spec => [](TypeOK /\ SettleInv)
  BY TypeInit, TypeStep, SettleInit, SettleStep, PTL DEF Spec

(* complete_task and fail_task never acknowledge contradictory outcomes. *)
THEOREM AcksAgree == Spec => []AckedOutcomesAgree
  BY SettleInvariant, PTL DEF SettleInv

(* A settled task reaches the completion callback exactly once, unless a
   restart falls between the UPDATE and the callback.                      *)
THEOREM CallbackOnce == Spec => []AnnouncedOnce
  BY SettleInvariant, PTL DEF SettleInv

(* No settled row is left with a running attempt. *)
THEOREM AttemptsClosed == Spec => []NoOrphanAttempt
  BY SettleInvariant, PTL DEF SettleInv

-----------------------------------------------------------------------------
(* One step of the table: what it does to a row that is already decided. *)
Decided(i) == status[i] \in Terminal =>
                 \/ status'[i] = "absent"
                 \/ status'[i] = status[i] /\ result'[i] = result[i]

LEMMA DecidedStep == TypeOK /\ [Next]_vars => \A i \in Ids : Decided(i)
<1> SUFFICES ASSUME TypeOK, [Next]_vars, NEW j \in Ids PROVE Decided(j)
  OBVIOUS
<1> USE DEF TypeOK, Decided
<1>1. CASE UNCHANGED table
  BY <1>1 DEF table
<1>2. ASSUME NEW t \in Tasks, Submit(t) PROVE Decided(j)
  BY <1>2 DEF Submit
<1>3. ASSUME NEW c \in Callers, NEW t \in Tasks, AssignTask(c, t) PROVE Decided(j)
  BY <1>3 DEF AssignTask, UpdateResultIfStatus
<1>4. ASSUME NEW c \in Callers, NEW t \in Tasks, NEW to \in Settled, NEW v \in Values,
             SettleTask(c, t, to, v)
      PROVE  Decided(j)
  BY <1>4 DEF SettleTask, UpdateResultIfStatus
<1>5. ASSUME NEW c \in Callers, BeginClusterAttempt(c) \/ FireCallback(c) PROVE Decided(j)
  BY <1>5 DEF BeginClusterAttempt, FireCallback
<1>6. ASSUME NEW i \in Ids, DeleteTask(i) \/ CleanPurge(i) PROVE Decided(j)
  BY <1>6, <1>1 DEF DeleteTask, CleanPurge, DeleteRow
<1>7. ASSUME NEW i \in Ids, CleanExpire(i) PROVE Decided(j)
  BY <1>7 DEF CleanExpire, UpdateResultIfStatus
<1>8. ASSUME NEW i \in Ids, PassSafetyNet(i) \/ PassTwoHours(i) PROVE Decided(j)
  BY <1>8 DEF PassSafetyNet, PassTwoHours
<1>9. CASE CleanFire
  BY <1>9 DEF CleanFire
<1>10. ASSUME NEW r \in Runs,
              CreateRun(r) \/ SetRunRunning(r) \/ BeginRunAttempt(r) \/ SetRunStatus(r)
       PROVE  Decided(j)
  BY <1>10 DEF CreateRun, SetRunRunning, BeginRunAttempt, SetRunStatus
<1>11. ASSUME NEW r \in Runs, NEW to \in Terminal, SettleRun(r, to) PROVE Decided(j)
  BY <1>11 DEF SettleRun
<1>12. CASE UNCHANGED vars
  BY <1>12 DEF vars, table
<1> HIDE DEF TypeOK, Decided
<1>13. QED
  BY <1>1, <1>2, <1>3, <1>4, <1>5, <1>6, <1>7, <1>8, <1>9, <1>10, <1>11, <1>12
     DEF Next, SettleRefused, IdempotentReply, RecordRouteOutcome, CleanSkip, CleanStart,
         CleanListPending, CleanListRunning, CleanEnd, Restart

(* First write wins: a decided row is never rewritten, only removed. *)
THEOREM FirstWrite == Spec => FirstWriteWins
<1>1. TypeOK /\ [Next]_vars => [\A i \in Ids : Decided(i)]_vars
  BY DecidedStep
<1>2. QED
  BY <1>1, TypeCorrect, PTL DEF Spec, FirstWriteWins, Decided

-----------------------------------------------------------------------------
(* Refinement of TaskOutcome.                                              *)

Book == [i \in Ids |-> BookOf(i)]

(* A step that changes the readable columns of row i only. *)
OnlyRow(i) == \A j \in Ids \ {i} : /\ status'[j] = status[j]
                                  /\ result'[j] = result[j]
                                  /\ (j \in issued') = (j \in issued)

LEMMA BookSame == UNCHANGED <<status, result, issued>> => UNCHANGED Book
  BY DEF Book, BookOf

LEMMA BookExcept ==
    ASSUME NEW i \in Ids, OnlyRow(i)
    PROVE  Book' = [Book EXCEPT ![i] = BookOf(i)']
<1>1. ASSUME NEW j \in Ids \ {i} PROVE BookOf(j)' = BookOf(j)
  <2>1. status'[j] = status[j] /\ result'[j] = result[j] /\ (j \in issued') = (j \in issued)
    BY DEF OnlyRow
  <2>2. QED
    BY <2>1 DEF BookOf
<1>2. Book' = [j \in Ids |-> BookOf(j)'] /\ Book = [j \in Ids |-> BookOf(j)]
  BY DEF Book
<1> HIDE DEF Book, BookOf
<1>3. QED
  BY <1>1, <1>2

(* The four things a step may do to one row. *)
LEMMA RowOpened ==
    ASSUME NEW i \in Ids, OnlyRow(i), i \notin issued, status[i] = "absent", status'[i] = "Pending"
    PROVE  Outcome!Next
<1>1. Book[i] = [phase |-> "new"] /\ BookOf(i)' = [phase |-> "open"]
  BY DEF Book, BookOf
<1>2. QED
  BY <1>1, BookExcept DEF Outcome!Next, Outcome!OpenTask, Outcome!New, Outcome!Undecided, Book

LEMMA RowForgotten ==
    ASSUME NEW i \in Ids, OnlyRow(i), i \in issued, i \in issued', TypeOK,
           status[i] # "absent", status'[i] = "absent"
    PROVE  Outcome!Next
<1>1. Book[i] # [phase |-> "new"] /\ Book[i] # [phase |-> "gone"]
  <2>1. Book[i] = IF status[i] \in Open THEN [phase |-> "open"]
                  ELSE [phase |-> "decided", to |-> status[i], val |-> result[i]]
    BY DEF Book, BookOf
  <2>2. Book[i].phase \in {"open", "decided"}
    BY <2>1
  <2>3. QED
    BY <2>2
<1>2. BookOf(i)' = [phase |-> "gone"]
  BY DEF BookOf
<1>3. QED
  BY <1>1, <1>2, BookExcept DEF Outcome!Next, Outcome!Forget, Outcome!New, Outcome!Gone, Book

LEMMA RowDecided ==
    ASSUME NEW i \in Ids, OnlyRow(i), TypeOK, TypeOK',
           status[i] \in Open, status'[i] \in Terminal
    PROVE  Outcome!Next
<1>1. Book[i] = [phase |-> "open"]
  BY DEF Book, BookOf
<1>2. BookOf(i)' = [phase |-> "decided", to |-> status'[i], val |-> result'[i]]
  BY DEF BookOf
<1>3. result'[i] \in Values \cup {NoValue, Timeout}
  BY DEF TypeOK
<1>4. Outcome!Decide(i, status'[i], result'[i])
  BY <1>1, <1>2, BookExcept DEF Outcome!Decide, Outcome!Undecided, Outcome!Decision, Book
<1>5. QED
  BY <1>3, <1>4 DEF Outcome!Next

LEMMA RowStillOpen ==
    ASSUME NEW i \in Ids, OnlyRow(i), status[i] \in Open, status'[i] \in Open, TypeOK
    PROVE  UNCHANGED Book
<1>1. Book[i] = [phase |-> "open"] /\ BookOf(i)' = [phase |-> "open"]
  BY DEF Book, BookOf
<1>2. QED
  BY <1>1, BookExcept DEF Book

LEMMA RefineStep ==
    TypeOK /\ TypeOK' /\ SettleInv /\ [Next]_vars => [Outcome!Next]_Book
<1> SUFFICES ASSUME TypeOK, TypeOK', SettleInv, [Next]_vars PROVE Outcome!Next \/ UNCHANGED Book
  OBVIOUS
<1>0. \A i \in Ids : status[i] # "absent" => i \in issued
  BY DEF SettleInv, UnsettledIsUnannounced
<1> USE DEF OnlyRow
<1>1. CASE UNCHANGED <<status, result, issued>>
  BY <1>1, BookSame
<1>2. ASSUME NEW t \in Tasks, Submit(t) PROVE Outcome!Next
  BY <1>2, RowOpened DEF Submit, TypeOK
<1>3. ASSUME NEW c \in Callers, NEW t \in Tasks, AssignTask(c, t) PROVE UNCHANGED Book
  BY <1>3, RowStillOpen DEF AssignTask, UpdateResultIfStatus, TypeOK
<1>4. ASSUME NEW c \in Callers, NEW t \in Tasks, NEW to \in Settled, NEW v \in Values,
             SettleTask(c, t, to, v)
      PROVE  Outcome!Next
  BY <1>4, RowDecided DEF SettleTask, UpdateResultIfStatus, TypeOK
<1>5. ASSUME NEW i \in Ids, DeleteTask(i) \/ CleanPurge(i)
      PROVE  Outcome!Next \/ UNCHANGED Book
  BY SMTT(30), <1>5, <1>0, <1>1, RowForgotten DEF DeleteTask, CleanPurge, DeleteRow, TypeOK, table
<1>6. ASSUME NEW i \in Ids, CleanExpire(i) PROVE Outcome!Next
  BY <1>6, RowDecided DEF CleanExpire, UpdateResultIfStatus, TypeOK
<1>7. ASSUME NEW r \in Runs, CreateRun(r) PROVE Outcome!Next
  BY <1>7, RowOpened DEF CreateRun, TypeOK
<1>8. ASSUME NEW r \in Runs, SetRunRunning(r) PROVE UNCHANGED Book
  <2>1. CASE status[r] \in Open
    <3>1. OnlyRow(r) /\ status'[r] \in Open
      BY <1>8, <2>1 DEF SetRunRunning, TypeOK
    <3>2. QED
      BY <2>1, <3>1, RowStillOpen
  <2>2. CASE status[r] \notin Open
    BY <1>8, <2>2, BookSame DEF SetRunRunning
  <2>3. QED
    BY <2>1, <2>2
<1>9. ASSUME NEW r \in Runs, SetRunStatus(r) PROVE Outcome!Next \/ UNCHANGED Book
  <2>1. owner[r].to \in Terminal
    BY <1>9 DEF SetRunStatus, TypeOK, OwnerStates
  <2>2. QED
    BY <1>9, <2>1, <1>1, RowDecided DEF SetRunStatus, TypeOK
<1>10. QED
  BY <1>1, <1>2, <1>3, <1>4, <1>5, <1>6, <1>7, <1>8, <1>9
     DEF Next, BeginClusterAttempt, FireCallback, SettleRefused, IdempotentReply,
         RecordRouteOutcome, PassSafetyNet, PassTwoHours, CleanSkip, CleanStart,
         CleanListPending, CleanListRunning, CleanEnd, CleanFire, BeginRunAttempt, SettleRun,
         Restart, vars, table

LEMMA RefineInit == Init => Outcome!Init
  BY DEF Init, Outcome!Init, Outcome!New, BookOf

(* The table with all its threads, ticks and restarts implements TaskOutcome. *)
THEOREM ImplementsOutcome == Spec => RefinesOutcome
  BY RefineInit, RefineStep, SettleInvariant, PTL
     DEF Spec, RefinesOutcome, Outcome!Spec, Book

-----------------------------------------------------------------------------
(* Route accounting below the cap: the dedup set is never dropped, so what
   has been counted is in it.                                              *)
RouteInv == \A i \in Ids : counted[i] <= 1 /\ (counted[i] = 1 => i \in recorded)

LEMMA RouteRecord ==
    ASSUME TypeOK, RouteInv, IsFiniteSet(Ids), RouteCap > Cardinality(Ids),
           NEW i \in Ids, RecordRoute(i)
    PROVE  RouteInv'
<1>1. Cardinality(recorded) <= Cardinality(Ids) /\ Cardinality(recorded) \in Nat
      /\ Cardinality(Ids) \in Nat
  BY FS_Subset, FS_CardinalityType DEF TypeOK
<1>2. ~(Cardinality(recorded) >= RouteCap)
  BY <1>1, Bounds
<1>3. recorded' = recorded \cup {i}
      /\ counted' = IF i \notin recorded /\ status[i] # "absent"
                    THEN [counted EXCEPT ![i] = @ + 1] ELSE counted
  BY <1>2 DEF RecordRoute
<1>4. QED
  BY <1>3 DEF RouteInv, TypeOK

LEMMA RouteStep ==
    ASSUME IsFiniteSet(Ids), RouteCap > Cardinality(Ids), TypeOK, RouteInv, [Next]_vars
    PROVE  RouteInv'
<1>1. CASE UNCHANGED <<recorded, counted>>
  BY <1>1 DEF RouteInv
<1>2. ASSUME NEW c \in Callers, RecordRouteOutcome(c) PROVE RouteInv'
  <2>1. call[c].task \in Ids
    BY <1>2 DEF RecordRouteOutcome, TypeOK, CallStates, Idle
  <2>2. QED
    BY <1>2, <2>1, RouteRecord DEF RecordRouteOutcome
<1>3. CASE CleanFire
  <2>1. clean.task \in Ids
    BY <1>3 DEF CleanFire, TypeOK, CleanStates, Idle
  <2>2. QED
    BY <1>3, <2>1, RouteRecord DEF CleanFire
<1>4. CASE Restart
  BY <1>4 DEF Restart, RouteInv
<1>5. QED
  BY <1>1, <1>2, <1>3, <1>4
     DEF Next, vars, route, Submit, AssignTask, BeginClusterAttempt, SettleTask, SettleRefused,
         FireCallback, IdempotentReply, DeleteTask, CleanStart, CleanPurge, CleanListPending,
         CleanListRunning, CleanEnd, CleanExpire, CleanSkip, CreateRun, SetRunRunning,
         BeginRunAttempt, SettleRun, SetRunStatus, PassSafetyNet, PassTwoHours

(* With finitely many ids and a dedup set that holds them all, no task is
   counted twice, whichever of the funnels settles it.                     *)
THEOREM RouteOnce ==
    ASSUME IsFiniteSet(Ids), RouteCap > Cardinality(Ids)
    PROVE  Spec => []RouteCountedOnce
<1>1. Init => RouteInv
  BY DEF Init, RouteInv
<1>2. TypeOK /\ RouteInv /\ [Next]_vars => RouteInv'
  BY RouteStep
<1>3. RouteInv => RouteCountedOnce
  BY DEF RouteInv, RouteCountedOnce
<1>4. QED
  BY <1>1, <1>2, <1>3, TypeCorrect, PTL DEF Spec
=============================================================================
