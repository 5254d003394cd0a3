---------------------------- MODULE TaskOutcome ----------------------------
(***************************************************************************)
(* What a task table promises its readers, without threads, attempts or    *)
(* clocks: a task is opened once, decided at most once, by one write of    *)
(* status and result together, and forgotten for good when it is removed.  *)
(***************************************************************************)
CONSTANTS Ids,        \* task ids
          Verdicts,   \* terminal statuses
          Results     \* recorded results

VARIABLE book         \* per id: its phase, and its verdict and result once decided

New          == [phase |-> "new"]
Undecided    == [phase |-> "open"]
Gone         == [phase |-> "gone"]
Decision(to, v) == [phase |-> "decided", to |-> to, val |-> v]

Init == book = [i \in Ids |-> New]

OpenTask(i) ==
    /\ book[i] = New
    /\ book' = [book EXCEPT ![i] = Undecided]

Decide(i, to, v) ==
    /\ book[i] = Undecided
    /\ book' = [book EXCEPT ![i] = Decision(to, v)]

Forget(i) ==
    /\ book[i] \notin {New, Gone}
    /\ book' = [book EXCEPT ![i] = Gone]

Next == \E i \in Ids :
            \/ OpenTask(i)
            \/ Forget(i)
            \/ \E to \in Verdicts, v \in Results : Decide(i, to, v)

Spec == Init /\ [][Next]_book
=============================================================================
