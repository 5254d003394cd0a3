----------------------- MODULE TaskResultStoreProofs -----------------------
(***************************************************************************)
(* Proofs about the worker's result store, for any number of tasks and     *)
(* threads, any capacity and any number of crashes.                        *)
(***************************************************************************)
EXTENDS TaskResultStore, TLAPS

(* Thread w is inside store() for task t ... *)
Storer(w, t) == thread[w].pc \in {"evicted", "insert", "write"} /\ thread[w].task = t

(* ... and has not put its entry into the map yet. *)
BeforeInsert(w, t) == thread[w].pc \in {"evicted", "insert"} /\ thread[w].task = t

(* Thread w has taken t out of the map and is about to delete its file. *)
Unlinker(w, t) == thread[w].pc = "unlink" /\ thread[w].task = t

(* A task is stored by one thread at a time: its calls follow each other. *)
OneStorer ==
    \A t \in Tasks : \A w, v \in Threads : Storer(w, t) /\ Storer(v, t) => w = v

(* What a task has left behind, by what has been called for it. *)
Untouched ==
    \A t \in Tasks : phase[t] = "new" =>
        /\ mem[t] = Nothing /\ disk[t] = Nothing
        /\ \A w \in Threads : ~Storer(w, t) /\ ~Unlinker(w, t)

OnlyPlaceholder ==
    \A t \in Tasks : phase[t] = "running" =>
        /\ mem[t].kind # "result" /\ disk[t].kind # "result"
        /\ \A w \in Threads : ~Unlinker(w, t) /\ (Storer(w, t) => thread[w].entry.kind = "running")

OnlyResult ==
    \A t \in Tasks : phase[t] = "reported" =>
        \A w \in Threads : Storer(w, t) => thread[w].entry.kind = "result"

(* While a result is on its way into the map, nobody has one to take out. *)
InsertComesFirst ==
    \A t \in Tasks : \A w \in Threads : BeforeInsert(w, t) =>
        /\ mem[t].kind # "result"
        /\ \A v \in Threads : ~Unlinker(v, t)

UnlinkedIsGone ==
    \A t \in Tasks : \A w \in Threads : Unlinker(w, t) => mem[t] = Nothing

WriterHolds ==
    \A t \in Tasks : \A w \in Threads :
        thread[w].pc = "write" /\ thread[w].task = t => mem[t] \in {Nothing, thread[w].entry}

VictimsAreEvicted ==
    \A w \in Threads : thread[w].pc = "evicted" => thread[w].victim \in evicted

(* A result in the map is in its file, or one thread is about to write it. *)
OnItsWay ==
    \A t \in Tasks \ evicted : mem[t].kind = "result" =>
        \/ disk[t] = mem[t]
        \/ \E w \in Threads : thread[w].pc = "write" /\ thread[w].task = t

Phases == Untouched /\ OnlyPlaceholder /\ OnlyResult
Order  == OneStorer /\ InsertComesFirst /\ UnlinkedIsGone
Files  == WriterHolds /\ VictimsAreEvicted /\ OnItsWay

StoreInv == TypeOK /\ Phases /\ Order /\ Files

-----------------------------------------------------------------------------
USE StoreBounds

(* The shape of a thread's record, one disjunct per program counter. *)
LEMMA ThreadShape ==
    ASSUME TypeOK, NEW w \in Threads
    PROVE  \/ thread[w] = Idle
           \/ /\ thread[w].pc = "evicted" /\ thread[w].task \in Tasks
              /\ thread[w].entry \in Entries /\ thread[w].victim \in Tasks
           \/ /\ thread[w].pc \in {"insert", "write"} /\ thread[w].task \in Tasks
              /\ thread[w].entry \in Entries
           \/ thread[w].pc = "unlink" /\ thread[w].task \in Tasks
BY DEF TypeOK

(* Types: every call leaves map, files and threads in their domains. *)
LEMMA TypeStep ==
    ASSUME TypeOK, [Next]_vars
    PROVE  TypeOK'
<1>1. CASE UNCHANGED vars
  BY <1>1 DEF TypeOK, vars
<1>2. ASSUME NEW w \in Threads, NEW t \in Tasks, SetRunning(w, t) PROVE TypeOK'
  BY <1>2 DEF TypeOK, SetRunning, Store, Entries, Storing, Evicting
<1>3. ASSUME NEW w \in Threads, NEW t \in Tasks, SetResult(w, t) PROVE TypeOK'
  BY <1>3 DEF TypeOK, SetResult, Store, Entries, Storing, Evicting
<1>4. ASSUME NEW w \in Threads, NEW t \in Tasks, DeleteDelivered(w, t) PROVE TypeOK'
  BY <1>4 DEF TypeOK, DeleteDelivered, Remove, Entries, Unlinking
<1>5. ASSUME NEW w \in Threads, NEW t \in Tasks, ConfirmDelivery(w, t) PROVE TypeOK'
  BY <1>5 DEF TypeOK, ConfirmDelivery, Remove, Entries, Unlinking
<1>6. ASSUME NEW w \in Threads, DeleteEvicted(w) PROVE TypeOK'
  BY <1>6, ThreadShape DEF TypeOK, DeleteEvicted, Entries, Storing, Idle
<1>7. ASSUME NEW w \in Threads, Insert(w) PROVE TypeOK'
  BY <1>7, ThreadShape DEF TypeOK, Insert, Storing, Idle
<1>8. ASSUME NEW w \in Threads, WriteToDisk(w) PROVE TypeOK'
  BY <1>8, ThreadShape DEF TypeOK, WriteToDisk, Idle
<1>9. ASSUME NEW w \in Threads, DeleteFromDisk(w) PROVE TypeOK'
  BY <1>9, ThreadShape DEF TypeOK, DeleteFromDisk, Entries, Idle
<1>10. CASE CrashAndReload
  BY <1>10 DEF TypeOK, CrashAndReload, LoadFromDisk, Unswept, Entries
<1> QED BY <1>1, <1>2, <1>3, <1>4, <1>5, <1>6, <1>7, <1>8, <1>9, <1>10 DEF Next

LEMMA InitInv ==
    ASSUME Init
    PROVE  StoreInv
<1>1. TypeOK BY DEF Init, TypeOK, Entries
<1>2. Phases BY DEF Init, Phases, Untouched, OnlyPlaceholder, OnlyResult, Storer, Unlinker, Idle, Nothing
<1>3. Order BY DEF Init, Order, OneStorer, InsertComesFirst, UnlinkedIsGone, Storer, BeforeInsert, Unlinker, Idle
<1>4. Files BY DEF Init, Files, WriterHolds, VictimsAreEvicted, OnItsWay, Idle, Nothing
<1> QED BY <1>1, <1>2, <1>3, <1>4 DEF StoreInv

(* store() up to its first release of the lock: inserted, or an older entry gone. *)
LEMMA StoreEffect ==
    ASSUME TypeOK, NEW w \in Threads, NEW t \in Tasks, NEW kind \in {"running", "result"},
           Store(w, t, kind)
    PROVE  \E e \in Entries :
              /\ e.kind = kind
              /\ thread[w].pc = "idle"
              /\ \A v \in Threads \ {w} : thread'[v] = thread[v]
              /\ \/ /\ mem' = [mem EXCEPT ![t] = e]
                    /\ thread'[w].pc = "write" /\ thread'[w].task = t /\ thread'[w].entry = e
                    /\ evicted' = evicted
                 \/ \E old \in Tasks :
                      /\ mem' = [mem EXCEPT ![old] = Nothing]
                      /\ thread'[w].pc = "evicted" /\ thread'[w].task = t
                      /\ thread'[w].entry = e /\ thread'[w].victim = old
                      /\ evicted' = evicted \cup {old}
<1> DEFINE e == [kind |-> kind, at |-> clock + 1]
<1>1. e \in Entries /\ e.kind = kind
  BY DEF Entries, TypeOK
<1>2. thread[w].pc = "idle" /\ \A v \in Threads \ {w} : thread'[v] = thread[v]
  BY DEF Store, Idle, TypeOK
<1>3. CASE Fits
  BY <1>1, <1>2, <1>3 DEF Store, Storing, TypeOK
<1>4. CASE ~Fits
  <2>1. PICK old \in Tasks :
          /\ mem' = [mem EXCEPT ![old] = Nothing]
          /\ evicted' = evicted \cup {old}
          /\ thread' = [thread EXCEPT ![w] = Evicting(t, e, old)]
    BY <1>4 DEF Store
  <2>2. thread'[w].pc = "evicted" /\ thread'[w].task = t /\ thread'[w].entry = e /\ thread'[w].victim = old
    BY <2>1 DEF Evicting, TypeOK
  <2> QED BY <1>1, <1>2, <2>1, <2>2
<1> QED BY <1>3, <1>4

(* What a call leaves behind agrees with what has been called for the task. *)
LEMMA PhasesStep ==
    ASSUME StoreInv, [Next]_vars
    PROVE  Phases'
<1> USE DEF StoreInv, Phases, Order, Storer, BeforeInsert, Unlinker
<1>0. TypeOK /\ TypeOK'
  BY TypeStep
<1>1. CASE UNCHANGED vars
  BY <1>1 DEF vars, Untouched, OnlyPlaceholder, OnlyResult
<1>2. ASSUME NEW w \in Threads, NEW t \in Tasks, SetRunning(w, t) PROVE Phases'
  <2>1. phase[t] = "new" /\ phase' = [phase EXCEPT ![t] = "running"] /\ disk' = disk
    BY <1>2 DEF SetRunning
  <2>2. \A v \in Threads : ~Storer(v, t) /\ ~Unlinker(v, t)
    BY <1>2, <2>1 DEF SetRunning, Untouched
  <2>3. PICK e \in Entries :
          /\ e.kind = "running"
          /\ thread[w].pc = "idle"
          /\ \A v \in Threads \ {w} : thread'[v] = thread[v]
          /\ \/ /\ mem' = [mem EXCEPT ![t] = e]
                /\ thread'[w].pc = "write" /\ thread'[w].task = t /\ thread'[w].entry = e
                /\ evicted' = evicted
             \/ \E old \in Tasks :
                  /\ mem' = [mem EXCEPT ![old] = Nothing]
                  /\ thread'[w].pc = "evicted" /\ thread'[w].task = t
                  /\ thread'[w].entry = e /\ thread'[w].victim = old
                  /\ evicted' = evicted \cup {old}
    BY <1>0, <1>2, StoreEffect DEF SetRunning
  <2>4. mem[t].kind # "result" /\ disk[t].kind # "result" /\ e # Nothing
    BY <2>1, <2>3 DEF Untouched, OnlyPlaceholder, Nothing
  <2>5. Untouched'
    BY <1>0, <2>1, <2>2, <2>3, <2>4 DEF Nothing, TypeOK, Untouched
  <2>6. OnlyPlaceholder'
    BY <1>0, <2>1, <2>2, <2>3, <2>4 DEF Nothing, TypeOK, OnlyPlaceholder
  <2>7. OnlyResult'
    BY <1>0, <2>1, <2>2, <2>3, <2>4 DEF Nothing, TypeOK, OnlyResult
  <2> QED BY <2>5, <2>6, <2>7
<1>3. ASSUME NEW w \in Threads, NEW t \in Tasks, SetResult(w, t) PROVE Phases'
  <2>1. phase[t] = "running" /\ phase' = [phase EXCEPT ![t] = "reported"] /\ disk' = disk
    BY <1>3 DEF SetResult
  <2>2. \A v \in Threads : ~Storer(v, t) /\ ~Unlinker(v, t)
    BY <1>3, <2>1 DEF SetResult, Idle
  <2>3. PICK e \in Entries :
          /\ e.kind = "result"
          /\ thread[w].pc = "idle"
          /\ \A v \in Threads \ {w} : thread'[v] = thread[v]
          /\ \/ /\ mem' = [mem EXCEPT ![t] = e]
                /\ thread'[w].pc = "write" /\ thread'[w].task = t /\ thread'[w].entry = e
                /\ evicted' = evicted
             \/ \E old \in Tasks :
                  /\ mem' = [mem EXCEPT ![old] = Nothing]
                  /\ thread'[w].pc = "evicted" /\ thread'[w].task = t
                  /\ thread'[w].entry = e /\ thread'[w].victim = old
                  /\ evicted' = evicted \cup {old}
    BY <1>0, <1>3, StoreEffect DEF SetResult
  <2>4. mem[t].kind # "result" /\ disk[t].kind # "result" /\ e # Nothing
    BY <2>1, <2>3 DEF Untouched, OnlyPlaceholder, Nothing
  <2>5. Untouched'
    BY <1>0, <2>1, <2>2, <2>3, <2>4 DEF Nothing, TypeOK, Untouched
  <2>6. OnlyPlaceholder'
    BY <1>0, <2>1, <2>2, <2>3, <2>4 DEF Nothing, TypeOK, OnlyPlaceholder
  <2>7. OnlyResult'
    BY <1>0, <2>1, <2>2, <2>3, <2>4 DEF Nothing, TypeOK, OnlyResult
  <2> QED BY <2>5, <2>6, <2>7
<1>4. ASSUME NEW w \in Threads, NEW t \in Tasks, DeleteDelivered(w, t) PROVE Phases'
  <2>1. Untouched'
    BY <1>0, <1>4, ThreadShape DEF DeleteDelivered, Remove, Unlinking, Entries, Idle, Nothing, TypeOK, Untouched
  <2>2. OnlyPlaceholder'
    BY <1>0, <1>4, ThreadShape DEF DeleteDelivered, Remove, Unlinking, Entries, Idle, Nothing, TypeOK, OnlyPlaceholder
  <2>3. OnlyResult'
    BY <1>0, <1>4, ThreadShape DEF DeleteDelivered, Remove, Unlinking, Entries, Idle, Nothing, TypeOK, OnlyResult
  <2> QED BY <2>1, <2>2, <2>3
<1>5. ASSUME NEW w \in Threads, NEW t \in Tasks, ConfirmDelivery(w, t) PROVE Phases'
  <2>1. Untouched'
    BY <1>0, <1>5, ThreadShape DEF ConfirmDelivery, Remove, Unlinking, Entries, Idle, Nothing, TypeOK, Untouched
  <2>2. OnlyPlaceholder'
    BY <1>0, <1>5, ThreadShape DEF ConfirmDelivery, Remove, Unlinking, Entries, Idle, Nothing, TypeOK, OnlyPlaceholder
  <2>3. OnlyResult'
    BY <1>0, <1>5, ThreadShape DEF ConfirmDelivery, Remove, Unlinking, Entries, Idle, Nothing, TypeOK, OnlyResult
  <2> QED BY <2>1, <2>2, <2>3
<1>6. ASSUME NEW w \in Threads, DeleteEvicted(w) PROVE Phases'
  <2>1. Untouched'
    BY <1>0, <1>6, ThreadShape DEF DeleteEvicted, Storing, Entries, Idle, Nothing, TypeOK, Untouched
  <2>2. OnlyPlaceholder'
    BY <1>0, <1>6, ThreadShape DEF DeleteEvicted, Storing, Entries, Idle, Nothing, TypeOK, OnlyPlaceholder
  <2>3. OnlyResult'
    BY <1>0, <1>6, ThreadShape DEF DeleteEvicted, Storing, Entries, Idle, Nothing, TypeOK, OnlyResult
  <2> QED BY <2>1, <2>2, <2>3
<1>7. ASSUME NEW w \in Threads, Insert(w) PROVE Phases'
  <2>1. Untouched'
    BY <1>0, <1>7, ThreadShape DEF Insert, Storing, Entries, Idle, Nothing, TypeOK, Untouched
  <2>2. OnlyPlaceholder'
    BY <1>0, <1>7, ThreadShape DEF Insert, Storing, Entries, Idle, Nothing, TypeOK, OnlyPlaceholder
  <2>3. OnlyResult'
    BY <1>0, <1>7, ThreadShape DEF Insert, Storing, Entries, Idle, Nothing, TypeOK, OnlyResult
  <2> QED BY <2>1, <2>2, <2>3
<1>8. ASSUME NEW w \in Threads, WriteToDisk(w) PROVE Phases'
  <2>1. Untouched'
    BY <1>0, <1>8, ThreadShape DEF WriteToDisk, Entries, Idle, Nothing, TypeOK, Untouched
  <2>2. OnlyPlaceholder'
    BY <1>0, <1>8, ThreadShape DEF WriteToDisk, Entries, Idle, Nothing, TypeOK, OnlyPlaceholder
  <2>3. OnlyResult'
    BY <1>0, <1>8, ThreadShape DEF WriteToDisk, Entries, Idle, Nothing, TypeOK, OnlyResult
  <2> QED BY <2>1, <2>2, <2>3
<1>9. ASSUME NEW w \in Threads, DeleteFromDisk(w) PROVE Phases'
  <2>1. Untouched'
    BY <1>0, <1>9, ThreadShape DEF DeleteFromDisk, Entries, Idle, Nothing, TypeOK, Untouched
  <2>2. OnlyPlaceholder'
    BY <1>0, <1>9, ThreadShape DEF DeleteFromDisk, Entries, Idle, Nothing, TypeOK, OnlyPlaceholder
  <2>3. OnlyResult'
    BY <1>0, <1>9, ThreadShape DEF DeleteFromDisk, Entries, Idle, Nothing, TypeOK, OnlyResult
  <2> QED BY <2>1, <2>2, <2>3
<1>10. CASE CrashAndReload
  <2>1. Untouched'
    BY <1>0, <1>10 DEF CrashAndReload, LoadFromDisk, Unswept, Loadable, Placeholders, Idle, Nothing, TypeOK, Entries, Untouched
  <2>2. OnlyPlaceholder'
    BY <1>0, <1>10 DEF CrashAndReload, LoadFromDisk, Unswept, Loadable, Placeholders, Idle, Nothing, TypeOK, Entries, OnlyPlaceholder
  <2>3. OnlyResult'
    BY <1>0, <1>10 DEF CrashAndReload, LoadFromDisk, Unswept, Loadable, Placeholders, Idle, Nothing, TypeOK, Entries, OnlyResult
  <2> QED BY <2>1, <2>2, <2>3
<1> QED BY <1>1, <1>2, <1>3, <1>4, <1>5, <1>6, <1>7, <1>8, <1>9, <1>10 DEF Next

(* A store, and what takes the result out again, follow each other. *)
LEMMA OrderStep ==
    ASSUME StoreInv, [Next]_vars
    PROVE  Order'
<1> USE DEF StoreInv, Phases, Order, Storer, BeforeInsert, Unlinker
<1>0. TypeOK /\ TypeOK'
  BY TypeStep
<1>1. CASE UNCHANGED vars
  BY <1>1 DEF vars, OneStorer, InsertComesFirst, UnlinkedIsGone
<1>2. ASSUME NEW w \in Threads, NEW t \in Tasks, SetRunning(w, t) PROVE Order'
  <2>1. phase[t] = "new" /\ phase' = [phase EXCEPT ![t] = "running"] /\ disk' = disk
    BY <1>2 DEF SetRunning
  <2>2. \A v \in Threads : ~Storer(v, t) /\ ~Unlinker(v, t)
    BY <1>2, <2>1 DEF SetRunning, Untouched
  <2>3. PICK e \in Entries :
          /\ e.kind = "running"
          /\ thread[w].pc = "idle"
          /\ \A v \in Threads \ {w} : thread'[v] = thread[v]
          /\ \/ /\ mem' = [mem EXCEPT ![t] = e]
                /\ thread'[w].pc = "write" /\ thread'[w].task = t /\ thread'[w].entry = e
                /\ evicted' = evicted
             \/ \E old \in Tasks :
                  /\ mem' = [mem EXCEPT ![old] = Nothing]
                  /\ thread'[w].pc = "evicted" /\ thread'[w].task = t
                  /\ thread'[w].entry = e /\ thread'[w].victim = old
                  /\ evicted' = evicted \cup {old}
    BY <1>0, <1>2, StoreEffect DEF SetRunning
  <2>4. mem[t].kind # "result" /\ disk[t].kind # "result" /\ e # Nothing
    BY <2>1, <2>3 DEF Untouched, OnlyPlaceholder, Nothing
  <2>5. OneStorer'
    BY <1>0, <2>1, <2>2, <2>3, <2>4 DEF Nothing, TypeOK, OneStorer
  <2>6. InsertComesFirst'
    BY <1>0, <2>1, <2>2, <2>3, <2>4 DEF Nothing, TypeOK, InsertComesFirst
  <2>7. UnlinkedIsGone'
    BY <1>0, <2>1, <2>2, <2>3, <2>4 DEF Nothing, TypeOK, UnlinkedIsGone
  <2> QED BY <2>5, <2>6, <2>7
<1>3. ASSUME NEW w \in Threads, NEW t \in Tasks, SetResult(w, t) PROVE Order'
  <2>1. phase[t] = "running" /\ phase' = [phase EXCEPT ![t] = "reported"] /\ disk' = disk
    BY <1>3 DEF SetResult
  <2>2. \A v \in Threads : ~Storer(v, t) /\ ~Unlinker(v, t)
    BY <1>3, <2>1 DEF SetResult, Idle
  <2>3. PICK e \in Entries :
          /\ e.kind = "result"
          /\ thread[w].pc = "idle"
          /\ \A v \in Threads \ {w} : thread'[v] = thread[v]
          /\ \/ /\ mem' = [mem EXCEPT ![t] = e]
                /\ thread'[w].pc = "write" /\ thread'[w].task = t /\ thread'[w].entry = e
                /\ evicted' = evicted
             \/ \E old \in Tasks :
                  /\ mem' = [mem EXCEPT ![old] = Nothing]
                  /\ thread'[w].pc = "evicted" /\ thread'[w].task = t
                  /\ thread'[w].entry = e /\ thread'[w].victim = old
                  /\ evicted' = evicted \cup {old}
    BY <1>0, <1>3, StoreEffect DEF SetResult
  <2>4. mem[t].kind # "result" /\ disk[t].kind # "result" /\ e # Nothing
    BY <2>1, <2>3 DEF Untouched, OnlyPlaceholder, Nothing
  <2>5. OneStorer'
    BY <1>0, <2>1, <2>2, <2>3, <2>4 DEF Nothing, TypeOK, OneStorer
  <2>6. InsertComesFirst'
    BY <1>0, <2>1, <2>2, <2>3, <2>4 DEF Nothing, TypeOK, InsertComesFirst
  <2>7. UnlinkedIsGone'
    BY <1>0, <2>1, <2>2, <2>3, <2>4 DEF Nothing, TypeOK, UnlinkedIsGone
  <2> QED BY <2>5, <2>6, <2>7
<1>4. ASSUME NEW w \in Threads, NEW t \in Tasks, DeleteDelivered(w, t) PROVE Order'
  <2>1. OneStorer'
    BY <1>0, <1>4, ThreadShape DEF DeleteDelivered, Remove, Unlinking, Entries, Idle, Nothing, TypeOK, OneStorer
  <2>2. InsertComesFirst'
    BY <1>0, <1>4, ThreadShape DEF DeleteDelivered, Remove, Unlinking, Entries, Idle, Nothing, TypeOK, InsertComesFirst
  <2>3. UnlinkedIsGone'
    BY <1>0, <1>4, ThreadShape DEF DeleteDelivered, Remove, Unlinking, Entries, Idle, Nothing, TypeOK, UnlinkedIsGone
  <2> QED BY <2>1, <2>2, <2>3
<1>5. ASSUME NEW w \in Threads, NEW t \in Tasks, ConfirmDelivery(w, t) PROVE Order'
  <2>1. OneStorer'
    BY <1>0, <1>5, ThreadShape DEF ConfirmDelivery, Remove, Unlinking, Entries, Idle, Nothing, TypeOK, OneStorer
  <2>2. InsertComesFirst'
    BY <1>0, <1>5, ThreadShape DEF ConfirmDelivery, Remove, Unlinking, Entries, Idle, Nothing, TypeOK, InsertComesFirst
  <2>3. UnlinkedIsGone'
    BY <1>0, <1>5, ThreadShape DEF ConfirmDelivery, Remove, Unlinking, Entries, Idle, Nothing, TypeOK, UnlinkedIsGone
  <2> QED BY <2>1, <2>2, <2>3
<1>6. ASSUME NEW w \in Threads, DeleteEvicted(w) PROVE Order'
  <2>1. OneStorer'
    BY <1>0, <1>6, ThreadShape DEF DeleteEvicted, Storing, Entries, Idle, Nothing, TypeOK, OneStorer
  <2>2. InsertComesFirst'
    BY <1>0, <1>6, ThreadShape DEF DeleteEvicted, Storing, Entries, Idle, Nothing, TypeOK, InsertComesFirst
  <2>3. UnlinkedIsGone'
    BY <1>0, <1>6, ThreadShape DEF DeleteEvicted, Storing, Entries, Idle, Nothing, TypeOK, UnlinkedIsGone
  <2> QED BY <2>1, <2>2, <2>3
<1>7. ASSUME NEW w \in Threads, Insert(w) PROVE Order'
  <2>1. OneStorer'
    BY <1>0, <1>7, ThreadShape DEF Insert, Storing, Entries, Idle, Nothing, TypeOK, OneStorer
  <2>2. InsertComesFirst'
    BY <1>0, <1>7, ThreadShape DEF Insert, Storing, Entries, Idle, Nothing, TypeOK, InsertComesFirst, OneStorer
  <2>3. UnlinkedIsGone'
    BY <1>0, <1>7, ThreadShape DEF Insert, Storing, Entries, Idle, Nothing, TypeOK, UnlinkedIsGone, InsertComesFirst
  <2> QED BY <2>1, <2>2, <2>3
<1>8. ASSUME NEW w \in Threads, WriteToDisk(w) PROVE Order'
  <2>1. OneStorer'
    BY <1>0, <1>8, ThreadShape DEF WriteToDisk, Entries, Idle, Nothing, TypeOK, OneStorer
  <2>2. InsertComesFirst'
    BY <1>0, <1>8, ThreadShape DEF WriteToDisk, Entries, Idle, Nothing, TypeOK, InsertComesFirst
  <2>3. UnlinkedIsGone'
    BY <1>0, <1>8, ThreadShape DEF WriteToDisk, Entries, Idle, Nothing, TypeOK, UnlinkedIsGone
  <2> QED BY <2>1, <2>2, <2>3
<1>9. ASSUME NEW w \in Threads, DeleteFromDisk(w) PROVE Order'
  <2>1. OneStorer'
    BY <1>0, <1>9, ThreadShape DEF DeleteFromDisk, Entries, Idle, Nothing, TypeOK, OneStorer
  <2>2. InsertComesFirst'
    BY <1>0, <1>9, ThreadShape DEF DeleteFromDisk, Entries, Idle, Nothing, TypeOK, InsertComesFirst
  <2>3. UnlinkedIsGone'
    BY <1>0, <1>9, ThreadShape DEF DeleteFromDisk, Entries, Idle, Nothing, TypeOK, UnlinkedIsGone
  <2> QED BY <2>1, <2>2, <2>3
<1>10. CASE CrashAndReload
  <2>1. OneStorer'
    BY <1>0, <1>10 DEF CrashAndReload, LoadFromDisk, Unswept, Loadable, Placeholders, Idle, Nothing, TypeOK, Entries, OneStorer
  <2>2. InsertComesFirst'
    BY <1>0, <1>10 DEF CrashAndReload, LoadFromDisk, Unswept, Loadable, Placeholders, Idle, Nothing, TypeOK, Entries, InsertComesFirst
  <2>3. UnlinkedIsGone'
    BY <1>0, <1>10 DEF CrashAndReload, LoadFromDisk, Unswept, Loadable, Placeholders, Idle, Nothing, TypeOK, Entries, UnlinkedIsGone
  <2> QED BY <2>1, <2>2, <2>3
<1> QED BY <1>1, <1>2, <1>3, <1>4, <1>5, <1>6, <1>7, <1>8, <1>9, <1>10 DEF Next

(* A result in the map reaches its file. *)
LEMMA FilesStep ==
    ASSUME StoreInv, [Next]_vars
    PROVE  Files'
<1> USE DEF StoreInv, Phases, Order, Files, Storer, BeforeInsert, Unlinker
<1>0. TypeOK /\ TypeOK'
  BY TypeStep
<1>1. CASE UNCHANGED vars
  BY <1>1 DEF vars, WriterHolds, VictimsAreEvicted, OnItsWay
<1>2. ASSUME NEW w \in Threads, NEW t \in Tasks, SetRunning(w, t) PROVE Files'
  <2>1. phase[t] = "new" /\ phase' = [phase EXCEPT ![t] = "running"] /\ disk' = disk
    BY <1>2 DEF SetRunning
  <2>2. \A v \in Threads : ~Storer(v, t) /\ ~Unlinker(v, t)
    BY <1>2, <2>1 DEF SetRunning, Untouched
  <2>3. PICK e \in Entries :
          /\ e.kind = "running"
          /\ thread[w].pc = "idle"
          /\ \A v \in Threads \ {w} : thread'[v] = thread[v]
          /\ \/ /\ mem' = [mem EXCEPT ![t] = e]
                /\ thread'[w].pc = "write" /\ thread'[w].task = t /\ thread'[w].entry = e
                /\ evicted' = evicted
             \/ \E old \in Tasks :
                  /\ mem' = [mem EXCEPT ![old] = Nothing]
                  /\ thread'[w].pc = "evicted" /\ thread'[w].task = t
                  /\ thread'[w].entry = e /\ thread'[w].victim = old
                  /\ evicted' = evicted \cup {old}
    BY <1>0, <1>2, StoreEffect DEF SetRunning
  <2>4. mem[t].kind # "result" /\ disk[t].kind # "result" /\ e # Nothing
    BY <2>1, <2>3 DEF Untouched, OnlyPlaceholder, Nothing
  <2>5. WriterHolds'
    BY <1>0, <2>1, <2>2, <2>3, <2>4 DEF Nothing, TypeOK, WriterHolds
  <2>6. VictimsAreEvicted'
    BY <1>0, <2>1, <2>2, <2>3, <2>4 DEF Nothing, TypeOK, VictimsAreEvicted
  <2>7. OnItsWay'
    BY <1>0, <2>1, <2>2, <2>3, <2>4 DEF Nothing, TypeOK, OnItsWay
  <2> QED BY <2>5, <2>6, <2>7
<1>3. ASSUME NEW w \in Threads, NEW t \in Tasks, SetResult(w, t) PROVE Files'
  <2>1. phase[t] = "running" /\ phase' = [phase EXCEPT ![t] = "reported"] /\ disk' = disk
    BY <1>3 DEF SetResult
  <2>2. \A v \in Threads : ~Storer(v, t) /\ ~Unlinker(v, t)
    BY <1>3, <2>1 DEF SetResult, Idle
  <2>3. PICK e \in Entries :
          /\ e.kind = "result"
          /\ thread[w].pc = "idle"
          /\ \A v \in Threads \ {w} : thread'[v] = thread[v]
          /\ \/ /\ mem' = [mem EXCEPT ![t] = e]
                /\ thread'[w].pc = "write" /\ thread'[w].task = t /\ thread'[w].entry = e
                /\ evicted' = evicted
             \/ \E old \in Tasks :
                  /\ mem' = [mem EXCEPT ![old] = Nothing]
                  /\ thread'[w].pc = "evicted" /\ thread'[w].task = t
                  /\ thread'[w].entry = e /\ thread'[w].victim = old
                  /\ evicted' = evicted \cup {old}
    BY <1>0, <1>3, StoreEffect DEF SetResult
  <2>4. mem[t].kind # "result" /\ disk[t].kind # "result" /\ e # Nothing
    BY <2>1, <2>3 DEF Untouched, OnlyPlaceholder, Nothing
  <2>5. WriterHolds'
    BY <1>0, <2>1, <2>2, <2>3, <2>4 DEF Nothing, TypeOK, WriterHolds
  <2>6. VictimsAreEvicted'
    BY <1>0, <2>1, <2>2, <2>3, <2>4 DEF Nothing, TypeOK, VictimsAreEvicted
  <2>7. OnItsWay'
    BY <1>0, <2>1, <2>2, <2>3, <2>4 DEF Nothing, TypeOK, OnItsWay
  <2> QED BY <2>5, <2>6, <2>7
<1>4. ASSUME NEW w \in Threads, NEW t \in Tasks, DeleteDelivered(w, t) PROVE Files'
  <2>1. WriterHolds'
    BY <1>0, <1>4, ThreadShape DEF DeleteDelivered, Remove, Unlinking, Entries, Idle, Nothing, TypeOK, WriterHolds
  <2>2. VictimsAreEvicted'
    BY <1>0, <1>4, ThreadShape DEF DeleteDelivered, Remove, Unlinking, Entries, Idle, Nothing, TypeOK, VictimsAreEvicted
  <2>3. OnItsWay'
    BY <1>0, <1>4, ThreadShape DEF DeleteDelivered, Remove, Unlinking, Entries, Idle, Nothing, TypeOK, OnItsWay
  <2> QED BY <2>1, <2>2, <2>3
<1>5. ASSUME NEW w \in Threads, NEW t \in Tasks, ConfirmDelivery(w, t) PROVE Files'
  <2>1. WriterHolds'
    BY <1>0, <1>5, ThreadShape DEF ConfirmDelivery, Remove, Unlinking, Entries, Idle, Nothing, TypeOK, WriterHolds
  <2>2. VictimsAreEvicted'
    BY <1>0, <1>5, ThreadShape DEF ConfirmDelivery, Remove, Unlinking, Entries, Idle, Nothing, TypeOK, VictimsAreEvicted
  <2>3. OnItsWay'
    BY <1>0, <1>5, ThreadShape DEF ConfirmDelivery, Remove, Unlinking, Entries, Idle, Nothing, TypeOK, OnItsWay
  <2> QED BY <2>1, <2>2, <2>3
<1>6. ASSUME NEW w \in Threads, DeleteEvicted(w) PROVE Files'
  <2>1. WriterHolds'
    BY <1>0, <1>6, ThreadShape DEF DeleteEvicted, Storing, Entries, Idle, Nothing, TypeOK, WriterHolds
  <2>2. VictimsAreEvicted'
    BY <1>0, <1>6, ThreadShape DEF DeleteEvicted, Storing, Entries, Idle, Nothing, TypeOK, VictimsAreEvicted
  <2>3. OnItsWay'
    BY <1>0, <1>6, ThreadShape DEF DeleteEvicted, Storing, Entries, Idle, Nothing, TypeOK, OnItsWay, VictimsAreEvicted
  <2> QED BY <2>1, <2>2, <2>3
<1>7. ASSUME NEW w \in Threads, Insert(w) PROVE Files'
  <2>1. WriterHolds'
    BY <1>0, <1>7, ThreadShape DEF Insert, Storing, Entries, Idle, Nothing, TypeOK, WriterHolds, OneStorer
  <2>2. VictimsAreEvicted'
    BY <1>0, <1>7, ThreadShape DEF Insert, Storing, Entries, Idle, Nothing, TypeOK, VictimsAreEvicted
  <2>3. OnItsWay'
    BY <1>0, <1>7, ThreadShape DEF Insert, Storing, Entries, Idle, Nothing, TypeOK, OnItsWay
  <2> QED BY <2>1, <2>2, <2>3
<1>8. ASSUME NEW w \in Threads, WriteToDisk(w) PROVE Files'
  <2>1. WriterHolds'
    BY <1>0, <1>8, ThreadShape DEF WriteToDisk, Entries, Idle, Nothing, TypeOK, WriterHolds
  <2>2. VictimsAreEvicted'
    BY <1>0, <1>8, ThreadShape DEF WriteToDisk, Entries, Idle, Nothing, TypeOK, VictimsAreEvicted
  <2>3. OnItsWay'
    BY <1>0, <1>8, ThreadShape DEF WriteToDisk, Entries, Idle, Nothing, TypeOK, OnItsWay, WriterHolds
  <2> QED BY <2>1, <2>2, <2>3
<1>9. ASSUME NEW w \in Threads, DeleteFromDisk(w) PROVE Files'
  <2>1. WriterHolds'
    BY <1>0, <1>9, ThreadShape DEF DeleteFromDisk, Entries, Idle, Nothing, TypeOK, WriterHolds
  <2>2. VictimsAreEvicted'
    BY <1>0, <1>9, ThreadShape DEF DeleteFromDisk, Entries, Idle, Nothing, TypeOK, VictimsAreEvicted
  <2>3. OnItsWay'
    BY <1>0, <1>9, ThreadShape DEF DeleteFromDisk, Entries, Idle, Nothing, TypeOK, OnItsWay, UnlinkedIsGone
  <2> QED BY <2>1, <2>2, <2>3
<1>10. CASE CrashAndReload
  <2>1. WriterHolds'
    BY <1>0, <1>10 DEF CrashAndReload, LoadFromDisk, Unswept, Loadable, Placeholders, Idle, Nothing, TypeOK, Entries, WriterHolds
  <2>2. VictimsAreEvicted'
    BY <1>0, <1>10 DEF CrashAndReload, LoadFromDisk, Unswept, Loadable, Placeholders, Idle, Nothing, TypeOK, Entries, VictimsAreEvicted
  <2>3. OnItsWay'
    BY <1>0, <1>10 DEF CrashAndReload, LoadFromDisk, Unswept, Loadable, Placeholders, Idle, Nothing, TypeOK, Entries, OnItsWay
  <2> QED BY <2>1, <2>2, <2>3
<1> QED BY <1>1, <1>2, <1>3, <1>4, <1>5, <1>6, <1>7, <1>8, <1>9, <1>10 DEF Next

(* The inductive invariant of the result store: it holds initially and every
   call, every step of a call and every crash preserves it.                 *)
THEOREM StoreInvariant == Spec => []StoreInv
<1>1. Init => StoreInv
  BY InitInv
<1>2. StoreInv /\ [Next]_vars => StoreInv'
  BY TypeStep, PhasesStep, OrderStep, FilesStep DEF StoreInv
<1> QED BY <1>1, <1>2, PTL DEF Spec

(* Map, files and threads keep their types (task_result_store.rs). *)
THEOREM TypeCorrect == Spec => []TypeOK
<1>1. StoreInv => TypeOK
  BY DEF StoreInv
<1> QED BY <1>1, StoreInvariant, PTL

(* A result in memory that no call is working on is in its file, unless the
   entry once had to make room: what store() and load_from_disk promise.    *)
THEOREM ResultsAreDurable == Spec => []StoredIsDurable
<1>1. StoreInv => StoredIsDurable
  BY DEF StoreInv, Files, OnItsWay, StoredIsDurable, Busy
<1> QED BY <1>1, StoreInvariant, PTL

(* What a step may not do to a task's entry. *)
Kept(t) ==
    /\ mem[t].kind = "result" => mem'[t].kind # "running"
    /\ phase[t] = "reported" /\ mem[t] = Nothing => mem'[t].kind # "running"

LEMMA KeptStep ==
    ASSUME StoreInv, Next
    PROVE  \A t \in Tasks : Kept(t)
<1> USE DEF StoreInv, Phases, Order, Storer, Kept
<1>1. ASSUME NEW w \in Threads, NEW t \in Tasks, SetRunning(w, t) PROVE \A u \in Tasks : Kept(u)
  BY <1>1 DEF SetRunning, Store, Untouched, Nothing, TypeOK
<1>2. ASSUME NEW w \in Threads, NEW t \in Tasks, SetResult(w, t) PROVE \A u \in Tasks : Kept(u)
  BY <1>2 DEF SetResult, Store, Nothing, TypeOK
<1>3. ASSUME NEW w \in Threads, NEW t \in Tasks, DeleteDelivered(w, t) \/ ConfirmDelivery(w, t)
      PROVE  \A u \in Tasks : Kept(u)
  BY <1>3 DEF DeleteDelivered, ConfirmDelivery, Remove, Nothing, TypeOK
<1>4. ASSUME NEW w \in Threads, Insert(w) PROVE \A u \in Tasks : Kept(u)
  BY <1>4, ThreadShape DEF Insert, OnlyPlaceholder, OnlyResult, Untouched, Idle, Nothing, TypeOK
<1>5. ASSUME NEW w \in Threads, DeleteEvicted(w) \/ WriteToDisk(w) \/ DeleteFromDisk(w)
      PROVE  \A u \in Tasks : Kept(u)
  BY <1>5 DEF DeleteEvicted, WriteToDisk, DeleteFromDisk, Nothing
<1>6. CASE CrashAndReload
  <2>1. PICK files : LoadFromDisk(files)
    BY <1>6 DEF CrashAndReload
  <2>2. \A u \in Tasks : mem'[u] = Nothing \/ mem'[u].kind = "result"
    BY <2>1 DEF LoadFromDisk, Loadable
  <2> QED BY <2>2 DEF Nothing
<1> QED BY <1>1, <1>2, <1>3, <1>4, <1>5, <1>6 DEF Next

(* query_task_result never goes back from a result to "running", and a task
   that was reported never shows up as running again.                       *)
THEOREM NoResultUndone == Spec => ResultNotUndone
<1>1. StoreInv /\ [Next]_vars => [\A t \in Tasks : Kept(t)]_vars
  BY KeptStep
<1> QED BY <1>1, StoreInvariant, PTL DEF Spec, ResultNotUndone, Kept
=============================================================================
