------------------------- MODULE TaskDeliveryProofs -------------------------
(***************************************************************************)
(* Proofs about the delivery protocol, for any number of retries, losses   *)
(* and crashes.                                                            *)
(***************************************************************************)
EXTENDS TaskDelivery, TLAPS

(* Callback handler and poll carry a result where they use one; an attempt
   that A handles is one of B's MaxRetries.                                 *)
Carried ==
    /\ cb.pc = "idle" => cb = Idle
    /\ cb.pc # "idle" => tries < MaxRetries /\ cb.out \in Replies
    /\ poll.pc = "idle" => poll = Idle
    /\ poll.pc \in {"settle", "publish", "confirm"} => poll.out \in Outcomes
    /\ work \in {"sending", "reported", "done"} => reply \in Replies

Base == TypeOK /\ Carried

(* No crash, no safety net and no wake-up ahead of the save so far. *)
Calm == crashesA = 0 /\ crashesB = 0 /\ age # "overdue" /\ ~late

(* The conversation is over, or the first result it meets is B's reply. *)
ReplyFirst == snap = None \/ merged \in Replies \/ (bus # <<>> /\ Head(bus) = reply)

(* Until the turn saves, its placeholder is bare, unless a wake-up went ahead
   and took it; the safety net does not reach a call that is under way.      *)
TurnInv ==
    /\ call = "idle" => merged = None /\ resuming = None
    /\ call \in {"sending", "accepted", "registered"} /\ base = None => merged = None
    /\ call = "idle" => rpc = None /\ work = None /\ row = None
    /\ call = "idle" => bus = <<>> /\ cb = Idle /\ poll = Idle
    /\ call # "saved" => ~late
    /\ age = "overdue" => call \in {"saved", "failed", "lost"}

(* A row, or a poll that read one, means that B has accepted. *)
AcceptedInv ==
    /\ rpc = "accepted" \/ call \in {"accepted", "registered", "saved"} => work # None
    /\ row # None \/ poll.pc # "idle" => work # None

(* Until the run ends there is no reply anywhere, and B says "running". *)
SilentInv ==
    work \in {None, "running"} =>
        /\ reply = None /\ merged = None /\ resuming = None /\ told = None
        /\ bus = <<>> /\ cb.pc = "idle" /\ poll.out = None /\ poll.pc \in {"idle", "query"}
        /\ work = "running" => store = "running"

(* Whatever A concludes is B's reply, or comes after it. *)
ReplyInv ==
    /\ work \notin {None, "running"} => reply \in Replies
    /\ {merged, resuming, told} \subseteq {None, reply}
    /\ store \in {None, "running", reply}
    /\ cb.pc # "idle" => cb.out = reply
    /\ poll.pc \in {"settle", "publish", "confirm"} => poll.out \in {reply, "not_found"}
    /\ cb.pc \in {"settle", "ack"} => ReplyFirst
    /\ poll.pc = "confirm" => ReplyFirst
    /\ poll.pc \in {"settle", "publish"} /\ poll.out = "not_found" => ReplyFirst
    /\ store = None /\ work # None => ReplyFirst
    /\ bus # <<>> => ReplyFirst

(* What a resumption of the saved conversation rests on is in the snapshot; a
   conversation that has been continued has none, and only a call that was
   saved leaves a real one.                                                  *)
TalkInv ==
    /\ resuming = None <=> base = None
    /\ base = "real" => snap = "real" /\ merged = resuming
    /\ base = "placeholder" /\ snap = "real" => merged = None
    /\ snap = None => merged = None
    /\ told # None => snap = None
    /\ snap = "real" \/ told # None => call = "saved"

(* WakeUpAhead for placeholders too, and with the callback between its wake-up
   and its settlement; a row that was registered stays until it is settled and
   the conversation is over.                                                 *)
Undisturbed == crashesA = 0 /\ age # "overdue" /\ ~late
Heard == snap = None \/ bus # <<>> \/ resuming # None
WakeInv ==
    Undisturbed =>
        /\ cb.pc \in {"settle", "ack"} => Heard
        /\ row \in Outcomes => Heard \/ poll.pc = "publish"
        /\ call = "registered" \/ (call = "saved" /\ snap = "real") => row # None \/ deleted

DeliveryInv ==
    Base /\ TurnInv /\ TalkInv /\ WakeInv /\ (Calm => AcceptedInv /\ SilentInv /\ ReplyInv)
-----------------------------------------------------------------------------
USE DeliveryBounds

(* Types: every step of either side keeps them. *)
LEMMA TypeStep ==
    ASSUME Base, [Next]_vars
    PROVE  TypeOK'
<1> USE DEF Base, Carried, TypeOK, dispatch, conv, run, worker, bounds, Idle, None, Replies,
            Outcomes
<1>1. CASE UNCHANGED vars
  BY <1>1 DEF vars
<1>2. CASE Dispatch
  BY <1>2 DEF Dispatch
<1>3. CASE RpcLost
  BY <1>3 DEF RpcLost, Lose
<1>4. CASE WorkerAccepts
  BY <1>4 DEF WorkerAccepts
<1>5. CASE WorkerRejects
  BY <1>5 DEF WorkerRejects
<1>6. CASE CallbackLost
  BY <1>6 DEF CallbackLost, Lose
<1>7. CASE CallRefused
  BY <1>7 DEF CallRefused
<1>8. CASE CallFailed
  BY <1>8 DEF CallFailed
<1>9. CASE CallAccepted
  BY <1>9 DEF CallAccepted
<1>10. CASE RegisterRow
  BY <1>10 DEF RegisterRow
<1>11. CASE SaveSnapshot
  BY <1>11 DEF SaveSnapshot
<1>12. CASE CallbackArrives
  BY <1>12 DEF CallbackArrives
<1>13. CASE CallbackPublishes
  BY <1>13 DEF CallbackPublishes
<1>14. CASE CallbackSettles
  BY <1>14 DEF CallbackSettles, Settle
<1>15. CASE CallbackAcked
  BY <1>15 DEF CallbackAcked, Lose
<1>16. CASE PollTick
  <2>1. first' \in BOOLEAN /\ deleted' \in BOOLEAN /\ late' \in BOOLEAN
    BY Zenon, <1>16 DEF PollTick
  <2>2. /\ call' \in {"idle", "sending", "accepted", "registered", "saved", "failed", "lost"}
        /\ rpc' \in {None, "request", "accepted", "rejected"}
        /\ row' \in {None, "Pending"} \cup Outcomes
        /\ {snap', base'} \subseteq {None, "placeholder", "real"}
        /\ {merged', resuming', told'} \subseteq {None} \cup Outcomes
        /\ bus' \in Seq(Outcomes)
    BY <1>16 DEF PollTick
  <2>3. /\ cb' \in [pc : {"idle", "publish", "settle", "ack"}, out : {None} \cup Replies]
        /\ poll' \in [pc : {"idle", "query", "settle", "publish", "confirm"},
                     out : {None} \cup Outcomes]
    BY <1>16 DEF PollTick
  <2>4. /\ age' \in {"young", "old", "overdue"}
        /\ work' \in {None, "running", "sending", "reported", "done"}
        /\ reply' \in {None} \cup Replies
        /\ store' \in {None, "running"} \cup Replies
        /\ tries' \in 0..MaxRetries
        /\ loss' \in 0..MaxLoss /\ crashesA' \in 0..MaxCrashesA /\ crashesB' \in 0..MaxCrashesB
    BY <1>16 DEF PollTick
  <2> QED BY <2>1, <2>2, <2>3, <2>4
<1>17. CASE PollQuery
  BY <1>17 DEF PollQuery, Lose
<1>18. CASE PollSettles
  BY <1>18 DEF PollSettles, Settle
<1>19. CASE PollPublishes
  BY <1>19 DEF PollPublishes
<1>20. CASE PollConfirms
  BY <1>20 DEF PollConfirms, Lose
<1>21. CASE WorkerFinishes
  BY <1>21 DEF WorkerFinishes
<1>22. CASE PersistResult
  BY <1>22 DEF PersistResult
<1>23. CASE WorkerForgets
  BY <1>23 DEF WorkerForgets
<1>24. CASE CleanupExpires
  BY <1>24 DEF CleanupExpires
<1>25. CASE CleanupPurges
  BY <1>25 DEF CleanupPurges
<1>26. CASE DashboardDeletes
  BY <1>26 DEF DashboardDeletes
<1>27. CASE TimePasses
  BY <1>27 DEF TimePasses
<1>28. CASE SafetyNetPasses
  BY <1>28 DEF SafetyNetPasses
<1>29. CASE StartResume
  BY <1>29 DEF StartResume
<1>30. CASE FinishResume
  BY <1>30 DEF FinishResume
<1>31. CASE CrashA
  <2>1. first' \in BOOLEAN /\ deleted' \in BOOLEAN /\ late' \in BOOLEAN
    BY Zenon, <1>31 DEF CrashA
  <2>2. /\ call' \in {"idle", "sending", "accepted", "registered", "saved", "failed", "lost"}
        /\ rpc' \in {None, "request", "accepted", "rejected"}
        /\ row' \in {None, "Pending"} \cup Outcomes
        /\ {snap', base'} \subseteq {None, "placeholder", "real"}
        /\ {merged', resuming', told'} \subseteq {None} \cup Outcomes
        /\ bus' \in Seq(Outcomes)
    BY <1>31 DEF CrashA
  <2>3. /\ cb' \in [pc : {"idle", "publish", "settle", "ack"}, out : {None} \cup Replies]
        /\ poll' \in [pc : {"idle", "query", "settle", "publish", "confirm"},
                     out : {None} \cup Outcomes]
    BY <1>31 DEF CrashA
  <2>4. /\ age' \in {"young", "old", "overdue"}
        /\ work' \in {None, "running", "sending", "reported", "done"}
        /\ reply' \in {None} \cup Replies
        /\ store' \in {None, "running"} \cup Replies
        /\ tries' \in 0..MaxRetries
        /\ loss' \in 0..MaxLoss /\ crashesA' \in 0..MaxCrashesA /\ crashesB' \in 0..MaxCrashesB
    BY <1>31 DEF CrashA
  <2> QED BY <2>1, <2>2, <2>3, <2>4
<1>32. CASE CrashB
  BY <1>32 DEF CrashB
<1> QED BY <1>1, <1>2, <1>3, <1>4, <1>5, <1>6, <1>7, <1>8, <1>9, <1>10, <1>11, <1>12, <1>13,
           <1>14, <1>15, <1>16, <1>17, <1>18, <1>19, <1>20, <1>21, <1>22, <1>23, <1>24,
           <1>25, <1>26, <1>27, <1>28, <1>29, <1>30, <1>31, <1>32
   DEF Next, Turn, Callback, Poll, Worker

(* Results and attempts under way. *)
LEMMA CarriedStep ==
    ASSUME Base, [Next]_vars
    PROVE  Carried'
<1> USE DEF Base, Carried, TypeOK, dispatch, conv, run, worker, bounds, Idle, None, Replies,
            Outcomes
<1>1. CASE UNCHANGED vars
  BY <1>1 DEF vars
<1>2. CASE Dispatch
  BY <1>2 DEF Dispatch
<1>3. CASE RpcLost
  BY <1>3 DEF RpcLost, Lose
<1>4. CASE WorkerAccepts
  BY <1>4 DEF WorkerAccepts
<1>5. CASE WorkerRejects
  BY <1>5 DEF WorkerRejects
<1>6. CASE CallbackLost
  BY <1>6 DEF CallbackLost, Lose
<1>7. CASE CallRefused
  BY <1>7 DEF CallRefused
<1>8. CASE CallFailed
  BY <1>8 DEF CallFailed
<1>9. CASE CallAccepted
  BY <1>9 DEF CallAccepted
<1>10. CASE RegisterRow
  BY <1>10 DEF RegisterRow
<1>11. CASE SaveSnapshot
  BY <1>11 DEF SaveSnapshot
<1>12. CASE CallbackArrives
  BY <1>12 DEF CallbackArrives
<1>13. CASE CallbackPublishes
  BY <1>13 DEF CallbackPublishes
<1>14. CASE CallbackSettles
  BY <1>14 DEF CallbackSettles, Settle
<1>15. CASE CallbackAcked
  BY <1>15 DEF CallbackAcked, Lose
<1>16. CASE PollTick
  BY <1>16 DEF PollTick
<1>17. CASE PollQuery
  BY <1>17 DEF PollQuery, Lose
<1>18. CASE PollSettles
  BY <1>18 DEF PollSettles, Settle
<1>19. CASE PollPublishes
  BY <1>19 DEF PollPublishes
<1>20. CASE PollConfirms
  BY <1>20 DEF PollConfirms, Lose
<1>21. CASE WorkerFinishes
  BY <1>21 DEF WorkerFinishes
<1>22. CASE PersistResult
  BY <1>22 DEF PersistResult
<1>23. CASE WorkerForgets
  BY <1>23 DEF WorkerForgets
<1>24. CASE CleanupExpires
  BY <1>24 DEF CleanupExpires
<1>25. CASE CleanupPurges
  BY <1>25 DEF CleanupPurges
<1>26. CASE DashboardDeletes
  BY <1>26 DEF DashboardDeletes
<1>27. CASE TimePasses
  BY <1>27 DEF TimePasses
<1>28. CASE SafetyNetPasses
  BY <1>28 DEF SafetyNetPasses
<1>29. CASE StartResume
  BY <1>29 DEF StartResume
<1>30. CASE FinishResume
  BY <1>30 DEF FinishResume
<1>31. CASE CrashA
  BY <1>31 DEF CrashA
<1>32. CASE CrashB
  BY <1>32 DEF CrashB
<1> QED BY <1>1, <1>2, <1>3, <1>4, <1>5, <1>6, <1>7, <1>8, <1>9, <1>10, <1>11, <1>12, <1>13,
           <1>14, <1>15, <1>16, <1>17, <1>18, <1>19, <1>20, <1>21, <1>22, <1>23, <1>24,
           <1>25, <1>26, <1>27, <1>28, <1>29, <1>30, <1>31, <1>32
   DEF Next, Turn, Callback, Poll, Worker

(* The turn, its snapshot and the safety net. *)
LEMMA TurnStep ==
    ASSUME TypeOK, TurnInv, [Next]_vars
    PROVE  TurnInv'
<1> USE DEF TurnInv, dispatch, conv, run, worker, bounds, Idle, None
<1>1. CASE UNCHANGED vars
  BY <1>1 DEF vars
<1>2. CASE Dispatch
  BY <1>2 DEF Dispatch
<1>3. CASE RpcLost
  BY <1>3 DEF RpcLost, Lose
<1>4. CASE WorkerAccepts
  BY <1>4 DEF WorkerAccepts
<1>5. CASE WorkerRejects
  BY <1>5 DEF WorkerRejects
<1>6. CASE CallbackLost
  BY <1>6 DEF CallbackLost, Lose
<1>7. CASE CallRefused
  BY <1>7 DEF CallRefused
<1>8. CASE CallFailed
  BY <1>8 DEF CallFailed
<1>9. CASE CallAccepted
  BY <1>9 DEF CallAccepted
<1>10. CASE RegisterRow
  BY <1>10 DEF RegisterRow
<1>11. CASE SaveSnapshot
  BY <1>11 DEF SaveSnapshot
<1>12. CASE CallbackArrives
  BY <1>12 DEF CallbackArrives
<1>13. CASE CallbackPublishes
  BY <1>13 DEF CallbackPublishes
<1>14. CASE CallbackSettles
  BY <1>14 DEF CallbackSettles, Settle
<1>15. CASE CallbackAcked
  BY <1>15 DEF CallbackAcked, Lose
<1>16. CASE PollTick
  BY <1>16 DEF PollTick
<1>17. CASE PollQuery
  BY <1>17 DEF PollQuery, Lose
<1>18. CASE PollSettles
  BY <1>18 DEF PollSettles, Settle
<1>19. CASE PollPublishes
  BY <1>19 DEF PollPublishes
<1>20. CASE PollConfirms
  BY <1>20 DEF PollConfirms, Lose
<1>21. CASE WorkerFinishes
  BY <1>21 DEF WorkerFinishes
<1>22. CASE PersistResult
  BY <1>22 DEF PersistResult
<1>23. CASE WorkerForgets
  BY <1>23 DEF WorkerForgets
<1>24. CASE CleanupExpires
  BY <1>24 DEF CleanupExpires
<1>25. CASE CleanupPurges
  BY <1>25 DEF CleanupPurges
<1>26. CASE DashboardDeletes
  BY <1>26 DEF DashboardDeletes
<1>27. CASE TimePasses
  BY <1>27 DEF TimePasses
<1>28. CASE SafetyNetPasses
  BY <1>28 DEF SafetyNetPasses
<1>29. CASE StartResume
  BY <1>29 DEF StartResume
<1>30. CASE FinishResume
  BY <1>30 DEF FinishResume
<1>31. CASE CrashA
  BY <1>31 DEF CrashA
<1>32. CASE CrashB
  BY <1>32 DEF CrashB
<1> QED BY <1>1, <1>2, <1>3, <1>4, <1>5, <1>6, <1>7, <1>8, <1>9, <1>10, <1>11, <1>12, <1>13,
           <1>14, <1>15, <1>16, <1>17, <1>18, <1>19, <1>20, <1>21, <1>22, <1>23, <1>24,
           <1>25, <1>26, <1>27, <1>28, <1>29, <1>30, <1>31, <1>32
   DEF Next, Turn, Callback, Poll, Worker

(* What ends the calm ends it for good. *)
LEMMA CalmStep ==
    ASSUME TypeOK, TurnInv, [Next]_vars
    PROVE  Calm' => Calm
<1> USE DEF Calm, TurnInv, dispatch, conv, run, worker, bounds
<1>1. CASE UNCHANGED vars
  BY <1>1 DEF vars
<1>2. CASE Dispatch
  BY <1>2 DEF Dispatch
<1>3. CASE RpcLost
  BY <1>3 DEF RpcLost, Lose
<1>4. CASE WorkerAccepts
  BY <1>4 DEF WorkerAccepts
<1>5. CASE WorkerRejects
  BY <1>5 DEF WorkerRejects
<1>6. CASE CallbackLost
  BY <1>6 DEF CallbackLost, Lose
<1>7. CASE CallRefused
  BY <1>7 DEF CallRefused
<1>8. CASE CallFailed
  BY <1>8 DEF CallFailed
<1>9. CASE CallAccepted
  BY <1>9 DEF CallAccepted
<1>10. CASE RegisterRow
  BY <1>10 DEF RegisterRow
<1>11. CASE SaveSnapshot
  BY <1>11 DEF SaveSnapshot
<1>12. CASE CallbackArrives
  BY <1>12 DEF CallbackArrives
<1>13. CASE CallbackPublishes
  BY <1>13 DEF CallbackPublishes
<1>14. CASE CallbackSettles
  BY <1>14 DEF CallbackSettles, Settle
<1>15. CASE CallbackAcked
  BY <1>15 DEF CallbackAcked, Lose
<1>16. CASE PollTick
  BY <1>16 DEF PollTick
<1>17. CASE PollQuery
  BY <1>17 DEF PollQuery, Lose
<1>18. CASE PollSettles
  BY <1>18 DEF PollSettles, Settle
<1>19. CASE PollPublishes
  BY <1>19 DEF PollPublishes
<1>20. CASE PollConfirms
  BY <1>20 DEF PollConfirms, Lose
<1>21. CASE WorkerFinishes
  BY <1>21 DEF WorkerFinishes
<1>22. CASE PersistResult
  BY <1>22 DEF PersistResult
<1>23. CASE WorkerForgets
  BY <1>23 DEF WorkerForgets
<1>24. CASE CleanupExpires
  BY <1>24 DEF CleanupExpires
<1>25. CASE CleanupPurges
  BY <1>25 DEF CleanupPurges
<1>26. CASE DashboardDeletes
  BY <1>26 DEF DashboardDeletes
<1>27. CASE TimePasses
  BY <1>27 DEF TimePasses
<1>28. CASE SafetyNetPasses
  BY <1>28 DEF SafetyNetPasses
<1>29. CASE StartResume
  BY <1>29 DEF StartResume
<1>30. CASE FinishResume
  BY <1>30 DEF FinishResume
<1>31. CASE CrashA
  BY <1>31 DEF CrashA, TypeOK
<1>32. CASE CrashB
  BY <1>32 DEF CrashB, TypeOK
<1> QED BY <1>1, <1>2, <1>3, <1>4, <1>5, <1>6, <1>7, <1>8, <1>9, <1>10, <1>11, <1>12, <1>13,
           <1>14, <1>15, <1>16, <1>17, <1>18, <1>19, <1>20, <1>21, <1>22, <1>23, <1>24,
           <1>25, <1>26, <1>27, <1>28, <1>29, <1>30, <1>31, <1>32
   DEF Next, Turn, Callback, Poll, Worker

(* Rows and polls follow the acceptance. *)
LEMMA AcceptedStep ==
    ASSUME Base, TurnInv, AcceptedInv, Calm', [Next]_vars
    PROVE  AcceptedInv'
<1> USE DEF Base, Carried, TypeOK, TurnInv, Calm, AcceptedInv, dispatch, conv, run, worker,
            bounds, Idle, None
<1>1. CASE UNCHANGED vars
  BY <1>1 DEF vars
<1>2. CASE Dispatch
  BY <1>2 DEF Dispatch
<1>3. CASE RpcLost
  BY <1>3 DEF RpcLost, Lose
<1>4. CASE WorkerAccepts
  BY <1>4 DEF WorkerAccepts
<1>5. CASE WorkerRejects
  BY <1>5 DEF WorkerRejects
<1>6. CASE CallbackLost
  BY <1>6 DEF CallbackLost, Lose
<1>7. CASE CallRefused
  BY <1>7 DEF CallRefused
<1>8. CASE CallFailed
  BY <1>8 DEF CallFailed
<1>9. CASE CallAccepted
  BY <1>9 DEF CallAccepted
<1>10. CASE RegisterRow
  BY <1>10 DEF RegisterRow
<1>11. CASE SaveSnapshot
  BY <1>11 DEF SaveSnapshot
<1>12. CASE CallbackArrives
  BY <1>12 DEF CallbackArrives
<1>13. CASE CallbackPublishes
  BY <1>13 DEF CallbackPublishes
<1>14. CASE CallbackSettles
  BY <1>14 DEF CallbackSettles, Settle
<1>15. CASE CallbackAcked
  BY <1>15 DEF CallbackAcked, Lose
<1>16. CASE PollTick
  BY <1>16 DEF PollTick
<1>17. CASE PollQuery
  BY <1>17 DEF PollQuery, Lose
<1>18. CASE PollSettles
  BY <1>18 DEF PollSettles, Settle
<1>19. CASE PollPublishes
  BY <1>19 DEF PollPublishes
<1>20. CASE PollConfirms
  BY <1>20 DEF PollConfirms, Lose
<1>21. CASE WorkerFinishes
  BY <1>21 DEF WorkerFinishes
<1>22. CASE PersistResult
  BY <1>22 DEF PersistResult
<1>23. CASE WorkerForgets
  BY <1>23 DEF WorkerForgets
<1>24. CASE CleanupExpires
  BY <1>24 DEF CleanupExpires
<1>25. CASE CleanupPurges
  BY <1>25 DEF CleanupPurges
<1>26. CASE DashboardDeletes
  BY <1>26 DEF DashboardDeletes
<1>27. CASE TimePasses
  BY <1>27 DEF TimePasses
<1>28. CASE SafetyNetPasses
  BY <1>28 DEF SafetyNetPasses
<1>29. CASE StartResume
  BY <1>29 DEF StartResume
<1>30. CASE FinishResume
  BY <1>30 DEF FinishResume
<1>31. CASE CrashA
  BY <1>31 DEF CrashA
<1>32. CASE CrashB
  BY <1>32 DEF CrashB
<1> QED BY <1>1, <1>2, <1>3, <1>4, <1>5, <1>6, <1>7, <1>8, <1>9, <1>10, <1>11, <1>12, <1>13,
           <1>14, <1>15, <1>16, <1>17, <1>18, <1>19, <1>20, <1>21, <1>22, <1>23, <1>24,
           <1>25, <1>26, <1>27, <1>28, <1>29, <1>30, <1>31, <1>32
   DEF Next, Turn, Callback, Poll, Worker

(* Nothing is known of a reply before there is one. *)
LEMMA SilentStep ==
    ASSUME Base, TurnInv, AcceptedInv, SilentInv, Calm', [Next]_vars
    PROVE  SilentInv'
<1> USE DEF Base, Carried, TypeOK, TurnInv, Calm, AcceptedInv, SilentInv, dispatch, conv,
            run, worker, bounds, Idle, None, Replies
<1>1. CASE UNCHANGED vars
  BY <1>1 DEF vars
<1>2. CASE Dispatch
  BY <1>2 DEF Dispatch
<1>3. CASE RpcLost
  BY <1>3 DEF RpcLost, Lose
<1>4. CASE WorkerAccepts
  BY <1>4 DEF WorkerAccepts
<1>5. CASE WorkerRejects
  BY <1>5 DEF WorkerRejects
<1>6. CASE CallbackLost
  BY <1>6 DEF CallbackLost, Lose
<1>7. CASE CallRefused
  BY <1>7 DEF CallRefused
<1>8. CASE CallFailed
  BY <1>8 DEF CallFailed
<1>9. CASE CallAccepted
  BY <1>9 DEF CallAccepted
<1>10. CASE RegisterRow
  BY <1>10 DEF RegisterRow
<1>11. CASE SaveSnapshot
  BY <1>11 DEF SaveSnapshot
<1>12. CASE CallbackArrives
  BY <1>12 DEF CallbackArrives
<1>13. CASE CallbackPublishes
  BY <1>13 DEF CallbackPublishes
<1>14. CASE CallbackSettles
  BY <1>14 DEF CallbackSettles, Settle
<1>15. CASE CallbackAcked
  BY <1>15 DEF CallbackAcked, Lose
<1>16. CASE PollTick
  BY <1>16 DEF PollTick
<1>17. CASE PollQuery
  BY <1>17 DEF PollQuery, Lose
<1>18. CASE PollSettles
  BY <1>18 DEF PollSettles, Settle
<1>19. CASE PollPublishes
  BY <1>19 DEF PollPublishes
<1>20. CASE PollConfirms
  BY <1>20 DEF PollConfirms, Lose
<1>21. CASE WorkerFinishes
  BY <1>21 DEF WorkerFinishes
<1>22. CASE PersistResult
  BY <1>22 DEF PersistResult
<1>23. CASE WorkerForgets
  BY <1>23 DEF WorkerForgets
<1>24. CASE CleanupExpires
  BY <1>24 DEF CleanupExpires
<1>25. CASE CleanupPurges
  BY <1>25 DEF CleanupPurges
<1>26. CASE DashboardDeletes
  BY <1>26 DEF DashboardDeletes
<1>27. CASE TimePasses
  BY <1>27 DEF TimePasses
<1>28. CASE SafetyNetPasses
  BY <1>28 DEF SafetyNetPasses
<1>29. CASE StartResume
  BY <1>29 DEF StartResume
<1>30. CASE FinishResume
  BY <1>30 DEF FinishResume
<1>31. CASE CrashA
  BY <1>31 DEF CrashA
<1>32. CASE CrashB
  BY <1>32 DEF CrashB
<1> QED BY <1>1, <1>2, <1>3, <1>4, <1>5, <1>6, <1>7, <1>8, <1>9, <1>10, <1>11, <1>12, <1>13,
           <1>14, <1>15, <1>16, <1>17, <1>18, <1>19, <1>20, <1>21, <1>22, <1>23, <1>24,
           <1>25, <1>26, <1>27, <1>28, <1>29, <1>30, <1>31, <1>32
   DEF Next, Turn, Callback, Poll, Worker

(* What A concludes is the reply, or comes after it. *)
LEMMA ReplyStep ==
    ASSUME Base, Base', TurnInv, AcceptedInv, SilentInv, ReplyInv, Calm', [Next]_vars
    PROVE  ReplyInv'
<1> USE DEF Base, Carried, TypeOK, TurnInv, Calm, AcceptedInv, SilentInv, ReplyInv,
            ReplyFirst, dispatch, conv, run, worker, bounds, Idle, None, Replies, Outcomes
<1>1. CASE UNCHANGED vars
  BY <1>1 DEF vars
<1>2. CASE Dispatch
  BY <1>2 DEF Dispatch
<1>3. CASE RpcLost
  BY <1>3 DEF RpcLost, Lose
<1>4. CASE WorkerAccepts
  BY <1>4 DEF WorkerAccepts
<1>5. CASE WorkerRejects
  BY <1>5 DEF WorkerRejects
<1>6. CASE CallbackLost
  BY <1>6 DEF CallbackLost, Lose
<1>7. CASE CallRefused
  BY <1>7 DEF CallRefused
<1>8. CASE CallFailed
  BY <1>8 DEF CallFailed
<1>9. CASE CallAccepted
  BY <1>9 DEF CallAccepted
<1>10. CASE RegisterRow
  BY <1>10 DEF RegisterRow
<1>11. CASE SaveSnapshot
  BY <1>11 DEF SaveSnapshot
<1>12. CASE CallbackArrives
  BY <1>12 DEF CallbackArrives
<1>13. CASE CallbackPublishes
  BY <1>13 DEF CallbackPublishes
<1>14. CASE CallbackSettles
  BY <1>14 DEF CallbackSettles, Settle
<1>15. CASE CallbackAcked
  BY <1>15 DEF CallbackAcked, Lose
<1>16. CASE PollTick
  BY <1>16 DEF PollTick
<1>17. CASE PollQuery
  BY <1>17 DEF PollQuery, Lose
<1>18. CASE PollSettles
  BY <1>18 DEF PollSettles, Settle
<1>19. CASE PollPublishes
  BY <1>19 DEF PollPublishes
<1>20. CASE PollConfirms
  BY <1>20 DEF PollConfirms, Lose
<1>21. CASE WorkerFinishes
  BY <1>21 DEF WorkerFinishes
<1>22. CASE PersistResult
  BY <1>22 DEF PersistResult
<1>23. CASE WorkerForgets
  BY <1>23 DEF WorkerForgets
<1>24. CASE CleanupExpires
  BY <1>24 DEF CleanupExpires
<1>25. CASE CleanupPurges
  BY <1>25 DEF CleanupPurges
<1>26. CASE DashboardDeletes
  BY <1>26 DEF DashboardDeletes
<1>27. CASE TimePasses
  BY <1>27 DEF TimePasses
<1>28. CASE SafetyNetPasses
  BY <1>28 DEF SafetyNetPasses
<1>29. CASE StartResume
  BY <1>29 DEF StartResume
<1>30. CASE FinishResume
  BY <1>30 DEF FinishResume
<1>31. CASE CrashA
  BY <1>31 DEF CrashA
<1>32. CASE CrashB
  BY <1>32 DEF CrashB
<1> QED BY <1>1, <1>2, <1>3, <1>4, <1>5, <1>6, <1>7, <1>8, <1>9, <1>10, <1>11, <1>12, <1>13,
           <1>14, <1>15, <1>16, <1>17, <1>18, <1>19, <1>20, <1>21, <1>22, <1>23, <1>24,
           <1>25, <1>26, <1>27, <1>28, <1>29, <1>30, <1>31, <1>32
   DEF Next, Turn, Callback, Poll, Worker

(* The conversation and its snapshot. *)
LEMMA TalkStep ==
    ASSUME TypeOK, TurnInv, TalkInv, [Next]_vars
    PROVE  TalkInv'
<1> USE DEF TypeOK, TurnInv, TalkInv, dispatch, conv, run, worker, bounds, None, Replies, Outcomes
<1>1. CASE UNCHANGED vars
  BY <1>1 DEF vars
<1>2. CASE Dispatch
  BY <1>2 DEF Dispatch
<1>3. CASE RpcLost
  BY <1>3 DEF RpcLost, Lose
<1>4. CASE WorkerAccepts
  BY <1>4 DEF WorkerAccepts
<1>5. CASE WorkerRejects
  BY <1>5 DEF WorkerRejects
<1>6. CASE CallbackLost
  BY <1>6 DEF CallbackLost, Lose
<1>7. CASE CallRefused
  BY <1>7 DEF CallRefused
<1>8. CASE CallFailed
  BY <1>8 DEF CallFailed
<1>9. CASE CallAccepted
  BY <1>9 DEF CallAccepted
<1>10. CASE RegisterRow
  BY <1>10 DEF RegisterRow
<1>11. CASE SaveSnapshot
  BY <1>11 DEF SaveSnapshot
<1>12. CASE CallbackArrives
  BY <1>12 DEF CallbackArrives
<1>13. CASE CallbackPublishes
  BY <1>13 DEF CallbackPublishes
<1>14. CASE CallbackSettles
  BY <1>14 DEF CallbackSettles, Settle
<1>15. CASE CallbackAcked
  BY <1>15 DEF CallbackAcked, Lose
<1>16. CASE PollTick
  BY <1>16 DEF PollTick
<1>17. CASE PollQuery
  BY <1>17 DEF PollQuery, Lose
<1>18. CASE PollSettles
  BY <1>18 DEF PollSettles, Settle
<1>19. CASE PollPublishes
  BY <1>19 DEF PollPublishes
<1>20. CASE PollConfirms
  BY <1>20 DEF PollConfirms, Lose
<1>21. CASE WorkerFinishes
  BY <1>21 DEF WorkerFinishes
<1>22. CASE PersistResult
  BY <1>22 DEF PersistResult
<1>23. CASE WorkerForgets
  BY <1>23 DEF WorkerForgets
<1>24. CASE CleanupExpires
  BY <1>24 DEF CleanupExpires
<1>25. CASE CleanupPurges
  BY <1>25 DEF CleanupPurges
<1>26. CASE DashboardDeletes
  BY <1>26 DEF DashboardDeletes
<1>27. CASE TimePasses
  BY <1>27 DEF TimePasses
<1>28. CASE SafetyNetPasses
  BY <1>28 DEF SafetyNetPasses
<1>29. CASE StartResume
  BY <1>29 DEF StartResume
<1>30. CASE FinishResume
  BY <1>30 DEF FinishResume
<1>31. CASE CrashA
  BY <1>31 DEF CrashA
<1>32. CASE CrashB
  BY <1>32 DEF CrashB
<1> QED BY <1>1, <1>2, <1>3, <1>4, <1>5, <1>6, <1>7, <1>8, <1>9, <1>10, <1>11, <1>12, <1>13,
           <1>14, <1>15, <1>16, <1>17, <1>18, <1>19, <1>20, <1>21, <1>22, <1>23, <1>24,
           <1>25, <1>26, <1>27, <1>28, <1>29, <1>30, <1>31, <1>32
   DEF Next, Turn, Callback, Poll, Worker

(* No wake-up is missed by the conversation it is for. *)
LEMMA WakeStep ==
    ASSUME Base, TurnInv, TalkInv, WakeInv, [Next]_vars
    PROVE  WakeInv'
<1> USE DEF Base, Carried, TypeOK, TurnInv, TalkInv, WakeInv, Undisturbed, Heard, dispatch,
            conv, run, worker, bounds, Idle, None, Replies, Outcomes
<1>1. CASE UNCHANGED vars
  BY <1>1 DEF vars
<1>2. CASE Dispatch
  BY <1>2 DEF Dispatch
<1>3. CASE RpcLost
  BY <1>3 DEF RpcLost, Lose
<1>4. CASE WorkerAccepts
  BY <1>4 DEF WorkerAccepts
<1>5. CASE WorkerRejects
  BY <1>5 DEF WorkerRejects
<1>6. CASE CallbackLost
  BY <1>6 DEF CallbackLost, Lose
<1>7. CASE CallRefused
  BY <1>7 DEF CallRefused
<1>8. CASE CallFailed
  BY <1>8 DEF CallFailed
<1>9. CASE CallAccepted
  BY <1>9 DEF CallAccepted
<1>10. CASE RegisterRow
  BY <1>10 DEF RegisterRow
<1>11. CASE SaveSnapshot
  BY <1>11 DEF SaveSnapshot
<1>12. CASE CallbackArrives
  BY <1>12 DEF CallbackArrives
<1>13. CASE CallbackPublishes
  BY <1>13 DEF CallbackPublishes
<1>14. CASE CallbackSettles
  BY <1>14 DEF CallbackSettles, Settle
<1>15. CASE CallbackAcked
  BY <1>15 DEF CallbackAcked, Lose
<1>16. CASE PollTick
  BY <1>16 DEF PollTick
<1>17. CASE PollQuery
  BY <1>17 DEF PollQuery, Lose
<1>18. CASE PollSettles
  BY <1>18 DEF PollSettles, Settle
<1>19. CASE PollPublishes
  BY <1>19 DEF PollPublishes
<1>20. CASE PollConfirms
  BY <1>20 DEF PollConfirms, Lose
<1>21. CASE WorkerFinishes
  BY <1>21 DEF WorkerFinishes
<1>22. CASE PersistResult
  BY <1>22 DEF PersistResult
<1>23. CASE WorkerForgets
  BY <1>23 DEF WorkerForgets
<1>24. CASE CleanupExpires
  BY <1>24 DEF CleanupExpires
<1>25. CASE CleanupPurges
  BY <1>25 DEF CleanupPurges
<1>26. CASE DashboardDeletes
  BY <1>26 DEF DashboardDeletes
<1>27. CASE TimePasses
  BY <1>27 DEF TimePasses
<1>28. CASE SafetyNetPasses
  BY <1>28 DEF SafetyNetPasses
<1>29. CASE StartResume
  BY <1>29 DEF StartResume
<1>30. CASE FinishResume
  BY <1>30 DEF FinishResume
<1>31. CASE CrashA
  BY <1>31 DEF CrashA
<1>32. CASE CrashB
  BY <1>32 DEF CrashB
<1> QED BY <1>1, <1>2, <1>3, <1>4, <1>5, <1>6, <1>7, <1>8, <1>9, <1>10, <1>11, <1>12, <1>13,
           <1>14, <1>15, <1>16, <1>17, <1>18, <1>19, <1>20, <1>21, <1>22, <1>23, <1>24,
           <1>25, <1>26, <1>27, <1>28, <1>29, <1>30, <1>31, <1>32
   DEF Next, Turn, Callback, Poll, Worker

(* Every step is one of the conversation, or none. *)
LEMMA RefineStep ==
    ASSUME TypeOK, TurnInv, TalkInv, [Next]_vars
    PROVE  [Talk!Next]_TalkNow
<1> USE DEF TypeOK, TurnInv, TalkInv, TalkNow, Talk!Next, Talk!Suspend, Talk!Merge,
            Talk!Answer, Talk!Open, Talk!Waiting, Talk!Merged, Talk!Answered, dispatch,
            conv, run, worker, bounds, None, Replies, Outcomes
<1>1. CASE UNCHANGED vars
  BY <1>1 DEF vars
<1>2. CASE Dispatch
  BY <1>2 DEF Dispatch
<1>3. CASE RpcLost
  BY <1>3 DEF RpcLost, Lose
<1>4. CASE WorkerAccepts
  BY <1>4 DEF WorkerAccepts
<1>5. CASE WorkerRejects
  BY <1>5 DEF WorkerRejects
<1>6. CASE CallbackLost
  BY <1>6 DEF CallbackLost, Lose
<1>7. CASE CallRefused
  BY <1>7 DEF CallRefused
<1>8. CASE CallFailed
  BY <1>8 DEF CallFailed
<1>9. CASE CallAccepted
  BY <1>9 DEF CallAccepted
<1>10. CASE RegisterRow
  BY <1>10 DEF RegisterRow
<1>11. CASE SaveSnapshot
  BY <1>11 DEF SaveSnapshot
<1>12. CASE CallbackArrives
  BY <1>12 DEF CallbackArrives
<1>13. CASE CallbackPublishes
  BY <1>13 DEF CallbackPublishes
<1>14. CASE CallbackSettles
  BY <1>14 DEF CallbackSettles, Settle
<1>15. CASE CallbackAcked
  BY <1>15 DEF CallbackAcked, Lose
<1>16. CASE PollTick
  BY <1>16 DEF PollTick
<1>17. CASE PollQuery
  BY <1>17 DEF PollQuery, Lose
<1>18. CASE PollSettles
  BY <1>18 DEF PollSettles, Settle
<1>19. CASE PollPublishes
  BY <1>19 DEF PollPublishes
<1>20. CASE PollConfirms
  BY <1>20 DEF PollConfirms, Lose
<1>21. CASE WorkerFinishes
  BY <1>21 DEF WorkerFinishes
<1>22. CASE PersistResult
  BY <1>22 DEF PersistResult
<1>23. CASE WorkerForgets
  BY <1>23 DEF WorkerForgets
<1>24. CASE CleanupExpires
  BY <1>24 DEF CleanupExpires
<1>25. CASE CleanupPurges
  BY <1>25 DEF CleanupPurges
<1>26. CASE DashboardDeletes
  BY <1>26 DEF DashboardDeletes
<1>27. CASE TimePasses
  BY <1>27 DEF TimePasses
<1>28. CASE SafetyNetPasses
  BY <1>28 DEF SafetyNetPasses
<1>29. CASE StartResume
  BY <1>29 DEF StartResume
<1>30. CASE FinishResume
  BY <1>30 DEF FinishResume
<1>31. CASE CrashA
  BY <1>31 DEF CrashA
<1>32. CASE CrashB
  BY <1>32 DEF CrashB
<1> QED BY <1>1, <1>2, <1>3, <1>4, <1>5, <1>6, <1>7, <1>8, <1>9, <1>10, <1>11, <1>12, <1>13,
           <1>14, <1>15, <1>16, <1>17, <1>18, <1>19, <1>20, <1>21, <1>22, <1>23, <1>24,
           <1>25, <1>26, <1>27, <1>28, <1>29, <1>30, <1>31, <1>32
   DEF Next, Turn, Callback, Poll, Worker

LEMMA InitInv ==
    ASSUME Init
    PROVE  DeliveryInv
<1>1. TypeOK
  <2>1. first \in BOOLEAN /\ deleted \in BOOLEAN /\ late \in BOOLEAN
    BY Zenon DEF Init
  <2> QED BY <2>1 DEF Init, TypeOK, Idle, None, Replies, Outcomes
<1>2. Carried /\ TurnInv /\ TalkInv /\ WakeInv
  BY DEF Init, Carried, TurnInv, TalkInv, WakeInv, Heard, Idle, None, Replies, Outcomes
<1>3. AcceptedInv /\ SilentInv /\ ReplyInv
  BY DEF Init, AcceptedInv, SilentInv, ReplyInv, ReplyFirst, Idle, None
<1> QED BY <1>1, <1>2, <1>3 DEF DeliveryInv, Base

(* The inductive invariant of the protocol: as long as neither side has
   crashed, the safety net is far and no wake-up outran the save, B's reply is the first thing the
   suspended conversation meets, whatever is lost, retried, polled or
   deleted.                                                                 *)
THEOREM DeliveryInvariant == Spec => []DeliveryInv
<1>1. Init => DeliveryInv
  BY InitInv
<1>2. DeliveryInv /\ [Next]_vars => DeliveryInv'
  <2> SUFFICES ASSUME DeliveryInv, [Next]_vars PROVE DeliveryInv'
    OBVIOUS
  <2>1. Base' /\ TurnInv' /\ TalkInv' /\ WakeInv'
    BY TypeStep, CarriedStep, TurnStep, TalkStep, WakeStep DEF DeliveryInv, Base
  <2>2. ASSUME Calm' PROVE AcceptedInv' /\ SilentInv' /\ ReplyInv'
    <3>1. Calm
      BY <2>2, CalmStep DEF DeliveryInv, Base
    <3> QED BY <2>1, <2>2, <3>1, AcceptedStep, SilentStep, ReplyStep DEF DeliveryInv
  <2> QED BY <2>1, <2>2 DEF DeliveryInv
<1> QED BY <1>1, <1>2, PTL DEF Spec

(* Every variable keeps its type; B makes at most MAX_CALLBACK_RETRIES
   attempts, and no result is published that nobody reported.               *)
THEOREM TypeCorrect == Spec => []TypeOK
<1>1. DeliveryInv => TypeOK
  BY DEF DeliveryInv, Base
<1> QED BY <1>1, DeliveryInvariant, PTL

(* Without crashes, short of the safety net and unless a wake-up outran the
   turn's save, the conversation goes on with B's own reply: callback, retries,
   poll and dashboard never make it go on with "remote task not found"
   (cluster_init.rs, cluster/tasks.rs).                                      *)
THEOREM NoFalseAlarmEver == Spec => []NoFalseAlarm
<1>1. DeliveryInv => NoFalseAlarm
  BY DEF DeliveryInv, Calm, ReplyInv, NoFalseAlarm
<1> QED BY <1>1, DeliveryInvariant, PTL

(* Before a crash of A, short of the safety net and unless the dashboard deleted
   the row or a wake-up outran the save, a saved conversation that waits is
   going to be woken: whoever settles its row has published a wake-up or is
   about to (peer_chat_callback, poll_stale_pending_tasks).                  *)
THEOREM NoSleeperForgotten == Spec => []WakeUpAhead
<1>1. DeliveryInv => WakeUpAhead
  BY DEF DeliveryInv, Base, TypeOK, WakeInv, Undisturbed, Heard, WakeUpAhead, None,
     Outcomes, Replies
<1> QED BY <1>1, DeliveryInvariant, PTL

(* The protocol implements Conversation: across any number of losses,
   duplicated wake-ups, crashes of either side and deleted rows, a saved
   conversation is kept until one result is merged into it, that result stays,
   and the conversation is continued with it once.                           *)
THEOREM ImplementsConversation == Spec => RefinesConversation
<1>1. Init => Talk!Init
  BY DEF Init, Talk!Init, Talk!Open, TalkNow, None
<1>2. DeliveryInv /\ [Next]_vars => [Talk!Next]_TalkNow
  BY RefineStep DEF DeliveryInv, Base
<1> QED BY <1>1, <1>2, DeliveryInvariant, PTL DEF Spec, RefinesConversation, Talk!Spec
=============================================================================
