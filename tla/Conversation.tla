---------------------------- MODULE Conversation ----------------------------
(***************************************************************************)
(* What a user is promised of a conversation that waits for a remote task, *)
(* without messages, clocks or crashes: once suspended it stays suspended  *)
(* until one result is merged into it, that result is not replaced, and    *)
(* the conversation is continued with it once.                             *)
(***************************************************************************)
CONSTANT Outcomes     \* what a conversation may be continued with

VARIABLE talk         \* where it stands, and its result

Open        == [phase |-> "open"]
Waiting     == [phase |-> "waiting"]
Merged(v)   == [phase |-> "merged", with |-> v]
Answered(v) == [phase |-> "answered", with |-> v]

Init == talk = Open

Suspend   == talk = Open /\ talk' = Waiting
Merge(v)  == talk = Waiting /\ talk' = Merged(v)
Answer(v) == talk = Merged(v) /\ talk' = Answered(v)

Next == Suspend \/ \E v \in Outcomes : Merge(v) \/ Answer(v)

Spec == Init /\ [][Next]_talk
=============================================================================
