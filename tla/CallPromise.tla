----------------------------- MODULE CallPromise -----------------------------
(***************************************************************************)
(* What an execution of DailyRun relies on when it calls a model: the call *)
(* has one outcome, which stays, and it has it within CallDeadline of its  *)
(* beginning.                                                              *)
(***************************************************************************)
EXTENDS Naturals

CONSTANTS CallDeadline

VARIABLES
    outcome,  \* "none" while the call lasts; what DailyRun's Answer receives
    now       \* time since the call began

Init == outcome = "none" /\ now = 0

End == outcome = "none" /\ outcome' \in {"answer", "retryable", "fatal"} /\ now' = now

Tick ==
    /\ outcome = "none" => now < CallDeadline
    /\ now' = now + 1 /\ outcome' = outcome

Next == End \/ Tick

Spec == Init /\ [][Next]_<<outcome, now>>

==============================================================================
