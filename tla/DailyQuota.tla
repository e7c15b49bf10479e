------------------------------ MODULE DailyQuota ------------------------------
(***************************************************************************)
(* What the daily execution of a prompt promises while its executions do   *)
(* not overlap.  On a date, each model is open until it is answered or     *)
(* given up; every attempt is counted, at most MaxAttempts of them; an     *)
(* answer and a give-up are final until a user asks for the model again,   *)
(* which grants a new budget.                                              *)
(***************************************************************************)
EXTENDS Naturals

CONSTANTS Models, MaxAttempts

VARIABLES
    state,  \* "open", "answered" or "closed", for each model
    used    \* attempts counted since the budget was granted

Init ==
    /\ state = [m \in Models |-> "open"]
    /\ used = [m \in Models |-> 0]

\* One counted attempt: it answers, leaves the model open for a retry while the
\* budget lasts, or closes it.
Attempt(m) ==
    /\ state[m] = "open"
    /\ used[m] < MaxAttempts
    /\ used' = [used EXCEPT ![m] = @ + 1]
    /\ \/ state' = [state EXCEPT ![m] = "answered"]
       \/ state' = [state EXCEPT ![m] = "closed"]
       \/ used[m] + 1 < MaxAttempts /\ state' = state

\* A user's request for the models of T.
Reopen(T) ==
    /\ state' = [m \in Models |-> IF m \in T THEN "open" ELSE state[m]]
    /\ used' = [m \in Models |-> IF m \in T THEN 0 ELSE used[m]]

Next == (\E m \in Models : Attempt(m)) \/ (\E T \in SUBSET Models : Reopen(T))

Spec == Init /\ [][Next]_<<state, used>>

===============================================================================
