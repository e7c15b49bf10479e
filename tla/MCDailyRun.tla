------------------------------ MODULE MCDailyRun ------------------------------
\* Instances of DailyRun for TLC: small sets of models and executors.
EXTENDS DailyRun, TLC

\* Models, workers and manual executors are interchangeable among themselves.
Symmetry == Permutations(Models) \cup Permutations(Workers) \cup Permutations(Manuals)

===============================================================================
