---------------------------- MODULE MCJobPipeline ----------------------------
\* Instances of JobPipeline for TLC.
EXTENDS JobPipeline, TLC

\* Workers are interchangeable, and so are schedulers; no liveness under it.
PSymmetry == Permutations(Workers) \cup Permutations(Schedulers)

==============================================================================
