---------------------------- MODULE MCExtraction ----------------------------
\* Instances of Extraction for TLC.
EXTENDS Extraction

CONSTANT p1

\* All runs are of the prompt a user retries.
MCPromptOf == [r \in Runs |-> p1]

==============================================================================
