--------------------------- MODULE ExtractionProofs ---------------------------
(***************************************************************************)
(* Type correctness of Extraction, that completed extractions are stored,  *)
(* and the bound on the scheduler's attempts, for any number of runs,      *)
(* scheduler processes and users.                                          *)
(***************************************************************************)
EXTENDS Extraction, FiniteSetTheorems, TLAPS

(***************************************************************************)
(* Types                                                                   *)
(***************************************************************************)
\* An executor that turns to a list has its type and does not find the run it works
\* on again in the list.
LEMMA TurnTypes ==
    ASSUME NEW e \in Executors, NEW left \in SUBSET Runs, TypeOK, Turn(e, left)
    PROVE  \E x \in Executor :
              /\ ex' = [ex EXCEPT ![e] = x]
              /\ x = Idle \/ (x.pc = "extract" /\ x.run \in left /\ x.left = left \ {x.run})
              /\ x = Idle => left = {}
<1>1. CASE left = {} /\ ex' = [ex EXCEPT ![e] = Idle]
    BY <1>1 DEF Executor
<1>2. ASSUME NEW r \in left,
             ex' = [ex EXCEPT ![e] = [pc |-> "extract", run |-> r, left |-> left \ {r}]]
      PROVE  \E x \in Executor :
                /\ ex' = [ex EXCEPT ![e] = x]
                /\ x = Idle \/ (x.pc = "extract" /\ x.run \in left /\ x.left = left \ {x.run})
                /\ x = Idle => left = {}
    <2> DEFINE x == [pc |-> "extract", run |-> r, left |-> left \ {r}]
    <2>1. x \in Executor /\ x.pc = "extract" /\ x.run = r /\ x.left = left \ {r}
        BY DEF Executor
    <2>2. x # Idle
        BY DEF Idle
    <2> HIDE DEF x
    <2> QED
        BY <1>2, <2>1, <2>2 DEF x
<1> QED
    BY <1>1, <1>2 DEF Turn

\* The lists the executors turn to are sets of runs.
LEMMA ListsAreRuns ==
    /\ Due \subseteq Runs
    /\ \A n : \A S \in SUBSET Runs : Newest(S, n) \subseteq Runs
BY DEF Due, Failed, Newest

\* An executor that is not idle works on a run.
LEMMA AtWork ==
    ASSUME TypeOK, NEW e \in Executors, ex[e].pc # "idle"
    PROVE  /\ ex[e] \in [pc : {"extract", "completed", "failed"}, run : Runs, left : SUBSET Runs]
           /\ ex[e].run \in Runs /\ ex[e].left \in SUBSET Runs
BY DEF TypeOK, Executor, Idle

LEMMA TypesStep == TypeOK /\ [Next]_vars => TypeOK'
<1> SUFFICES ASSUME TypeOK, [Next]_vars PROVE TypeOK'
    OBVIOUS
<1> USE DEF TypeOK
<1>1. ASSUME NEW r \in Runs, Answer(r) PROVE TypeOK'
    <2>1. runs' \in [Runs -> Run]
        BY <1>1 DEF Answer, Run
    <2>2. ex' \in [Executors -> Executor]
        BY <1>1, TurnTypes DEF Answer, Executors
    <2> QED
        BY <1>1, <2>1, <2>2 DEF Answer
<1>2. ASSUME NEW r \in Runs, Pass(r) PROVE TypeOK'
    BY <1>2 DEF Pass, Run
<1>3. ASSUME NEW s \in Schedulers, SelectDue(s) PROVE TypeOK'
    <2>1. ex' \in [Executors -> Executor]
        BY <1>3, TurnTypes, ListsAreRuns DEF SelectDue, Executors
    <2> QED
        BY <1>3, <2>1 DEF SelectDue
<1>4. ASSUME NEW u \in Users, NEW p \in Prompts, SelectForUser(u, p) PROVE TypeOK'
    <2>1. {r \in Failed : PromptOf[r] = p} \in SUBSET Runs
        BY DEF Failed
    <2>2. ex' \in [Executors -> Executor]
        BY <1>4, <2>1, TurnTypes, ListsAreRuns DEF SelectForUser, Executors
    <2> QED
        BY <1>4, <2>2 DEF SelectForUser
<1>5. ASSUME NEW e \in Executors, Extract(e) PROVE TypeOK'
    <2>1. ex[e].run \in Runs
        BY <1>5, AtWork DEF Extract
    <2>2. \A o \in {"completed", "failed"} : [ex[e] EXCEPT !.pc = o] \in Executor
        BY <1>5, AtWork DEF Extract, Executor
    <2>3. ex' \in [Executors -> Executor]
        BY <1>5, <2>2 DEF Extract
    <2>4. stored' \subseteq Runs
        BY <1>5, <2>1 DEF Extract, Persist
    <2>5. auto' \in [Runs -> Nat]
        BY <1>5, <2>1 DEF Extract
    <2> QED
        BY <1>5, <2>3, <2>4, <2>5 DEF Extract
<1>6. ASSUME NEW e \in Executors, Mark(e) PROVE TypeOK'
    <2>1. ex[e].run \in Runs /\ ex[e].left \in SUBSET Runs /\ ex[e].pc \in {"completed", "failed"}
        BY <1>6, AtWork DEF Mark
    <2>2. runs' \in [Runs -> Run]
        BY <1>6, <2>1 DEF Mark, Run
    <2>3. ex' \in [Executors -> Executor]
        BY <1>6, <2>1, TurnTypes DEF Mark
    <2> QED
        BY <1>6, <2>2, <2>3 DEF Mark
<1>7. ASSUME NEW e \in Executors, MarkLost(e) PROVE TypeOK'
    <2>1. ex[e].left \in SUBSET Runs
        BY <1>7, AtWork DEF MarkLost
    <2>2. ex' \in [Executors -> Executor]
        BY <1>7, <2>1, TurnTypes DEF MarkLost
    <2> QED
        BY <1>7, <2>2 DEF MarkLost
<1>8. ASSUME NEW e \in Executors, Die(e) PROVE TypeOK'
    BY <1>8 DEF Die, Executor
<1>9. CASE UNCHANGED vars
    BY <1>9 DEF vars
<1> QED
    BY <1>1, <1>2, <1>3, <1>4, <1>5, <1>6, <1>7, <1>8, <1>9 DEF Next, Step

\* The variables keep their types.
THEOREM ExtractionTypes == Spec => []TypeOK
<1>1. Init => TypeOK
    BY DEF Init, TypeOK, Run, Executor, Idle
<1> QED
    BY <1>1, TypesStep, PTL DEF Spec

(***************************************************************************)
(* Completed extractions are stored                                        *)
(***************************************************************************)
\* An executor about to record a completed extraction has stored its brands.
StoredInv ==
    /\ CompletedReported
    /\ \A e \in Executors : ex[e].pc = "completed" => ex[e].run \in stored

LEMMA StoredStep == TypeOK /\ StoredInv /\ [Next]_vars => StoredInv'
<1> SUFFICES ASSUME TypeOK, StoredInv, [Next]_vars PROVE StoredInv'
    OBVIOUS
<1> USE DEF StoredInv, CompletedReported
<1>1. ASSUME NEW e \in Executors, NEW left \in SUBSET Runs, Turn(e, left),
             UNCHANGED stored, NEW f \in Executors, ex'[f].pc = "completed"
      PROVE  ex'[f].run \in stored'
    <2>1. PICK x \in Executor :
             ex' = [ex EXCEPT ![e] = x] /\ (x = Idle \/ x.pc = "extract")
        BY <1>1, TurnTypes
    <2>2. x.pc # "completed"
        BY <2>1 DEF Idle
    <2> QED
        BY <1>1, <2>1, <2>2 DEF TypeOK
<1>2. ASSUME NEW r \in Runs, Answer(r) PROVE StoredInv'
    <2>1. r \in Executors
        BY DEF Executors
    <2> QED
        BY <1>1, <1>2, <2>1 DEF Answer, TypeOK, Run
<1>3. ASSUME NEW r \in Runs, Pass(r) PROVE StoredInv'
    BY <1>3 DEF Pass, TypeOK, Run
<1>4. ASSUME NEW s \in Schedulers, SelectDue(s) PROVE StoredInv'
    BY <1>1, <1>4, ListsAreRuns DEF SelectDue, Executors
<1>5. ASSUME NEW u \in Users, NEW p \in Prompts, SelectForUser(u, p) PROVE StoredInv'
    <2>1. {r \in Failed : PromptOf[r] = p} \in SUBSET Runs
        BY DEF Failed
    <2> QED
        BY <1>1, <1>5, <2>1, ListsAreRuns DEF SelectForUser, Executors
<1>6. ASSUME NEW e \in Executors, Extract(e) PROVE StoredInv'
    BY <1>6, AtWork DEF Extract, Persist, TypeOK
<1>7. ASSUME NEW e \in Executors, Mark(e) PROVE StoredInv'
    <2>1. ex[e].run \in Runs /\ ex[e].left \in SUBSET Runs
        BY <1>7, AtWork DEF Mark
    <2>2. CompletedReported'
        BY <1>7, <2>1 DEF Mark, TypeOK, Run
    <2> QED
        BY <1>1, <1>7, <2>1, <2>2 DEF Mark
<1>8. ASSUME NEW e \in Executors, MarkLost(e) PROVE StoredInv'
    <2>1. ex[e].left \in SUBSET Runs
        BY <1>8, AtWork DEF MarkLost
    <2> QED
        BY <1>1, <1>8, <2>1 DEF MarkLost
<1>9. ASSUME NEW e \in Executors, Die(e) PROVE StoredInv'
    BY <1>9 DEF Die, Idle, TypeOK
<1>10. CASE UNCHANGED vars
    BY <1>10 DEF vars
<1> QED
    BY <1>2, <1>3, <1>4, <1>5, <1>6, <1>7, <1>8, <1>9, <1>10 DEF Next, Step

\* A run recorded as completed has its brands stored, whatever dies in between and
\* however many batches work on it (CompletedReported).
THEOREM CompletedReportedHolds == Spec => []CompletedReported
<1>1. Init => StoredInv
    BY DEF Init, StoredInv, CompletedReported, Idle
<1>2. StoredInv => CompletedReported
    BY DEF StoredInv
<1> QED
    BY <1>1, <1>2, StoredStep, ExtractionTypes, PTL DEF Spec

(***************************************************************************)
(* The attempts of the scheduler                                           *)
(***************************************************************************)
\* Schedulers that have made an attempt and not recorded it, and schedulers that are
\* still to make one.
Marking(r) == {s \in Schedulers : ex[s].pc \in {"completed", "failed"} /\ ex[s].run = r}
Holding(r) == {s \in Schedulers : r \in ex[s].left \/ (ex[s].pc = "extract" /\ ex[s].run = r)}

\* Nobody has the run it works on in its list again.
Once == \A s \in Schedulers : ex[s].pc # "idle" => ex[s].run \notin ex[s].left

\* Every attempt is counted, or about to be, or lost.
CountedFor(r) == auto[r] <= runs[r].attempts + lost + Cardinality(Marking(r))

\* Who holds a run has its attempt within the bound already.
ReservedFor(r) == auto[r] + Cardinality(Holding(r)) <= MaxAttempts - 1 + Cardinality(Schedulers) + lost

AttemptsInv == Once /\ \A r \in Runs : CountedFor(r) /\ ReservedFor(r)

\* The sets that are counted are finite, in any state.
LEMMA SchedulerSets ==
    ASSUME NEW r
    PROVE  /\ IsFiniteSet(Marking(r)) /\ IsFiniteSet(Holding(r))
           /\ Cardinality(Marking(r)) \in Nat /\ Cardinality(Holding(r)) \in Nat
           /\ Cardinality(Schedulers) \in Nat
<1>1. Marking(r) \subseteq Schedulers /\ Holding(r) \subseteq Schedulers
    BY DEF Marking, Holding
<1>2. IsFiniteSet(Schedulers)
    BY ExtractionAssumption
<1>3. IsFiniteSet(Marking(r)) /\ IsFiniteSet(Holding(r))
    BY <1>1, <1>2, FS_Subset
<1> QED
    BY <1>2, <1>3, FS_CardinalityType

\* Removing an element takes at most one from the size.
LEMMA RemoveOne ==
    ASSUME NEW S, IsFiniteSet(S), NEW s
    PROVE  Cardinality(S \ {s}) \in Nat /\ Cardinality(S \ {s}) >= Cardinality(S) - 1
<1>1. Cardinality(S) \in Nat
    BY FS_CardinalityType
<1>2. /\ IsFiniteSet(S \ {s})
      /\ Cardinality(S \ {s}) = IF s \in S THEN Cardinality(S) - 1 ELSE Cardinality(S)
    BY FS_RemoveElement
<1>3. Cardinality(S \ {s}) \in Nat
    BY <1>2, FS_CardinalityType
<1> QED
    BY <1>1, <1>2, <1>3

\* A run keeps its bounds when nobody is to attempt it who was not, at most as many
\* leave Marking as attempts or losses are counted, and no attempt is made.
LEMMA BoundsKept ==
    ASSUME TypeOK, TypeOK', NEW r \in Runs, CountedFor(r), ReservedFor(r),
           auto'[r] = auto[r], Holding(r)' \subseteq Holding(r),
           \/ /\ Marking(r)' = Marking(r)
              /\ runs'[r].attempts >= runs[r].attempts /\ lost' >= lost
           \/ /\ \E s : Marking(r)' = Marking(r) \ {s}
              /\ runs'[r].attempts + lost' >= runs[r].attempts + lost + 1 /\ lost' >= lost
    PROVE  CountedFor(r)' /\ ReservedFor(r)'
<1>1. /\ auto[r] \in Nat /\ lost \in Nat /\ lost' \in Nat
      /\ runs[r].attempts \in Nat /\ runs'[r].attempts \in Nat
    BY DEF TypeOK, Run
<1>2. Cardinality(Holding(r)') <= Cardinality(Holding(r)) /\ Cardinality(Holding(r)') \in Nat
    BY SchedulerSets, FS_Subset, FS_CardinalityType
<1>3. ReservedFor(r)'
    BY <1>1, <1>2, SchedulerSets, ExtractionAssumption DEF ReservedFor
<1>4. ASSUME Marking(r)' = Marking(r), runs'[r].attempts >= runs[r].attempts, lost' >= lost
      PROVE  CountedFor(r)'
    BY <1>1, <1>4, SchedulerSets DEF CountedFor
<1>5. ASSUME NEW s, Marking(r)' = Marking(r) \ {s},
             runs'[r].attempts + lost' >= runs[r].attempts + lost + 1
      PROVE  CountedFor(r)'
    <2>1. IsFiniteSet(Marking(r)) /\ Cardinality(Marking(r)) \in Nat
        BY SchedulerSets
    <2>2. /\ Cardinality(Marking(r) \ {s}) \in Nat
          /\ Cardinality(Marking(r) \ {s}) >= Cardinality(Marking(r)) - 1
        BY <2>1, RemoveOne
    <2>3. auto[r] <= runs'[r].attempts + lost' + Cardinality(Marking(r) \ {s})
        BY <1>1, <1>5, <2>1, <2>2 DEF CountedFor
    <2> QED
        BY <1>5, <2>3 DEF CountedFor
<1> QED
    BY <1>3, <1>4, <1>5

\* Steps that leave every scheduler as it is keep what is counted.
LEMMA SchedulersAside ==
    ASSUME TypeOK, NEW r, \A s \in Schedulers : ex'[s] = ex[s]
    PROVE  Marking(r)' = Marking(r) /\ Holding(r)' = Holding(r)
BY DEF Marking, Holding

\* A scheduler turning to a list holds the runs of the list, and marks nothing.
LEMMA TurnSets ==
    ASSUME TypeOK, NEW s \in Schedulers, NEW left \in SUBSET Runs, Turn(s, left), NEW r
    PROVE  /\ Marking(r)' = Marking(r) \ {s}
           /\ Holding(r)' = IF r \in left THEN Holding(r) \cup {s} ELSE Holding(r) \ {s}
           /\ Once => Once'
<1>1. s \in Executors
    BY DEF Executors
<1>2. PICK x \in Executor :
         /\ ex' = [ex EXCEPT ![s] = x]
         /\ x = Idle \/ (x.pc = "extract" /\ x.run \in left /\ x.left = left \ {x.run})
         /\ x = Idle => left = {}
    BY <1>1, TurnTypes
<1>3. ex'[s] = x /\ \A t \in Schedulers \ {s} : ex'[t] = ex[t]
    BY <1>1, <1>2 DEF TypeOK, Executors
<1>4. x.pc \notin {"completed", "failed"}
    BY <1>2 DEF Idle
<1>5. (r \in x.left \/ (x.pc = "extract" /\ x.run = r)) <=> r \in left
    BY <1>2 DEF Idle
<1>6. x.pc # "idle" => x.run \notin x.left
    BY <1>2 DEF Idle
<1>7. Marking(r)' = Marking(r) \ {s}
    BY <1>3, <1>4 DEF Marking
<1>8. Holding(r)' = IF r \in left THEN Holding(r) \cup {s} ELSE Holding(r) \ {s}
    BY <1>3, <1>5 DEF Holding
<1>9. Once => Once'
    BY <1>3, <1>6 DEF Once
<1> QED
    BY <1>7, <1>8, <1>9

\* The executors that are not schedulers turn without touching a scheduler.
LEMMA TurnAside ==
    ASSUME TypeOK, NEW e \in Executors \ Schedulers, NEW left, Turn(e, left)
    PROVE  \A s \in Schedulers : ex'[s] = ex[s]
BY DEF Turn, TypeOK, Executors

\* A run enters lists only while its counter is below the maximum.
LEMMA SelectDueKeeps ==
    ASSUME TypeOK, TypeOK', AttemptsInv, NEW s \in Schedulers, SelectDue(s)
    PROVE  AttemptsInv'
<1> DEFINE list == Newest(Due, BatchSize)
<1>1. list \in SUBSET Runs /\ list \subseteq Due
    BY ListsAreRuns DEF Newest
<1>2. Turn(s, list) /\ UNCHANGED <<runs, auto, lost>>
    BY DEF SelectDue
<1> HIDE DEF list
<1>3. Once'
    BY <1>1, <1>2, TurnSets DEF AttemptsInv
<1>4. ASSUME NEW r \in Runs PROVE CountedFor(r)' /\ ReservedFor(r)'
    <2>1. s \notin Marking(r) /\ s \notin Holding(r)
        BY DEF SelectDue, Idle, Marking, Holding
    <2>2. /\ Marking(r)' = Marking(r)
          /\ Holding(r)' = IF r \in list THEN Holding(r) \cup {s} ELSE Holding(r)
        BY <1>1, <1>2, <2>1, TurnSets
    <2>3. /\ CountedFor(r) /\ ReservedFor(r) /\ auto[r] \in Nat /\ lost \in Nat
          /\ runs[r].attempts \in Nat /\ lost' \in Nat
        BY DEF AttemptsInv, TypeOK, Run
    <2>4. CASE r \notin list
        BY <1>2, <2>2, <2>3, <2>4, BoundsKept
    <2>5. CASE r \in list
        <3>1. CountedFor(r)'
            BY <1>2, <2>2, <2>3 DEF CountedFor
        <3>2. runs[r].attempts <= MaxAttempts - 1
            BY <1>1, <2>3, <2>5, ExtractionAssumption DEF Due
        <3>3. Marking(r) \cap (Holding(r) \cup {s}) = {}
            BY <2>1 DEF AttemptsInv, Once, Marking, Holding
        <3>4. Cardinality(Marking(r)) + Cardinality(Holding(r) \cup {s}) <= Cardinality(Schedulers)
            <4> DEFINE M == Marking(r)
                       H == Holding(r) \cup {s}
            <4>1. IsFiniteSet(M) /\ IsFiniteSet(H)
                BY SchedulerSets, FS_AddElement
            <4>2. M \cup H \subseteq Schedulers /\ IsFiniteSet(Schedulers)
                BY ExtractionAssumption DEF Marking, Holding
            <4>3. M \cap H = {}
                BY <3>3
            <4> HIDE DEF M, H
            <4>4. Cardinality(M \cup H) = Cardinality(M) + Cardinality(H) - Cardinality(M \cap H)
                BY <4>1, FS_Union
            <4>5. Cardinality(M \cap H) = 0
                BY <4>3, FS_EmptySet
            <4>6. Cardinality(M \cup H) <= Cardinality(Schedulers)
                BY <4>2, FS_Subset
            <4>7. Cardinality(M) \in Nat /\ Cardinality(H) \in Nat
                BY <4>1, FS_CardinalityType
            <4>8. Cardinality(M) + Cardinality(H) <= Cardinality(Schedulers)
                BY <4>4, <4>5, <4>6, <4>7
            <4> QED
                BY <4>8 DEF M, H
        <3>5. Cardinality(Holding(r) \cup {s}) \in Nat
            BY SchedulerSets, FS_AddElement, FS_CardinalityType
        <3>6. auto[r] + Cardinality(Holding(r) \cup {s})
                 <= MaxAttempts - 1 + Cardinality(Schedulers) + lost
            BY <2>3, <3>2, <3>4, <3>5, SchedulerSets, ExtractionAssumption DEF CountedFor
        <3>7. ReservedFor(r)'
            BY <1>2, <2>2, <2>5, <3>6 DEF ReservedFor
        <3> QED
            BY <3>1, <3>7
    <2> QED
        BY <2>4, <2>5
<1> QED
    BY <1>3, <1>4 DEF AttemptsInv

\* An attempt turns its place into a counted, or still to be counted, attempt.
LEMMA ExtractKeeps ==
    ASSUME TypeOK, TypeOK', AttemptsInv, NEW e \in Executors, Extract(e)
    PROVE  AttemptsInv'
<1>1. ex[e].run \in Runs /\ ex[e].pc = "extract"
    BY AtWork DEF Extract
<1>2. PICK o \in {"completed", "failed"} : ex' = [ex EXCEPT ![e] = [@ EXCEPT !.pc = o]]
    BY DEF Extract
<1>3. ex'[e] = [ex[e] EXCEPT !.pc = o] /\ \A s \in Executors \ {e} : ex'[s] = ex[s]
    BY <1>2 DEF TypeOK
<1>4. ex'[e].pc = o /\ ex'[e].run = ex[e].run /\ ex'[e].left = ex[e].left
    BY <1>1, <1>3, AtWork
<1>5. UNCHANGED <<runs, lost>>
    BY DEF Extract
<1>6. \A s \in Schedulers : s \in Executors
    BY DEF Executors
<1>7. Once'
    BY <1>1, <1>3, <1>4, <1>6 DEF AttemptsInv, Once
<1>8. ASSUME NEW r \in Runs PROVE CountedFor(r)' /\ ReservedFor(r)'
    <2>1. CountedFor(r) /\ ReservedFor(r) /\ auto[r] \in Nat /\ auto'[r] \in Nat
          /\ lost \in Nat /\ runs[r].attempts \in Nat
        BY DEF AttemptsInv, TypeOK, Run
    <2>2. CASE e \notin Schedulers \/ r # ex[e].run
        <3>1. auto'[r] = auto[r]
            BY <2>2, <1>1 DEF Extract, TypeOK
        <3>2. Marking(r)' = Marking(r) /\ Holding(r)' = Holding(r)
            BY <1>1, <1>3, <1>4, <1>6, <2>2 DEF Marking, Holding
        <3> QED
            BY <1>5, <2>1, <3>1, <3>2, BoundsKept
    <2>3. CASE e \in Schedulers /\ r = ex[e].run
        <3>1. auto'[r] = auto[r] + 1
            BY <2>3, <1>1 DEF Extract, TypeOK
        <3>2. Marking(r)' = Marking(r) \cup {e} /\ e \notin Marking(r)
            BY <1>1, <1>3, <1>4, <1>6, <2>3 DEF Marking
        <3>3. Holding(r)' = Holding(r) \ {e} /\ e \in Holding(r)
            <4>1. r \notin ex'[e].left /\ ex'[e].pc # "extract"
                BY <1>1, <1>4, <2>3 DEF AttemptsInv, Once
            <4>2. \A s \in Schedulers \ {e} : ex'[s] = ex[s]
                BY <1>3, <1>6
            <4>3. e \in Holding(r)
                BY <1>1, <2>3 DEF Holding
            <4> QED
                BY <4>1, <4>2, <4>3 DEF Holding
        <3>4. Cardinality(Marking(r) \cup {e}) = Cardinality(Marking(r)) + 1
            BY <3>2, SchedulerSets, FS_AddElement
        <3>5. Cardinality(Holding(r) \ {e}) = Cardinality(Holding(r)) - 1
            BY <3>3, SchedulerSets, FS_RemoveElement
        <3>6. CountedFor(r)'
            BY <1>5, <2>1, <3>1, <3>2, <3>4, SchedulerSets DEF CountedFor
        <3>7. ReservedFor(r)'
            BY <1>5, <2>1, <3>1, <3>3, <3>5, SchedulerSets, ExtractionAssumption DEF ReservedFor
        <3> QED
            BY <3>6, <3>7
    <2> QED
        BY <2>2, <2>3
<1> QED
    BY <1>7, <1>8 DEF AttemptsInv

\* Recording an attempt, or losing it, keeps the bounds.
LEMMA MarkKeeps ==
    ASSUME TypeOK, TypeOK', AttemptsInv, NEW e \in Executors, Mark(e) \/ MarkLost(e)
    PROVE  AttemptsInv'
<1>1. /\ ex[e].run \in Runs /\ ex[e].left \in SUBSET Runs
      /\ ex[e].pc \in {"completed", "failed"}
      /\ Turn(e, ex[e].left) /\ UNCHANGED auto
    BY AtWork DEF Mark, MarkLost
<1>2. \A r \in Runs :
         /\ runs'[r].attempts >= runs[r].attempts /\ lost' >= lost
         /\ r = ex[e].run => runs'[r].attempts + lost' >= runs[r].attempts + lost + 1
    <2>1. \A r \in Runs : runs[r].attempts \in Nat /\ lost \in Nat
        BY DEF TypeOK, Run
    <2>2. CASE Mark(e)
        BY <1>1, <2>1, <2>2 DEF Mark, TypeOK
    <2>3. CASE MarkLost(e)
        BY <2>1, <2>3 DEF MarkLost
    <2> QED
        BY <2>2, <2>3
<1>3. CASE e \notin Schedulers
    <2>1. \A s \in Schedulers : ex'[s] = ex[s]
        BY <1>1, <1>3, TurnAside
    <2>2. Once'
        BY <2>1 DEF AttemptsInv, Once
    <2>3. ASSUME NEW r \in Runs PROVE CountedFor(r)' /\ ReservedFor(r)'
        <3>1. Marking(r)' = Marking(r) /\ Holding(r)' = Holding(r)
            BY <2>1, SchedulersAside
        <3> QED
            BY <1>1, <1>2, <3>1, BoundsKept DEF AttemptsInv
    <2> QED
        BY <2>2, <2>3 DEF AttemptsInv
<1>4. CASE e \in Schedulers
    <2>1. Once'
        BY <1>1, <1>4, TurnSets DEF AttemptsInv
    <2>2. ASSUME NEW r \in Runs PROVE CountedFor(r)' /\ ReservedFor(r)'
        <3>1. Marking(r)' = Marking(r) \ {e}
            BY <1>1, <1>4, TurnSets
        <3>2. Holding(r)' = IF r \in ex[e].left THEN Holding(r) \cup {e} ELSE Holding(r) \ {e}
            BY <1>1, <1>4, TurnSets
        <3>3. Holding(r)' \subseteq Holding(r)
            BY <1>4, <3>2 DEF Holding
        <3>4. r # ex[e].run => Marking(r)' = Marking(r)
            BY <3>1 DEF Marking
        <3> QED
            BY <1>1, <1>2, <3>1, <3>3, <3>4, BoundsKept DEF AttemptsInv
    <2> QED
        BY <2>1, <2>2 DEF AttemptsInv
<1> QED
    BY <1>3, <1>4

LEMMA AttemptsStep == TypeOK /\ TypeOK' /\ AttemptsInv /\ [Next]_vars => AttemptsInv'
<1> SUFFICES ASSUME TypeOK, TypeOK', AttemptsInv, [Next]_vars PROVE AttemptsInv'
    OBVIOUS
<1>1. ASSUME \A s \in Schedulers : ex'[s] = ex[s], UNCHANGED <<auto, lost>>,
             \A r \in Runs : runs'[r].attempts = runs[r].attempts
      PROVE  AttemptsInv'
    <2>1. Once'
        BY <1>1 DEF AttemptsInv, Once
    <2>2. ASSUME NEW r \in Runs PROVE CountedFor(r)' /\ ReservedFor(r)'
        <3>1. Marking(r)' = Marking(r) /\ Holding(r)' = Holding(r)
            BY <1>1, SchedulersAside
        <3>2. runs[r].attempts \in Nat /\ lost \in Nat
            BY DEF TypeOK, Run
        <3> QED
            BY <1>1, <3>1, <3>2, BoundsKept DEF AttemptsInv
    <2> QED
        BY <2>1, <2>2 DEF AttemptsInv
<1>2. ASSUME NEW r \in Runs, Answer(r) PROVE AttemptsInv'
    <2>1. r \in Executors \ Schedulers
        BY ExtractionAssumption DEF Executors
    <2>2. \A s \in Schedulers : ex'[s] = ex[s]
        BY <1>2, <2>1, TurnAside DEF Answer
    <2> QED
        BY <1>1, <1>2, <2>2 DEF Answer, TypeOK, Run
<1>3. ASSUME NEW r \in Runs, Pass(r) PROVE AttemptsInv'
    BY <1>1, <1>3 DEF Pass, TypeOK, Run
<1>4. ASSUME NEW s \in Schedulers, SelectDue(s) PROVE AttemptsInv'
    BY <1>4, SelectDueKeeps
<1>5. ASSUME NEW u \in Users, NEW p \in Prompts, SelectForUser(u, p) PROVE AttemptsInv'
    <2>1. u \in Executors \ Schedulers
        BY ExtractionAssumption DEF Executors
    <2>2. \A s \in Schedulers : ex'[s] = ex[s]
        BY <1>5, <2>1, TurnAside DEF SelectForUser
    <2> QED
        BY <1>1, <1>5, <2>2 DEF SelectForUser
<1>6. ASSUME NEW e \in Executors, Die(e) PROVE AttemptsInv'
    <2>1. ex'[e] = Idle /\ \A s \in Executors \ {e} : ex'[s] = ex[s]
        BY <1>6 DEF Die, TypeOK
    <2>2. \A s \in Schedulers : s \in Executors
        BY DEF Executors
    <2>3. Once'
        BY <2>1, <2>2 DEF AttemptsInv, Once, Idle
    <2>4. ASSUME NEW r \in Runs PROVE CountedFor(r)' /\ ReservedFor(r)'
        <3>1. Marking(r)' = Marking(r) \ {e} /\ Holding(r)' \subseteq Holding(r)
            BY <2>1, <2>2 DEF Marking, Holding, Idle
        <3>2. lost' = lost + 1 /\ UNCHANGED <<runs, auto>>
            BY <1>6 DEF Die
        <3>3. runs[r].attempts \in Nat /\ lost \in Nat
            BY DEF TypeOK, Run
        <3> QED
            BY <3>1, <3>2, <3>3, BoundsKept DEF AttemptsInv
    <2> QED
        BY <2>3, <2>4 DEF AttemptsInv
<1>7. CASE UNCHANGED vars
    BY <1>1, <1>7 DEF vars
<1> QED
    BY <1>2, <1>3, <1>4, <1>5, <1>6, <1>7, ExtractKeeps, MarkKeeps DEF Next, Step

\* However schedulers, users and executions overlap, a run is extracted by the
\* scheduler at most max_attempts - 1 times plus once for each scheduler process and
\* for each lost update (AttemptsBounded).
THEOREM AttemptsBoundedHolds == Spec => []AttemptsBounded
<1>1. Init => AttemptsInv
    <2> SUFFICES ASSUME Init PROVE AttemptsInv
        OBVIOUS
    <2>1. \A s \in Schedulers : ex[s] = Idle
        BY DEF Init, Executors
    <2>2. Once
        BY <2>1 DEF Once, Idle
    <2>3. ASSUME NEW r \in Runs PROVE CountedFor(r) /\ ReservedFor(r)
        <3>1. Marking(r) = {} /\ Holding(r) = {}
            BY <2>1 DEF Marking, Holding, Idle
        <3>2. auto[r] = 0 /\ runs[r].attempts = 0 /\ lost = 0
            BY DEF Init
        <3>3. Cardinality({}) = 0
            BY FS_EmptySet
        <3> QED
            BY <3>1, <3>2, <3>3, SchedulerSets, ExtractionAssumption DEF CountedFor, ReservedFor
    <2> QED
        BY <2>2, <2>3 DEF AttemptsInv
<1>2. TypeOK /\ AttemptsInv => AttemptsBounded
    <2> SUFFICES ASSUME TypeOK, AttemptsInv, NEW r \in Runs
                 PROVE  auto[r] <= MaxAttempts - 1 + Cardinality(Schedulers) + lost
        BY DEF AttemptsBounded
    <2>1. ReservedFor(r) /\ auto[r] \in Nat /\ lost \in Nat
        BY DEF AttemptsInv, TypeOK
    <2> QED
        BY <2>1, SchedulerSets, ExtractionAssumption DEF ReservedFor
<1> QED
    BY <1>1, <1>2, AttemptsStep, ExtractionTypes, PTL DEF Spec

==============================================================================
