------------------------ MODULE PromptLifecycleProofs ------------------------
(***************************************************************************)
(* Type correctness of PromptLifecycle, the bound on how far users'        *)
(* requests overshoot the maximum of active prompts, and that a prompt is  *)
(* deleted whole or not at all, for any number of prompts and requests.    *)
(***************************************************************************)
EXTENDS PromptLifecycle, FiniteSetTheorems, TLAPS

(***************************************************************************)
(* Types                                                                   *)
(***************************************************************************)
\* What inserting rows does to has and cyc keeps their types.
LEMMA AddRowsTypes ==
    ASSUME TypeOK, NEW p \in Prompts, NEW t \in SUBSET Tables, AddRows(p, t)
    PROVE  has' \in [Prompts -> SUBSET Tables] /\ cyc' \in Cycle
BY DEF TypeOK, AddRows, Cycle

\* Each step of a request keeps the types.
LEMMA RequestTypes ==
    ASSUME TypeOK, NEW r \in Requests,
           \/ \E p \in Prompts : BeginCreate(r, p) \/ \E k \in Kinds : BeginChange(r, k, p)
           \/ RequestStep(r)
    PROVE  TypeOK'
<1> USE DEF TypeOK
<1>1. ASSUME NEW p \in Prompts, BeginCreate(r, p) PROVE TypeOK'
    BY <1>1 DEF BeginCreate, Operation, Request, Kinds
<1>2. ASSUME NEW p \in Prompts, NEW k \in Kinds, BeginChange(r, k, p) PROVE TypeOK'
    <2> DEFINE new == [stage |-> IF k \in {"switchOn", "switchOff"} THEN "passed" ELSE "loaded",
                       kind |-> k, prompt |-> p, seen |-> status[p] = "active"]
    <2>1. (status[p] = "active") \in BOOLEAN
        OBVIOUS
    <2>2. new \in Request
        BY <2>1 DEF Request
    <2> HIDE DEF new
    <2>3. req' = [req EXCEPT ![r] = new]
        BY <1>2 DEF BeginChange, new
    <2> QED
        BY <1>2, <2>2, <2>3 DEF BeginChange, Operation
<1>3. CASE Count(r)
    <2>1. req[r] \in Request
        BY <1>3 DEF Count, NoRequest
    <2>2. [req[r] EXCEPT !.stage = "passed"] \in Request
        BY <2>1 DEF Request
    <2> QED
        BY <1>3, <2>2 DEF Count
<1>4. CASE Insert(r)
    <2>1. req[r] \in Request
        BY <1>4 DEF Insert, NoRequest
    <2>2. req[r].prompt \in Prompts
        BY <2>1 DEF Request
    <2>3. has' \in [Prompts -> SUBSET Tables]
        BY <1>4, <2>2 DEF Insert, Tables
    <2> QED
        BY <1>4, <2>2, <2>3 DEF Insert, Status
<1>5. CASE Update(r)
    <2>1. req[r] \in Request
        BY <1>5 DEF Update, NoRequest
    <2>2. req[r].prompt \in Prompts
        BY <2>1 DEF Request
    <2>3. 0 \in 0..Retention
        BY PromptAssumption
    <2> QED
        BY <1>5, <2>2, <2>3 DEF Update, Status
<1> QED
    BY <1>1, <1>2, <1>3, <1>4, <1>5 DEF RequestStep

\* Each step on the rows of a prompt keeps the types.
LEMMA RowTypes ==
    ASSUME TypeOK, NEW p \in Prompts,
           AddModel(p) \/ RemoveModel(p) \/ BeginRun(p) \/ EndRun(p) \/ Extract(p)
    PROVE  TypeOK'
<1>1. CASE AddModel(p)
    <2>1. {"prompt_models"} \in SUBSET Tables
        BY DEF Tables
    <2>2. has' \in [Prompts -> SUBSET Tables] /\ cyc' \in Cycle
        BY <1>1, <2>1, AddRowsTypes DEF AddModel
    <2> QED
        BY <1>1, <2>2 DEF TypeOK, AddModel, Operation
<1>2. CASE RemoveModel(p)
    BY <1>2 DEF TypeOK, RemoveModel, Operation
<1>3. CASE BeginRun(p)
    <2>1. {"daily_model_runs"} \in SUBSET Tables
        BY DEF Tables
    <2>2. has' \in [Prompts -> SUBSET Tables] /\ cyc' \in Cycle
        BY <1>3, <2>1, AddRowsTypes DEF BeginRun
    <2> QED
        BY <1>3, <2>2 DEF TypeOK, BeginRun, Operation
<1>4. CASE EndRun(p)
    <2>1. {{"ai_runs"}, {"ai_runs", "success_run_id"}} \subseteq SUBSET Tables
        BY DEF Tables
    <2>2. has' \in [Prompts -> SUBSET Tables] /\ cyc' \in Cycle
        BY <1>4, <2>1, AddRowsTypes DEF EndRun
    <2>3. 0 \in 0..Retention
        BY PromptAssumption
    <2> QED
        BY <1>4, <2>2, <2>3 DEF TypeOK, EndRun
<1>5. CASE Extract(p)
    <2>1. {"run_brands"} \in SUBSET Tables
        BY DEF Tables
    <2>2. has' \in [Prompts -> SUBSET Tables] /\ cyc' \in Cycle
        BY <1>5, <2>1, AddRowsTypes DEF Extract
    <2> QED
        BY <1>5, <2>2 DEF TypeOK, Extract, Operation
<1> QED
    BY <1>1, <1>2, <1>3, <1>4, <1>5

\* Each step of the scheduler's cycle keeps the types.
LEMMA CycleTypes ==
    ASSUME TypeOK, CycleStep
    PROVE  TypeOK'
<1> USE DEF TypeOK, Cycle
<1>1. CASE StartCycle
    BY <1>1 DEF StartCycle, EnqueueStep
<1>2. CASE Delete
    <2> DEFINE table == Statements[cyc.at]
    <2>1. {<<p, table>> : p \in {q \in Old : table \in has[q]}} \subseteq Prompts \X Tables
        BY DEF Old, Archived
    <2> HIDE DEF table
    <2>2. cyc.at + 1 \in 0..EnqueueStep
        BY <1>2 DEF Delete, EnqueueStep
    <2>3. cyc' = [at |-> cyc.at + 1,
                  gone |-> cyc.gone \cup {<<p, table>> : p \in {q \in Old : table \in has[q]}}]
        BY <1>2 DEF Delete, table
    <2>4. cyc' \in Cycle
        BY <2>1, <2>2, <2>3
    <2> QED
        BY <1>2, <2>4 DEF Delete
<1>3. CASE Commit
    BY <1>3 DEF Commit, EnqueueStep, Status
<1>4. CASE Abort
    BY <1>4 DEF Abort, NoCycle, EnqueueStep
<1>5. CASE Enqueue
    BY <1>5 DEF Enqueue, Runnable, Active, NoCycle, EnqueueStep
<1> QED
    BY <1>1, <1>2, <1>3, <1>4, <1>5 DEF CycleStep

\* The variables keep their types.
THEOREM PromptTypes == Spec => []TypeOK
<1>1. Init => TypeOK
    <2> SUFFICES ASSUME Init PROVE TypeOK
        OBVIOUS
    <2>1. 0 \in 0..Retention
        BY PromptAssumption
    <2>2. has \in [Prompts -> SUBSET Tables]
        BY LegacyAssumption DEF Init
    <2>3. cyc \in Cycle
        BY DEF Init, NoCycle, Cycle, EnqueueStep
    <2> QED
        BY <2>1, <2>2, <2>3 DEF Init, TypeOK, Status
<1>2. TypeOK /\ [Next]_vars => TypeOK'
    <2> SUFFICES ASSUME TypeOK, [Next]_vars PROVE TypeOK'
        OBVIOUS
    <2>1. CASE NewDay
        BY <2>1, PromptAssumption DEF NewDay, TypeOK
    <2>2. CASE UNCHANGED vars
        BY <2>2 DEF vars, TypeOK
    <2> QED
        BY <2>1, <2>2, RequestTypes, RowTypes, CycleTypes DEF Next
<1> QED
    BY <1>1, <1>2, PTL DEF Spec

(***************************************************************************)
(* The overshoot of the maximum                                            *)
(***************************************************************************)
\* The requests that have passed the count and will make a prompt active.
Activating == {r \in Requests : req[r].stage = "passed" /\ req[r].kind \in {"create", "restore"}}
Counted == Active \ forced

\* Each activating request has its place within the bound already.
PlacesReserved ==
    Cardinality(Counted) + Cardinality(Activating) <= MaxActive - 1 + Cardinality(Requests)

\* The sets that are counted are finite, in any state.
LEMMA Finite ==
    /\ IsFiniteSet(Active) /\ IsFiniteSet(Counted) /\ IsFiniteSet(Activating)
    /\ Cardinality(Active) \in Nat /\ Cardinality(Counted) \in Nat
    /\ Cardinality(Activating) \in Nat /\ Cardinality(Requests) \in Nat
    /\ Cardinality(Counted) <= Cardinality(Active)
    /\ Cardinality(Activating) <= Cardinality(Requests)
<1>1. Active \in SUBSET Prompts /\ Counted \in SUBSET Active /\ Activating \in SUBSET Requests
    BY DEF Active, Counted, Activating
<1>2. IsFiniteSet(Prompts) /\ IsFiniteSet(Requests)
    BY PromptAssumption
<1>3. IsFiniteSet(Active)
    BY <1>1, <1>2, FS_Subset
<1>4. IsFiniteSet(Counted) /\ Cardinality(Counted) <= Cardinality(Active)
    BY <1>1, <1>3, FS_Subset
<1>5. IsFiniteSet(Activating) /\ Cardinality(Activating) <= Cardinality(Requests)
    BY <1>1, <1>2, FS_Subset
<1> QED
    BY <1>2, <1>3, <1>4, <1>5, FS_CardinalityType

\* A step that lets neither set grow keeps the places.
LEMMA NoGrowth ==
    ASSUME PlacesReserved, Counted' \subseteq Counted, Activating' \subseteq Activating
    PROVE  PlacesReserved'
<1>1. Cardinality(Counted') <= Cardinality(Counted) /\ Cardinality(Counted') \in Nat
    BY Finite, FS_Subset, FS_CardinalityType
<1>2. Cardinality(Activating') <= Cardinality(Activating) /\ Cardinality(Activating') \in Nat
    BY Finite, FS_Subset, FS_CardinalityType
<1> QED
    BY <1>1, <1>2, Finite, PromptAssumption DEF PlacesReserved

\* An activating request gives its place to the prompt it makes active.
LEMMA PlaceTaken ==
    ASSUME PlacesReserved, NEW r \in Activating, NEW p,
           Counted' \subseteq Counted \cup {p}, Activating' = Activating \ {r}
    PROVE  PlacesReserved'
<1>1. Cardinality(Activating') = Cardinality(Activating) - 1
    BY Finite, FS_RemoveElement
<1>2. /\ IsFiniteSet(Counted \cup {p})
      /\ Cardinality(Counted \cup {p}) =
            IF p \in Counted THEN Cardinality(Counted) ELSE Cardinality(Counted) + 1
    <2>1. IsFiniteSet(Counted)
        BY Finite
    <2> QED
        BY <2>1, FS_AddElement
<1>3. Cardinality(Counted') <= Cardinality(Counted \cup {p}) /\ Cardinality(Counted') \in Nat
    BY <1>2, FS_Subset, FS_CardinalityType
<1> QED
    BY <1>1, <1>2, <1>3, Finite, PromptAssumption DEF PlacesReserved

\* Writing requests: those that activate take their place, the others need none.
LEMMA UpdateKeepsPlaces ==
    ASSUME TypeOK, PlacesReserved, NEW r \in Requests, Update(r)
    PROVE  PlacesReserved'
<1> DEFINE p == req[r].prompt
           on == req[r].kind \in {"restore", "switchOn"}
<1>1. req[r] \in Request
    BY DEF Update, NoRequest, TypeOK
<1>2. p \in Prompts /\ req[r].kind \in Kinds
    BY <1>1 DEF Request
<1>3. req' = [req EXCEPT ![r] = NoRequest]
    BY DEF Update
<1>4. Activating' = Activating \ {r}
    BY <1>3 DEF Activating, NoRequest, TypeOK
<1>5. Active' \subseteq Active \cup {p}
    BY <1>2 DEF Update, Active, TypeOK
<1>6. CASE req[r].kind = "restore"
    <2>1. r \in Activating
        BY <1>6 DEF Update, Activating
    <2>2. forced' = forced
        BY <1>6 DEF Update
    <2>3. Counted' \subseteq Counted \cup {p}
        BY <1>5, <2>2 DEF Counted
    <2> QED
        BY <2>1, <2>3, <1>4, PlaceTaken
<1>7. CASE req[r].kind # "restore"
    <2>1. Counted' \subseteq Counted
        <3>1. CASE req[r].seen = on \/ status[p] = "deleted"
            BY <3>1 DEF Update, Counted, Active
        <3>2. CASE ~(req[r].seen = on \/ status[p] = "deleted")
            <4>1. status' = [status EXCEPT ![p] = IF on THEN "active" ELSE "archived"]
                BY <3>2 DEF Update
            <4>2. CASE req[r].kind = "switchOn"
                <5>1. forced' = IF status[p] # "active" THEN forced \cup {p} ELSE forced
                    BY <3>2, <4>2 DEF Update
                <5> QED
                    BY <1>5, <1>2, <5>1 DEF Counted, Active
            <4>3. CASE req[r].kind # "switchOn"
                <5>1. ~on /\ forced' = forced \ {p}
                    BY <3>2, <4>3, <1>7 DEF Update
                <5>2. Active' \subseteq Active \ {p}
                    BY <4>1, <5>1, <1>2 DEF Active, TypeOK
                <5> QED
                    BY <5>1, <5>2 DEF Counted
            <4> QED
                BY <4>2, <4>3
        <3> QED
            BY <3>1, <3>2
    <2> QED
        BY <1>4, <2>1, NoGrowth
<1> QED
    BY <1>6, <1>7

\* Counting reserves a place only while fewer than MaxActive prompts are active.
LEMMA CountKeepsPlaces ==
    ASSUME TypeOK, PlacesReserved, NEW r \in Requests, Count(r)
    PROVE  PlacesReserved'
<1>1. Counted' = Counted
    BY DEF Count, Counted, Active
<1>2. CASE Allowed(r) /\ req[r].kind \in {"create", "restore"}
    <2>1. Cardinality(Active) < MaxActive
        BY <1>2 DEF Allowed
    <2>2. Cardinality(Activating') <= Cardinality(Requests) /\ Cardinality(Activating') \in Nat
        <3>1. Activating' \in SUBSET Requests
            BY DEF Activating
        <3> QED
            BY <3>1, FS_Subset, FS_CardinalityType, PromptAssumption
    <2> QED
        BY <1>1, <2>1, <2>2, Finite, PromptAssumption DEF PlacesReserved
<1>3. CASE ~(Allowed(r) /\ req[r].kind \in {"create", "restore"})
    <2>1. Activating' \subseteq Activating
        <3>1. req[r] \in Request
            BY DEF Count, NoRequest, TypeOK
        <3>2. CASE Allowed(r)
            <4>1. req' = [req EXCEPT ![r] = [req[r] EXCEPT !.stage = "passed"]]
                BY <3>2 DEF Count
            <4>2. [req[r] EXCEPT !.stage = "passed"].kind = req[r].kind
                BY <3>1 DEF Request
            <4> HIDE DEF Request
            <4> QED
                BY <4>1, <4>2, <3>2, <1>3 DEF Activating, TypeOK
        <3>3. CASE ~Allowed(r)
            BY <3>3 DEF Count, Activating, NoRequest, TypeOK
        <3> QED
            BY <3>2, <3>3
    <2> QED
        BY <1>1, <2>1, NoGrowth
<1> QED
    BY <1>2, <1>3

\* Inserting a prompt takes the place its request reserved.
LEMMA InsertKeepsPlaces ==
    ASSUME TypeOK, PlacesReserved, NEW r \in Requests, Insert(r)
    PROVE  PlacesReserved'
<1>1. r \in Activating
    BY DEF Insert, Activating
<1>2. Activating' = Activating \ {r}
    BY DEF Insert, Activating, NoRequest, TypeOK
<1>3. Counted' \subseteq Counted \cup {req[r].prompt}
    BY DEF Insert, Counted, Active, TypeOK
<1> QED
    BY <1>1, <1>2, <1>3, PlaceTaken

\* Everything else leaves the counted prompts and the activating requests alone:
\* a request that begins has passed nothing yet, and the purge takes archived prompts.
LEMMA OthersKeepPlaces ==
    ASSUME TypeOK, PlacesReserved, [Next]_vars,
           \A r \in Requests : ~RequestStep(r)
    PROVE  PlacesReserved'
<1>1. ASSUME NEW r \in Requests, NEW p \in Prompts, BeginCreate(r, p) PROVE PlacesReserved'
    <2>1. Counted' = Counted
        BY <1>1 DEF BeginCreate, Counted, Active
    <2>2. Activating' \subseteq Activating
        BY <1>1 DEF BeginCreate, Activating, TypeOK
    <2> QED
        BY <2>1, <2>2, NoGrowth
<1>2. ASSUME NEW r \in Requests, NEW p \in Prompts, NEW k \in Kinds, BeginChange(r, k, p)
      PROVE  PlacesReserved'
    <2>1. Counted' = Counted
        BY <1>2 DEF BeginChange, Counted, Active
    <2>2. Activating' \subseteq Activating
        BY <1>2 DEF BeginChange, Activating, TypeOK
    <2> QED
        BY <2>1, <2>2, NoGrowth
<1>3. ASSUME UNCHANGED <<forced, req>>, status' = status PROVE PlacesReserved'
    BY <1>3, NoGrowth DEF Counted, Active, Activating
<1>4. CASE Commit
    <2>1. Active' \subseteq Active
        BY <1>4 DEF Commit, Active
    <2> QED
        BY <1>4, <2>1, NoGrowth DEF Commit, Counted, Activating
<1>5. ASSUME NEW p \in Prompts,
             AddModel(p) \/ RemoveModel(p) \/ BeginRun(p) \/ EndRun(p) \/ Extract(p)
      PROVE  PlacesReserved'
    BY <1>5, <1>3 DEF AddModel, RemoveModel, BeginRun, EndRun, Extract
<1>6. CASE StartCycle \/ Delete \/ Abort \/ Enqueue \/ NewDay \/ UNCHANGED vars
    BY <1>6, <1>3 DEF StartCycle, Delete, Abort, Enqueue, NewDay, vars
<1> QED
    BY <1>1, <1>2, <1>4, <1>5, <1>6 DEF Next, CycleStep

\* Concurrent requests of users never bring the number of active prompts, those an
\* administrator switched on aside, above MaxActive - 1 plus one for each request.
THEOREM OvershootBoundedHolds == Spec => []OvershootBounded
<1>1. Init => PlacesReserved
    <2> SUFFICES ASSUME Init PROVE PlacesReserved
        OBVIOUS
    <2>1. Activating = {}
        BY DEF Init, Activating, NoRequest
    <2>2. Cardinality(Activating) = 0
        BY <2>1, FS_EmptySet
    <2>3. Cardinality(Requests) # 0
        BY PromptAssumption, FS_EmptySet
    <2> QED
        BY <2>2, <2>3, Finite, PromptAssumption DEF Init, PlacesReserved
<1>2. TypeOK /\ PlacesReserved /\ [Next]_vars => PlacesReserved'
    BY UpdateKeepsPlaces, CountKeepsPlaces, InsertKeepsPlaces, OthersKeepPlaces DEF RequestStep
<1>3. PlacesReserved => OvershootBounded
    BY Finite, PromptAssumption DEF PlacesReserved, OvershootBounded, Counted
<1> QED
    BY <1>1, <1>2, <1>3, PromptTypes, PTL DEF Spec

(***************************************************************************)
(* Whole deletion                                                          *)
(***************************************************************************)
\* The rows of a prompt that the purge under way has not taken.
Live(p, t) == t \in has[p] /\ <<p, t>> \notin cyc.gone

\* The foreign keys hold, for what the tables show before the purge commits and
\* for what it leaves; and an execution has its daily_model_runs, which no DELETE takes.
KeysHold(p) ==
    /\ "run_brands" \in has[p] => "ai_runs" \in has[p]
    /\ Live(p, "run_brands") => Live(p, "ai_runs")
    /\ "success_run_id" \in has[p] => "daily_model_runs" \in has[p]
    /\ <<p, "daily_model_runs">> \notin cyc.gone
    /\ p \in running => "daily_model_runs" \in has[p]

\* An id that was not given is not executed, and a request that creates a prompt
\* has its id for itself until it is given.
IdsApart ==
    /\ \A p \in running : status[p] # "none"
    /\ \A r \in Requests : req[r] # NoRequest /\ req[r].kind = "create" =>
          /\ status[req[r].prompt] = "none"
          /\ \A q \in Requests \ {r} : req[q] # NoRequest => req[q].prompt # req[r].prompt

PurgeInv ==
    /\ \A p \in Prompts : KeysHold(p)
    /\ IdsApart

\* Rows that are added keep the keys, if what they refer to is there and stays.
LEMMA AddRowsKeepsKeys ==
    ASSUME TypeOK, NEW p \in Prompts, NEW t \in SUBSET Tables, AddRows(p, t),
           NEW q \in Prompts, KeysHold(q),
           "run_brands" \in t => Live(p, "ai_runs"),
           "success_run_id" \in t => "daily_model_runs" \in has[p],
           q \in running' => "daily_model_runs" \in has'[q]
    PROVE  KeysHold(q)'
<1>1. has' = [has EXCEPT ![p] = @ \cup t] /\ cyc'.gone = cyc.gone \ ({p} \X t)
    BY DEF AddRows, TypeOK, Cycle
<1>2. has'[q] = IF q = p THEN has[p] \cup t ELSE has[q]
    BY <1>1 DEF TypeOK
<1>3. \A x : Live(q, x)' <=> IF q = p /\ x \in t THEN TRUE ELSE Live(q, x)
    BY <1>1, <1>2 DEF Live
<1> QED
    BY <1>1, <1>2, <1>3 DEF KeysHold, Live

\* The steps of requests keep the keys: a prompt gets its first rows when its
\* request inserts it.
LEMMA RequestKeepsKeys ==
    ASSUME TypeOK, PurgeInv, NEW r \in Requests,
           \/ \E p \in Prompts : BeginCreate(r, p) \/ \E k \in Kinds : BeginChange(r, k, p)
           \/ RequestStep(r),
           NEW q \in Prompts
    PROVE  KeysHold(q)'
<1>1. KeysHold(q)
    BY DEF PurgeInv
<1>2. CASE UNCHANGED <<has, running, cyc>>
    BY <1>1, <1>2 DEF KeysHold, Live
<1>3. CASE Insert(r)
    <2>1. req[r] \in Request
        BY <1>3 DEF Insert, NoRequest, TypeOK
    <2>2. req[r].prompt \in Prompts /\ req[r] # NoRequest /\ req[r].kind = "create"
        BY <1>3, <2>1 DEF Request, NoRequest, Insert
    <2>3. req[r].prompt \notin running
        BY <2>2 DEF PurgeInv, IdsApart
    <2>4. has'[q] = has[q] \/ (has'[q] \subseteq {"prompt_models"} /\ q = req[r].prompt)
        BY <1>3, <2>2 DEF Insert, TypeOK
    <2> QED
        BY <1>1, <1>3, <2>3, <2>4 DEF KeysHold, Live, Insert
<1> QED
    BY <1>2, <1>3 DEF BeginCreate, BeginChange, RequestStep, Count, Update

\* The steps on the rows of a prompt keep the keys: brands follow an AI run the purge
\* has not taken, and what an execution saves follows its daily_model_runs.
LEMMA RowsKeepKeys ==
    ASSUME TypeOK, PurgeInv, NEW p \in Prompts,
           AddModel(p) \/ RemoveModel(p) \/ BeginRun(p) \/ EndRun(p) \/ Extract(p),
           NEW q \in Prompts
    PROVE  KeysHold(q)'
<1>1. KeysHold(q) /\ KeysHold(p)
    BY DEF PurgeInv
<1>2. ASSUME NEW t \in SUBSET Tables, AddRows(p, t) PROVE has[q] \subseteq has'[q]
    BY <1>2 DEF AddRows, TypeOK
<1>3. CASE AddModel(p)
    <2>1. {"prompt_models"} \in SUBSET Tables
        BY DEF Tables
    <2> QED
        BY <1>1, <1>2, <1>3, <2>1, AddRowsKeepsKeys DEF AddModel, KeysHold
<1>4. CASE RemoveModel(p)
    <2>1. has'[q] = has[q] \/ has'[q] = has[q] \ {"prompt_models"}
        BY <1>4 DEF RemoveModel, TypeOK
    <2> QED
        BY <1>1, <1>4, <2>1 DEF RemoveModel, KeysHold, Live
<1>5. CASE BeginRun(p)
    <2>1. {"daily_model_runs"} \in SUBSET Tables
        BY DEF Tables
    <2>2. q \in running' => "daily_model_runs" \in has'[q]
        BY <1>1, <1>5 DEF BeginRun, AddRows, TypeOK, KeysHold
    <2> QED
        BY <1>1, <1>5, <2>1, <2>2, AddRowsKeepsKeys DEF BeginRun
<1>6. CASE EndRun(p)
    <2>1. PICK t \in {{"ai_runs"}, {"ai_runs", "success_run_id"}} : AddRows(p, t)
        BY <1>6 DEF EndRun
    <2>2. t \in SUBSET Tables /\ "run_brands" \notin t
        BY DEF Tables
    <2>3. "daily_model_runs" \in has[p] /\ running' \subseteq running
        BY <1>1, <1>6 DEF EndRun, KeysHold
    <2>4. q \in running' => "daily_model_runs" \in has'[q]
        BY <1>1, <1>2, <2>1, <2>2, <2>3 DEF KeysHold
    <2> QED
        BY <1>1, <2>1, <2>2, <2>3, <2>4, AddRowsKeepsKeys
<1>7. CASE Extract(p)
    <2>1. {"run_brands"} \in SUBSET Tables
        BY DEF Tables
    <2>2. Live(p, "ai_runs")
        BY <1>7 DEF Extract, Live
    <2> QED
        BY <1>1, <1>2, <1>7, <2>1, <2>2, AddRowsKeepsKeys DEF Extract, KeysHold
<1> QED
    BY <1>3, <1>4, <1>5, <1>6, <1>7

\* The scheduler's steps keep the keys: no DELETE takes a row another one refers to.
LEMMA CycleKeepsKeys ==
    ASSUME TypeOK, PurgeInv, CycleStep, NEW q \in Prompts
    PROVE  KeysHold(q)'
<1>1. KeysHold(q)
    BY DEF PurgeInv
<1>2. CASE StartCycle \/ Abort \/ Enqueue
    <2>1. cyc'.gone = {}
        BY <1>2 DEF StartCycle, Abort, Enqueue, NoCycle
    <2> QED
        BY <1>1, <1>2, <2>1 DEF StartCycle, Abort, Enqueue, KeysHold, Live
<1>3. CASE Delete
    <2> DEFINE table == Statements[cyc.at]
               taken == {<<p, table>> : p \in {o \in Old : table \in has[o]}}
    <2>1. cyc'.gone = cyc.gone \cup taken /\ UNCHANGED <<has, running>>
        BY <1>3 DEF Delete
    <2>2. table \in {"run_brands", "ai_runs", "prompt_models", "daily_prompt_runs",
                     "prompt_revisions"}
        BY <1>3 DEF Delete, Statements
    <2>3. ~Refused(table)
        BY <1>3 DEF Delete
    <2>4. <<q, "ai_runs">> \in taken => ~Live(q, "run_brands")
        <3>1. SUFFICES ASSUME <<q, "ai_runs">> \in taken PROVE ~Live(q, "run_brands")
            OBVIOUS
        <3>2. table = "ai_runs" /\ q \in Old /\ table \in has[q]
            BY <3>1
        <3>3. "run_brands" \in Referencing(table)
            BY <3>2 DEF Referencing
        <3> QED
            BY <2>3, <3>2, <3>3 DEF Refused, Live
    <2>5. <<q, "daily_model_runs">> \notin taken
        BY <2>2
    <2> HIDE DEF table, taken
    <2> QED
        BY <1>1, <2>1, <2>4, <2>5 DEF KeysHold, Live
<1>4. CASE Commit
    <2>1. has'[q] = {t \in has[q] : Live(q, t)} /\ cyc'.gone = {} /\ running' = running
        BY <1>4 DEF Commit, Live
    <2> QED
        BY <1>1, <2>1 DEF KeysHold, Live
<1> QED
    BY <1>2, <1>3, <1>4 DEF CycleStep

\* Ids stay apart: a request takes one that was not given and no other request has.
LEMMA IdsStayApart ==
    ASSUME TypeOK, IdsApart, [Next]_vars
    PROVE  IdsApart'
<1>1. ASSUME UNCHANGED <<status, req, running>> PROVE IdsApart'
    BY <1>1 DEF IdsApart
<1>2. ASSUME NEW r \in Requests, NEW p \in Prompts, BeginCreate(r, p) PROVE IdsApart'
    <2> DEFINE new == [stage |-> "loaded", kind |-> "create", prompt |-> p, seen |-> FALSE]
    <2>1. req' = [req EXCEPT ![r] = new] /\ UNCHANGED <<status, running>>
        BY <1>2 DEF BeginCreate
    <2>2. new.prompt = p
        OBVIOUS
    <2> HIDE DEF new
    <2>3. \A q \in Requests : req[q] # NoRequest => req[q].prompt # p
        BY <1>2 DEF BeginCreate
    <2>4. status[p] = "none" /\ req[r] = NoRequest
        BY <1>2 DEF BeginCreate
    <2>5. \A q \in Requests : req'[q] = IF q = r THEN new ELSE req[q]
        BY <2>1 DEF TypeOK
    <2> QED
        BY <2>1, <2>2, <2>3, <2>4, <2>5 DEF IdsApart
<1>3. ASSUME NEW r \in Requests, NEW p \in Prompts, NEW k \in Kinds, BeginChange(r, k, p)
      PROVE  IdsApart'
    <2> DEFINE new == [stage |-> IF k \in {"switchOn", "switchOff"} THEN "passed" ELSE "loaded",
                       kind |-> k, prompt |-> p, seen |-> status[p] = "active"]
    <2>1. req' = [req EXCEPT ![r] = new] /\ UNCHANGED <<status, running>>
        BY <1>3 DEF BeginChange
    <2>2. new.prompt = p /\ new.kind # "create"
        BY <1>3 DEF BeginChange
    <2> HIDE DEF new
    <2>3. status[p] # "none" /\ req[r] = NoRequest
        BY <1>3 DEF BeginChange
    <2>5. \A q \in Requests : req'[q] = IF q = r THEN new ELSE req[q]
        BY <2>1 DEF TypeOK
    <2> QED
        BY <2>1, <2>2, <2>3, <2>5 DEF IdsApart
<1>4. ASSUME NEW r \in Requests, Count(r) PROVE IdsApart'
    <2>1. req[r] \in Request /\ req[r] # NoRequest
        BY <1>4 DEF Count, NoRequest, TypeOK
    <2>2. [req[r] EXCEPT !.stage = "passed"].kind = req[r].kind
          /\ [req[r] EXCEPT !.stage = "passed"].prompt = req[r].prompt
        BY <2>1 DEF Request
    <2>3. \A q \in Requests : \/ req'[q] = NoRequest
                              \/ /\ req[q] # NoRequest
                                 /\ req'[q].kind = req[q].kind /\ req'[q].prompt = req[q].prompt
        BY <1>4, <2>1, <2>2 DEF Count, TypeOK
    <2> QED
        BY <1>4, <2>3 DEF Count, IdsApart
<1>5. ASSUME NEW r \in Requests, Insert(r) PROVE IdsApart'
    <2>1. req[r] \in Request /\ req[r] # NoRequest /\ req[r].kind = "create"
        BY <1>5 DEF Insert, NoRequest, TypeOK
    <2>2. \A q \in Requests : req'[q] = IF q = r THEN NoRequest ELSE req[q]
        BY <1>5 DEF Insert, TypeOK
    <2>3. \A p \in Prompts : status'[p] = IF p = req[r].prompt THEN "active" ELSE status[p]
        BY <1>5 DEF Insert, TypeOK
    <2>4. running' = running /\ running \subseteq Prompts
        BY <1>5 DEF Insert, TypeOK
    <2>5. \A q \in Requests : req[q] # NoRequest => req[q].prompt \in Prompts
        BY DEF TypeOK, Request
    <2> QED
        BY <2>1, <2>2, <2>3, <2>4, <2>5 DEF IdsApart
<1>6. ASSUME NEW r \in Requests, Update(r) PROVE IdsApart'
    <2>1. req[r] \in Request /\ req[r] # NoRequest /\ req[r].kind # "create"
        BY <1>6 DEF Update, NoRequest, TypeOK
    <2>2. \A q \in Requests : req'[q] = IF q = r THEN NoRequest ELSE req[q]
        BY <1>6 DEF Update, TypeOK
    <2>3. \A p \in Prompts : status'[p] = status[p]
                            \/ (p = req[r].prompt /\ status'[p] # "none")
        BY <1>6 DEF Update, TypeOK
    <2>4. running' = running /\ running \subseteq Prompts
        BY <1>6 DEF Update, TypeOK
    <2>5. \A q \in Requests : req[q] # NoRequest => req[q].prompt \in Prompts
        BY DEF TypeOK, Request
    <2> QED
        BY <2>1, <2>2, <2>3, <2>4, <2>5 DEF IdsApart
<1>7. ASSUME NEW p \in Prompts,
             AddModel(p) \/ RemoveModel(p) \/ BeginRun(p) \/ EndRun(p) \/ Extract(p)
      PROVE  IdsApart'
    <2>1. UNCHANGED <<status, req>>
        BY <1>7 DEF AddModel, RemoveModel, BeginRun, EndRun, Extract
    <2>2. running' \subseteq running \/ BeginRun(p)
        BY <1>7 DEF AddModel, RemoveModel, EndRun, Extract
    <2>3. \A q \in running' : status[q] # "none"
        BY <2>2 DEF IdsApart, BeginRun, Active
    <2> QED
        BY <2>1, <2>3 DEF IdsApart
<1>8. CASE Commit
    <2>1. \A p \in Prompts : status'[p] = status[p] \/ (status[p] # "none" /\ status'[p] = "deleted")
        BY <1>8 DEF Commit, Old, Archived
    <2>2. UNCHANGED <<req, running>> /\ running \subseteq Prompts
        BY <1>8 DEF Commit, TypeOK
    <2>3. \A q \in Requests : req[q] # NoRequest => req[q].prompt \in Prompts
        BY DEF TypeOK, Request
    <2> QED
        BY <2>1, <2>2, <2>3 DEF IdsApart
<1>9. CASE StartCycle \/ Delete \/ Abort \/ Enqueue \/ NewDay \/ UNCHANGED vars
    BY <1>1, <1>9 DEF StartCycle, Delete, Abort, Enqueue, NewDay, vars
<1> QED
    BY <1>2, <1>3, <1>4, <1>5, <1>6, <1>7, <1>8, <1>9 DEF Next, CycleStep, RequestStep

\* A step that deletes a prompt is the commit of a purge that finds it archived and
\* old: the DELETE of the prompt is refused as long as a row refers to it, and what
\* does not refer to it refers to such a row.
LEMMA DeletesWhole ==
    ASSUME TypeOK, PurgeInv, Next, NEW p \in Prompts,
           status[p] # "deleted", status'[p] = "deleted"
    PROVE  p \in Old /\ has'[p] = {}
<1>1. ASSUME NEW r \in Requests,
             Insert(r) \/ Update(r)
      PROVE  FALSE
    BY <1>1 DEF Insert, Update, TypeOK
<1>2. Commit
    BY <1>1 DEF Next, RequestStep, CycleStep, BeginCreate, BeginChange, Count, AddModel, RemoveModel,
                BeginRun, EndRun, Extract, StartCycle, Delete, Abort, Enqueue, NewDay
<1>3. p \in Old
    BY <1>2 DEF Commit
<1>4. \A t \in Tables \ {"run_brands", "success_run_id"} : ~Live(p, t)
    <2>1. Referencing("prompts") = Tables \ {"run_brands", "success_run_id"}
        BY DEF Referencing
    <2> QED
        BY <1>2, <1>3, <2>1 DEF Commit, Refused, Live
<1>5. ~Live(p, "run_brands") /\ "success_run_id" \notin has[p]
    BY <1>4 DEF PurgeInv, KeysHold, Live, Tables
<1>6. has'[p] = {t \in has[p] : Live(p, t)} /\ has[p] \subseteq Tables
    BY <1>2 DEF Commit, Live, TypeOK
<1> QED
    BY <1>3, <1>4, <1>5, <1>6 DEF Live

\* Whatever requests and executions do between the DELETEs, a prompt is deleted only
\* while it is archived and old, and with every row of it.
THEOREM DeletedWholeHolds == Spec => DeletedWhole
<1>1. Init => PurgeInv
    <2> SUFFICES ASSUME Init PROVE PurgeInv
        OBVIOUS
    <2>1. ASSUME NEW p \in Prompts PROVE KeysHold(p)
        <3>1. has[p] = {} \/ has[p] \in LegacyRows
            BY DEF Init
        <3> QED
            BY <3>1, LegacyAssumption DEF Init, KeysHold, Live, NoCycle
    <2> QED
        BY <2>1 DEF Init, PurgeInv, IdsApart
<1>2. TypeOK /\ PurgeInv /\ [Next]_vars => PurgeInv'
    <2> SUFFICES ASSUME TypeOK, PurgeInv, [Next]_vars PROVE PurgeInv'
        OBVIOUS
    <2>1. IdsApart'
        BY IdsStayApart DEF PurgeInv
    <2>2. ASSUME NEW q \in Prompts PROVE KeysHold(q)'
        <3>1. CASE NewDay \/ UNCHANGED vars
            BY <3>1 DEF NewDay, vars, PurgeInv, KeysHold, Live
        <3> QED
            BY <3>1, RequestKeepsKeys, RowsKeepKeys, CycleKeepsKeys DEF Next
    <2> QED
        BY <2>1, <2>2 DEF PurgeInv
<1>3. TypeOK /\ PurgeInv /\ [Next]_vars =>
         [\A p \in Prompts : status[p] # "deleted" /\ status'[p] = "deleted" =>
              p \in Old /\ has'[p] = {}]_vars
    BY DeletesWhole
<1> QED
    BY <1>1, <1>2, <1>3, PromptTypes, PTL DEF Spec, DeletedWhole

==============================================================================
