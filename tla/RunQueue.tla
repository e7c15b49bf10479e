------------------------------- MODULE RunQueue -------------------------------
(***************************************************************************)
(* PromptRunQueue: the Redis stream of run jobs with its consumer group,   *)
(* the deduplication keys, and the scheduler lock.  Every action is one    *)
(* Redis command or one Lua script, hence atomic.  The stream keeps an     *)
(* entry after XACK, and a deduplication key lives for two days, longer    *)
(* than the date it is about.  The delayed set is not here: its only       *)
(* producer is AIRunService with a retry_queue, and no caller passes one.  *)
(***************************************************************************)
EXTENDS Naturals, Sequences

CONSTANTS
    Keys,      \* deduplication keys: prompt, ai_model_id and date of a job
    Models,    \* model keys a job may name
    Tokens,    \* the tokens of the scheduler cycles
    NoToken,   \* the scheduler-lock key does not exist
    IdleTime,  \* RUN_CLAIM_LEASE_SECONDS, the min_idle_time of XAUTOCLAIM
    LockTTL    \* expiry of the scheduler lock

VARIABLES
    entries,   \* the stream
    keys,      \* deduplication keys that exist
    lock,      \* the scheduler-lock key
    now        \* the clock

qvars == <<entries, keys, lock>>

EntryState == {"new", "pending", "acked"}
Entry == [key: Keys, models: SUBSET Models, state: EntryState, since: Nat,
          deliveries: Nat]
Lock == [holder: Tokens \cup {NoToken}, until: Nat]

Init ==
    /\ entries = <<>>
    /\ keys = {}
    /\ lock = [holder |-> NoToken, until |-> 0]
    /\ now = 0

NewEntry(k, ms) == [key |-> k, models |-> ms, state |-> "new", since |-> now,
                    deliveries |-> 0]

\* Mutant of EnqueueOnce: the key is not consulted.
EnqueueAlways(k, ms) ==
    /\ keys' = keys \cup {k}
    /\ entries' = Append(entries, NewEntry(k, ms))
    /\ UNCHANGED lock

\* SET NX and XADD in one script; a job whose key exists is dropped.
EnqueueOnce(k, ms) ==
    \/ /\ k \notin keys
       /\ keys' = keys \cup {k}
       /\ entries' = Append(entries, NewEntry(k, ms))
       /\ UNCHANGED lock
    \/ /\ k \in keys
       /\ UNCHANGED qvars

Delivered(i) ==
    [entries EXCEPT ![i] = [entries[i] EXCEPT
        !.state = "pending", !.since = now, !.deliveries = entries[i].deliveries + 1]]

\* Mutant of Idle: entries stay with the consumer they were delivered to.
IdleNever(i) == FALSE

\* XAUTOCLAIM from the start of the stream, one entry: the first that has been
\* pending for the idle time, whoever has it.
Idle(i) == entries[i].state = "pending" /\ now >= entries[i].since + IdleTime
Reclaim(i) ==
    /\ i \in DOMAIN entries
    /\ Idle(i)
    /\ \A j \in 1..(i - 1) : ~Idle(j)
    /\ entries' = Delivered(i)
    /\ UNCHANGED <<keys, lock>>

\* XREADGROUP ">", one entry: the first that was never delivered.
Read(i) ==
    /\ i \in DOMAIN entries
    /\ entries[i].state = "new"
    /\ \A j \in 1..(i - 1) : entries[j].state # "new"
    /\ entries' = Delivered(i)
    /\ UNCHANGED <<keys, lock>>

\* XACK names the entry, not the consumer; a second one does nothing.
Ack(i) ==
    /\ i \in DOMAIN entries
    /\ entries' = [entries EXCEPT ![i].state = "acked"]
    /\ UNCHANGED <<keys, lock>>

LockExpired == lock.holder = NoToken \/ lock.until <= now

AcquireLock(t) ==
    /\ LockExpired
    /\ lock' = [holder |-> t, until |-> now + LockTTL]
    /\ UNCHANGED <<entries, keys>>

\* Mutant of ReleaseLock: DEL without comparing the token.
ReleaseAnyLock(t) ==
    /\ lock' = [holder |-> NoToken, until |-> 0]
    /\ UNCHANGED <<entries, keys>>

\* The key is deleted only while it still holds the caller's token.
ReleaseLock(t) ==
    /\ IF lock.holder = t /\ ~LockExpired
         THEN lock' = [holder |-> NoToken, until |-> 0]
         ELSE lock' = lock
    /\ UNCHANGED <<entries, keys>>

Command ==
    \/ \E k \in Keys, ms \in SUBSET Models : EnqueueOnce(k, ms)
    \/ \E i \in DOMAIN entries : Reclaim(i) \/ Read(i) \/ Ack(i)
    \/ \E t \in Tokens : AcquireLock(t) \/ ReleaseLock(t)

Next ==
    \/ Command /\ now' = now
    \/ now' = now + 1 /\ UNCHANGED qvars

Spec == Init /\ [][Next]_<<entries, keys, lock, now>>

\* The variables keep their types.
TypeOK ==
    /\ entries \in Seq(Entry)
    /\ keys \subseteq Keys
    /\ lock \in Lock
    /\ now \in Nat

\* "Enqueue once per prompt/model/day": whatever the schedulers do at the same
\* time, the stream never holds two entries of one key.
OncePerKey ==
    \A i, j \in DOMAIN entries : entries[i].key = entries[j].key => i = j

===============================================================================
