---------------------------- MODULE SignInProofs ----------------------------
(***************************************************************************)
(* The bound on the guesses at one code, and when a page offers another    *)
(* one, for any number of attempts allowed, of pages and of calls.         *)
(***************************************************************************)
EXTENDS SignIn, SequenceTheorems, TLAPS

(***************************************************************************)
(* Types                                                                   *)
(***************************************************************************)
CallOf == [op : {"send", "resend", "verify"}, by : Pages,
           at : {"sent", "found", "stored", "ok", "refused"}]

Store == [life : 0 .. CodeLife, attempts : Nat, count : 0 .. CodeLife,
          rest : 0 .. Cooldown, for : SUBSET Pages, guesses : Nat, crossed : BOOLEAN]

CallsOK == calls \in Seq(CallOf)

StoreOK == store \in Store

\* Without its i-th call, the calls in flight are the others, in their order.
LEMMA CallRemoved ==
    ASSUME NEW S, NEW s \in Seq(S), NEW i \in 1 .. Len(s)
    PROVE  /\ RemoveAt(s, i) \in Seq(S)
           /\ Len(RemoveAt(s, i)) = Len(s) - 1
           /\ \A j \in 1 .. Len(s) - 1 :
                 RemoveAt(s, i)[j] = IF j < i THEN s[j] ELSE s[j + 1]
<1> DEFINE before == SubSeq(s, 1, i - 1)
           after == SubSeq(s, i + 1, Len(s))
<1>1. /\ before \in Seq(S) /\ Len(before) = i - 1
      /\ \A j \in 1 .. i - 1 : before[j] = s[j]
    BY SubSeqProperties
<1>2. /\ after \in Seq(S) /\ Len(after) = Len(s) - i
      /\ \A j \in 1 .. Len(s) - i : after[j] = s[i + j]
    BY SubSeqProperties
<1>3. RemoveAt(s, i) = before \o after
    BY DEF RemoveAt
<1> HIDE DEF before, after
<1>4. /\ before \o after \in Seq(S) /\ Len(before \o after) = Len(s) - 1
      /\ \A j \in 1 .. Len(s) - 1 :
            (before \o after)[j] = IF j <= i - 1 THEN before[j] ELSE after[j - (i - 1)]
    BY <1>1, <1>2, ConcatProperties
<1>5. ASSUME NEW j \in 1 .. Len(s) - 1, j < i
      PROVE  (before \o after)[j] = s[j]
    BY <1>1, <1>4, <1>5
<1>6. ASSUME NEW j \in 1 .. Len(s) - 1, ~(j < i)
      PROVE  (before \o after)[j] = s[j + 1]
    <2>1. (before \o after)[j] = after[j - (i - 1)]
        BY <1>4, <1>6
    <2>2. j - (i - 1) \in 1 .. Len(s) - i /\ i + (j - (i - 1)) = j + 1
        BY <1>6
    <2> QED
        BY <2>1, <2>2, <1>2
<1> QED
    BY <1>3, <1>4, <1>5, <1>6

\* A field that gets a value of its own type leaves the store a store.
LEMMA StoreTypes ==
    ASSUME NEW s \in Store
    PROVE  /\ \A n \in 0 .. 2 : [s EXCEPT !.life = n] \in Store
           /\ \A n \in 0 .. 2 : [s EXCEPT !.count = n] \in Store
           /\ \A n \in 0 .. 1 : [s EXCEPT !.rest = n] \in Store
           /\ \A n \in Nat : [s EXCEPT !.attempts = n] \in Store
           /\ \A n \in Nat : [s EXCEPT !.guesses = n] \in Store
           /\ \A c \in SUBSET Pages : [s EXCEPT !.for = c] \in Store
           /\ \A b \in BOOLEAN : [s EXCEPT !.crossed = b] \in Store
BY DEF Store, CodeLife, Cooldown

LEMMA Minutes == 0 \in 0 .. 2 /\ 2 \in 0 .. 2
OBVIOUS

\* A call that changes its place in the server stays a call.
LEMMA CallMoves ==
    ASSUME CallsOK, NEW i \in DOMAIN calls,
           NEW where \in {"sent", "found", "stored", "ok", "refused"}, At(i, where)
    PROVE  /\ CallsOK' /\ DOMAIN calls' = DOMAIN calls
           /\ \A j \in DOMAIN calls : calls'[j].at = IF j = i THEN where ELSE calls[j].at
<1> DEFINE c == [calls[i] EXCEPT !.at = where]
<1>1. calls[i] \in CallOf
    BY DEF CallsOK
<1>2. c \in CallOf /\ c.at = where
    BY <1>1 DEF CallOf
<1>3. calls' = [calls EXCEPT ![i] = c]
    BY Zenon DEF At
<1> HIDE DEF c
<1> QED
    BY <1>2, <1>3 DEF CallsOK

(***************************************************************************)
(* The invariant: while a request has stored its code and not yet deleted  *)
(* the counter, all guesses at the code are counted; afterwards they are   *)
(* counted, or the counter lives as long as the code and began when fewer  *)
(* guesses than allowed had been made.                                     *)
(***************************************************************************)
Storing(i) == calls[i].at = "stored"

OneStores == \A i, j \in DOMAIN calls : Storing(i) /\ Storing(j) => i = j

Counted == store.guesses <= store.attempts

CountedAnew ==
    /\ store.guesses <= store.attempts + MaxAttempts - 1
    /\ store.attempts = 0 \/ store.life <= store.count

Fair ==
    /\ OneStores
    /\ store.guesses < 2 * MaxAttempts
    /\ store.life > 0 => /\ Counted \/ CountedAnew
                         /\ (\E i \in DOMAIN calls : Storing(i)) => Counted

GInv ==
    /\ CallsOK /\ StoreOK
    /\ store.attempts < MaxAttempts
    /\ store.attempts = 0 <=> store.count = 0
    /\ ~store.crossed => Fair

SomeStores == \E i \in DOMAIN calls : Storing(i)

(***************************************************************************)
(* Steps of the calls                                                      *)
(***************************************************************************)
\* No request stores a code in this step.
Calmer == CallsOK' /\ (OneStores => OneStores') /\ (SomeStores' => SomeStores)

\* A call that is sent, a call that is answered and a request that goes on or
\* ends do not store a code.
LEMMA SendCalms ==
    ASSUME CallsOK, NEW c \in Pages, NEW op \in {"send", "resend", "verify"}, NEW v,
           Send(c, op, v)
    PROVE  Calmer
<1> DEFINE new == [op |-> op, by |-> c, at |-> "sent"]
<1>1. new \in CallOf /\ new.at # "stored"
    BY DEF CallOf
<1>2. calls' = Append(calls, new)
    BY DEF Send
<1> HIDE DEF new
<1>3. CallsOK' /\ Len(calls') = Len(calls) + 1 /\ calls'[Len(calls) + 1] = new
    BY <1>1, <1>2 DEF CallsOK
<1>4. \A j \in DOMAIN calls : calls'[j] = calls[j]
    BY <1>2 DEF CallsOK
<1>5. \A j \in DOMAIN calls' : j \in DOMAIN calls \/ j = Len(calls) + 1
    BY <1>3 DEF CallsOK
<1> QED
    BY <1>1, <1>3, <1>4, <1>5 DEF Calmer, OneStores, SomeStores, Storing

LEMMA MoveCalms ==
    ASSUME CallsOK, NEW i \in DOMAIN calls, NEW where \in {"found", "ok", "refused"},
           At(i, where)
    PROVE  Calmer
BY CallMoves DEF Calmer, OneStores, SomeStores, Storing

LEMMA RemoveCalms ==
    ASSUME CallsOK, NEW i \in DOMAIN calls, calls' = RemoveAt(calls, i)
    PROVE  Calmer
<1> DEFINE old(j) == IF j < i THEN j ELSE j + 1
<1>1. i \in 1 .. Len(calls) /\ DOMAIN calls = 1 .. Len(calls) /\ Len(calls) \in Nat
    BY DEF CallsOK
<1>2. /\ CallsOK' /\ Len(calls') = Len(calls) - 1
      /\ \A j \in 1 .. Len(calls) - 1 :
            calls'[j] = IF j < i THEN calls[j] ELSE calls[j + 1]
    BY <1>1, CallRemoved DEF CallsOK
<1>3. DOMAIN calls' = 1 .. Len(calls) - 1
    BY <1>1, <1>2 DEF CallsOK
<1>4. \A j \in DOMAIN calls' : old(j) \in DOMAIN calls /\ calls'[j] = calls[old(j)]
    BY <1>1, <1>2, <1>3
<1>5. \A j, k \in DOMAIN calls' : old(j) = old(k) => j = k
    BY <1>1, <1>3
<1> HIDE DEF old
<1> QED
    BY <1>2, <1>4, <1>5 DEF Calmer, OneStores, SomeStores, Storing

\* What the invariant says of the code does not change with the phone's pause.
SameCode ==
    /\ StoreOK'
    /\ store'.life = store.life /\ store'.attempts = store.attempts
    /\ store'.count = store.count /\ store'.guesses = store.guesses
    /\ store'.crossed = store.crossed

LEMMA SameCodeKeeps ==
    ASSUME GInv, Calmer, SameCode
    PROVE  GInv'
<1>1. CallsOK' /\ StoreOK' /\ store'.attempts < MaxAttempts
      /\ (store'.attempts = 0 <=> store'.count = 0)
    BY DEF GInv, Calmer, SameCode
<1>2. Counted' = Counted /\ CountedAnew' = CountedAnew
    BY DEF SameCode, Counted, CountedAnew
<1>3. ~store'.crossed => Fair'
    BY <1>2 DEF GInv, Calmer, SameCode, Fair, SomeStores
<1> QED
    BY <1>1, <1>3 DEF GInv

LEMMA SameStore ==
    ASSUME StoreOK, UNCHANGED store
    PROVE  SameCode
BY DEF SameCode, StoreOK

(***************************************************************************)
(* Steps of the code store                                                 *)
(***************************************************************************)
LEMMA StoreCodeKeeps ==
    ASSUME SignInParameters, GInv, NEW i \in DOMAIN calls, StoreCode(i)
    PROVE  GInv'
<1>1. CallsOK /\ StoreOK /\ At(i, "stored")
    BY DEF GInv, StoreCode
<1>2. /\ CallsOK' /\ DOMAIN calls' = DOMAIN calls
      /\ \A j \in DOMAIN calls : calls'[j].at = IF j = i THEN "stored" ELSE calls[j].at
    BY <1>1, CallMoves
<1>3. /\ StoreOK' /\ store'.life = 2 /\ store'.guesses = 0
      /\ store'.attempts = store.attempts /\ store'.count = store.count
      /\ store'.crossed = SomeStores
    <2> DEFINE some == SomeStores
               a == [store EXCEPT !.life = 2]
               b == [a EXCEPT !.guesses = 0]
               d == [b EXCEPT !.crossed = some]
    <2>1. store' = d
        BY Zenon DEF StoreCode, SomeStores, Storing, CodeLife
    <2>2. some \in BOOLEAN
        BY DEF SomeStores
    <2>3. a \in Store
        BY <1>1, StoreTypes, Minutes DEF StoreOK
    <2>4. b \in Store
        <3> HIDE DEF a
        <3> QED
            BY <2>3, StoreTypes
    <2>5. d \in Store
        <3> HIDE DEF a, b, some
        <3> QED
            BY <2>2, <2>4, StoreTypes
    <2>6. /\ d.life = 2 /\ d.guesses = 0 /\ d.crossed = some
          /\ d.attempts = store.attempts /\ d.count = store.count
        <3> HIDE DEF some
        <3> QED
            BY <1>1 DEF StoreOK, Store
    <2> QED
        BY <2>1, <2>5, <2>6 DEF StoreOK
<1>4. ~SomeStores => OneStores'
    BY <1>2 DEF SomeStores, OneStores, Storing
<1>5. Counted' /\ store'.guesses < 2 * MaxAttempts
    BY <1>1, <1>3 DEF Counted, StoreOK, Store, SignInParameters
<1>6. ~store'.crossed => Fair'
    BY <1>3, <1>4, <1>5 DEF Fair
<1> QED
    BY <1>1, <1>2, <1>3, <1>6 DEF GInv

LEMMA ClearAttemptsKeeps ==
    ASSUME SignInParameters, GInv, NEW i \in DOMAIN calls, ClearAttempts(i)
    PROVE  GInv'
<1>1. CallsOK /\ StoreOK /\ Storing(i)
    BY DEF GInv, ClearAttempts, Storing
<1>2. PICK where \in {"ok", "refused"} : At(i, where)
    BY DEF ClearAttempts
<1>3. /\ CallsOK' /\ DOMAIN calls' = DOMAIN calls
      /\ \A j \in DOMAIN calls : calls'[j].at = IF j = i THEN where ELSE calls[j].at
    BY <1>1, <1>2, CallMoves
<1>4. /\ StoreOK' /\ store'.attempts = 0 /\ store'.count = 0
      /\ store'.life = store.life /\ store'.guesses = store.guesses
      /\ store'.crossed = store.crossed
    <2> DEFINE a == [store EXCEPT !.attempts = 0]
               b == [a EXCEPT !.count = 0]
    <2>1. store' = b
        BY Zenon DEF ClearAttempts
    <2>2. a \in Store
        BY <1>1, StoreTypes DEF StoreOK
    <2>3. b \in Store
        <3> HIDE DEF a
        <3> QED
            BY <2>2, StoreTypes, Minutes
    <2>4. /\ b.attempts = 0 /\ b.count = 0 /\ b.life = store.life
          /\ b.guesses = store.guesses /\ b.crossed = store.crossed
        BY <1>1 DEF StoreOK, Store
    <2> QED
        BY <2>1, <2>3, <2>4 DEF StoreOK
<1>5. ASSUME ~store'.crossed
      PROVE  Fair'
    <2>1. Fair
        BY <1>4, <1>5 DEF GInv
    <2>2. OneStores' /\ ~SomeStores'
        BY <2>1, <1>1, <1>2, <1>3 DEF Fair, OneStores, SomeStores, Storing
    <2>3. store.life > 0 => Counted
        BY <2>1, <1>1 DEF Fair
    <2>4. store'.life > 0 => CountedAnew'
        BY <2>3, <1>1, <1>4 DEF GInv, Counted, CountedAnew, StoreOK, Store, SignInParameters
    <2> QED
        BY <2>1, <2>2, <2>4, <1>4 DEF Fair, SomeStores
<1> QED
    BY <1>3, <1>4, <1>5 DEF GInv, SignInParameters

\* A code that is gone, with its counter.
LEMMA UsedUp ==
    ASSUME NEW s \in Store
    PROVE  LET r == [s EXCEPT !.life = 0, !.attempts = 0, !.count = 0]
           IN /\ r \in Store /\ r.life = 0 /\ r.attempts = 0 /\ r.count = 0
              /\ r.guesses = s.guesses /\ r.crossed = s.crossed
<1> DEFINE a == [s EXCEPT !.life = 0]
           b == [a EXCEPT !.attempts = 0]
           d == [b EXCEPT !.count = 0]
<1>1. a \in Store
    BY StoreTypes, Minutes
<1>2. b \in Store
    <2> HIDE DEF a
    <2> QED
        BY <1>1, StoreTypes
<1>3. d \in Store
    <2> HIDE DEF a, b
    <2> QED
        BY <1>2, StoreTypes, Minutes
<1>4. /\ d.life = 0 /\ d.attempts = 0 /\ d.count = 0
      /\ d.guesses = s.guesses /\ d.crossed = s.crossed
    BY DEF Store
<1> QED
    BY <1>3, <1>4

\* A wrong guess is counted, and the code goes when no attempt is left.
LEMMA GuessedKeeps ==
    ASSUME SignInParameters, GInv, Calmer, store.life > 0, store' = Guessed
    PROVE  GInv'
<1> DEFINE n == store.attempts + 1
           g == store.guesses + 1
           c == IF store.count = 0 THEN 2 ELSE store.count
<1>1. StoreOK /\ CallsOK' /\ n \in Nat /\ g \in Nat /\ c \in 1 .. 2
      /\ n <= MaxAttempts /\ n # 0
    BY DEF GInv, Calmer, StoreOK, Store, SignInParameters, CodeLife
<1> DEFINE a == [store EXCEPT !.attempts = n]
           b == [a EXCEPT !.guesses = g]
           more == [b EXCEPT !.count = c]
<1>a. Guessed = IF more.attempts >= MaxAttempts
                THEN [more EXCEPT !.life = 0, !.attempts = 0, !.count = 0] ELSE more
    BY Zenon DEF Guessed, CodeLife
<1>b. /\ more.attempts = n /\ more.guesses = g /\ more.count = c
      /\ more.life = store.life /\ more.crossed = store.crossed
    <2> HIDE DEF n, g, c
    <2> QED
        BY <1>1 DEF StoreOK, Store
<1>c. more \in Store
    <2>1. a \in Store
        <3> HIDE DEF n
        <3> QED
            BY <1>1, StoreTypes DEF StoreOK
    <2>2. b \in Store
        <3> HIDE DEF a, g
        <3> QED
            BY <1>1, <2>1, StoreTypes
    <2>3. c \in 0 .. 2
        BY <1>1
    <2> HIDE DEF b, c
    <2> QED
        BY <2>2, <2>3, StoreTypes
<1> HIDE DEF more, a, b
<1>2. CASE n >= MaxAttempts
    <2>1. /\ store'.life = 0 /\ store'.attempts = 0 /\ store'.count = 0
          /\ store'.guesses = g /\ store'.crossed = store.crossed /\ StoreOK'
        <3>1. store' = [more EXCEPT !.life = 0, !.attempts = 0, !.count = 0]
            BY <1>2, <1>a, <1>b
        <3> QED
            BY <3>1, <1>b, <1>c, UsedUp DEF StoreOK
    <2>2. ~store'.crossed => Fair'
        <3> SUFFICES ASSUME ~store.crossed PROVE Fair'
            BY <2>1
        <3>1. Fair
            BY DEF GInv
        <3>2. store.guesses <= store.attempts + MaxAttempts - 1
            BY <3>1, <1>1 DEF Fair, Counted, CountedAnew, StoreOK, Store, SignInParameters
        <3>3. g < 2 * MaxAttempts
            BY <3>2, <1>1 DEF StoreOK, Store, GInv, SignInParameters
        <3> QED
            BY <3>1, <3>3, <2>1 DEF Fair, Calmer
    <2> QED
        BY <1>1, <2>1, <2>2 DEF GInv, SignInParameters
<1>3. CASE n < MaxAttempts
    <2>1. /\ store'.life = store.life /\ store'.attempts = n /\ store'.count = c
          /\ store'.guesses = g /\ store'.crossed = store.crossed /\ StoreOK'
        <3>1. store' = more
            BY <1>1, <1>3, <1>a, <1>b DEF SignInParameters
        <3> QED
            BY <3>1, <1>b, <1>c DEF StoreOK
    <2>2. Counted => Counted'
        BY <2>1, <1>1 DEF Counted, StoreOK, Store
    <2>3. CountedAnew => CountedAnew'
        BY <2>1, <1>1 DEF CountedAnew, StoreOK, Store, GInv, CodeLife, SignInParameters
    <2>4. ~store'.crossed => Fair'
        <3> SUFFICES ASSUME ~store.crossed PROVE Fair'
            BY <2>1
        <3>1. Fair
            BY DEF GInv
        <3>2. store.guesses <= store.attempts + MaxAttempts - 1
            BY <3>1, <1>1 DEF Fair, Counted, CountedAnew, StoreOK, Store, SignInParameters
        <3>3. g < 2 * MaxAttempts
            BY <3>2, <1>1 DEF StoreOK, Store, GInv, SignInParameters
        <3> QED
            BY <3>1, <3>3, <2>1, <2>2, <2>3 DEF Fair, Calmer, SomeStores
    <2> QED
        BY <1>1, <1>3, <2>1, <2>4 DEF GInv, SignInParameters
<1> QED
    BY <1>1, <1>2, <1>3 DEF SignInParameters

\* The code is used: what is counted does not matter any more.
LEMMA CodeUsedKeeps ==
    ASSUME SignInParameters, GInv, Calmer,
           store' = [store EXCEPT !.life = 0, !.attempts = 0, !.count = 0]
    PROVE  GInv'
<1>1. /\ StoreOK' /\ store'.life = 0 /\ store'.attempts = 0 /\ store'.count = 0
      /\ store'.guesses = store.guesses /\ store'.crossed = store.crossed
    BY UsedUp DEF GInv, StoreOK
<1>2. ~store'.crossed => Fair'
    BY <1>1 DEF GInv, Fair, Calmer
<1> QED
    BY <1>1, <1>2 DEF GInv, Calmer, SignInParameters

\* A counter that began with its code's first guess does not end before the code.
LEMMA TickKeeps ==
    ASSUME SignInParameters, GInv, Tick
    PROVE  GInv'
<1>1. StoreOK /\ CallsOK /\ UNCHANGED calls /\ ~SomeStores
    BY DEF GInv, Tick, SomeStores, Storing
<1>2. /\ StoreOK' /\ store'.life = Less(store.life) /\ store'.count = Less(store.count)
      /\ store'.attempts = IF store.count <= 1 THEN 0 ELSE store.attempts
      /\ store'.guesses = store.guesses /\ store'.crossed = store.crossed
    <2> DEFINE life == Less(store.life)
               count == Less(store.count)
               rest == Less(store.rest)
               attempts == IF store.count <= 1 THEN 0 ELSE store.attempts
               for == IF store.rest <= 1 THEN {} ELSE store.for
               a == [store EXCEPT !.life = life]
               b == [a EXCEPT !.count = count]
               c == [b EXCEPT !.rest = rest]
               d == [c EXCEPT !.attempts = attempts]
               e == [d EXCEPT !.for = for]
    <2>1. store' = e
        BY Zenon DEF Tick
    <2>2. life \in 0 .. 2 /\ count \in 0 .. 2 /\ rest \in 0 .. 1
        BY <1>1 DEF StoreOK, Store, CodeLife, Cooldown, Less
    <2>3. attempts \in Nat /\ for \in SUBSET Pages
        BY <1>1 DEF StoreOK, Store
    <2> HIDE DEF life, count, rest, attempts, for
    <2>4. /\ e.life = life /\ e.count = count /\ e.attempts = attempts
          /\ e.guesses = store.guesses /\ e.crossed = store.crossed
        BY <1>1 DEF StoreOK, Store
    <2>5. a \in Store
        BY <1>1, <2>2, StoreTypes DEF StoreOK
    <2> HIDE DEF a
    <2>6. b \in Store
        BY <2>2, <2>5, StoreTypes
    <2> HIDE DEF b
    <2>7. c \in Store
        BY <2>2, <2>6, StoreTypes
    <2> HIDE DEF c
    <2>8. d \in Store
        BY <2>3, <2>7, StoreTypes
    <2> HIDE DEF d
    <2>9. e \in Store
        BY <2>3, <2>8, StoreTypes
    <2> HIDE DEF e
    <2> QED
        BY <2>1, <2>4, <2>9 DEF StoreOK, life, count, attempts
<1>3. CallsOK' /\ (OneStores => OneStores') /\ ~SomeStores'
    BY <1>1 DEF CallsOK, OneStores, SomeStores, Storing
<1>4. /\ store'.attempts < MaxAttempts
      /\ store'.attempts = 0 <=> store'.count = 0
    BY <1>1, <1>2 DEF GInv, StoreOK, Store, Less, CodeLife, SignInParameters
<1>5. store'.life > 0 /\ (Counted \/ CountedAnew) => Counted' \/ CountedAnew'
    BY <1>1, <1>2 DEF GInv, Counted, CountedAnew, StoreOK, Store, Less, CodeLife,
                     SignInParameters
<1>6. ~store'.crossed => Fair'
    <2>1. store'.life > 0 => store.life > 0
        BY <1>1, <1>2 DEF StoreOK, Store, Less, CodeLife
    <2> QED
        BY <2>1, <1>2, <1>3, <1>5 DEF GInv, Fair, SomeStores
<1> QED
    BY <1>2, <1>3, <1>4, <1>6 DEF GInv

(***************************************************************************)
(* The theorem                                                             *)
(***************************************************************************)
LEMMA StartsFair ==
    ASSUME SignInParameters, Init
    PROVE  GInv
<1>1. CallsOK /\ StoreOK
    BY DEF Init, CallsOK, CallOf, StoreOK, Store, CodeLife, Cooldown
<1>2. Fair
    BY DEF Init, Fair, OneStores, SomeStores, SignInParameters
<1> QED
    BY <1>1, <1>2 DEF GInv, Init, SignInParameters

LEMMA PageKeeps ==
    ASSUME SignInParameters, GInv, NEW c \in Pages, SignInPage(c)
    PROVE  GInv'
<1>1. CallsOK /\ StoreOK
    BY DEF GInv
<1>2. CASE \E op \in {"send", "resend", "verify"} : \E v : Send(c, op, v)
    <2>1. PICK op \in {"send", "resend", "verify"} : \E v : Send(c, op, v)
        BY <1>2
    <2>2. PICK v : Send(c, op, v)
        BY <2>1
    <2>3. UNCHANGED store
        BY <2>2 DEF Send
    <2> QED
        BY <1>1, <2>2, <2>3, SendCalms, SameStore, SameCodeKeeps
<1>3. CASE UNCHANGED <<calls, store>>
    <2>1. Calmer
        BY <1>1, <1>3 DEF Calmer, CallsOK, OneStores, SomeStores, Storing
    <2> QED
        BY <1>1, <1>3, <2>1, SameStore, SameCodeKeeps
<1> QED
    BY <1>2, <1>3 DEF SignInPage, HandleSendOtp, HandleVerifyOtp, HandleResend, Back,
                     Navigate, SetPage

LEMMA RequestKeeps ==
    ASSUME SignInParameters, GInv, NEW i \in DOMAIN calls, Request(i)
    PROVE  GInv'
<1>1. CallsOK /\ StoreOK
    BY DEF GInv
<1>2. CASE CheckSendRate(i)
    <2>1. Calmer
        <3>1. \E where \in {"found", "refused"} : At(i, where)
            BY <1>2 DEF CheckSendRate
        <3> QED
            BY <1>1, <3>1, MoveCalms
    <2>2. CASE UNCHANGED store
        BY <1>1, <2>1, <2>2, SameStore, SameCodeKeeps
    <2>3. CASE store' = [store EXCEPT !.rest = Cooldown, !.for = {calls[i].by}]
        <3> DEFINE by == {calls[i].by}
                   a == [store EXCEPT !.rest = 1]
                   b == [a EXCEPT !.for = by]
        <3>1. store' = b
            BY <2>3, Zenon DEF Cooldown
        <3>2. by \in SUBSET Pages /\ 1 \in 0 .. 1
            <4>1. calls[i] \in CallOf
                BY <1>1 DEF CallsOK
            <4> QED
                BY <4>1 DEF CallOf
        <3> HIDE DEF by
        <3>3. /\ b.life = store.life /\ b.attempts = store.attempts
              /\ b.count = store.count /\ b.guesses = store.guesses
              /\ b.crossed = store.crossed
            BY <1>1 DEF StoreOK, Store
        <3>4. a \in Store
            BY <1>1, <3>2, StoreTypes DEF StoreOK
        <3> HIDE DEF a
        <3>5. b \in Store
            BY <3>2, <3>4, StoreTypes
        <3>6. SameCode
            BY <3>1, <3>3, <3>5 DEF SameCode, StoreOK
        <3> QED
            BY <2>1, <3>6, SameCodeKeeps
    <2> QED
        BY <1>2, <2>2, <2>3 DEF CheckSendRate
<1>3. CASE StoreCode(i)
    BY <1>3, StoreCodeKeeps
<1>4. CASE ClearAttempts(i)
    BY <1>4, ClearAttemptsKeeps
<1>5. CASE RedisFails(i)
    <2>1. At(i, "refused") /\ UNCHANGED store
        BY <1>5 DEF RedisFails
    <2> QED
        BY <1>1, <2>1, MoveCalms, SameStore, SameCodeKeeps
<1>6. CASE Verify(i)
    <2>1. Calmer
        <3>1. \E where \in {"ok", "refused"} : At(i, where)
            BY <1>6 DEF Verify
        <3> QED
            BY <1>1, <3>1, MoveCalms
    <2>2. CASE UNCHANGED store
        BY <1>1, <2>1, <2>2, SameStore, SameCodeKeeps
    <2>3. CASE store' = [store EXCEPT !.life = 0, !.attempts = 0, !.count = 0]
        BY <2>1, <2>3, CodeUsedKeeps
    <2>4. CASE store.life > 0 /\ store' = Guessed
        BY <2>1, <2>4, GuessedKeeps
    <2> QED
        BY <1>6, <2>2, <2>3, <2>4 DEF Verify
<1>7. CASE Answered(i)
    <2>1. calls' = RemoveAt(calls, i) /\ UNCHANGED store
        BY <1>7 DEF Answered
    <2> QED
        BY <1>1, <2>1, RemoveCalms, SameStore, SameCodeKeeps
<1>8. CASE Failed(i)
    <2>1. calls' = RemoveAt(calls, i)
        BY <1>8 DEF Failed
    <2>2. SameCode
        <3> DEFINE rest == store.for \ {calls[i].by}
                   b == [store EXCEPT !.for = rest]
        <3>1. store' = b \/ store' = store
            BY <1>8, Zenon DEF Failed
        <3>2. rest \in SUBSET Pages
            BY <1>1 DEF StoreOK, Store
        <3> HIDE DEF rest
        <3>3. /\ b.life = store.life /\ b.attempts = store.attempts
              /\ b.count = store.count /\ b.guesses = store.guesses
              /\ b.crossed = store.crossed
            BY <1>1 DEF StoreOK, Store
        <3>4. b \in Store
            BY <1>1, <3>2, StoreTypes DEF StoreOK
        <3> HIDE DEF b
        <3> QED
            BY <1>1, <3>1, <3>3, <3>4 DEF SameCode, StoreOK
    <2> QED
        BY <1>1, <2>1, <2>2, RemoveCalms, SameCodeKeeps
<1> QED
    BY <1>2, <1>3, <1>4, <1>5, <1>6, <1>7, <1>8 DEF Request

LEMMA GInvKeeps ==
    ASSUME SignInParameters, GInv, [Next]_vars
    PROVE  GInv'
<1>1. ASSUME NEW c \in Pages, SignInPage(c) PROVE GInv'
    BY <1>1, PageKeeps
<1>2. ASSUME NEW i \in DOMAIN calls, Request(i) PROVE GInv'
    BY <1>2, RequestKeeps
<1>3. CASE Tick
    BY <1>3, TickKeeps
<1>4. CASE UNCHANGED vars
    <2>1. StoreOK /\ CallsOK /\ UNCHANGED <<calls, store>>
        BY <1>4 DEF vars, GInv
    <2>2. Calmer
        BY <2>1 DEF Calmer, CallsOK, OneStores, SomeStores, Storing
    <2> QED
        BY <2>1, <2>2, SameStore, SameCodeKeeps
<1> QED
    BY <1>1, <1>2, <1>3, <1>4 DEF Next

\* Unless requests for codes of one phone overtook each other, fewer than twice
\* the attempts allowed are made at one code, whichever commands of the code
\* store fail and whenever its counter ends (auth_service.py).
THEOREM GuessesAreBounded ==
    ASSUME SignInParameters
    PROVE  Spec => []GuessesBounded
<1>1. Init => GInv
    BY StartsFair
<1>2. GInv /\ [Next]_vars => GInv'
    BY GInvKeeps
<1>3. GInv => GuessesBounded
    BY DEF GInv, Fair, GuessesBounded
<1> QED
    BY <1>1, <1>2, <1>3, PTL DEF Spec

(***************************************************************************)
(* When a page offers another code                                         *)
(***************************************************************************)
PageState ==
    [step : {"form", "code", "left"}, loading : BOOLEAN, countdown : 0 .. Countdown,
     leaving : BOOLEAN]

\* The page offers another code while its own request let the phone rest.
Hurried(c) == /\ page[c].step = "code" /\ page[c].countdown = 0 /\ ~Calling(c)
              /\ store.for = {c}

RInv ==
    /\ GInv
    /\ page \in [Pages -> PageState]
    /\ \A c, d \in store.for : c = d
    /\ \A c \in Pages : ~Hurried(c)

\* A call that is sent or goes on in the server leaves the pages' calls under way.
LEMMA StillCalling ==
    ASSUME CallsOK, NEW d \in Pages, Calling(d),
           \/ \E new \in CallOf : calls' = Append(calls, new)
           \/ \E i \in DOMAIN calls : \E where : At(i, where)
    PROVE  Calling(d)'
<1>1. PICK j \in DOMAIN calls : calls[j].by = d /\ calls[j].op # "verify"
    BY DEF Calling
<1>2. CASE \E new \in CallOf : calls' = Append(calls, new)
    <2>1. PICK new \in CallOf : calls' = Append(calls, new)
        BY <1>2
    <2>2. j \in DOMAIN calls' /\ calls'[j] = calls[j]
        BY <2>1 DEF CallsOK
    <2> QED
        BY <1>1, <2>2 DEF Calling
<1>3. CASE \E i \in DOMAIN calls : \E where : At(i, where)
    <2>1. PICK i \in DOMAIN calls : \E where : At(i, where)
        BY <1>3
    <2> PICK where : At(i, where)
        BY <2>1
    <2>2. \A k \in DOMAIN calls : calls[k] \in CallOf
        BY DEF CallsOK
    <2>3. /\ DOMAIN calls' = DOMAIN calls
          /\ calls'[j].by = calls[j].by /\ calls'[j].op = calls[j].op
        BY <2>2 DEF At, CallOf
    <2> QED
        BY <1>1, <2>3 DEF Calling
<1> QED
    BY <1>2, <1>3

\* A page's own calls are over only when one of them is received or fails.
LEMMA CallGone ==
    ASSUME CallsOK, NEW i \in DOMAIN calls, calls' = RemoveAt(calls, i),
           NEW d \in Pages, Calling(d), ~(calls[i].by = d /\ calls[i].op # "verify")
    PROVE  Calling(d)'
<1>1. PICK j \in DOMAIN calls : calls[j].by = d /\ calls[j].op # "verify"
    BY DEF Calling
<1>2. j # i
    BY <1>1
<1>3. i \in 1 .. Len(calls) /\ j \in 1 .. Len(calls) /\ Len(calls) \in Nat
    BY DEF CallsOK
<1>4. /\ DOMAIN calls' = 1 .. Len(calls) - 1
      /\ \A k \in 1 .. Len(calls) - 1 :
            calls'[k] = IF k < i THEN calls[k] ELSE calls[k + 1]
    <2> DEFINE r == RemoveAt(calls, i)
    <2>1. /\ r \in Seq(CallOf) /\ Len(r) = Len(calls) - 1
          /\ \A k \in 1 .. Len(calls) - 1 :
                r[k] = IF k < i THEN calls[k] ELSE calls[k + 1]
        BY <1>3, CallRemoved DEF CallsOK
    <2>2. calls' = r
        OBVIOUS
    <2> HIDE DEF r
    <2> QED
        BY <2>1, <2>2
<1> DEFINE k == IF j < i THEN j ELSE j - 1
<1>5. k \in DOMAIN calls' /\ calls'[k] = calls[j]
    BY <1>2, <1>3, <1>4
<1> QED
    BY <1>1, <1>5 DEF Calling

\* A step after which a page is hurried only if it was before.
LEMMA NotHurried ==
    ASSUME RInv, GInv', page' \in [Pages -> PageState],
           \A c, d \in store'.for : c = d,
           \A c \in Pages : Hurried(c)' => Hurried(c)
    PROVE  RInv'
BY DEF RInv

\* What a page does with its own state keeps it a page.
LEMMA PageStates ==
    ASSUME NEW p \in PageState
    PROVE  /\ [p EXCEPT !.step = "form", !.countdown = 0] \in PageState
           /\ [p EXCEPT !.step = "form", !.countdown = 0].step = "form"
           /\ [p EXCEPT !.step = "left", !.loading = FALSE, !.countdown = 0] \in PageState
           /\ [p EXCEPT !.step = "left", !.loading = FALSE, !.countdown = 0].step = "left"
<1>1. 0 \in 0 .. Countdown
    BY DEF Countdown
<1> DEFINE count == 0 .. Countdown
<1>2. PageState = [step : {"form", "code", "left"}, loading : BOOLEAN, countdown : count,
                   leaving : BOOLEAN]
    BY DEF PageState
<1> HIDE DEF count
<1>3. 0 \in count
    BY <1>1 DEF count
<1>4. p \in [step : {"form", "code", "left"}, loading : BOOLEAN, countdown : count,
              leaving : BOOLEAN]
    BY <1>2
<1> HIDE DEF PageState
<1> QED
    BY <1>2, <1>3, <1>4

LEMMA PageAnswered ==
    ASSUME NEW p \in PageState, NEW op \in {"send", "resend", "verify"}
    PROVE  /\ Succeeded(p, op) \in PageState
           /\ op = "verify" => /\ Succeeded(p, op).step = p.step
                               /\ Succeeded(p, op).countdown = p.countdown
           /\ op # "verify" => Succeeded(p, op).countdown = 2
<1> DEFINE step == IF op = "send" THEN "code" ELSE p.step
           countdown == IF op # "verify" THEN 2 ELSE p.countdown
           leaving == p.leaving \/ op = "verify"
           v == [p EXCEPT !.loading = FALSE, !.step = step, !.countdown = countdown,
                          !.leaving = leaving]
<1>1. /\ step \in {"form", "code", "left"} /\ countdown \in 0 .. 2 /\ leaving \in BOOLEAN
      /\ op = "verify" => step = p.step /\ countdown = p.countdown
      /\ op # "verify" => countdown = 2
    BY DEF PageState, Countdown
<1>2. Succeeded(p, op) = v
    BY DEF Succeeded, Countdown
<1> HIDE DEF step, countdown, leaving
<1>3. v \in PageState /\ v.step = step /\ v.countdown = countdown
    BY <1>1 DEF PageState, Countdown
<1> QED
    BY <1>1, <1>2, <1>3

\* A page that is changed without offering a code at once.
LEMMA PageChanged ==
    ASSUME page \in [Pages -> PageState], NEW c \in Pages, NEW v \in PageState,
           page' = [page EXCEPT ![c] = v]
    PROVE  /\ page' \in [Pages -> PageState] /\ page'[c] = v
           /\ \A d \in Pages \ {c} : page'[d] = page[d]
OBVIOUS

LEMMA PageCalm ==
    ASSUME RInv, GInv', NEW c \in Pages, SignInPage(c)
    PROVE  RInv'
<1>1. CallsOK /\ page \in [Pages -> PageState] /\ page[c] \in PageState
    BY DEF RInv, GInv
<1>2. ASSUME NEW op \in {"send", "resend", "verify"},
             Send(c, op, [page[c] EXCEPT !.loading = TRUE])
      PROVE  RInv'
    <2> DEFINE v == [page[c] EXCEPT !.loading = TRUE]
               new == [op |-> op, by |-> c, at |-> "sent"]
    <2>1. v \in PageState /\ v.step = page[c].step /\ v.countdown = page[c].countdown
        BY <1>1 DEF PageState
    <2>2. new \in CallOf
        BY DEF CallOf
    <2>3. page' = [page EXCEPT ![c] = v] /\ calls' = Append(calls, new) /\ store' = store
        BY <1>2 DEF Send
    <2> HIDE DEF v, new
    <2>4. /\ page' \in [Pages -> PageState] /\ page'[c] = v
          /\ \A d \in Pages \ {c} : page'[d] = page[d]
        BY <1>1, <2>1, <2>3, PageChanged
    <2>5. \A d \in Pages : Calling(d) => Calling(d)'
        BY <1>1, <2>2, <2>3, StillCalling
    <2>6. \A d \in Pages : Hurried(d)' => Hurried(d)
        BY <2>1, <2>3, <2>4, <2>5 DEF Hurried
    <2> QED
        BY <2>3, <2>4, <2>6, NotHurried DEF RInv
<1>3. ASSUME NEW v \in PageState, v.step # "code", SetPage(c, v) PROVE RInv'
    <2>1. page' = [page EXCEPT ![c] = v] /\ calls' = calls /\ store' = store
        BY <1>3 DEF SetPage
    <2>2. /\ page' \in [Pages -> PageState] /\ page'[c] = v
          /\ \A d \in Pages \ {c} : page'[d] = page[d]
        BY <1>1, <2>1, PageChanged
    <2>3. \A d \in Pages : Hurried(d)' => Hurried(d)
        BY <1>3, <2>1, <2>2 DEF Hurried, Calling
    <2> QED
        BY <2>1, <2>2, <2>3, NotHurried DEF RInv
<1>4. CASE HandleSendOtp(c) \/ HandleVerifyOtp(c) \/ HandleResend(c)
    BY <1>2, <1>4 DEF HandleSendOtp, HandleVerifyOtp, HandleResend
<1>5. CASE Back(c)
    <2> DEFINE v == [page[c] EXCEPT !.step = "form", !.countdown = 0]
    <2>1. v \in PageState /\ v.step = "form"
        BY <1>1, PageStates
    <2>2. SetPage(c, v)
        BY <1>5, Zenon DEF Back
    <2> HIDE DEF v
    <2> QED
        BY <1>3, <2>1, <2>2
<1>6. CASE Navigate(c)
    <2> DEFINE v == [page[c] EXCEPT !.step = "left", !.loading = FALSE, !.countdown = 0]
    <2>1. v \in PageState /\ v.step = "left"
        BY <1>1, PageStates
    <2>2. SetPage(c, v)
        BY <1>6, Zenon DEF Navigate
    <2> HIDE DEF v
    <2> QED
        BY <1>3, <2>1, <2>2
<1> QED
    BY <1>4, <1>5, <1>6 DEF SignInPage

\* What the server does with a request: the pages and their calls stay, and the phone
\* rests for the page of a request that is under way.
LEMMA ServerCalm ==
    ASSUME RInv, GInv', NEW i \in DOMAIN calls,
           \/ CheckSendRate(i) \/ StoreCode(i) \/ ClearAttempts(i) \/ RedisFails(i) \/ Verify(i)
    PROVE  RInv'
<1>1. CallsOK /\ StoreOK /\ page \in [Pages -> PageState] /\ calls[i] \in CallOf
    BY DEF RInv, GInv, CallsOK
<1>2. page' = page /\ \E where : At(i, where)
    BY DEF CheckSendRate, StoreCode, ClearAttempts, RedisFails, Verify
<1>3. \A d \in Pages : Calling(d) => Calling(d)'
    BY <1>1, <1>2, StillCalling
<1>4. CASE store'.for = store.for
    <2>1. \A d \in Pages : Hurried(d)' => Hurried(d)
        BY <1>2, <1>3, <1>4 DEF Hurried
    <2> QED
        BY <1>1, <1>2, <1>4, <2>1, NotHurried DEF RInv
<1>5. CASE calls[i].op # "verify" /\ store'.for = {calls[i].by}
    <2>1. Calling(calls[i].by) /\ calls[i].by \in Pages
        BY <1>1, <1>5 DEF Calling, CallOf
    <2>2. \A d \in Pages : ~Hurried(d)'
        BY <1>3, <1>5, <2>1 DEF Hurried
    <2> QED
        BY <1>1, <1>2, <1>5, <2>2, NotHurried
<1>6. CASE CheckSendRate(i)
    <2> DEFINE by == {calls[i].by}
    <2>1. calls[i].op # "verify"
        BY <1>6 DEF CheckSendRate
    <2>2. store' = store \/ store' = [store EXCEPT !.rest = Cooldown, !.for = by]
        BY <1>6 DEF CheckSendRate
    <2>3. store'.for = store.for \/ store'.for = by
        <3> HIDE DEF by
        <3> QED
            BY <1>1, <2>2 DEF StoreOK, Store
    <2> QED
        BY <1>4, <1>5, <2>1, <2>3
<1>7. CASE StoreCode(i)
    <2> DEFINE some == \E j \in DOMAIN calls : calls[j].at = "stored"
    <2>1. store' = [store EXCEPT !.life = CodeLife, !.guesses = 0, !.crossed = some]
        BY <1>7 DEF StoreCode
    <2>2. store'.for = store.for
        <3> HIDE DEF some
        <3> QED
            BY <1>1, <2>1 DEF StoreOK, Store
    <2> QED
        BY <1>4, <2>2
<1>8. CASE ClearAttempts(i)
    <2>1. store' = [store EXCEPT !.attempts = 0, !.count = 0]
        BY <1>8 DEF ClearAttempts
    <2>2. store'.for = store.for
        BY <1>1, <2>1 DEF StoreOK, Store
    <2> QED
        BY <1>4, <2>2
<1>9. CASE Verify(i)
    <2> DEFINE count == IF store.count = 0 THEN CodeLife ELSE store.count
    <2>1. \/ store' = store \/ store' = [store EXCEPT !.life = 0, !.attempts = 0, !.count = 0]
          \/ store' = Guessed
        BY <1>9 DEF Verify
    <2>2. [store EXCEPT !.life = 0, !.attempts = 0, !.count = 0].for = store.for
        BY <1>1 DEF StoreOK, Store
    <2>3. Guessed.for = store.for
        BY <1>1 DEF Guessed, StoreOK, Store
    <2> QED
        BY <1>4, <2>1, <2>2, <2>3
<1> QED
    BY <1>4, <1>6, <1>7, <1>8, <1>9 DEF RedisFails

\* A page that gets its code counts down; a page whose request failed is not the one
\* the phone rests for.
LEMMA AnswerCalm ==
    ASSUME RInv, GInv', NEW i \in DOMAIN calls, Answered(i) \/ Failed(i)
    PROVE  RInv'
<1> DEFINE c == calls[i].by
           op == calls[i].op
<1>1. CallsOK /\ StoreOK /\ page \in [Pages -> PageState] /\ calls[i] \in CallOf
    BY DEF RInv, GInv, CallsOK
<1>2. c \in Pages /\ op \in {"send", "resend", "verify"} /\ page[c] \in PageState
    BY <1>1 DEF CallOf
<1>3. calls' = RemoveAt(calls, i)
    BY DEF Answered, Failed
<1>4. \A d \in Pages : Calling(d) /\ (d # c \/ op = "verify") => Calling(d)'
    BY <1>1, <1>3, CallGone
<1>5. CASE Answered(i)
    <2> DEFINE v == Succeeded(page[c], op)
    <2>1. /\ v \in PageState
          /\ op = "verify" => v.step = page[c].step /\ v.countdown = page[c].countdown
          /\ op # "verify" => v.countdown = 2
        BY <1>2, PageAnswered
    <2>2. page' = [page EXCEPT ![c] = v] /\ store' = store
        BY <1>5 DEF Answered
    <2> HIDE DEF v, c, op
    <2>3. /\ page' \in [Pages -> PageState] /\ page'[c] = v
          /\ \A d \in Pages \ {c} : page'[d] = page[d]
        BY <1>1, <1>2, <2>1, <2>2, PageChanged
    <2>4. ASSUME NEW d \in Pages, Hurried(d)' PROVE Hurried(d)
        <3>1. CASE d = c
            BY <1>2, <1>4, <2>1, <2>2, <2>3, <2>4, <3>1 DEF Hurried
        <3>2. CASE d # c
            BY <1>4, <2>2, <2>3, <2>4, <3>2 DEF Hurried
        <3> QED
            BY <3>1, <3>2
    <2> QED
        BY <2>2, <2>3, <2>4, NotHurried DEF RInv
<1>6. CASE Failed(i)
    <2> DEFINE v == [page[c] EXCEPT !.loading = FALSE]
               rest == store.for \ {c}
    <2>1. v \in PageState /\ v.step = page[c].step /\ v.countdown = page[c].countdown
        BY <1>2 DEF PageState
    <2>2. page' = [page EXCEPT ![c] = v]
        BY <1>6, Zenon DEF Failed
    <2>3. store' = IF op # "verify" THEN [store EXCEPT !.for = rest] ELSE store
        BY <1>6, Zenon DEF Failed
    <2> HIDE DEF v, rest, c, op
    <2>4. store'.for = IF op # "verify" THEN rest ELSE store.for
        BY <1>1, <2>3 DEF StoreOK, Store
    <2>5. /\ page' \in [Pages -> PageState] /\ page'[c] = v
          /\ \A d \in Pages \ {c} : page'[d] = page[d]
        BY <1>1, <1>2, <2>1, <2>2, PageChanged
    <2> USE DEF rest
    <2>6. \A d \in store'.for : d \in store.for
        BY <2>4
    <2>7. ASSUME NEW d \in Pages, Hurried(d)' PROVE Hurried(d)
        <3>1. store'.for = {d} /\ store.for = {d}
            BY <2>6, <2>7 DEF Hurried, RInv
        <3>2. CASE d = c
            <4>1. op = "verify"
                BY <2>4, <3>1, <3>2
            <4> QED
                BY <1>4, <2>1, <2>5, <2>7, <3>1, <3>2, <4>1 DEF Hurried
        <3>3. CASE d # c
            BY <1>4, <2>5, <2>7, <3>1, <3>3 DEF Hurried
        <3> QED
            BY <3>2, <3>3
    <2> QED
        BY <2>5, <2>6, <2>7, NotHurried DEF RInv
<1> QED
    BY <1>5, <1>6

LEMMA TickCalm ==
    ASSUME RInv, GInv', Tick
    PROVE  RInv'
<1>1. StoreOK /\ page \in [Pages -> PageState]
    BY DEF RInv, GInv
<1>2. page' \in [Pages -> PageState]
    <2>1. ASSUME NEW c \in Pages PROVE [page[c] EXCEPT !.countdown = Less(@)] \in PageState
        BY <1>1 DEF Less, PageState, Countdown
    <2> QED
        BY <2>1 DEF Tick
<1>3. store'.for = {}
    <2>1. store.rest <= 1
        BY <1>1 DEF StoreOK, Store, Cooldown
    <2> DEFINE life == Less(store.life)
               count == Less(store.count)
               rest == Less(store.rest)
               attempts == IF store.count <= 1 THEN 0 ELSE store.attempts
    <2>2. store' = [store EXCEPT !.life = life, !.count = count, !.rest = rest,
                                 !.attempts = attempts,
                                 !.for = IF store.rest <= 1 THEN {} ELSE store.for]
        BY Zenon DEF Tick
    <2>3. store' = [store EXCEPT !.life = life, !.count = count, !.rest = rest,
                                 !.attempts = attempts, !.for = {}]
        BY <2>1, <2>2
    <2> HIDE DEF life, count, rest, attempts
    <2> QED
        BY <1>1, <2>3 DEF StoreOK, Store
<1>4. \A c \in Pages : ~Hurried(c)'
    BY <1>3 DEF Hurried
<1> QED
    BY <1>2, <1>3, <1>4, NotHurried

LEMMA RInvHolds ==
    ASSUME SignInParameters
    PROVE  /\ Init => RInv
           /\ RInv /\ [Next]_vars => RInv'
           /\ RInv => GuessesBounded /\ ResendAllowed
<1>1. Init => RInv
    <2>1. Init => page \in [Pages -> PageState] /\ store.for = {}
        BY DEF Init, NoPage, PageState, Countdown
    <2> QED
        BY <2>1, StartsFair DEF RInv, Hurried
<1>2. ASSUME RInv, [Next]_vars PROVE RInv'
    <2>1. GInv'
        BY <1>2, GInvKeeps DEF RInv
    <2>2. CASE UNCHANGED vars
        BY <1>2, <2>1, <2>2 DEF vars, RInv, Hurried, Calling
    <2> QED
        BY <1>2, <2>1, <2>2, PageCalm, ServerCalm, AnswerCalm, TickCalm DEF Next, Request
<1>3. RInv => GuessesBounded /\ ResendAllowed
    BY DEF RInv, GInv, Fair, GuessesBounded, ResendAllowed, Hurried
<1> QED
    BY <1>1, <1>2, <1>3

\* A page whose request for a code succeeded offers another one only when the phone no
\* longer rests from it (countdown in the pages, check_send_rate in auth_service.py).
THEOREM ResendIsAllowed ==
    ASSUME SignInParameters
    PROVE  Spec => []ResendAllowed
BY RInvHolds, PTL DEF Spec
=============================================================================
