------------------------- MODULE EditingPagesProofs -------------------------
(***************************************************************************)
(* What the pages of EditingPages keep while they are mounted, for any     *)
(* data and bounds, and what they show by it.  The lemmas about calls in   *)
(* flight serve the other pages as well.                                   *)
(***************************************************************************)
EXTENDS EditingPages, Requests, SequenceTheorems, TLAPS

(***************************************************************************)
(* Calls in flight                                                         *)
(***************************************************************************)
\* Calls of a page whose answers are not part of the state.
CallsOf(ops, args) ==
    [op : ops, arg : args, ans : {{}}, late : BOOLEAN, gone : BOOLEAN]

\* Calls whose answers are.
CallsWith(ops, args, answers) ==
    [op : ops, arg : args, ans : answers, late : BOOLEAN, gone : BOOLEAN]

\* The calls in flight are of a kind when the one that is made is.
LEMMA Issued ==
    ASSUME NEW S, NEW n \in Seq(S), NEW op, NEW arg, Call(op, arg) \in S
    PROVE  Issue(n, op, arg) \in Seq(S)
BY DEF Issue

LEMMA IsCall ==
    ASSUME NEW ops, NEW args, NEW op \in ops, NEW arg \in args
    PROVE  Call(op, arg) \in CallsOf(ops, args)
BY DEF Call, CallsOf

\* Overtaking a call leaves it one of its kind.
LEMMA StaysCall ==
    ASSUME NEW ops, NEW args, NEW c \in CallsOf(ops, args)
    PROVE  [c EXCEPT !.late = TRUE] \in CallsOf(ops, args)
BY DEF CallsOf

\* The calls that are left when one leaves are of the same kind.
LEMMA Finished ==
    ASSUME NEW S, NEW n \in Seq(S), NEW i \in DOMAIN n,
           \A c \in S : [c EXCEPT !.late = TRUE] \in S
    PROVE  Finish(n, i) \in Seq(S)
<1> DEFINE late == [j \in DOMAIN n |->
                       IF j < i /\ n[j].op = n[i].op THEN [n[j] EXCEPT !.late = TRUE] ELSE n[j]]
<1>1. late \in Seq(S) /\ Len(late) = Len(n)
  <2>1. \A j \in DOMAIN n : n[j] \in S
    OBVIOUS
  <2>2. \A j \in DOMAIN n : late[j] \in S
    BY <2>1
  <2>3. DOMAIN n = 1 .. Len(n) /\ Len(n) \in Nat
    OBVIOUS
  <2>4. late \in [1 .. Len(n) -> S]
    BY <2>2, <2>3
  <2> QED
    BY <2>3, <2>4
<1>2. Finish(n, i) = RemoveAt(late, i)
  BY DEF Finish
<1> HIDE DEF late
<1>3. i \in 1 .. Len(late)
  BY <1>1
<1>4. SubSeq(late, 1, i - 1) \in Seq(S) /\ SubSeq(late, i + 1, Len(late)) \in Seq(S)
  BY <1>1, <1>3, SubSeqProperties
<1> QED
  BY <1>2, <1>4, ConcatProperties DEF RemoveAt

LEMMA Removed ==
    ASSUME NEW S, NEW s \in Seq(S), NEW i \in 1 .. Len(s)
    PROVE  /\ Len(RemoveAt(s, i)) = Len(s) - 1
           /\ \A j \in 1 .. Len(s) - 1 :
                 RemoveAt(s, i)[j] = IF j < i THEN s[j] ELSE s[j + 1]
<1> DEFINE before == SubSeq(s, 1, i - 1)
           after == SubSeq(s, i + 1, Len(s))
<1>1. /\ before \in Seq(S) /\ Len(before) = i - 1
      /\ \A j \in 1 .. i - 1 : before[j] = s[j]
  BY SubSeqProperties
<1>2. /\ after \in Seq(S) /\ Len(after) = Len(s) - i
      /\ \A j \in 1 .. Len(s) - i : after[j] = s[i + j]
  BY SubSeqProperties
<1>3. RemoveAt(s, i) = before \o after
  BY DEF RemoveAt
<1> HIDE DEF before, after
<1>4. /\ Len(before \o after) = Len(s) - 1
      /\ \A j \in 1 .. Len(s) - 1 :
            (before \o after)[j] = IF j <= i - 1 THEN before[j] ELSE after[j - (i - 1)]
  BY <1>1, <1>2, ConcatProperties
<1>5. ASSUME NEW j \in 1 .. Len(s) - 1, j < i
      PROVE  (before \o after)[j] = s[j]
  BY <1>1, <1>4, <1>5
<1>6. ASSUME NEW j \in 1 .. Len(s) - 1, ~(j < i)
      PROVE  (before \o after)[j] = s[j + 1]
  <2>1. (before \o after)[j] = after[j - (i - 1)]
    BY <1>4, <1>6
  <2>2. j - (i - 1) \in 1 .. Len(s) - i /\ i + (j - (i - 1)) = j + 1
    BY <1>6
  <2> QED
    BY <2>1, <2>2, <1>2
<1> QED
  BY <1>3, <1>4, <1>5, <1>6

\* The newest call of op, not overtaken, is for arg.
Due(n, op, arg) ==
    \E i \in DOMAIN n : /\ n[i].op = op /\ ~n[i].late /\ n[i].arg = arg
                        /\ \A j \in DOMAIN n : j > i => n[j].op # op

\* All calls of op that are left were overtaken.
Over(n, op) == \A i \in DOMAIN n : n[i].op = op => n[i].late

Flies(n, op) == \E i \in DOMAIN n : n[i].op = op

\* A call that is made is the newest of its operation, and leaves those of the others.
LEMMA IssuedDue ==
    ASSUME NEW S, NEW n \in Seq(S), NEW op, NEW arg
    PROVE  /\ Due(Issue(n, op, arg), op, arg) /\ Flies(Issue(n, op, arg), op)
           /\ \A other, a : other # op =>
                 /\ Due(n, other, a) => Due(Issue(n, op, arg), other, a)
                 /\ Over(n, other) => Over(Issue(n, op, arg), other)
           /\ \A other : Flies(n, other) => Flies(Issue(n, op, arg), other)
<1> DEFINE c == Call(op, arg)
           m == Append(n, c)
<1>1. c.op = op /\ c.arg = arg /\ ~c.late
  BY DEF Call
<1>2. Issue(n, op, arg) = m
  BY DEF Issue
<1>3. /\ DOMAIN n = 1 .. Len(n) /\ Len(n) \in Nat /\ DOMAIN m = 1 .. Len(n) + 1
      /\ m[Len(n) + 1] = c /\ \A i \in DOMAIN n : m[i] = n[i]
  OBVIOUS
<1> HIDE DEF c, m
<1>4. Due(m, op, arg) /\ Flies(m, op)
  BY <1>1, <1>3 DEF Due, Flies
<1>5. ASSUME NEW other, NEW a, other # op, Due(n, other, a) PROVE Due(m, other, a)
  BY <1>1, <1>3, <1>5 DEF Due
<1>6. ASSUME NEW other, other # op, Over(n, other) PROVE Over(m, other)
  BY <1>1, <1>3, <1>6 DEF Over
<1>7. ASSUME NEW other, Flies(n, other) PROVE Flies(m, other)
  BY <1>3, <1>7 DEF Flies
<1> QED
  BY <1>2, <1>4, <1>5, <1>6, <1>7

\* What is left when call i leaves: the calls before and after it, the older ones of its
\* operation overtaken.
LEMMA Left ==
    ASSUME NEW ops, NEW args, NEW answers, NEW n \in Seq(CallsWith(ops, args, answers)),
           NEW i \in DOMAIN n
    PROVE  /\ DOMAIN Finish(n, i) = 1 .. Len(n) - 1
           /\ \A k \in 1 .. Len(n) - 1 :
                 LET j == IF k < i THEN k ELSE k + 1
                 IN /\ Finish(n, i)[k].op = n[j].op /\ Finish(n, i)[k].arg = n[j].arg
                    /\ Finish(n, i)[k].ans = n[j].ans /\ Finish(n, i)[k].gone = n[j].gone
                    /\ Finish(n, i)[k].late = (n[j].late \/ (j < i /\ n[j].op = n[i].op))
<1> DEFINE c(j) == IF j < i /\ n[j].op = n[i].op THEN [n[j] EXCEPT !.late = TRUE] ELSE n[j]
           m == [j \in DOMAIN n |-> c(j)]
           r == RemoveAt(m, i)
<1>1. /\ Len(n) \in Nat /\ DOMAIN n = 1 .. Len(n)
      /\ \A j \in DOMAIN n : n[j] \in CallsWith(ops, args, answers)
  OBVIOUS
<1>2. ASSUME NEW j \in DOMAIN n
      PROVE  /\ c(j) \in CallsWith(ops, args, answers) /\ c(j).op = n[j].op
             /\ c(j).arg = n[j].arg /\ c(j).ans = n[j].ans /\ c(j).gone = n[j].gone
             /\ c(j).late = (n[j].late \/ (j < i /\ n[j].op = n[i].op))
  BY <1>1 DEF CallsWith
<1> HIDE DEF c
<1>3. m \in [1 .. Len(n) -> CallsWith(ops, args, answers)]
  BY <1>1, <1>2
<1>4. m \in Seq(CallsWith(ops, args, answers)) /\ Len(m) = Len(n) /\ \A j \in DOMAIN n : m[j] = c(j)
  BY <1>1, <1>3
<1>5. Finish(n, i) = r
  BY DEF Finish, r, m, c
<1> HIDE DEF m
<1>6. /\ Len(r) = Len(n) - 1
      /\ \A k \in 1 .. Len(n) - 1 : r[k] = IF k < i THEN m[k] ELSE m[k + 1]
  BY <1>1, <1>4, Removed
<1>7. r \in Seq(CallsWith(ops, args, answers))
  <2>1. ASSUME NEW d \in CallsWith(ops, args, answers)
        PROVE  [d EXCEPT !.late = TRUE] \in CallsWith(ops, args, answers)
    BY DEF CallsWith
  <2> QED
    BY <1>5, <2>1, Finished
<1> HIDE DEF r
<1>8. DOMAIN r = 1 .. Len(n) - 1
  BY <1>1, <1>6, <1>7
<1>9. ASSUME NEW k \in 1 .. Len(n) - 1
      PROVE  LET j == IF k < i THEN k ELSE k + 1
             IN /\ r[k].op = n[j].op /\ r[k].arg = n[j].arg /\ r[k].ans = n[j].ans
                /\ r[k].gone = n[j].gone
                /\ r[k].late = (n[j].late \/ (j < i /\ n[j].op = n[i].op))
  <2> DEFINE j == IF k < i THEN k ELSE k + 1
  <2>1. j \in DOMAIN n
    BY <1>1
  <2>2. r[k] = m[j]
    BY <1>6
  <2> QED
    BY <1>2, <1>4, <2>1, <2>2
<1> QED
  BY <1>5, <1>8, <1>9

\* The newest call is still due when another one leaves; when it leaves itself, only
\* overtaken ones remain.
LEMMA LeftDue ==
    ASSUME NEW ops, NEW args, NEW answers, NEW n \in Seq(CallsWith(ops, args, answers)),
           NEW i \in DOMAIN n, NEW op
    PROVE  /\ \A a : Due(n, op, a) =>
                 \/ Due(Finish(n, i), op, a)
                 \/ n[i].op = op /\ n[i].arg = a /\ Newest(n, i) /\ Over(Finish(n, i), op)
           /\ Over(n, op) => /\ Over(Finish(n, i), op)
                             /\ n[i].op = op => ~Newest(n, i)
           /\ n[i].op # op => (Flies(n, op) => Flies(Finish(n, i), op))
<1> DEFINE f == Finish(n, i)
           new(j) == IF j < i THEN j ELSE j - 1
<1>1. /\ Len(n) \in Nat /\ DOMAIN n = 1 .. Len(n)
      /\ \A j \in DOMAIN n : n[j].late \in BOOLEAN
  <2>1. \A j \in DOMAIN n : n[j] \in CallsWith(ops, args, answers)
    OBVIOUS
  <2> QED
    BY <2>1 DEF CallsWith
<1>2. /\ DOMAIN f = 1 .. Len(n) - 1
      /\ \A k \in 1 .. Len(n) - 1 :
            LET j == IF k < i THEN k ELSE k + 1
            IN /\ f[k].op = n[j].op /\ f[k].arg = n[j].arg
               /\ f[k].late = (n[j].late \/ (j < i /\ n[j].op = n[i].op))
  BY Left
<1> HIDE DEF f
<1>3. ASSUME NEW j \in DOMAIN n, j # i
      PROVE  /\ new(j) \in DOMAIN f /\ f[new(j)].op = n[j].op /\ f[new(j)].arg = n[j].arg
             /\ f[new(j)].late = (n[j].late \/ (j < i /\ n[j].op = n[i].op))
  BY <1>1, <1>2, <1>3
<1>4. ASSUME NEW k \in DOMAIN f
      PROVE  \E j \in DOMAIN n :
                /\ j # i /\ k = new(j) /\ f[k].op = n[j].op
                /\ f[k].late = (n[j].late \/ (j < i /\ n[j].op = n[i].op))
  <2>1. CASE k < i
    BY <1>1, <1>2, <2>1
  <2>2. CASE ~(k < i)
    <3>1. k + 1 \in DOMAIN n /\ k + 1 # i /\ k = new(k + 1)
      BY <1>1, <1>2, <2>2
    <3> QED
      BY <1>2, <2>2, <3>1
  <2> QED
    BY <2>1, <2>2
<1>5. ASSUME NEW a, Due(n, op, a), ~Due(f, op, a)
      PROVE  n[i].op = op /\ n[i].arg = a /\ Newest(n, i) /\ Over(f, op)
  <2>1. PICK j \in DOMAIN n : /\ n[j].op = op /\ ~n[j].late /\ n[j].arg = a
                              /\ \A k \in DOMAIN n : k > j => n[k].op # op
    BY <1>5 DEF Due
  <2>2. j = i
    <3> SUFFICES ASSUME j # i PROVE FALSE
      OBVIOUS
    <3>1. ~(j < i /\ n[j].op = n[i].op)
      BY <2>1
    <3>2. new(j) \in DOMAIN f /\ f[new(j)].op = op /\ f[new(j)].arg = a /\ ~f[new(j)].late
      BY <1>3, <2>1, <3>1
    <3>3. ASSUME NEW k \in DOMAIN f, k > new(j) PROVE f[k].op # op
      <4>1. PICK l \in DOMAIN n : l # i /\ k = new(l) /\ f[k].op = n[l].op
        BY <1>4
      <4>2. l > j
        BY <1>1, <3>3, <4>1
      <4> QED
        BY <2>1, <4>1, <4>2
    <3> QED
      BY <1>5, <3>2, <3>3 DEF Due
  <2>3. ASSUME NEW k \in DOMAIN f, f[k].op = op PROVE f[k].late
    <3>1. PICK l \in DOMAIN n : /\ l # i /\ f[k].op = n[l].op
                                /\ f[k].late = (n[l].late \/ (l < i /\ n[l].op = n[i].op))
      BY <1>4
    <3>2. l < i
      BY <1>1, <2>1, <2>2, <2>3, <3>1
    <3> QED
      BY <2>1, <2>2, <2>3, <3>1, <3>2
  <2> QED
    BY <2>1, <2>2, <2>3 DEF Newest, Over
<1>6. ASSUME Over(n, op) PROVE Over(f, op) /\ (n[i].op = op => ~Newest(n, i))
  BY <1>1, <1>4, <1>6 DEF Over, Newest
<1>7. ASSUME n[i].op # op, Flies(n, op) PROVE Flies(f, op)
  BY <1>3, <1>7 DEF Flies
<1> QED
  BY <1>5, <1>6, <1>7 DEF f

\* A page that waits has one call in flight.
LEMMA OneCall ==
    ASSUME NEW op, NEW arg
    PROVE  /\ Issue(<<>>, op, arg) = <<Call(op, arg)>>
           /\ \A i \in DOMAIN <<Call(op, arg)>> : i = 1
           /\ Finish(<<Call(op, arg)>>, 1) = <<>>
<1> DEFINE T == CallsWith({op}, {arg}, {{}})
           n == <<Call(op, arg)>>
<1>1. Call(op, arg) \in T
  BY DEF CallsWith, Call
<1>2. n \in Seq(T) /\ DOMAIN n = {1} /\ Len(n) = 1
  <2> HIDE DEF T
  <2> QED
    BY <1>1
<1>3. Issue(<<>>, op, arg) = n
  BY DEF Issue
<1> HIDE DEF n
<1>4. DOMAIN Finish(n, 1) = 1 .. 0
  BY <1>2, Left
<1>5. \A c \in T : [c EXCEPT !.late = TRUE] \in T
  BY DEF CallsWith
<1> HIDE DEF T
<1>6. Finish(n, 1) \in Seq(T)
  BY <1>2, <1>5, Finished
<1>7. Finish(n, 1) = <<>>
  BY <1>4, <1>6
<1> QED
  BY <1>2, <1>3, <1>7 DEF n

(***************************************************************************)
(* Answers that are part of the state                                      *)
(***************************************************************************)
Reply(ans) == CHOOSE a \in ans : TRUE

\* The server answered, and not with an error.
Agreed(ans) == ans # {} /\ Reply(ans).ok

\* A call in flight has done op to arg on the server.
Did(n, op, arg) == \E i \in DOMAIN n : n[i].op = op /\ n[i].arg = arg /\ Agreed(n[i].ans)

\* A call that is made has done nothing yet.
LEMMA IssuedDid ==
    ASSUME NEW S, NEW n \in Seq(S), NEW op, NEW arg
    PROVE  /\ \A o, a : Did(Issue(n, op, arg), o, a) <=> Did(n, o, a)
           /\ \A o : Flies(Issue(n, op, arg), o) <=> Flies(n, o) \/ o = op
<1> DEFINE c == Call(op, arg)
           m == Append(n, c)
<1>1. c.op = op /\ ~Agreed(c.ans)
  BY DEF Call, Agreed
<1>2. Issue(n, op, arg) = m
  BY DEF Issue
<1>3. /\ DOMAIN n = 1 .. Len(n) /\ Len(n) \in Nat /\ DOMAIN m = 1 .. Len(n) + 1
      /\ m[Len(n) + 1] = c /\ \A i \in DOMAIN n : m[i] = n[i]
  OBVIOUS
<1> HIDE DEF c, m
<1>4. DOMAIN m = DOMAIN n \cup {Len(n) + 1}
  BY <1>3
<1>5. ASSUME NEW o, NEW a PROVE Did(m, o, a) <=> Did(n, o, a)
  BY <1>1, <1>3, <1>4 DEF Did
<1>6. ASSUME NEW o PROVE Flies(m, o) <=> Flies(n, o) \/ o = op
  BY <1>1, <1>3, <1>4 DEF Flies
<1> QED
  BY <1>2, <1>5, <1>6

\* The calls that are left are those that were there, but the one that leaves.
LEMMA LeftCalls ==
    ASSUME NEW ops, NEW args, NEW answers, NEW n \in Seq(CallsWith(ops, args, answers)),
           NEW i \in DOMAIN n
    PROVE  /\ \A k \in DOMAIN Finish(n, i) : \E j \in DOMAIN n \ {i} :
                 /\ k = IF j < i THEN j ELSE j - 1
                 /\ Finish(n, i)[k].op = n[j].op /\ Finish(n, i)[k].arg = n[j].arg
                 /\ Finish(n, i)[k].ans = n[j].ans
           /\ \A j \in DOMAIN n \ {i} : \E k \in DOMAIN Finish(n, i) :
                 /\ Finish(n, i)[k].op = n[j].op /\ Finish(n, i)[k].arg = n[j].arg
                 /\ Finish(n, i)[k].ans = n[j].ans
<1> DEFINE f == Finish(n, i)
<1>1. /\ Len(n) \in Nat /\ DOMAIN n = 1 .. Len(n)
      /\ DOMAIN f = 1 .. Len(n) - 1
      /\ \A k \in 1 .. Len(n) - 1 :
            LET j == IF k < i THEN k ELSE k + 1
            IN f[k].op = n[j].op /\ f[k].arg = n[j].arg /\ f[k].ans = n[j].ans
  BY Left
<1> HIDE DEF f
<1>2. ASSUME NEW k \in DOMAIN f
      PROVE  \E j \in DOMAIN n \ {i} :
                /\ k = IF j < i THEN j ELSE j - 1
                /\ f[k].op = n[j].op /\ f[k].arg = n[j].arg /\ f[k].ans = n[j].ans
  <2> DEFINE j == IF k < i THEN k ELSE k + 1
  <2>1. j \in DOMAIN n \ {i} /\ k = IF j < i THEN j ELSE j - 1
    BY <1>1
  <2>2. f[k].op = n[j].op /\ f[k].arg = n[j].arg /\ f[k].ans = n[j].ans
    BY <1>1
  <2> HIDE DEF j
  <2> QED
    BY <2>1, <2>2
<1>3. ASSUME NEW j \in DOMAIN n \ {i}
      PROVE  \E k \in DOMAIN f :
                f[k].op = n[j].op /\ f[k].arg = n[j].arg /\ f[k].ans = n[j].ans
  <2> DEFINE k == IF j < i THEN j ELSE j - 1
  <2>1. k \in DOMAIN f /\ j = IF k < i THEN k ELSE k + 1
    BY <1>1
  <2>2. f[k].op = n[j].op /\ f[k].arg = n[j].arg /\ f[k].ans = n[j].ans
    BY <1>1, <2>1
  <2> QED
    BY <2>1, <2>2
<1> QED
  BY <1>2, <1>3 DEF f

LEMMA LeftDid ==
    ASSUME NEW ops, NEW args, NEW answers, NEW n \in Seq(CallsWith(ops, args, answers)),
           NEW i \in DOMAIN n
    PROVE  /\ \A o, a : Did(Finish(n, i), o, a) => Did(n, o, a)
           /\ \A o, a : Did(n, o, a) =>
                 \/ Did(Finish(n, i), o, a)
                 \/ n[i].op = o /\ n[i].arg = a /\ Agreed(n[i].ans)
           /\ \A o : Flies(Finish(n, i), o) => Flies(n, o)
           /\ \A o : Flies(n, o) /\ n[i].op # o => Flies(Finish(n, i), o)
<1> DEFINE f == Finish(n, i)
<1>1. /\ \A k \in DOMAIN f : \E j \in DOMAIN n :
            f[k].op = n[j].op /\ f[k].arg = n[j].arg /\ f[k].ans = n[j].ans
      /\ \A j \in DOMAIN n \ {i} : \E k \in DOMAIN f :
            f[k].op = n[j].op /\ f[k].arg = n[j].arg /\ f[k].ans = n[j].ans
  BY LeftCalls
<1> HIDE DEF f
<1>2. ASSUME NEW o, NEW a, Did(f, o, a) PROVE Did(n, o, a)
  BY <1>1, <1>2 DEF Did
<1>3. ASSUME NEW o, NEW a, Did(n, o, a), ~(n[i].op = o /\ n[i].arg = a /\ Agreed(n[i].ans))
      PROVE  Did(f, o, a)
  BY <1>1, <1>3 DEF Did
<1>4. ASSUME NEW o, Flies(f, o) PROVE Flies(n, o)
  BY <1>1, <1>4 DEF Flies
<1>5. ASSUME NEW o, Flies(n, o), n[i].op # o PROVE Flies(f, o)
  BY <1>1, <1>5 DEF Flies
<1> QED
  BY <1>2, <1>3, <1>4, <1>5 DEF f

\* When call i is served, it has done what it is for, or nothing.
LEMMA ServedDid ==
    ASSUME NEW ops, NEW args, NEW answers, NEW n \in Seq(CallsWith(ops, args, answers)),
           NEW i \in DOMAIN n, n[i].ans = {}, NEW ok \in BOOLEAN, NEW body
    PROVE  /\ DOMAIN Serve(n, i, ok, body) = DOMAIN n
           /\ \A j \in DOMAIN n :
                 /\ Serve(n, i, ok, body)[j].op = n[j].op
                 /\ Serve(n, i, ok, body)[j].arg = n[j].arg
                 /\ Serve(n, i, ok, body)[j].gone = n[j].gone
                 /\ j # i => Serve(n, i, ok, body)[j] = n[j]
           /\ Serve(n, i, ok, body)[i].ans = {[ok |-> ok, body |-> body]}
           /\ \A o, a : Did(Serve(n, i, ok, body), o, a) <=>
                 Did(n, o, a) \/ (ok /\ n[i].op = o /\ n[i].arg = a)
           /\ \A o : Flies(Serve(n, i, ok, body), o) <=> Flies(n, o)
<1> DEFINE x == {[ok |-> ok, body |-> body]}
           m == [n EXCEPT ![i].ans = x]
<1>1. Serve(n, i, ok, body) = m
  BY DEF Serve
<1>2. Agreed(x) = ok /\ ~Agreed({})
  <2>1. Reply(x) = [ok |-> ok, body |-> body]
    BY DEF Reply
  <2> QED
    BY <2>1 DEF Agreed
<1> HIDE DEF x
<1>3. \A j \in DOMAIN n : n[j] \in CallsWith(ops, args, answers)
  OBVIOUS
<1>4. DOMAIN m = DOMAIN n
  OBVIOUS
<1>5. \A j \in DOMAIN n : /\ m[j].op = n[j].op /\ m[j].arg = n[j].arg /\ m[j].gone = n[j].gone
                          /\ j # i => m[j] = n[j]
  BY <1>3 DEF CallsWith
<1>6. m[i].ans = x
  BY <1>3 DEF CallsWith
<1> HIDE DEF m
<1>7. ASSUME NEW o, NEW a
      PROVE  Did(m, o, a) <=> Did(n, o, a) \/ (ok /\ n[i].op = o /\ n[i].arg = a)
  <2>1. ASSUME NEW j \in DOMAIN n, j # i PROVE m[j] = n[j]
    BY <1>5, <2>1
  <2>2. ASSUME Did(m, o, a) PROVE Did(n, o, a) \/ (ok /\ n[i].op = o /\ n[i].arg = a)
    <3>1. PICK j \in DOMAIN n : m[j].op = o /\ m[j].arg = a /\ Agreed(m[j].ans)
      BY <1>4, <2>2 DEF Did
    <3> QED
      BY <1>2, <1>5, <1>6, <2>1, <3>1 DEF Did
  <2>3. ASSUME Did(n, o, a) PROVE Did(m, o, a)
    <3>1. PICK j \in DOMAIN n : n[j].op = o /\ n[j].arg = a /\ Agreed(n[j].ans)
      BY <2>3 DEF Did
    <3>2. j # i
      BY <1>2, <3>1
    <3> QED
      BY <1>4, <2>1, <3>1, <3>2 DEF Did
  <2>4. ASSUME ok, n[i].op = o, n[i].arg = a PROVE Did(m, o, a)
    BY <1>2, <1>4, <1>5, <1>6, <2>4 DEF Did
  <2> QED
    BY <2>2, <2>3, <2>4
<1>8. ASSUME NEW o PROVE Flies(m, o) <=> Flies(n, o)
  BY <1>4, <1>5 DEF Flies
<1> QED
  BY <1>1, <1>4, <1>5, <1>6, <1>7, <1>8 DEF x

(***************************************************************************)
(* Calls of any kind                                                       *)
(***************************************************************************)
SomeCalls(n) == \E ops, args, answers : n \in Seq(CallsWith(ops, args, answers))

\* m is n and the call c, the newest of its operation.
Adds(m, n, c) ==
    \E k : /\ DOMAIN m = DOMAIN n \cup {k} /\ k \notin DOMAIN n /\ m[k] = c
           /\ \A i \in DOMAIN n : /\ m[i] = n[i]
                                  /\ Newest(m, i) => Newest(n, i) /\ n[i].op # c.op

LEMMA SomeIssued ==
    ASSUME NEW n, SomeCalls(n), NEW op, NEW arg
    PROVE  SomeCalls(Issue(n, op, arg)) /\ Adds(Issue(n, op, arg), n, Call(op, arg))
<1> DEFINE m == Append(n, Call(op, arg))
<1>1. PICK ops, args, answers : n \in Seq(CallsWith(ops, args, answers))
  BY DEF SomeCalls
<1> DEFINE O == ops \cup {op}
           A == args \cup {arg}
           B == answers \cup {{}}
<1>2. CallsWith(ops, args, answers) \subseteq CallsWith(O, A, B)
  BY DEF CallsWith
<1>3. Call(op, arg) \in CallsWith(O, A, B)
  BY DEF CallsWith, Call
<1>4. Call(op, arg).op = op
  BY DEF Call
<1> HIDE DEF O, A, B
<1>5. n \in Seq(CallsWith(O, A, B))
  BY <1>1, <1>2
<1>6. /\ m \in Seq(CallsWith(O, A, B)) /\ Len(n) \in Nat
      /\ DOMAIN n = 1 .. Len(n) /\ DOMAIN m = 1 .. Len(n) + 1
      /\ m[Len(n) + 1] = Call(op, arg) /\ \A i \in DOMAIN n : m[i] = n[i]
  BY <1>3, <1>5
<1>7. Issue(n, op, arg) = m
  BY DEF Issue
<1> HIDE DEF m
<1>8. ASSUME NEW i \in DOMAIN n, Newest(m, i) PROVE Newest(n, i) /\ n[i].op # op
  BY <1>4, <1>6, <1>8 DEF Newest
<1>9. DOMAIN m = DOMAIN n \cup {Len(n) + 1} /\ Len(n) + 1 \notin DOMAIN n
  BY <1>6
<1> QED
  BY <1>4, <1>6, <1>7, <1>8, <1>9 DEF SomeCalls, Adds

\* What is left when a call leaves was there before, and what is newest was.
LEMMA SomeLeft ==
    ASSUME NEW n, SomeCalls(n), NEW i \in DOMAIN n
    PROVE  /\ SomeCalls(Finish(n, i))
           /\ \A k \in DOMAIN Finish(n, i) : \E j \in DOMAIN n \ {i} :
                 /\ k = IF j < i THEN j ELSE j - 1
                 /\ Finish(n, i)[k].op = n[j].op /\ Finish(n, i)[k].arg = n[j].arg
                 /\ Finish(n, i)[k].ans = n[j].ans /\ Finish(n, i)[k].gone = n[j].gone
                 /\ Newest(Finish(n, i), k) => Newest(n, j)
           /\ \A j \in DOMAIN n \ {i} : \E k \in DOMAIN Finish(n, i) :
                 /\ Finish(n, i)[k].op = n[j].op /\ Finish(n, i)[k].arg = n[j].arg
                 /\ Finish(n, i)[k].ans = n[j].ans /\ Finish(n, i)[k].gone = n[j].gone
<1> DEFINE f == Finish(n, i)
           old(k) == IF k < i THEN k ELSE k + 1
           new(j) == IF j < i THEN j ELSE j - 1
<1>1. PICK ops, args, answers : n \in Seq(CallsWith(ops, args, answers))
  BY DEF SomeCalls
<1>2. \A c \in CallsWith(ops, args, answers) :
         [c EXCEPT !.late = TRUE] \in CallsWith(ops, args, answers)
  BY DEF CallsWith
<1>3. f \in Seq(CallsWith(ops, args, answers))
  BY <1>1, <1>2, Finished
<1>4. /\ Len(n) \in Nat /\ DOMAIN n = 1 .. Len(n) /\ DOMAIN f = 1 .. Len(n) - 1
      /\ \A k \in 1 .. Len(n) - 1 :
            LET j == IF k < i THEN k ELSE k + 1
            IN /\ f[k].op = n[j].op /\ f[k].arg = n[j].arg
               /\ f[k].ans = n[j].ans /\ f[k].gone = n[j].gone
               /\ f[k].late = (n[j].late \/ (j < i /\ n[j].op = n[i].op))
  BY <1>1, Left
<1>5. \A j \in DOMAIN n : n[j].late \in BOOLEAN
  <2>1. \A j \in DOMAIN n : n[j] \in CallsWith(ops, args, answers)
    BY <1>1
  <2> QED
    BY <2>1 DEF CallsWith
<1> HIDE DEF f
<1>6. ASSUME NEW k \in DOMAIN f
      PROVE  /\ old(k) \in DOMAIN n \ {i} /\ k = IF old(k) < i THEN old(k) ELSE old(k) - 1
             /\ f[k].op = n[old(k)].op /\ f[k].arg = n[old(k)].arg
             /\ f[k].ans = n[old(k)].ans /\ f[k].gone = n[old(k)].gone
             /\ f[k].late = (n[old(k)].late \/ (old(k) < i /\ n[old(k)].op = n[i].op))
  BY <1>4
<1>7. ASSUME NEW j \in DOMAIN n \ {i} PROVE new(j) \in DOMAIN f /\ old(new(j)) = j
  BY <1>4
<1>8. ASSUME NEW k \in DOMAIN f, Newest(f, k) PROVE Newest(n, old(k))
  <2>1. ~n[old(k)].late /\ ~(old(k) < i /\ n[old(k)].op = n[i].op)
    BY <1>5, <1>6, <1>8 DEF Newest
  <2>2. ASSUME NEW j \in DOMAIN n, j > old(k) PROVE n[j].op # n[old(k)].op
    <3>1. CASE j = i
      BY <2>1, <2>2, <3>1
    <3>2. CASE j # i
      <4>1. new(j) \in DOMAIN f /\ old(new(j)) = j /\ new(j) > k
        BY <1>4, <1>7, <2>2, <3>2
      <4>2. f[new(j)].op # f[k].op
        BY <1>8, <4>1 DEF Newest
      <4>3. f[new(j)].op = n[j].op
        BY <1>6, <4>1
      <4> QED
        BY <1>6, <4>2, <4>3
    <3> QED
      BY <3>1, <3>2
  <2> QED
    BY <2>1, <2>2 DEF Newest
<1> HIDE DEF old, new
<1>9. SomeCalls(f)
  BY <1>3 DEF f, SomeCalls
<1> QED
  BY <1>6, <1>7, <1>8, <1>9 DEF f

\* The answer to call i is fixed, and nothing else.
LEMMA SomeServed ==
    ASSUME NEW n, SomeCalls(n), NEW i \in DOMAIN n, NEW ok, NEW body
    PROVE  /\ SomeCalls(Serve(n, i, ok, body)) /\ DOMAIN Serve(n, i, ok, body) = DOMAIN n
           /\ \A j \in DOMAIN n :
                 /\ Serve(n, i, ok, body)[j].op = n[j].op
                 /\ Serve(n, i, ok, body)[j].arg = n[j].arg
                 /\ Serve(n, i, ok, body)[j].gone = n[j].gone
                 /\ j # i => Serve(n, i, ok, body)[j].ans = n[j].ans
                 /\ Newest(Serve(n, i, ok, body), j) <=> Newest(n, j)
           /\ Serve(n, i, ok, body)[i].ans = {[ok |-> ok, body |-> body]}
<1> DEFINE x == {[ok |-> ok, body |-> body]}
           m == [n EXCEPT ![i].ans = x]
<1>1. PICK ops, args, answers : n \in Seq(CallsWith(ops, args, answers))
  BY DEF SomeCalls
<1> DEFINE B == answers \cup {x}
<1>2. Serve(n, i, ok, body) = m
  BY DEF Serve
<1>3. CallsWith(ops, args, answers) \subseteq CallsWith(ops, args, B)
  BY DEF CallsWith
<1>4. \A c \in CallsWith(ops, args, B) :
         /\ [c EXCEPT !.ans = x] \in CallsWith(ops, args, B)
         /\ [c EXCEPT !.ans = x].op = c.op /\ [c EXCEPT !.ans = x].arg = c.arg
         /\ [c EXCEPT !.ans = x].gone = c.gone /\ [c EXCEPT !.ans = x].late = c.late
         /\ [c EXCEPT !.ans = x].ans = x
  BY DEF CallsWith
<1> HIDE DEF x, B
<1>5. n \in Seq(CallsWith(ops, args, B)) /\ \A j \in DOMAIN n : n[j] \in CallsWith(ops, args, B)
  BY <1>1, <1>3
<1>6. /\ m \in Seq(CallsWith(ops, args, B)) /\ DOMAIN m = DOMAIN n
      /\ m[i] = [n[i] EXCEPT !.ans = x]
      /\ \A j \in DOMAIN n : j # i => m[j] = n[j]
  BY <1>4, <1>5
<1> HIDE DEF m
<1>7. \A j \in DOMAIN n : /\ m[j].op = n[j].op /\ m[j].arg = n[j].arg
                          /\ m[j].gone = n[j].gone /\ m[j].late = n[j].late
  <2>1. n[i] \in CallsWith(ops, args, B)
    BY <1>5
  <2>2. /\ m[i].op = n[i].op /\ m[i].arg = n[i].arg
        /\ m[i].gone = n[i].gone /\ m[i].late = n[i].late
    BY <1>4, <1>6, <2>1
  <2> QED
    BY <1>6, <2>2
<1>8. m[i].ans = x
  BY <1>4, <1>5, <1>6
<1>9. \A j \in DOMAIN n : Newest(m, j) <=> Newest(n, j)
  BY <1>6, <1>7 DEF Newest
<1> QED
  BY <1>2, <1>6, <1>7, <1>8, <1>9 DEF SomeCalls, x

(***************************************************************************)
(* Project list                                                            *)
(***************************************************************************)
GridOps == {"list", "create", "delete", "update"}

GridArgs == {{}} \cup Names \cup Ids \cup Grid!Records

GridAnswers == SUBSET [ok : BOOLEAN, body : Grid!Records \cup SUBSET Grid!Records]

\* A list always succeeds; the answer to a change is the change, without its counts.
GridCalls ==
    {c \in CallsWith(GridOps, GridArgs, GridAnswers) :
        /\ ~c.gone
        /\ c.op = "create" => c.arg \in Names
        /\ c.op = "update" => c.arg \in Grid!Records
        /\ c.op = "list" /\ c.ans # {} =>
              Agreed(c.ans) /\ Reply(c.ans).body \in SUBSET Grid!Records
        /\ c.op = "update" /\ Agreed(c.ans) =>
              Reply(c.ans).body = [c.arg EXCEPT !.count = 0]}

GridPage ==
    [projects : SUBSET Grid!Records, loading : BOOLEAN, creating : BOOLEAN, saving : BOOLEAN,
     showCreate : BOOLEAN, settings : Grid!Records \cup {Grid!Closed}]

GridTypes ==
    /\ s1 \in GridPage /\ s2 \in SUBSET Grid!Records /\ s3 \in Seq(GridCalls)
    /\ s4 \in [crossed : BOOLEAN, acts : Nat]

\* One change of the settings at a time.
OneUpdate(v, n) ==
    /\ Flies(n, "update") => v.saving
    /\ \A j, k \in DOMAIN n : n[j].op = "update" /\ n[k].op = "update" => j = k

\* Only a list is in flight, and brings what the server has.
OnlyListed(n, records) ==
    /\ Len(n) = 1 /\ n[1].op = "list"
    /\ n[1].ans # {} => Reply(n[1].ans).body = records

\* r is what the answers that are on their way will make of row p.
Becomes(n, p, r) ==
    /\ ~Did(n, "delete", p.id)
    /\ \/ r = p /\ \A a \in Grid!Records : a.id = p.id => ~Did(n, "update", a)
       \/ \E a \in Grid!Records :
             a.id = p.id /\ Did(n, "update", a) /\ r = [p EXCEPT !.name = a.name]

\* The rows will be the projects of the server.
Matches(rows, n, records) ==
    \A r \in Grid!Records : r \in records <=> \E p \in rows : Becomes(n, p, r)

\* A project was created, and its answer will have the list loaded again.
Created(n) == \E a : Did(n, "create", a)

\* What the page knows, or will know when the calls in flight are answered.
Tracked(v, n, records) ==
    \/ OnlyListed(n, records)
    \/ ~Flies(n, "list") /\ (Created(n) \/ Matches(v.projects, n, records))

GridInv ==
    /\ GridTypes /\ OneUpdate(s1, s3)
    /\ ~s4.crossed => Tracked(s1, s3, s2)

LEMMA GridNet ==
    ASSUME NEW n \in Seq(GridCalls)
    PROVE  /\ n \in Seq(CallsWith(GridOps, GridArgs, GridAnswers))
           /\ \A i \in DOMAIN n : n[i] \in GridCalls
<1> DEFINE T == CallsWith(GridOps, GridArgs, GridAnswers)
<1>1. GridCalls \subseteq T
  BY DEF GridCalls
<1> HIDE DEF T
<1>2. n \in Seq(T)
  BY <1>1
<1>3. \A i \in DOMAIN n : n[i] \in GridCalls
  OBVIOUS
<1> QED
  BY <1>2, <1>3 DEF T

LEMMA GridFinished ==
    ASSUME NEW n \in Seq(GridCalls), NEW i \in DOMAIN n
    PROVE  Finish(n, i) \in Seq(GridCalls)
<1>1. ASSUME NEW c \in GridCalls PROVE [c EXCEPT !.late = TRUE] \in GridCalls
  BY DEF GridCalls, CallsWith
<1> QED
  BY <1>1, Finished

LEMMA GridIssued ==
    ASSUME NEW n \in Seq(GridCalls), NEW op \in GridOps, NEW arg \in GridArgs,
           op = "update" => arg \in Grid!Records, op = "create" => arg \in Names
    PROVE  Issue(n, op, arg) \in Seq(GridCalls)
<1>1. {} \in GridAnswers /\ ~Agreed({})
  BY DEF GridAnswers, Agreed
<1>2. Call(op, arg) \in GridCalls
  BY <1>1 DEF GridCalls, CallsWith, Call
<1> QED
  BY <1>2, Issued

\* Nothing on its way: the rows are what they are.
LEMMA MatchesQuiet ==
    ASSUME NEW n, NEW rows \in SUBSET Grid!Records, n = <<>>,
           NEW records \in SUBSET Grid!Records
    PROVE  Matches(rows, n, records) <=> rows = records
<1>1. \A o, a : ~Did(n, o, a)
  BY DEF Did
<1>2. ASSUME NEW p \in rows, NEW r PROVE Becomes(n, p, r) <=> r = p
  BY <1>1 DEF Becomes
<1>3. Matches(rows, n, records) <=> \A r \in Grid!Records : r \in records <=> r \in rows
  BY <1>2 DEF Matches
<1> QED
  BY <1>3

LEMMA GridBegins == Grid!Init => GridInv
<1> SUFFICES ASSUME Grid!Init PROVE GridInv
  OBVIOUS
<1>1. s1 \in GridPage
  BY DEF Grid!Init, GridPage
<1>2. s2 \in SUBSET Grid!Records
  BY DEF Grid!Init
<1>3. s3 = Issue(<<>>, "list", {})
  BY DEF Grid!Init, Grid!Issue, Grid!Call, Issue, Call
<1>4. <<>> \in Seq(GridCalls)
  OBVIOUS
<1>5. s3 \in Seq(GridCalls)
  BY <1>3, <1>4, GridIssued DEF GridArgs, GridOps
<1>6. s4 \in [crossed : BOOLEAN, acts : Nat]
  BY DEF Grid!Init
<1>7. Len(s3) = 1 /\ s3[1].op = "list" /\ s3[1].ans = {}
  BY <1>3 DEF Issue, Call
<1>8. OneUpdate(s1, s3)
  BY <1>5, <1>7 DEF OneUpdate, Flies
<1> QED
  BY <1>1, <1>2, <1>5, <1>6, <1>7, <1>8 DEF GridInv, GridTypes, Tracked, OnlyListed

\* Handlers that only open, edit and close dialogs.
LEMMA GridPageKeeps ==
    ASSUME GridInv, NEW v \in GridPage, Grid!SetPage(v), v.projects = s1.projects,
           v.saving = s1.saving
    PROVE  GridInv'
BY DEF Grid!SetPage, GridInv, GridTypes, OneUpdate, Tracked

LEMMA GridDialogsKeep ==
    ASSUME GridInv,
           \/ Grid!OpenCreate \/ Grid!CloseCreate \/ Grid!CloseSettings
           \/ \E name \in Names : Grid!EditSettings(name)
           \/ \E p \in s1.projects : Grid!OpenSettings(p)
    PROVE  GridInv'
<1>1. s1 \in GridPage
  BY DEF GridInv, GridTypes
<1>2. PICK v : /\ Grid!SetPage(v)
               /\ \/ v = [s1 EXCEPT !.showCreate = TRUE]
                  \/ v = [s1 EXCEPT !.showCreate = FALSE]
                  \/ v = [s1 EXCEPT !.settings = Grid!Closed]
                  \/ /\ s1.settings # Grid!Closed
                     /\ \E name \in Names : v = [s1 EXCEPT !.settings.name = name]
                  \/ \E p \in s1.projects : v = [s1 EXCEPT !.settings = p]
  BY DEF Grid!OpenCreate, Grid!CloseCreate, Grid!CloseSettings, Grid!EditSettings,
         Grid!OpenSettings
<1>3. v \in GridPage /\ v.projects = s1.projects /\ v.saving = s1.saving
  BY <1>1, <1>2 DEF GridPage, Grid!Records
<1> QED
  BY <1>2, <1>3, GridPageKeeps

\* A write that the user starts: what is in flight has done nothing more.
LEMMA GridWriteKeeps ==
    ASSUME GridInv, NEW op \in {"create", "delete", "update"}, NEW arg \in GridArgs,
           op = "update" => arg \in Grid!Records /\ ~s1.saving,
           op = "create" => arg \in Names,
           Grid!StartWrite(op, arg), s2' = s2, s1' \in GridPage, s1'.projects = s1.projects,
           s1'.saving = (s1.saving \/ op = "update")
    PROVE  GridInv'
<1>1. GridTypes
  BY DEF GridInv
<1>2. s3' = Issue(s3, op, arg)
  BY DEF Grid!StartWrite, Grid!Issue, Grid!Call, Issue, Call
<1>3. s3' \in Seq(GridCalls)
  BY <1>1, <1>2, GridIssued DEF GridTypes, GridOps
<1>4. /\ \A o, a : Did(s3', o, a) <=> Did(s3, o, a)
      /\ \A o : Flies(s3', o) <=> Flies(s3, o) \/ o = op
  BY <1>1, <1>2, IssuedDid DEF GridTypes
<1>5. s4'.crossed = (s4.crossed \/ Flies(s3, "list")) /\ s4' \in [crossed : BOOLEAN, acts : Nat]
  <2>1. \A i \in DOMAIN s3 : ~s3[i].gone
    BY <1>1, GridNet DEF GridTypes, GridCalls
  <2>2. Grid!InFlight(s3, "list") <=> Flies(s3, "list")
    BY <2>1 DEF Grid!InFlight, Flies
  <2>3. Flies(s3, "list") \in BOOLEAN
    BY DEF Flies
  <2>4. s4' = [crossed |-> s4.crossed \/ Grid!InFlight(s3, "list"), acts |-> s4.acts + 1]
    BY DEF Grid!StartWrite
  <2> QED
    BY <1>1, <2>2, <2>3, <2>4 DEF GridTypes
<1>6. OneUpdate(s1', s3')
  <2>1. /\ DOMAIN s3' = DOMAIN s3 \cup {Len(s3) + 1} /\ s3'[Len(s3) + 1].op = op
        /\ \A i \in DOMAIN s3 : s3'[i] = s3[i]
    <3>1. Call(op, arg).op = op
      BY DEF Call
    <3>2. s3' = Append(s3, Call(op, arg)) /\ s3 \in Seq(GridCalls)
      BY <1>1, <1>2 DEF Issue, GridTypes
    <3> QED
      BY <3>1, <3>2
  <2>2. OneUpdate(s1, s3)
    BY DEF GridInv
  <2>3. CASE op = "update"
    <3>1. ~Flies(s3, "update") /\ s1'.saving
      BY <1>1, <2>2, <2>3 DEF OneUpdate, GridTypes, GridPage
    <3> QED
      BY <2>1, <3>1 DEF OneUpdate, Flies
  <2>4. CASE op # "update"
    <3>1. s1'.saving = s1.saving
      BY <1>1, <2>4 DEF GridTypes, GridPage
    <3>2. Flies(s3', "update") <=> Flies(s3, "update")
      BY <1>4, <2>4
    <3> QED
      BY <2>1, <2>2, <2>4, <3>1, <3>2 DEF OneUpdate
  <2> QED
    BY <2>3, <2>4
<1>7. ASSUME ~s4'.crossed PROVE Tracked(s1', s3', s2')
  <2>1. ~s4.crossed /\ ~Flies(s3, "list")
    BY <1>1, <1>5, <1>7 DEF GridTypes
  <2>2. ~OnlyListed(s3, s2)
    BY <1>1, <2>1 DEF OnlyListed, Flies, GridTypes
  <2>3. Created(s3) \/ Matches(s1.projects, s3, s2)
    BY <2>1, <2>2 DEF GridInv, Tracked
  <2>4. ~Flies(s3', "list")
    BY <1>4, <2>1
  <2>5. Created(s3) => Created(s3')
    BY <1>4 DEF Created
  <2>6. Matches(s1.projects, s3, s2) => Matches(s1.projects, s3', s2)
    BY <1>4 DEF Matches, Becomes
  <2> QED
    BY <2>3, <2>4, <2>5, <2>6 DEF Tracked
<1> QED
  BY <1>1, <1>3, <1>5, <1>6, <1>7 DEF GridInv, GridTypes

LEMMA GridHandlersKeep ==
    ASSUME GridInv,
           \/ Grid!HandleSaveSettings
           \/ \E name \in Names : Grid!HandleCreate(name)
           \/ \E p \in s1.projects : Grid!HandleDelete(p)
    PROVE  GridInv'
<1>1. GridTypes
  BY DEF GridInv
<1>2. CASE Grid!HandleSaveSettings
  <2>1. /\ s1.settings \in Grid!Records /\ ~s1.saving /\ s2' = s2
        /\ Grid!StartWrite("update", s1.settings) /\ s1' = [s1 EXCEPT !.saving = TRUE]
    BY <1>1, <1>2 DEF Grid!HandleSaveSettings, GridTypes, GridPage
  <2>2. s1' \in GridPage /\ s1'.projects = s1.projects /\ s1'.saving
    BY <1>1, <2>1 DEF GridTypes, GridPage
  <2> QED
    BY <1>1, <2>1, <2>2, GridWriteKeeps DEF GridArgs
<1>3. ASSUME NEW name \in Names, Grid!HandleCreate(name) PROVE GridInv'
  <2>1. /\ Grid!StartWrite("create", name) /\ s1' = [s1 EXCEPT !.creating = TRUE]
        /\ s2' = s2
    BY <1>3 DEF Grid!HandleCreate
  <2>2. s1' \in GridPage /\ s1'.projects = s1.projects /\ s1'.saving = s1.saving
        /\ s1.saving \in BOOLEAN
    BY <1>1, <2>1 DEF GridTypes, GridPage
  <2>3. s1'.saving = (s1.saving \/ "create" = "update") /\ name \in GridArgs
    BY <2>2 DEF GridArgs
  <2> QED
    BY <2>1, <2>2, <2>3, GridWriteKeeps
<1>4. ASSUME NEW p \in s1.projects, Grid!HandleDelete(p) PROVE GridInv'
  <2>1. p.id \in Ids /\ s1 \in GridPage /\ s1.saving \in BOOLEAN
    BY <1>1, <1>4 DEF GridTypes, GridPage, Grid!Records
  <2>2. Grid!StartWrite("delete", p.id) /\ s1' = s1 /\ s2' = s2
    BY <1>4 DEF Grid!HandleDelete
  <2> QED
    BY <2>1, <2>2, GridWriteKeeps DEF GridArgs
<1> QED
  BY <1>2, <1>3, <1>4

\* What is known of a call that leaves: the rest is as it was.
LEMMA GridLeft ==
    ASSUME GridTypes, OneUpdate(s1, s3), NEW i \in DOMAIN s3
    PROVE  /\ s3[i] \in GridCalls
           /\ Finish(s3, i) \in Seq(GridCalls)
           /\ \A v : (Flies(Finish(s3, i), "update") => v.saving) => OneUpdate(v, Finish(s3, i))
           /\ s3[i].op = "update" => ~Flies(Finish(s3, i), "update")
           /\ Flies(Finish(s3, i), "update") => s1.saving
           /\ ~Flies(s3, "list") => ~Flies(Finish(s3, i), "list")
           /\ \A records : OnlyListed(s3, records) => i = 1 /\ Finish(s3, i) = <<>>
<1> DEFINE f == Finish(s3, i)
<1>1. /\ s3 \in Seq(CallsWith(GridOps, GridArgs, GridAnswers)) /\ s3[i] \in GridCalls
      /\ f \in Seq(GridCalls)
  BY GridNet, GridFinished DEF GridTypes
<1>2. \A k \in DOMAIN f : \E j \in DOMAIN s3 \ {i} :
         k = (IF j < i THEN j ELSE j - 1) /\ f[k].op = s3[j].op
  BY <1>1, LeftCalls
<1>3. \A o : Flies(f, o) => Flies(s3, o)
  BY <1>1, LeftDid
<1>4. DOMAIN f = 1 .. Len(s3) - 1
  BY <1>1, Left
<1> HIDE DEF f
<1>5. \A k, l \in DOMAIN f : f[k].op = "update" /\ f[l].op = "update" => k = l
  BY <1>2 DEF OneUpdate
<1>6. s3[i].op = "update" => ~Flies(f, "update")
  BY <1>2 DEF OneUpdate, Flies
<1>7. ASSUME NEW records, OnlyListed(s3, records) PROVE i = 1 /\ f = <<>>
  <2>1. Len(s3) = 1 /\ DOMAIN s3 = 1 .. Len(s3)
    BY <1>1, <1>7 DEF OnlyListed
  <2> QED
    BY <1>1, <1>4, <2>1
<1>8. \A v : (Flies(f, "update") => v.saving) => OneUpdate(v, f)
  BY <1>5 DEF OneUpdate
<1>9. Flies(f, "update") => s1.saving
  BY <1>3 DEF OneUpdate
<1> QED
  BY <1>1, <1>3, <1>6, <1>7, <1>8, <1>9 DEF f

LEMMA GridListed ==
    ASSUME GridInv, NEW i \in DOMAIN s3, Grid!Listed(i)
    PROVE  GridInv'
<1> DEFINE body == Reply(s3[i].ans).body
           v == [s1 EXCEPT !.projects = body, !.loading = FALSE]
<1>1. GridTypes /\ OneUpdate(s1, s3)
  BY DEF GridInv
<1>2. s3[i].op = "list" /\ s3[i].ans # {}
  BY DEF Grid!Listed, Grid!Received, Grid!Unserved
<1>3. s1' = v /\ s2' = s2 /\ s4' = s4
  BY DEF Grid!Listed, Grid!Body, Grid!Answer, Reply
<1>4. s3' = Finish(s3, i)
  BY DEF Grid!Listed, Grid!Finish, Grid!RemoveAt, Finish, RemoveAt
<1>5. s3[i] \in GridCalls
  BY <1>1, GridLeft
<1>6. body \in SUBSET Grid!Records
  BY <1>2, <1>5 DEF GridCalls
<1> HIDE DEF body
<1>7. v \in GridPage /\ v.projects = body /\ v.saving = s1.saving
  BY <1>1, <1>6 DEF GridTypes, GridPage
<1> HIDE DEF v
<1>8. GridTypes'
  BY <1>1, <1>3, <1>4, <1>7, GridLeft DEF GridTypes
<1>9. OneUpdate(s1', s3')
  BY <1>1, <1>3, <1>4, <1>7, GridLeft
<1>10. ASSUME ~s4'.crossed PROVE Tracked(s1', s3', s2')
  <2>1. OnlyListed(s3, s2)
    BY <1>2, <1>3, <1>10 DEF GridInv, Tracked, Flies
  <2>2. s3' = <<>> /\ i = 1
    BY <1>1, <1>4, <2>1, GridLeft
  <2>3. body = s2
    BY <1>2, <2>1, <2>2 DEF OnlyListed, body
  <2>4. Matches(s1'.projects, s3', s2')
    BY <1>3, <1>6, <1>7, <2>2, <2>3, MatchesQuiet
  <2>5. ~Flies(s3', "list")
    BY <2>2 DEF Flies
  <2> QED
    BY <2>4, <2>5 DEF Tracked
<1> QED
  BY <1>8, <1>9, <1>10 DEF GridInv

LEMMA GridCreated ==
    ASSUME GridInv, NEW i \in DOMAIN s3, Grid!Created(i)
    PROVE  GridInv'
<1> DEFINE v == [s1 EXCEPT !.showCreate = FALSE, !.creating = FALSE]
           f == Finish(s3, i)
           past == [s4 EXCEPT !.crossed = f # <<>>]
<1>1. GridTypes /\ OneUpdate(s1, s3)
  BY DEF GridInv
<1>2. s1' = v /\ s2' = s2
  BY DEF Grid!Created
<1>3. s3' = Issue(f, "list", {}) /\ s4' = past
  BY DEF Grid!Created, Grid!Fetch, Grid!Issue, Grid!Call, Grid!Finish, Grid!RemoveAt, Finish,
         RemoveAt, Issue, Call
<1>4. v \in GridPage /\ v.projects = s1.projects /\ v.saving = s1.saving
  BY <1>1 DEF GridTypes, GridPage
<1>5. f \in Seq(GridCalls) /\ (Flies(f, "update") => v.saving) /\ OneUpdate(v, f)
  BY <1>1, <1>4, GridLeft
<1> HIDE DEF v, f
<1>6. past \in [crossed : BOOLEAN, acts : Nat] /\ past.crossed = (f # <<>>)
  BY <1>1 DEF GridTypes
<1>7. s3' \in Seq(GridCalls)
  BY <1>3, <1>5, GridIssued DEF GridArgs, GridOps
<1>8. OneUpdate(v, s3')
  <2>1. Flies(s3', "update") => Flies(f, "update")
    BY <1>3, <1>5, IssuedDid
  <2>2. Call("list", {}).op = "list"
    BY DEF Call
  <2>3. s3' = Append(f, Call("list", {}))
    BY <1>3 DEF Issue
  <2>4. \A k \in DOMAIN s3' : s3'[k].op = "update" => k \in DOMAIN f /\ s3'[k] = f[k]
    BY <1>5, <2>2, <2>3
  <2> QED
    BY <1>5, <2>1, <2>4 DEF OneUpdate
<1>9. ASSUME f = <<>> PROVE OnlyListed(s3', s2)
  BY <1>3, <1>9 DEF OnlyListed, Issue, Call
<1> QED
  BY <1>1, <1>2, <1>3, <1>4, <1>6, <1>7, <1>8, <1>9 DEF GridInv, GridTypes, Tracked

LEMMA GridDeleted ==
    ASSUME GridInv, NEW i \in DOMAIN s3, Grid!Deleted(i)
    PROVE  GridInv'
<1> DEFINE d == s3[i].arg
           v == [s1 EXCEPT !.projects = {p \in @ : p.id # d}]
           f == Finish(s3, i)
<1>1. GridTypes /\ OneUpdate(s1, s3) /\ s3 \in Seq(CallsWith(GridOps, GridArgs, GridAnswers))
  BY GridNet DEF GridInv, GridTypes
<1>2. s3[i].op = "delete"
  BY DEF Grid!Deleted, Grid!Received
<1>3. s1' = v /\ s2' = s2 /\ s4' = s4
  BY DEF Grid!Deleted
<1>4. s3' = f
  BY DEF Grid!Deleted, Grid!Finish, Grid!RemoveAt, Finish, RemoveAt
<1>5. v \in GridPage /\ v.projects = {p \in s1.projects : p.id # d} /\ v.saving = s1.saving
  BY <1>1 DEF GridTypes, GridPage
<1>6. f \in Seq(GridCalls) /\ OneUpdate(v, f) /\ (~Flies(s3, "list") => ~Flies(f, "list"))
  BY <1>1, <1>5, GridLeft
<1>7. /\ \A o, a : Did(f, o, a) => Did(s3, o, a)
      /\ \A o, a : Did(s3, o, a) => Did(f, o, a) \/ (s3[i].op = o /\ d = a)
  BY <1>1, LeftDid
<1> HIDE DEF v, f, d
<1>8. ASSUME ~s4.crossed PROVE Tracked(v, f, s2)
  <2>1. ~OnlyListed(s3, s2)
    BY <1>1, <1>2, GridLeft DEF OnlyListed
  <2>2. ~Flies(f, "list") /\ (Created(s3) \/ Matches(s1.projects, s3, s2))
    BY <1>6, <1>8, <2>1 DEF GridInv, Tracked
  <2>3. Created(s3) => Created(f)
    BY <1>2, <1>7 DEF Created
  <2>4. ASSUME Matches(s1.projects, s3, s2) PROVE Matches(v.projects, f, s2)
    <3>1. ASSUME NEW p \in s1.projects, NEW r, p.id = d PROVE Becomes(s3, p, r) => r \notin s2
      <4> SUFFICES ASSUME Becomes(s3, p, r) PROVE r \notin s2
        OBVIOUS
      <4>1. Did(s3, "delete", d)
        BY <1>2 DEF Did, Grid!Deleted, Grid!Received, Grid!Unserved, Grid!Answer, Agreed,
                    Reply, d
      <4> QED
        BY <3>1, <4>1 DEF Becomes
    <3>2. ASSUME NEW p \in s1.projects, NEW r, p.id # d
          PROVE  Becomes(s3, p, r) <=> Becomes(f, p, r)
      <4>1. Did(s3, "delete", p.id) <=> Did(f, "delete", p.id)
        BY <1>7, <3>2
      <4>2. \A a : Did(s3, "update", a) <=> Did(f, "update", a)
        BY <1>2, <1>7
      <4> QED
        BY <4>1, <4>2 DEF Becomes
    <3> QED
      BY <1>5, <2>4, <3>1, <3>2 DEF Matches
  <2> QED
    BY <2>2, <2>3, <2>4 DEF Tracked
<1> QED
  BY <1>1, <1>3, <1>4, <1>5, <1>6, <1>8 DEF GridInv, GridTypes

LEMMA GridSaved ==
    ASSUME GridInv, NEW i \in DOMAIN s3, Grid!Saved(i)
    PROVE  GridInv'
<1> DEFINE u == s3[i].arg
           body == Reply(s3[i].ans).body
           rows == {IF p.id = body.id THEN [body EXCEPT !.count = p.count] ELSE p :
                        p \in s1.projects}
           v == [s1 EXCEPT !.projects = rows, !.settings = Grid!Closed, !.saving = FALSE]
           f == Finish(s3, i)
<1>1. GridTypes /\ OneUpdate(s1, s3) /\ s3 \in Seq(CallsWith(GridOps, GridArgs, GridAnswers))
  BY GridNet DEF GridInv, GridTypes
<1>2. s3[i].op = "update" /\ Agreed(s3[i].ans)
  BY DEF Grid!Saved, Grid!Received, Grid!Unserved, Grid!Answer, Agreed, Reply
<1>3. s1' = v /\ s2' = s2 /\ s4' = s4
  BY DEF Grid!Saved, Grid!Body, Grid!Answer, Reply
<1>4. s3' = f
  BY DEF Grid!Saved, Grid!Finish, Grid!RemoveAt, Finish, RemoveAt
<1>5. u \in Grid!Records /\ body = [u EXCEPT !.count = 0]
  BY <1>1, <1>2, GridLeft DEF GridCalls
<1>6. f \in Seq(GridCalls) /\ ~Flies(f, "update") /\ (~Flies(s3, "list") => ~Flies(f, "list"))
  BY <1>1, <1>2, GridLeft
<1>7. /\ \A o, a : Did(f, o, a) => Did(s3, o, a)
      /\ \A o, a : Did(s3, o, a) => Did(f, o, a) \/ (s3[i].op = o /\ u = a)
  BY <1>1, LeftDid
<1>8. OneUpdate(v, f)
  BY <1>1, <1>6, GridLeft
<1> DEFINE new(p) == IF p.id = u.id THEN [p EXCEPT !.name = u.name] ELSE p
<1>9. s1.projects \in SUBSET Grid!Records
  BY <1>1 DEF GridTypes, GridPage
<1>10. rows = {new(p) : p \in s1.projects}
  <2>1. body.id = u.id
    BY <1>5 DEF Grid!Records
  <2>2. ASSUME NEW p \in s1.projects PROVE [body EXCEPT !.count = p.count] = [p EXCEPT !.name = u.name]
                                           \/ p.id # u.id
    BY <1>5, <1>9 DEF Grid!Records
  <2> QED
    BY <2>1, <2>2
<1>11. Did(s3, "update", u)
  BY <1>2 DEF Did
<1> HIDE DEF body, f, u
<1>12. \A p \in s1.projects : new(p) \in Grid!Records /\ new(p).id = p.id
  BY <1>5, <1>9 DEF Grid!Records
<1> HIDE DEF new
<1>13. rows \in SUBSET Grid!Records
  BY <1>10, <1>12
<1> HIDE DEF rows
<1>14. v \in GridPage /\ v.projects = rows
  BY <1>1, <1>13 DEF GridTypes, GridPage
<1> HIDE DEF v
<1>15. ASSUME ~s4.crossed PROVE Tracked(v, f, s2)
  <2>1. ~OnlyListed(s3, s2)
    BY <1>1, <1>2, GridLeft DEF OnlyListed
  <2>2. ~Flies(f, "list") /\ (Created(s3) \/ Matches(s1.projects, s3, s2))
    BY <1>6, <1>15, <2>1 DEF GridInv, Tracked
  <2>3. Created(s3) => Created(f)
    BY <1>2, <1>7 DEF Created
  <2>4. \A a : ~Did(f, "update", a)
    BY <1>6 DEF Did, Flies
  <2>5. \A a : Did(s3, "update", a) <=> a = u
    BY <1>7, <1>11, <2>4
  <2>6. ASSUME NEW p \in s1.projects, NEW r \in Grid!Records
        PROVE  Becomes(s3, p, r) <=> Becomes(f, new(p), r)
    <3>1. Did(s3, "delete", p.id) <=> Did(f, "delete", new(p).id)
      BY <1>2, <1>7, <1>12
    <3>2. Becomes(f, new(p), r) <=> ~Did(f, "delete", new(p).id) /\ r = new(p)
      BY <2>4 DEF Becomes
    <3>3. Becomes(s3, p, r) <=> ~Did(s3, "delete", p.id) /\ r = new(p)
      BY <1>5, <2>5 DEF Becomes, new
    <3> QED
      BY <3>1, <3>2, <3>3
  <2>7. ASSUME Matches(s1.projects, s3, s2) PROVE Matches(v.projects, f, s2)
    BY <1>10, <1>14, <2>6, <2>7 DEF Matches
  <2> QED
    BY <2>2, <2>3, <2>7 DEF Tracked
<1> QED
  BY <1>1, <1>3, <1>4, <1>6, <1>8, <1>14, <1>15 DEF GridInv, GridTypes

LEMMA GridFails ==
    ASSUME GridInv, NEW i \in DOMAIN s3, Grid!CallFails(i)
    PROVE  GridInv'
<1> DEFINE f == Finish(s3, i)
           over == \/ s4.crossed \/ s3[i].op = "list" \/ Agreed(s3[i].ans)
           past == [s4 EXCEPT !.crossed = over]
<1>1. GridTypes /\ OneUpdate(s1, s3) /\ s3 \in Seq(CallsWith(GridOps, GridArgs, GridAnswers))
  BY GridNet DEF GridInv, GridTypes
<1>2. s3[i] \in GridCalls /\ s3[i].op \in GridOps
  BY <1>1, GridLeft DEF GridCalls, CallsWith
<1>3. /\ s3[i].op = "list" => s1' = [s1 EXCEPT !.projects = {}, !.loading = FALSE]
      /\ s3[i].op = "create" => s1' = [s1 EXCEPT !.creating = FALSE]
      /\ s3[i].op = "update" => s1' = [s1 EXCEPT !.saving = FALSE]
      /\ s3[i].op = "delete" => s1' = s1
  BY DEF Grid!CallFails
<1>4. s2' = s2 /\ s4' = past
  BY Zenon DEF Grid!CallFails, Grid!Unserved, Grid!Answer, Agreed, Reply
<1>5. s3' = f
  BY DEF Grid!CallFails, Grid!Finish, Grid!RemoveAt, Finish, RemoveAt
<1>6. /\ s1' \in GridPage
      /\ s3[i].op # "list" => s1'.projects = s1.projects
      /\ s3[i].op # "update" => s1'.saving = s1.saving
  BY <1>1, <1>2, <1>3 DEF GridTypes, GridPage, GridOps
<1>7. over \in BOOLEAN
  BY <1>1 DEF Agreed, GridTypes
<1>8. past \in [crossed : BOOLEAN, acts : Nat] /\ past.crossed = over
  BY <1>1, <1>7 DEF GridTypes
<1>9. f \in Seq(GridCalls) /\ OneUpdate(s1', f) /\ (~Flies(s3, "list") => ~Flies(f, "list"))
  BY <1>1, <1>6, GridLeft
<1>10. /\ \A o, a : Did(f, o, a) => Did(s3, o, a)
       /\ ~Agreed(s3[i].ans) => \A o, a : Did(s3, o, a) => Did(f, o, a)
  BY <1>1, LeftDid
<1> HIDE DEF f
<1>11. ASSUME ~over PROVE Tracked(s1', f, s2)
  <2>1. ~OnlyListed(s3, s2)
    BY <1>1, <1>11, GridLeft DEF OnlyListed
  <2>2. ~Flies(f, "list") /\ (Created(s3) \/ Matches(s1.projects, s3, s2))
    BY <1>9, <1>11, <2>1 DEF GridInv, Tracked
  <2>3. \A o, a : Did(f, o, a) <=> Did(s3, o, a)
    BY <1>10, <1>11
  <2>4. Created(s3) => Created(f)
    BY <2>3 DEF Created
  <2>5. Matches(s1.projects, s3, s2) => Matches(s1.projects, f, s2)
    BY <2>3 DEF Matches, Becomes
  <2>6. s1'.projects = s1.projects
    BY <1>6, <1>11
  <2> QED
    BY <2>2, <2>4, <2>5, <2>6 DEF Tracked
<1> QED
  BY <1>1, <1>4, <1>5, <1>6, <1>8, <1>9, <1>11 DEF GridInv, GridTypes, past

\* What the server holds stays a set of projects.
LEMMA GridEffect ==
    ASSUME GridTypes, NEW c \in GridCalls, Grid!Ok(c)
    PROVE  Grid!Effect(c) \in SUBSET Grid!Records
<1>1. c.op \in GridOps /\ s2 \in SUBSET Grid!Records /\ 0 \in PromptCounts
  BY EditingParameters DEF GridCalls, CallsWith, GridTypes, Grid!ProjectGridParameters
<1>2. CASE c.op = "create"
  <2>1. Grid!FreeIds # {}
    BY <1>2 DEF Grid!Ok
  <2>2. Grid!NewId \in Ids
    BY <2>1 DEF Grid!NewId, Grid!FreeIds
  <2>3. c.arg \in Names
    BY <1>2 DEF GridCalls
  <2>4. Grid!Effect(c) = s2 \cup {[id |-> Grid!NewId, name |-> c.arg, count |-> 0]}
    BY <1>2 DEF Grid!Effect
  <2> QED
    BY <1>1, <2>2, <2>3, <2>4 DEF Grid!Records
<1>3. CASE c.op = "update"
  <2>1. c.arg \in Grid!Records
    BY <1>3 DEF GridCalls
  <2>2. Grid!Effect(c) =
            {IF p.id = c.arg.id THEN [p EXCEPT !.name = c.arg.name] ELSE p : p \in s2}
    BY <1>3 DEF Grid!Effect
  <2> QED
    BY <1>1, <2>1, <2>2 DEF Grid!Records
<1>4. CASE c.op \in {"list", "delete"}
  BY <1>1, <1>4 DEF Grid!Effect
<1> QED
  BY <1>1, <1>2, <1>3, <1>4 DEF GridOps

LEMMA GridServed ==
    ASSUME GridInv, NEW i \in DOMAIN s3, Grid!Served(i)
    PROVE  GridInv'
<1> DEFINE c == s3[i]
           ok == Grid!Ok(c)
           body == IF c.op = "update" THEN [c.arg EXCEPT !.count = 0] ELSE s2
           n == Serve(s3, i, ok, body)
<1>1. GridTypes /\ OneUpdate(s1, s3) /\ s3 \in Seq(CallsWith(GridOps, GridArgs, GridAnswers))
  BY GridNet DEF GridInv, GridTypes
<1>2. c \in GridCalls /\ c.op \in GridOps
  BY <1>1, GridLeft DEF GridCalls, CallsWith
<1>3. c.ans = {} /\ s1' = s1 /\ s4' = s4 /\ s3' = n
  BY DEF Grid!Served, Grid!Unserved, Grid!Serve, Serve
<1>4. s2' = IF ok THEN Grid!Effect(c) ELSE s2
  BY DEF Grid!Served
<1>5. ok \in BOOLEAN
  BY DEF Grid!Ok
<1>6. c.op = "list" => ok /\ s2' = s2
  BY <1>4 DEF Grid!Ok, Grid!Effect
<1>7. s2' \in SUBSET Grid!Records
  BY <1>1, <1>2, <1>4, GridEffect DEF GridTypes
<1>8. body \in Grid!Records \cup SUBSET Grid!Records /\ (c.op = "list" => body = s2)
  <2>1. s2 \in SUBSET Grid!Records /\ (c.op = "update" => c.arg \in Grid!Records)
    BY <1>1, <1>2 DEF GridTypes, GridCalls
  <2>2. 0 \in PromptCounts
    BY EditingParameters DEF Grid!ProjectGridParameters
  <2> QED
    BY <2>1, <2>2 DEF Grid!Records
<1> HIDE DEF ok
<1>9. n \in Seq(GridCalls)
  <2> DEFINE x == {[ok |-> ok, body |-> body]}
             d == [c EXCEPT !.ans = x]
  <2>1. Reply(x) = [ok |-> ok, body |-> body] /\ Agreed(x) = ok
    <3> HIDE DEF body
    <3>1. Reply(x) = [ok |-> ok, body |-> body]
      BY DEF Reply
    <3>2. x # {}
      OBVIOUS
    <3> HIDE DEF x
    <3> QED
      BY <1>5, <3>1, <3>2 DEF Agreed
  <2>2. x \in GridAnswers
    BY <1>5, <1>8 DEF GridAnswers
  <2>3. c.op = "update" => body = [c.arg EXCEPT !.count = 0]
    OBVIOUS
  <2>4. s2 \in SUBSET Grid!Records
    BY <1>1 DEF GridTypes
  <2>5. Reply(x).body = body /\ Agreed(x) = ok /\ x # {}
    BY <2>1
  <2> HIDE DEF x, body
  <2>6. d \in CallsWith(GridOps, GridArgs, GridAnswers) /\ d.op = c.op /\ d.arg = c.arg
        /\ d.ans = x /\ d.gone = c.gone
    BY <1>2, <2>2 DEF GridCalls, CallsWith
  <2> HIDE DEF d
  <2>7. d \in GridCalls
    BY <1>2, <1>6, <1>8, <2>3, <2>4, <2>5, <2>6 DEF GridCalls
  <2>8. n = [s3 EXCEPT ![i] = d]
    BY DEF Serve, d, x
  <2>9. s3 \in Seq(GridCalls)
    BY <1>1 DEF GridTypes
  <2> QED
    BY <2>7, <2>8, <2>9
<1> HIDE DEF body
<1>10. /\ DOMAIN n = DOMAIN s3
       /\ \A j \in DOMAIN s3 : n[j].op = s3[j].op /\ n[j].arg = s3[j].arg
       /\ \A o, a : Did(n, o, a) <=> Did(s3, o, a) \/ (ok /\ c.op = o /\ c.arg = a)
       /\ \A o : Flies(n, o) <=> Flies(s3, o)
       /\ n[i].ans = {[ok |-> ok, body |-> body]}
  BY <1>1, <1>3, <1>5, ServedDid
<1> HIDE DEF n
<1>11. OneUpdate(s1, n)
  BY <1>1, <1>10 DEF OneUpdate
<1>12. ASSUME ~s4.crossed, OnlyListed(s3, s2) PROVE OnlyListed(n, s2')
  <2>1. Len(s3) = 1 /\ i = 1 /\ c.op = "list"
    BY <1>1, <1>12, GridLeft DEF OnlyListed
  <2>2. Len(n) = 1
    BY <1>9, <1>10, <2>1, <1>1 DEF GridTypes
  <2>3. Reply(n[1].ans) = [ok |-> ok, body |-> body]
    BY <1>10, <2>1 DEF Reply
  <2> QED
    BY <1>6, <1>8, <1>10, <2>1, <2>2, <2>3 DEF OnlyListed
<1>13. ASSUME ~s4.crossed, ~OnlyListed(s3, s2) PROVE Tracked(s1, n, s2')
  <2>1. ~Flies(n, "list") /\ (Created(s3) \/ Matches(s1.projects, s3, s2)) /\ c.op # "list"
    BY <1>10, <1>13 DEF GridInv, Tracked, Flies
  <2>2. Created(s3) => Created(n)
    BY <1>10 DEF Created
  <2>3. CASE ~ok
    <3>1. \A o, a : Did(n, o, a) <=> Did(s3, o, a)
      BY <1>10, <2>3
    <3>2. s2' = s2
      BY <1>4, <2>3
    <3>3. Matches(s1.projects, s3, s2) => Matches(s1.projects, n, s2)
      BY <3>1 DEF Matches, Becomes
    <3> QED
      BY <2>1, <2>2, <3>2, <3>3 DEF Tracked
  <2>4. CASE ok /\ c.op = "create"
    <3>1. Created(n)
      BY <1>10, <2>4 DEF Created
    <3> QED
      BY <2>1, <3>1 DEF Tracked
  <2>5. ASSUME ok, c.op = "delete", Matches(s1.projects, s3, s2)
        PROVE  Matches(s1.projects, n, s2')
    <3>1. s2' = {r \in s2 : r.id # c.arg}
      BY <1>4, <2>5 DEF Grid!Effect
    <3>2. ASSUME NEW p \in s1.projects, NEW r \in Grid!Records
          PROVE  Becomes(n, p, r) <=> Becomes(s3, p, r) /\ r.id # c.arg
      <4>1. p \in Grid!Records
        BY <1>1 DEF GridTypes, GridPage
      <4>2. Did(n, "delete", p.id) <=> Did(s3, "delete", p.id) \/ p.id = c.arg
        BY <1>10, <2>5
      <4>3. \A a : Did(n, "update", a) <=> Did(s3, "update", a)
        BY <1>10, <2>5
      <4>4. Becomes(s3, p, r) => r.id = p.id
        BY <4>1 DEF Becomes, Grid!Records
      <4>5. \A a : [p EXCEPT !.name = a.name].id = p.id
        BY <4>1 DEF Grid!Records
      <4> QED
        BY <4>2, <4>3, <4>4, <4>5 DEF Becomes
    <3> QED
      BY <1>1, <2>5, <3>1, <3>2 DEF Matches, GridTypes
  <2>6. ASSUME ok, c.op = "update", Matches(s1.projects, s3, s2)
        PROVE  Matches(s1.projects, n, s2')
    <3> DEFINE u == c.arg
               new(p) == IF p.id = u.id THEN [p EXCEPT !.name = u.name] ELSE p
    <3>1. s2' = {new(q) : q \in s2}
      BY <1>4, <2>6 DEF Grid!Effect
    <3>2. u \in Grid!Records
      BY <1>2, <2>6 DEF GridCalls
    <3>3. \A a : ~Did(s3, "update", a)
      <4>1. ~Agreed(c.ans)
        BY <1>3 DEF Agreed
      <4> QED
        BY <1>1, <2>6, <4>1 DEF Did, OneUpdate
    <3>4. \A a : Did(n, "update", a) <=> a = u
      BY <1>10, <2>6, <3>3
    <3>5. \A a : Did(n, "delete", a) <=> Did(s3, "delete", a)
      BY <1>10, <2>6
    <3>6. \A p, r : Becomes(s3, p, r) <=> ~Did(s3, "delete", p.id) /\ r = p
      BY <3>3 DEF Becomes
    <3>7. ASSUME NEW p, NEW r
          PROVE  Becomes(n, p, r) <=> ~Did(s3, "delete", p.id) /\ r = new(p)
      BY <3>2, <3>4, <3>5 DEF Becomes
    <3> HIDE DEF new
    <3>8. s1.projects \in SUBSET Grid!Records /\ s2 \in SUBSET Grid!Records
      BY <1>1 DEF GridTypes, GridPage
    <3>9. \A q \in Grid!Records :
             q \in s2 <=> q \in s1.projects /\ ~Did(s3, "delete", q.id)
      BY <2>6, <3>6, <3>8 DEF Matches
    <3> QED
      BY <3>1, <3>7, <3>8, <3>9 DEF Matches
  <2> QED
    BY <1>2, <2>1, <2>2, <2>3, <2>4, <2>5, <2>6 DEF Tracked, GridOps
<1>14. ASSUME ~s4.crossed PROVE Tracked(s1, n, s2')
  BY <1>12, <1>13, <1>14 DEF Tracked
<1> QED
  BY <1>1, <1>3, <1>7, <1>9, <1>11, <1>14 DEF GridInv, GridTypes

LEMMA GridKeeps == GridInv /\ [Grid!Next]_(Grid!vars) => GridInv'
<1> SUFFICES ASSUME GridInv, [Grid!Next]_(Grid!vars) PROVE GridInv'
  OBVIOUS
<1>1. CASE UNCHANGED Grid!vars
  BY <1>1 DEF Grid!vars, GridInv, GridTypes, OneUpdate, Tracked
<1>2. CASE Grid!Handlers
  BY <1>2, GridDialogsKeep, GridHandlersKeep DEF Grid!Handlers
<1>3. CASE Grid!Answers
  BY <1>3, GridListed, GridCreated, GridDeleted, GridSaved, GridFails, GridServed
     DEF Grid!Answers
<1> QED
  BY <1>1, <1>2, <1>3 DEF Grid!Next

LEMMA GridShows == GridInv => Grid!GridFollowsServer
<1> SUFFICES ASSUME GridInv, s3 = <<>>, ~s4.crossed PROVE s1.projects = s2
  BY DEF Grid!GridFollowsServer
<1>1. \A o, a : ~Did(s3, o, a) /\ Len(s3) # 1
  BY DEF Did
<1>2. Matches(s1.projects, s3, s2)
  BY <1>1 DEF GridInv, Tracked, OnlyListed, Created
<1> QED
  BY <1>2, MatchesQuiet DEF GridInv, GridTypes, GridPage

(***************************************************************************)
(* Project                                                                 *)
(***************************************************************************)
WorkFields ==
    {"prompts", "known", "ready", "draft", "selected", "creating", "running", "rows",
     "number", "total", "shown", "share", "sharing"}

ServerFields == {"prompts", "done", "failed", "queued", "begun", "rows", "live", "next"}

WorkPast(past) ==
    /\ DOMAIN past = {"settled", "lost", "acts", "ran"}
    /\ past.settled \in BOOLEAN /\ past.lost \in BOOLEAN

\* No write in flight has changed the server.
Quiet(n) ==
    \A i \in DOMAIN n : \/ n[i].op \in {"load", "ready"}
                        \/ n[i].op # "create" /\ ~Agreed(n[i].ans)

\* What a load is answered with.
Snapshot(s) == [prompts |-> s.prompts, rows |-> s.rows]

\* What is known of the prompts that no background run has touched.
SameAvailability(a, s, ran) ==
    /\ a.known = Work!Active(s.prompts)
    /\ a.ready \ ran =
          (Work!Ready(s.prompts, s.done) \cap Work!Active(s.prompts)) \ ran

\* The newest load is for the page of the pager and brings what the server has.
LoadsBring(section, v, n, s) ==
    \A i \in DOMAIN n : n[i].op = "load" /\ Newest(n, i) =>
        /\ n[i].arg = v.number
        /\ section # "report" /\ Quiet(n) /\ n[i].ans # {} => Reply(n[i].ans).body = Snapshot(s)

\* The availability of the prompts shown is known or on its way.
AvailabilityComes(v, n, s, ran) ==
    /\ \A i \in DOMAIN n : n[i].op = "ready" =>
          /\ n[i].arg = s.prompts
          /\ n[i].ans # {} => SameAvailability(Reply(n[i].ans).body, s, ran)
    /\ Flies(n, "ready") \/ SameAvailability(v, s, ran)

\* The newest load was received last.
Settled(section, v, n, s, ran) ==
    /\ section # "report"
    /\ section = "runs" => v.shown = v.number
    /\ Quiet(n) =>
          /\ section \in {"competitors", "alerts"} => v.rows = s.rows
          /\ section = "prompts" => v.prompts = s.prompts /\ AvailabilityComes(v, n, s, ran)

\* Lines of a batch that nobody awaits are left when another line was refused, and
\* that is still to be received.
LinesLeft(n) ==
    /\ \A i \in DOMAIN n : n[i].gone => n[i].op = "create"
    /\ (\E i \in DOMAIN n : n[i].gone) =>
          \E k \in DOMAIN n : /\ n[k].op = "create" /\ ~n[k].gone
                              /\ n[k].ans # {} /\ ~Agreed(n[k].ans)

OnlyReportShares(section, n) ==
    \A i \in DOMAIN n : n[i].op \in {"share", "revoke"} => section = "report"

\* What holds whatever was lost: a newest load is for the page of the pager, and only
\* lines of batches are awaited by nobody.
Ordinary(section, v, n) ==
    /\ SomeCalls(n) /\ OnlyReportShares(section, n)
    /\ \A i \in DOMAIN n : n[i].gone => n[i].op = "create"
    /\ \A i \in DOMAIN n : n[i].op = "load" /\ Newest(n, i) => n[i].arg = v.number

WorkBase(section, v, s, n) ==
    /\ section \in Work!Sections /\ DOMAIN v = WorkFields /\ DOMAIN s = ServerFields
    /\ Ordinary(section, v, n)

WorkFollows(section, v, s, n, settled, ran) ==
    /\ section \in Work!Sections /\ DOMAIN v = WorkFields /\ SomeCalls(n)
    /\ LinesLeft(n) /\ OnlyReportShares(section, n) /\ LoadsBring(section, v, n, s)
    /\ settled => Settled(section, v, n, s, ran)

WorkInv ==
    /\ WorkPast(s5) /\ WorkBase(s1, s2, s3, s4)
    /\ ~s5.lost => WorkFollows(s1, s2, s3, s4, s5.settled, s5.ran)

\* The page keeps what it shows of the server.
SameShown(v, w) ==
    /\ DOMAIN w = DOMAIN v /\ w.number = v.number /\ w.shown = v.shown /\ w.rows = v.rows
    /\ w.prompts = v.prompts /\ w.known = v.known /\ w.ready = v.ready

LEMMA SameFollows ==
    ASSUME NEW section, NEW v, NEW w, NEW s, NEW n, NEW settled, NEW ran, SameShown(v, w),
           WorkFollows(section, v, s, n, settled, ran)
    PROVE  WorkFollows(section, w, s, n, settled, ran)
BY DEF SameShown, WorkFollows, LoadsBring, Settled, AvailabilityComes, SameAvailability

(***************************************************************************)
(* What holds whatever was lost                                            *)
(***************************************************************************)
LEMMA BaseIssues ==
    ASSUME NEW section, NEW v, NEW n, Ordinary(section, v, n), NEW op, NEW arg, NEW w,
           op \in {"share", "revoke"} => section = "report",
           (op = "load" /\ arg = w.number) \/ (op # "load" /\ w.number = v.number)
    PROVE  Ordinary(section, w, Issue(n, op, arg))
<1> DEFINE m == Issue(n, op, arg)
<1>1. SomeCalls(m) /\ Adds(m, n, Call(op, arg))
  BY SomeIssued DEF Ordinary
<1> HIDE DEF m
<1>2. /\ Call(op, arg).op = op /\ Call(op, arg).arg = arg /\ ~Call(op, arg).gone
  BY DEF Call
<1>3. PICK k : /\ DOMAIN m = DOMAIN n \cup {k} /\ k \notin DOMAIN n
               /\ m[k] = Call(op, arg)
               /\ \A i \in DOMAIN n : /\ m[i] = n[i]
                                      /\ Newest(m, i) => Newest(n, i) /\ n[i].op # op
  BY <1>1, <1>2 DEF Adds
<1>4. OnlyReportShares(section, m)
  BY <1>2, <1>3 DEF Ordinary, OnlyReportShares
<1>5. \A i \in DOMAIN m : m[i].gone => m[i].op = "create"
  BY <1>2, <1>3 DEF Ordinary
<1>6. \A i \in DOMAIN m : m[i].op = "load" /\ Newest(m, i) => m[i].arg = w.number
  BY <1>2, <1>3 DEF Ordinary
<1>7. Ordinary(section, w, m)
  BY <1>1, <1>4, <1>5, <1>6 DEF Ordinary
<1> QED
  BY <1>7 DEF m

LEMMA BaseLeft ==
    ASSUME NEW section, NEW v, NEW n, Ordinary(section, v, n), NEW i \in DOMAIN n
    PROVE  Ordinary(section, v, Finish(n, i))
<1> DEFINE f == Finish(n, i)
<1>1. /\ SomeCalls(f)
      /\ \A k \in DOMAIN f : \E j \in DOMAIN n \ {i} :
            /\ f[k].op = n[j].op /\ f[k].arg = n[j].arg /\ f[k].gone = n[j].gone
            /\ Newest(f, k) => Newest(n, j)
  BY SomeLeft DEF Ordinary
<1> HIDE DEF f
<1>2. Ordinary(section, v, f)
  BY <1>1 DEF Ordinary, OnlyReportShares
<1> QED
  BY <1>2 DEF f

LEMMA BaseServed ==
    ASSUME NEW section, NEW v, NEW n, Ordinary(section, v, n), NEW i \in DOMAIN n,
           NEW ok, NEW body
    PROVE  Ordinary(section, v, Serve(n, i, ok, body))
<1> DEFINE m == Serve(n, i, ok, body)
<1>1. /\ SomeCalls(m) /\ DOMAIN m = DOMAIN n
      /\ \A j \in DOMAIN n : /\ m[j].op = n[j].op /\ m[j].arg = n[j].arg
                             /\ m[j].gone = n[j].gone
                             /\ Newest(m, j) <=> Newest(n, j)
  BY SomeServed DEF Ordinary
<1> HIDE DEF m
<1>2. Ordinary(section, v, m)
  BY <1>1 DEF Ordinary, OnlyReportShares
<1> QED
  BY <1>2 DEF m

\* The page receives an answer, or a call of it fails.
LEMMA BaseReceives ==
    ASSUME WorkInv, NEW i \in DOMAIN s4,
           \/ Work!Created(i) \/ Work!Updated(i) \/ Work!RowWritten(i)
           \/ Work!PromptsLoaded(i) \/ Work!AvailabilityLoaded(i)
           \/ Work!RowsLoaded(i) \/ Work!RunsLoaded(i)
           \/ Work!ShareCreated(i) \/ Work!ShareRevoked(i) \/ Work!CallFails(i)
    PROVE  WorkBase(s1, s2, s3, s4)'
<1> DEFINE f == Finish(s4, i)
<1>0. DOMAIN s2 = WorkFields /\ Ordinary(s1, s2, s4)
  BY DEF WorkInv, WorkBase
<1>1. s1' = s1 /\ s3' = s3
  BY DEF Work!Created, Work!Updated, Work!RowWritten, Work!PromptsLoaded,
         Work!AvailabilityLoaded, Work!RowsLoaded, Work!RunsLoaded, Work!ShareCreated,
         Work!ShareRevoked, Work!CallFails
<1>2. \/ s4' = f \/ s4' = Issue(f, "load", s2.number)
      \/ \E arg : s4' = Issue(f, "ready", arg)
  BY DEF Work!Created, Work!Updated, Work!RowWritten, Work!PromptsLoaded,
         Work!AvailabilityLoaded, Work!RowsLoaded, Work!RunsLoaded, Work!ShareCreated,
         Work!ShareRevoked, Work!CallFails, Work!Load, Work!Issue, Work!Call, Work!Finish,
         Work!RemoveAt, Finish, RemoveAt, Issue, Call
<1>3. DOMAIN s2' = WorkFields /\ s2'.number = s2.number
  <2>1. CASE Work!Created(i) \/ Work!Updated(i) \/ Work!RowWritten(i)
    BY <1>0, <2>1 DEF Work!Created, Work!Updated, Work!RowWritten, WorkFields
  <2>2. CASE Work!PromptsLoaded(i) \/ Work!AvailabilityLoaded(i)
    BY <1>0, <2>2 DEF Work!PromptsLoaded, Work!AvailabilityLoaded, WorkFields
  <2>3. CASE Work!RowsLoaded(i) \/ Work!RunsLoaded(i)
    BY <1>0, <2>3 DEF Work!RowsLoaded, Work!RunsLoaded, WorkFields
  <2>4. CASE Work!ShareCreated(i) \/ Work!ShareRevoked(i)
    BY <1>0, <2>4 DEF Work!ShareCreated, Work!ShareRevoked, WorkFields
  <2>5. CASE Work!CallFails(i)
    <3>1. \/ s2' = [s2 EXCEPT !.creating = FALSE]
          \/ s2' = [s2 EXCEPT !.running = @ \ {s4[i].arg}]
          \/ s2' = [s2 EXCEPT !.sharing = FALSE]
          \/ s2' = s2
      BY <2>5 DEF Work!CallFails
    <3> QED
      BY <1>0, <3>1 DEF WorkFields
  <2> QED
    BY <2>1, <2>2, <2>3, <2>4, <2>5
<1>4. Ordinary(s1, s2, f)
  BY <1>0, BaseLeft
<1> HIDE DEF f
<1>5. Ordinary(s1, s2', s4')
  <2>1. CASE s4' = f
    BY <1>3, <1>4, <2>1 DEF Ordinary
  <2>2. CASE s4' = Issue(f, "load", s2.number)
    BY <1>3, <1>4, <2>2, BaseIssues
  <2>3. CASE \E arg : s4' = Issue(f, "ready", arg)
    BY <1>3, <1>4, <2>3, BaseIssues
  <2> QED
    BY <1>2, <2>1, <2>2, <2>3
<1> QED
  BY <1>1, <1>3, <1>5 DEF WorkInv, WorkBase

(***************************************************************************)
(* What the section shows                                                  *)
(***************************************************************************)

LEMMA WorkBegins == Work!Init => WorkInv
<1> SUFFICES ASSUME Work!Init PROVE WorkInv
  OBVIOUS
<1>1. s1 \in Work!Sections /\ DOMAIN s2 = WorkFields /\ s2.number = 1
  BY DEF Work!Init, WorkFields
<1>2. WorkPast(s5) /\ ~s5.settled /\ DOMAIN s3 = ServerFields
  BY DEF Work!Init, WorkPast, ServerFields
<1>3. SomeCalls(<<>>)
  BY DEF SomeCalls
<1>4. s4 = <<>> \/ s4 = Issue(<<>>, "load", 1)
  BY DEF Work!Init, Work!Issue, Work!Call, Issue, Call
<1>5. CASE s4 = <<>>
  BY <1>1, <1>2, <1>3, <1>5
     DEF WorkInv, WorkBase, Ordinary, WorkFollows, LinesLeft, OnlyReportShares, LoadsBring
<1>6. CASE s4 = Issue(<<>>, "load", 1)
  <2>1. SomeCalls(s4) /\ DOMAIN s4 = {1} /\ s4[1] = Call("load", 1)
    <3>1. s4 = <<Call("load", 1)>>
      BY <1>6, OneCall
    <3>2. SomeCalls(s4)
      BY <1>3, <1>6, SomeIssued
    <3> QED
      BY <3>1, <3>2
  <2>2. ~s4[1].gone /\ s4[1].op = "load" /\ s4[1].arg = 1 /\ s4[1].ans = {}
    BY <2>1 DEF Call
  <2> QED
    BY <1>1, <1>2, <2>1, <2>2
       DEF WorkInv, WorkBase, Ordinary, WorkFollows, LinesLeft, OnlyReportShares, LoadsBring
<1> QED
  BY <1>4, <1>5, <1>6

\* Handlers that only set state of the page.
LEMMA WorkSets ==
    ASSUME WorkInv, NEW w, Work!SetPage(w), DOMAIN s2 = WorkFields => SameShown(s2, w)
    PROVE  WorkInv'
<1>1. s1' = s1 /\ s2' = w /\ s3' = s3 /\ s4' = s4 /\ s5' = s5
  BY DEF Work!SetPage
<1>2. WorkBase(s1, w, s3, s4)
  BY DEF WorkInv, WorkBase, Ordinary, SameShown
<1> QED
  BY <1>1, <1>2, SameFollows DEF WorkInv, WorkFollows

\* A call is made that is no load: what was known stays.
LEMMA WorkIssues ==
    ASSUME NEW section, NEW v, NEW s, NEW n, NEW settled, NEW ran, NEW op, NEW arg,
           WorkFollows(section, v, s, n, settled, ran),
           op \notin {"load", "ready"}, op \in {"share", "revoke"} => section = "report"
    PROVE  WorkFollows(section, v, s, Issue(n, op, arg), settled, ran)
<1> DEFINE m == Issue(n, op, arg)
<1>0. SomeCalls(n)
  BY DEF WorkFollows
<1>1. SomeCalls(m) /\ Adds(m, n, Call(op, arg))
  BY <1>0, SomeIssued
<1> HIDE DEF m
<1>2. PICK k : /\ DOMAIN m = DOMAIN n \cup {k} /\ k \notin DOMAIN n
               /\ m[k] = Call(op, arg)
               /\ \A i \in DOMAIN n : m[i] = n[i] /\ (Newest(m, i) => Newest(n, i))
  BY <1>1 DEF Adds
<1>3. m[k].op = op /\ m[k].ans = {} /\ ~m[k].gone
  BY <1>2 DEF Call
<1>4. Quiet(m) => Quiet(n)
  BY <1>2 DEF Quiet
<1>5. LinesLeft(m)
  BY <1>2, <1>3 DEF WorkFollows, LinesLeft
<1>6. OnlyReportShares(section, m)
  BY <1>2, <1>3 DEF WorkFollows, OnlyReportShares
<1>7. LoadsBring(section, v, m, s)
  BY <1>2, <1>3, <1>4 DEF WorkFollows, LoadsBring
<1>8. AvailabilityComes(v, n, s, ran) => AvailabilityComes(v, m, s, ran)
  BY <1>2, <1>3 DEF AvailabilityComes, Flies
<1>9. Settled(section, v, n, s, ran) => Settled(section, v, m, s, ran)
  BY <1>4, <1>8 DEF Settled
<1>10. WorkFollows(section, v, s, m, settled, ran)
  BY <1>1, <1>5, <1>6, <1>7, <1>9 DEF WorkFollows
<1> QED
  BY <1>10 DEF m

\* The user starts a write.
LEMMA WorkWrites ==
    ASSUME WorkInv, NEW w, NEW op, NEW arg, Work!Write(w, op, arg),
           op \notin {"load", "ready"}, op \in {"share", "revoke"} => s1 = "report",
           DOMAIN s2 = WorkFields => SameShown(s2, w)
    PROVE  WorkInv'
<1>1. /\ s1' = s1 /\ s2' = w /\ s3' = s3 /\ s4' = Issue(s4, op, arg)
      /\ s5' = [s5 EXCEPT !.acts = @ + 1]
  BY DEF Work!Write, Work!Issue, Work!Call, Issue, Call
<1>2. /\ WorkPast(s5') /\ s5'.lost = s5.lost /\ s5'.settled = s5.settled
      /\ s5'.ran = s5.ran
  BY <1>1 DEF WorkInv, WorkPast
<1>3. ASSUME ~s5.lost PROVE WorkFollows(s1, w, s3, s4', s5.settled, s5.ran)
  <2>1. WorkFollows(s1, s2, s3, s4, s5.settled, s5.ran) /\ DOMAIN s2 = WorkFields
    BY <1>3 DEF WorkInv, WorkFollows
  <2>2. WorkFollows(s1, w, s3, s4, s5.settled, s5.ran)
    BY <2>1, SameFollows
  <2> QED
    BY <1>1, <2>2, WorkIssues
<1>4. WorkBase(s1, w, s3, s4')
  <2>1. Ordinary(s1, w, s4')
    BY <1>1, BaseIssues DEF WorkInv, WorkBase, SameShown
  <2> QED
    BY <2>1 DEF WorkInv, WorkBase, SameShown
<1> QED
  BY <1>1, <1>2, <1>3, <1>4 DEF WorkInv

LEMMA WorkHandlersKeep ==
    ASSUME WorkInv, Work!PromptManagement
    PROVE  WorkInv'
<1> DEFINE draft(lines) == [s2 EXCEPT !.draft = lines]
           picked(models) == [s2 EXCEPT !.selected = models]
           started(t) == [s2 EXCEPT !.running = @ \cup {t}]
           creating == [s2 EXCEPT !.creating = TRUE]
<1>1. ASSUME DOMAIN s2 = WorkFields
      PROVE  /\ \A x : /\ SameShown(s2, draft(x)) /\ SameShown(s2, picked(x))
                       /\ SameShown(s2, started(x))
             /\ SameShown(s2, creating) /\ SameShown(s2, s2)
  BY <1>1 DEF WorkFields, SameShown
<1>2. ASSUME NEW lines, Work!SetText(lines) PROVE WorkInv'
  <2>1. Work!SetPage(draft(lines))
    BY <1>2 DEF Work!SetText
  <2> HIDE DEF draft
  <2> QED
    BY <1>1, <2>1, WorkSets
<1>3. ASSUME NEW m, Work!ToggleModel(m) PROVE WorkInv'
  <2>1. \E x : Work!SetPage(picked(x))
    BY <1>3 DEF Work!ToggleModel
  <2> HIDE DEF picked
  <2> QED
    BY <1>1, <2>1, WorkSets
<1>4. ASSUME NEW q, Work!SelectVisible(q) \/ Work!DeselectVisible(q) PROVE WorkInv'
  <2>1. \E x : Work!SetPage(picked(x))
    BY <1>4 DEF Work!SelectVisible, Work!DeselectVisible
  <2> HIDE DEF picked
  <2> QED
    BY <1>1, <2>1, WorkSets
<1>5. ASSUME Work!Create PROVE WorkInv'
  <2>1. Work!Write(creating, "create", [texts |-> s2.draft, models |-> s2.selected])
    BY <1>5 DEF Work!Create
  <2> HIDE DEF creating
  <2> QED
    BY <1>1, <2>1, WorkWrites
<1>6. ASSUME NEW t, Work!Archive(t) \/ Work!Restore(t) PROVE WorkInv'
  <2>1. Work!Write(s2, "archive", t) \/ Work!Write(s2, "restore", t)
    BY <1>6 DEF Work!Archive, Work!Restore
  <2> QED
    BY <1>1, <2>1, WorkWrites
<1>7. ASSUME NEW t, Work!Run(t) PROVE WorkInv'
  <2>1. Work!Write(started(t), "run", t)
    BY <1>7 DEF Work!Run
  <2> HIDE DEF started
  <2> QED
    BY <1>1, <2>1, WorkWrites
<1>8. ASSUME NEW t, NEW m, Work!AddModel(t, m) \/ Work!RemoveModel(t, m) PROVE WorkInv'
  <2>1. Work!Write(s2, "addModel", <<t, m>>) \/ Work!Write(s2, "removeModel", <<t, m>>)
    BY <1>8 DEF Work!AddModel, Work!RemoveModel
  <2> QED
    BY <1>1, <2>1, WorkWrites
<1> QED
  BY <1>2, <1>3, <1>4, <1>5, <1>6, <1>7, <1>8 DEF Work!PromptManagement

LEMMA WorkSectionsKeep ==
    ASSUME WorkInv, Work!CompetitorSettings \/ Work!AlertInbox \/ Work!ReportActions
    PROVE  WorkInv'
<1> DEFINE sharing == [s2 EXCEPT !.sharing = TRUE]
<1>1. ASSUME DOMAIN s2 = WorkFields PROVE SameShown(s2, sharing) /\ SameShown(s2, s2)
  BY <1>1 DEF WorkFields, SameShown
<1>2. ASSUME NEW b, Work!AddCompetitor(b) PROVE WorkInv'
  <2>1. Work!Write(s2, "add", b)
    BY <1>2 DEF Work!AddCompetitor
  <2> QED
    BY <1>1, <2>1, WorkWrites
<1>3. ASSUME NEW row, Work!RemoveCompetitor(row) PROVE WorkInv'
  <2>1. Work!Write(s2, "remove", row)
    BY <1>3 DEF Work!RemoveCompetitor
  <2> QED
    BY <1>1, <2>1, WorkWrites
<1>4. ASSUME NEW row, Work!ReadAlert(row) PROVE WorkInv'
  <2>1. Work!Write(s2, "read", row[1])
    BY <1>4 DEF Work!ReadAlert
  <2> QED
    BY <1>1, <2>1, WorkWrites
<1>5. ASSUME Work!CreateShare PROVE WorkInv'
  <2>1. Work!Write(sharing, "share", {}) /\ s1 = "report"
    BY <1>5 DEF Work!CreateShare, Work!On
  <2> HIDE DEF sharing
  <2> QED
    BY <1>1, <2>1, WorkWrites
<1>6. ASSUME Work!RevokeShare PROVE WorkInv'
  <2>1. Work!Write(s2, "revoke", s2.share) /\ s1 = "report"
    BY <1>6 DEF Work!RevokeShare, Work!On
  <2> QED
    BY <1>1, <2>1, WorkWrites
<1> QED
  BY <1>2, <1>3, <1>4, <1>5, <1>6
     DEF Work!CompetitorSettings, Work!AlertInbox, Work!ReportActions

\* A load is made: nothing is settled until its answer comes, which is still open.
LEMMA WorkReloads ==
    ASSUME NEW section, NEW v, NEW s, NEW n, section \in Work!Sections,
           DOMAIN v = WorkFields, SomeCalls(n), LinesLeft(n), OnlyReportShares(section, n)
    PROVE  \A ran : WorkFollows(section, v, s, Issue(n, "load", v.number), FALSE, ran)
<1> DEFINE m == Issue(n, "load", v.number)
<1>1. SomeCalls(m) /\ Adds(m, n, Call("load", v.number))
  BY SomeIssued
<1> HIDE DEF m
<1>2. Call("load", v.number).op = "load"
  BY DEF Call
<1>3. PICK k : /\ DOMAIN m = DOMAIN n \cup {k} /\ k \notin DOMAIN n
               /\ m[k] = Call("load", v.number)
               /\ \A i \in DOMAIN n : m[i] = n[i] /\ (Newest(m, i) => n[i].op # "load")
  BY <1>1, <1>2 DEF Adds
<1>4. m[k].op = "load" /\ m[k].ans = {} /\ ~m[k].gone /\ m[k].arg = v.number
  BY <1>3 DEF Call
<1>5. LinesLeft(m)
  BY <1>3, <1>4 DEF LinesLeft
<1>6. OnlyReportShares(section, m)
  BY <1>3, <1>4 DEF OnlyReportShares
<1>7. LoadsBring(section, v, m, s)
  BY <1>3, <1>4 DEF LoadsBring
<1>8. \A ran : WorkFollows(section, v, s, m, FALSE, ran)
  BY <1>1, <1>5, <1>6, <1>7 DEF WorkFollows
<1> QED
  BY <1>8 DEF m

\* What is left when a call leaves that was answered without an error.
LEMMA WorkLeft ==
    ASSUME NEW section, NEW n, SomeCalls(n), NEW i \in DOMAIN n, Agreed(n[i].ans),
           LinesLeft(n), OnlyReportShares(section, n)
    PROVE  /\ SomeCalls(Finish(n, i)) /\ LinesLeft(Finish(n, i))
           /\ OnlyReportShares(section, Finish(n, i))
<1> DEFINE f == Finish(n, i)
<1>1. /\ SomeCalls(f)
      /\ \A k \in DOMAIN f : \E j \in DOMAIN n \ {i} :
            f[k].op = n[j].op /\ f[k].ans = n[j].ans /\ f[k].gone = n[j].gone
      /\ \A j \in DOMAIN n \ {i} : \E k \in DOMAIN f :
            f[k].op = n[j].op /\ f[k].ans = n[j].ans /\ f[k].gone = n[j].gone
  BY SomeLeft
<1> HIDE DEF f
<1>2. LinesLeft(f)
  <2>1. \A k \in DOMAIN f : f[k].gone => f[k].op = "create"
    BY <1>1 DEF LinesLeft
  <2>2. ASSUME \E k \in DOMAIN f : f[k].gone
        PROVE  \E k \in DOMAIN f : /\ f[k].op = "create" /\ ~f[k].gone
                                   /\ f[k].ans # {} /\ ~Agreed(f[k].ans)
    <3>1. PICK j \in DOMAIN n : /\ n[j].op = "create" /\ ~n[j].gone
                                /\ n[j].ans # {} /\ ~Agreed(n[j].ans)
      BY <1>1, <2>2 DEF LinesLeft
    <3>2. j \in DOMAIN n \ {i}
      BY <3>1
    <3>3. PICK k \in DOMAIN f : f[k].op = n[j].op /\ f[k].ans = n[j].ans /\ f[k].gone = n[j].gone
      BY <1>1, <3>2
    <3> QED
      BY <3>1, <3>3
  <2> QED
    BY <2>1, <2>2 DEF LinesLeft
<1>3. OnlyReportShares(section, f)
  BY <1>1 DEF OnlyReportShares
<1> QED
  BY <1>1, <1>2, <1>3 DEF f

\* A write is answered, and the section is loaded again.
LEMMA WorkWritten ==
    ASSUME WorkInv, NEW i \in DOMAIN s4,
           Work!Created(i) \/ Work!Updated(i) \/ Work!RowWritten(i)
    PROVE  WorkInv'
<1> DEFINE f == Finish(s4, i)
           awaited == ~\E j \in DOMAIN f : f[j].gone
           past == [s5 EXCEPT !.settled = FALSE, !.lost = @ /\ ~awaited]
<1>0. WorkBase(s1, s2, s3, s4)'
  BY BaseReceives
<1>1. Agreed(s4[i].ans) /\ s1' = s1
  BY DEF Work!Created, Work!Updated, Work!RowWritten, Work!Received, Work!Unserved, Work!Answer,
         Agreed, Reply
<1>2. s4' = Issue(f, "load", s2.number) /\ s5' = past
  BY DEF Work!Created, Work!Updated, Work!RowWritten, Work!Load, Work!Issue, Work!Call,
         Work!Finish, Work!RemoveAt, Finish, RemoveAt, Issue, Call
<1>3. s2'.number = s2.number
  BY DEF Work!Created, Work!Updated, Work!RowWritten, WorkInv, WorkBase, WorkFields
<1>4. WorkPast(past) /\ (~past.lost => ~s5.lost \/ awaited) /\ past.settled = FALSE
  BY DEF WorkInv, WorkPast
<1> HIDE DEF past
<1>5. ASSUME ~past.lost PROVE \A ran : WorkFollows(s1, s2', s3', s4', FALSE, ran)
  <2>1. Ordinary(s1, s2, s4)
    BY DEF WorkInv, WorkBase
  <2>2. Ordinary(s1, s2, f)
    BY <2>1, BaseLeft
  <2>3. LinesLeft(f)
    <3>1. CASE ~s5.lost
      <4>1. LinesLeft(s4)
        BY <3>1 DEF WorkInv, WorkFollows
      <4> QED
        BY <1>1, <2>1, <4>1, WorkLeft DEF Ordinary
    <3>2. CASE awaited
      BY <3>2 DEF LinesLeft
    <3> QED
      BY <1>4, <1>5, <3>1, <3>2
  <2>4. SomeCalls(f) /\ OnlyReportShares(s1, f)
    BY <2>2 DEF Ordinary
  <2> HIDE DEF f
  <2>5. s1 \in Work!Sections /\ DOMAIN s2' = WorkFields
    BY <1>0, <1>1 DEF WorkBase
  <2>6. \A ran : WorkFollows(s1, s2', s3', Issue(f, "load", s2'.number), FALSE, ran)
    BY <2>3, <2>4, <2>5, WorkReloads
  <2> QED
    BY <1>2, <1>3, <2>6
<1> QED
  BY <1>0, <1>1, <1>2, <1>4, <1>5 DEF WorkInv

LEMMA WorkTurned ==
    ASSUME WorkInv, Work!ProjectRuns
    PROVE  WorkInv'
<1>1. PICK n : Work!SetRunsPage(n)
  BY DEF Work!ProjectRuns
<1> DEFINE w == [s2 EXCEPT !.number = n]
           awaited == ~\E j \in DOMAIN s4 : s4[j].gone
           past == [s5 EXCEPT !.settled = FALSE, !.lost = @ /\ ~awaited]
<1>2. s1' = s1 /\ s2' = w /\ s3' = s3 /\ s4' = Issue(s4, "load", n) /\ s5' = past
  BY <1>1 DEF Work!SetRunsPage, Work!Load, Work!Issue, Work!Call, Issue, Call
<1>3. WorkPast(past) /\ (~past.lost => ~s5.lost \/ awaited) /\ past.settled = FALSE
  BY DEF WorkInv, WorkPast
<1> HIDE DEF past
<1>4. DOMAIN w = WorkFields /\ w.number = n
  BY DEF WorkInv, WorkBase, WorkFields
<1> HIDE DEF w
<1>5. WorkBase(s1, w, s3, s4')
  <2>1. Ordinary(s1, w, s4')
    BY <1>2, <1>4, BaseIssues DEF WorkInv, WorkBase
  <2> QED
    BY <1>4, <2>1 DEF WorkInv, WorkBase
<1>6. ASSUME ~past.lost PROVE \A ran : WorkFollows(s1, w, s3, s4', FALSE, ran)
  <2>1. s1 \in Work!Sections /\ SomeCalls(s4) /\ OnlyReportShares(s1, s4)
    BY DEF WorkInv, WorkBase, Ordinary
  <2>2. LinesLeft(s4)
    BY <1>3, <1>6 DEF WorkInv, WorkFollows, LinesLeft
  <2> QED
    BY <1>2, <1>4, <2>1, <2>2, WorkReloads
<1> QED
  BY <1>2, <1>3, <1>5, <1>6 DEF WorkInv

\* What is left when a load or the question for availability leaves.
LEMMA WorkReceives ==
    ASSUME NEW section, NEW v, NEW s, NEW n, NEW settled, NEW ran, NEW i \in DOMAIN n,
           WorkFollows(section, v, s, n, settled, ran),
           n[i].op \in {"load", "ready"}, Agreed(n[i].ans)
    PROVE  /\ WorkFollows(section, v, s, Finish(n, i), FALSE, ran)
           /\ Quiet(Finish(n, i)) => Quiet(n)
<1> DEFINE f == Finish(n, i)
<1>0. SomeCalls(n) /\ LinesLeft(n) /\ OnlyReportShares(section, n)
  BY DEF WorkFollows
<1>1. SomeCalls(f) /\ LinesLeft(f) /\ OnlyReportShares(section, f)
  BY <1>0, WorkLeft
<1>2. /\ \A k \in DOMAIN f : \E j \in DOMAIN n \ {i} :
            /\ f[k].op = n[j].op /\ f[k].arg = n[j].arg /\ f[k].ans = n[j].ans
            /\ Newest(f, k) => Newest(n, j)
      /\ \A j \in DOMAIN n \ {i} : \E k \in DOMAIN f :
            f[k].op = n[j].op /\ f[k].arg = n[j].arg /\ f[k].ans = n[j].ans
  BY <1>0, SomeLeft
<1> HIDE DEF f
<1>3. Quiet(f) => Quiet(n)
  BY <1>2 DEF Quiet
<1>4. LoadsBring(section, v, f, s)
  <2> SUFFICES ASSUME NEW k \in DOMAIN f, f[k].op = "load" /\ Newest(f, k)
               PROVE  /\ f[k].arg = v.number
                      /\ section # "report" /\ Quiet(f) /\ f[k].ans # {} =>
                            Reply(f[k].ans).body = Snapshot(s)
    BY DEF LoadsBring
  <2>1. PICK j \in DOMAIN n : /\ f[k].op = n[j].op /\ f[k].arg = n[j].arg
                              /\ f[k].ans = n[j].ans /\ (Newest(f, k) => Newest(n, j))
    BY <1>2
  <2> QED
    BY <1>3, <2>1 DEF WorkFollows, LoadsBring
<1>5. WorkFollows(section, v, s, f, FALSE, ran)
  BY <1>1, <1>4 DEF WorkFollows
<1> QED
  BY <1>3, <1>5 DEF f

\* What the newest load brought when it was received.
LEMMA WorkBrought ==
    ASSUME NEW section, NEW v, NEW s, NEW n, NEW settled, NEW ran, NEW i \in DOMAIN n,
           WorkFollows(section, v, s, n, settled, ran),
           n[i].op = "load", Agreed(n[i].ans), Newest(n, i)
    PROVE  /\ n[i].arg = v.number
           /\ section # "report" /\ Quiet(n) =>
                 Reply(n[i].ans).body.prompts = s.prompts /\ Reply(n[i].ans).body.rows = s.rows
BY DEF WorkFollows, LoadsBring, Agreed, Snapshot

LEMMA WorkRowsLoaded ==
    ASSUME WorkInv, NEW i \in DOMAIN s4, Work!RowsLoaded(i) \/ Work!RunsLoaded(i)
    PROVE  WorkInv'
<1> DEFINE past == [s5 EXCEPT !.settled = Newest(s4, i)]
<1>0. WorkBase(s1, s2, s3, s4)'
  BY BaseReceives
<1>1. s4[i].op = "load" /\ Agreed(s4[i].ans) /\ s1' = s1 /\ s3' = s3 /\ s1 # "report"
  BY DEF Work!RowsLoaded, Work!RunsLoaded, Work!Received, Work!Unserved, Work!Answer, Work!On,
         Agreed, Reply
<1>2. s4' = Finish(s4, i) /\ s5' = past
  BY DEF Work!RowsLoaded, Work!RunsLoaded, Work!Finish, Work!RemoveAt, Finish, RemoveAt,
         Work!Newest, Newest
<1>3. \/ /\ s2' = [s2 EXCEPT !.rows = Reply(s4[i].ans).body.rows]
         /\ s1 \in {"competitors", "alerts"}
      \/ s2' = [s2 EXCEPT !.shown = s4[i].arg, !.total = RunPages] /\ s1 = "runs"
  BY DEF Work!RowsLoaded, Work!RunsLoaded, Work!Body, Work!Answer, Reply, Work!On
<1>4. WorkPast(past) /\ past.lost = s5.lost /\ past.settled = Newest(s4, i) /\ past.ran = s5.ran
  <2>1. Newest(s4, i) \in BOOLEAN
    BY <1>1 DEF Newest
  <2> QED
    BY <2>1 DEF WorkInv, WorkPast
<1> HIDE DEF past
<1>5. ASSUME ~s5.lost PROVE WorkFollows(s1, s2', s3, s4', Newest(s4, i), s5.ran)
  <2>1. WorkFollows(s1, s2, s3, s4, s5.settled, s5.ran) /\ DOMAIN s2 = WorkFields
    BY <1>5 DEF WorkInv, WorkFollows
  <2>2. /\ WorkFollows(s1, s2, s3, s4', FALSE, s5.ran) /\ (Quiet(s4') => Quiet(s4))
    BY <1>1, <1>2, <2>1, WorkReceives
  <2>3. DOMAIN s2' = WorkFields /\ s2'.number = s2.number
    BY <1>3, <2>1 DEF WorkFields
  <2>4. /\ s1 = "runs" => s2'.shown = s4[i].arg
        /\ s1 \in {"competitors", "alerts"} => s2'.rows = Reply(s4[i].ans).body.rows
        /\ s1 # "prompts"
    BY <1>3, <2>1 DEF WorkFields
  <2>5. ASSUME Newest(s4, i) PROVE Settled(s1, s2', s4', s3, s5.ran)
    <3>1. /\ s4[i].arg = s2.number
          /\ Quiet(s4) => Reply(s4[i].ans).body.rows = s3.rows
      BY <1>1, <2>1, <2>5, WorkBrought
    <3> QED
      BY <1>1, <2>2, <2>3, <2>4, <3>1 DEF Settled
  <2>6. LoadsBring(s1, s2', s4', s3)
    BY <2>2, <2>3 DEF WorkFollows, LoadsBring
  <2> QED
    BY <2>2, <2>3, <2>5, <2>6 DEF WorkFollows
<1> QED
  BY <1>0, <1>1, <1>2, <1>4, <1>5 DEF WorkInv

\* The prompts come, and their availability is asked for.
LEMMA WorkPromptsLoaded ==
    ASSUME WorkInv, NEW i \in DOMAIN s4, Work!PromptsLoaded(i)
    PROVE  WorkInv'
<1> DEFINE brought == Reply(s4[i].ans).body.prompts
           w == [s2 EXCEPT !.prompts = brought]
           f == Finish(s4, i)
           settled == Newest(s4, i) /\ ~InFlight(f, "ready")
           past == [s5 EXCEPT !.settled = settled, !.ran = {}]
<1>0. WorkBase(s1, s2, s3, s4)'
  BY BaseReceives
<1>1. s4[i].op = "load" /\ Agreed(s4[i].ans) /\ s1' = s1 /\ s3' = s3 /\ s1 = "prompts"
  BY DEF Work!PromptsLoaded, Work!Received, Work!Unserved, Work!Answer, Work!On, Agreed, Reply
<1>2. s2' = w /\ s4' = Issue(f, "ready", brought) /\ s5' = past
  BY DEF Work!PromptsLoaded, Work!Body, Work!Answer, Reply, Work!Finish, Work!RemoveAt, Finish,
         RemoveAt, Work!Newest, Newest, Work!InFlight, InFlight, Work!Issue, Issue, Work!Call, Call
<1>3. WorkPast(past) /\ past.lost = s5.lost /\ past.settled = settled /\ past.ran = {}
  <2>1. settled \in BOOLEAN
    BY DEF Newest, InFlight
  <2> HIDE DEF settled
  <2> QED
    BY <2>1 DEF WorkInv, WorkPast
<1> HIDE DEF past, f
<1>4. ASSUME ~s5.lost PROVE WorkFollows(s1, w, s3, s4', settled, {})
  <2>1. WorkFollows(s1, s2, s3, s4, s5.settled, s5.ran) /\ DOMAIN s2 = WorkFields
    BY <1>4 DEF WorkInv, WorkFollows
  <2>2. /\ WorkFollows(s1, s2, s3, f, FALSE, s5.ran) /\ (Quiet(f) => Quiet(s4))
    BY <1>1, <2>1, WorkReceives DEF f
  <2>3. DOMAIN w = WorkFields /\ w.number = s2.number /\ w.prompts = brought
    BY <2>1 DEF WorkFields
  <2> HIDE DEF w
  <2>4. SomeCalls(f) /\ LinesLeft(f) /\ OnlyReportShares(s1, f) /\ LoadsBring(s1, s2, f, s3)
    BY <2>2 DEF WorkFollows
  <2>5. SomeCalls(s4') /\ Adds(s4', f, Call("ready", brought))
    BY <1>2, <2>4, SomeIssued
  <2>6. PICK k : /\ DOMAIN s4' = DOMAIN f \cup {k} /\ k \notin DOMAIN f
                 /\ s4'[k] = Call("ready", brought)
                 /\ \A j \in DOMAIN f : s4'[j] = f[j] /\ (Newest(s4', j) => Newest(f, j))
    BY <2>5 DEF Adds
  <2>7. s4'[k].op = "ready" /\ s4'[k].ans = {} /\ ~s4'[k].gone /\ s4'[k].arg = brought
    BY <2>6 DEF Call
  <2>8. Quiet(s4') => Quiet(f)
    BY <2>6 DEF Quiet
  <2>9. LinesLeft(s4')
    BY <2>4, <2>6, <2>7 DEF LinesLeft
  <2>10. OnlyReportShares(s1, s4')
    BY <2>4, <2>6, <2>7 DEF OnlyReportShares
  <2>11. LoadsBring(s1, w, s4', s3)
    BY <2>3, <2>4, <2>6, <2>7, <2>8 DEF LoadsBring
  <2>12. ASSUME settled PROVE Settled(s1, w, s4', s3, {})
    <3>1. ASSUME Quiet(s4') PROVE w.prompts = s3.prompts /\ AvailabilityComes(w, s4', s3, {})
      <4>1. brought = s3.prompts
        BY <1>1, <2>1, <2>2, <2>8, <2>12, <3>1, WorkBrought
      <4>2. \A j \in DOMAIN f : f[j].op # "ready"
        BY <2>4, <2>12 DEF InFlight, LinesLeft
      <4> QED
        BY <2>3, <2>6, <2>7, <4>1, <4>2 DEF AvailabilityComes, Flies
    <3> QED
      BY <1>1, <3>1 DEF Settled
  <2> QED
    BY <2>1, <2>3, <2>5, <2>9, <2>10, <2>11, <2>12 DEF WorkFollows
<1> QED
  BY <1>0, <1>1, <1>2, <1>3, <1>4 DEF WorkInv

LEMMA WorkAvailable ==
    ASSUME WorkInv, NEW i \in DOMAIN s4, Work!AvailabilityLoaded(i)
    PROVE  WorkInv'
<1> DEFINE brought == Reply(s4[i].ans).body
           w == [s2 EXCEPT !.known = brought.known, !.ready = brought.ready]
           settled == s5.settled /\ Newest(s4, i)
           past == [s5 EXCEPT !.settled = settled]
<1>0. WorkBase(s1, s2, s3, s4)'
  BY BaseReceives
<1>1. s4[i].op = "ready" /\ Agreed(s4[i].ans) /\ s1' = s1 /\ s3' = s3
  BY DEF Work!AvailabilityLoaded, Work!Received, Work!Unserved, Work!Answer, Agreed, Reply
<1>2. s2' = w /\ s4' = Finish(s4, i) /\ s5' = past
  BY DEF Work!AvailabilityLoaded, Work!Body, Work!Answer, Reply, Work!Finish, Work!RemoveAt,
         Finish, RemoveAt, Work!Newest, Newest
<1>3. WorkPast(past) /\ past.lost = s5.lost /\ past.settled = settled /\ past.ran = s5.ran
  <2>1. settled \in BOOLEAN
    BY DEF Newest, WorkInv, WorkPast
  <2> HIDE DEF settled
  <2> QED
    BY <2>1 DEF WorkInv, WorkPast
<1> HIDE DEF past
<1>4. ASSUME ~s5.lost PROVE WorkFollows(s1, w, s3, s4', settled, s5.ran)
  <2>1. WorkFollows(s1, s2, s3, s4, s5.settled, s5.ran) /\ DOMAIN s2 = WorkFields
    BY <1>4 DEF WorkInv, WorkFollows
  <2>2. /\ WorkFollows(s1, s2, s3, s4', FALSE, s5.ran) /\ (Quiet(s4') => Quiet(s4))
        /\ \A k \in DOMAIN s4' : \E j \in DOMAIN s4 :
              s4'[k].op = s4[j].op /\ s4'[k].arg = s4[j].arg /\ s4'[k].ans = s4[j].ans
    <3>1. SomeCalls(s4)
      BY <2>1 DEF WorkFollows
    <3>2. \A k \in DOMAIN s4' : \E j \in DOMAIN s4 \ {i} :
             s4'[k].op = s4[j].op /\ s4'[k].arg = s4[j].arg /\ s4'[k].ans = s4[j].ans
      BY <1>2, <3>1, SomeLeft
    <3>3. WorkFollows(s1, s2, s3, s4', FALSE, s5.ran) /\ (Quiet(s4') => Quiet(s4))
      BY <1>1, <1>2, <2>1, WorkReceives
    <3> QED
      BY <3>2, <3>3
  <2>3. /\ DOMAIN w = WorkFields /\ w.number = s2.number /\ w.prompts = s2.prompts
        /\ w.rows = s2.rows /\ w.shown = s2.shown
        /\ w.known = brought.known /\ w.ready = brought.ready
    BY <2>1 DEF WorkFields
  <2> HIDE DEF w
  <2>4. LoadsBring(s1, w, s4', s3)
    BY <2>2, <2>3 DEF WorkFollows, LoadsBring
  <2>5. ASSUME settled PROVE Settled(s1, w, s4', s3, s5.ran)
    <3>1. Settled(s1, s2, s4, s3, s5.ran)
      BY <2>1, <2>5 DEF WorkFollows
    <3>2. ASSUME AvailabilityComes(s2, s4, s3, s5.ran)
          PROVE  AvailabilityComes(w, s4', s3, s5.ran)
      <4>1. SameAvailability(brought, s3, s5.ran)
        BY <1>1, <3>2 DEF AvailabilityComes, Agreed
      <4>2. SameAvailability(w, s3, s5.ran)
        BY <2>3, <4>1 DEF SameAvailability
      <4>3. \A k \in DOMAIN s4' : s4'[k].op = "ready" =>
               /\ s4'[k].arg = s3.prompts
               /\ s4'[k].ans # {} => SameAvailability(Reply(s4'[k].ans).body, s3, s5.ran)
        BY <2>2, <3>2 DEF AvailabilityComes
      <4> QED
        BY <4>2, <4>3 DEF AvailabilityComes
    <3> QED
      BY <2>2, <2>3, <3>1, <3>2 DEF Settled
  <2> QED
    BY <2>2, <2>3, <2>4, <2>5 DEF WorkFollows
<1> QED
  BY <1>0, <1>1, <1>2, <1>3, <1>4 DEF WorkInv

\* The report section, which is never settled.
LEMMA WorkShared ==
    ASSUME WorkInv, NEW i \in DOMAIN s4, Work!ShareCreated(i) \/ Work!ShareRevoked(i)
    PROVE  WorkInv'
<1>0. WorkBase(s1, s2, s3, s4)'
  BY BaseReceives
<1>1. /\ s4[i].op \in {"share", "revoke"} /\ Agreed(s4[i].ans)
      /\ s1' = s1 /\ s3' = s3 /\ s5' = s5
  BY DEF Work!ShareCreated, Work!ShareRevoked, Work!Received, Work!Unserved, Work!Answer, Agreed,
         Reply
<1>2. s4' = Finish(s4, i)
  BY DEF Work!ShareCreated, Work!ShareRevoked, Work!Finish, Work!RemoveAt, Finish, RemoveAt
<1>3. PICK x : \/ s2' = [s2 EXCEPT !.share = x, !.sharing = FALSE]
               \/ s2' = [s2 EXCEPT !.share = x]
  BY DEF Work!ShareCreated, Work!ShareRevoked
<1>4. ASSUME ~s5.lost PROVE WorkFollows(s1, s2', s3, s4', s5.settled, s5.ran)
  <2>1. /\ s1 \in Work!Sections /\ DOMAIN s2 = WorkFields /\ SomeCalls(s4)
        /\ LinesLeft(s4) /\ OnlyReportShares(s1, s4) /\ LoadsBring(s1, s2, s4, s3)
        /\ s5.settled => s1 # "report"
    BY <1>4 DEF WorkInv, WorkFollows, Settled
  <2>2. s1 = "report"
    BY <1>1, <2>1 DEF OnlyReportShares
  <2>3. SomeCalls(s4') /\ LinesLeft(s4') /\ OnlyReportShares(s1, s4')
    BY <1>1, <1>2, <2>1, WorkLeft
  <2>4. \A k \in DOMAIN s4' : \E j \in DOMAIN s4 \ {i} :
           /\ s4'[k].op = s4[j].op /\ s4'[k].arg = s4[j].arg
           /\ Newest(s4', k) => Newest(s4, j)
    BY <1>2, <2>1, SomeLeft
  <2>5. DOMAIN s2' = WorkFields /\ s2'.number = s2.number
    BY <1>3, <2>1 DEF WorkFields
  <2>6. LoadsBring(s1, s2', s4', s3)
    <3> SUFFICES ASSUME NEW k \in DOMAIN s4', s4'[k].op = "load", Newest(s4', k)
                 PROVE  s4'[k].arg = s2'.number
      BY <2>2 DEF LoadsBring
    <3>1. PICK j \in DOMAIN s4 : /\ s4'[k].op = s4[j].op /\ s4'[k].arg = s4[j].arg
                                 /\ Newest(s4', k) => Newest(s4, j)
      BY <2>4
    <3> QED
      BY <2>1, <2>5, <3>1 DEF LoadsBring
  <2> QED
    BY <2>1, <2>2, <2>3, <2>5, <2>6 DEF WorkFollows
<1> QED
  BY <1>0, <1>1, <1>4 DEF WorkInv

(***************************************************************************)
(* The server answers a call of the section                                *)
(***************************************************************************)
LEMMA WorkServed ==
    ASSUME WorkInv, NEW i \in DOMAIN s4, Work!Served(i)
    PROVE  WorkInv'
<1> DEFINE c == s4[i]
           ok == Work!Ok(c)
           body == Work!AnswerTo(c)
<1>1. /\ c.ans = {} /\ c.op # "create" /\ s1' = s1 /\ s2' = s2 /\ s5' = s5
      /\ s3' = IF ok THEN Work!Effect(c) ELSE s3
      /\ s4' = Serve(s4, i, ok, body)
  BY DEF Work!Served, Work!Unserved, Work!Serve, Serve
<1>2. c.op \in {"load", "ready"} => s3' = s3
  BY <1>1 DEF Work!Effect
<1>3. c.op = "load" => body = Snapshot(s3)
  BY DEF Work!AnswerTo, Snapshot
<1>4. c.op = "ready" /\ c.arg = s3.prompts => \A ran : SameAvailability(body, s3, ran)
  <2> SUFFICES ASSUME c.op = "ready", c.arg = s3.prompts
               PROVE  \A ran : SameAvailability(body, s3, ran)
    OBVIOUS
  <2>1. body = [known |-> Work!Active(c.arg),
                ready |-> Work!Ready(s3.prompts, s3.done) \cap Work!Active(c.arg)]
    BY DEF Work!AnswerTo
  <2> HIDE DEF body, c
  <2> QED
    BY <2>1 DEF SameAvailability
<1> HIDE DEF body
<1>5. DOMAIN s3' = ServerFields
  <2>1. DOMAIN s3 = ServerFields
    BY DEF WorkInv, WorkBase
  <2> HIDE DEF ok, c
  <2>2. DOMAIN Work!Effect(c) = DOMAIN s3
    BY DEF Work!Effect
  <2> QED
    BY <1>1, <2>1, <2>2
<1> HIDE DEF ok
<1>6. WorkBase(s1, s2, s3', s4')
  <2>1. Ordinary(s1, s2, s4')
    BY <1>1, BaseServed DEF WorkInv, WorkBase
  <2> QED
    BY <1>5, <2>1 DEF WorkInv, WorkBase
<1>7. ASSUME ~s5.lost PROVE WorkFollows(s1, s2, s3', s4', s5.settled, s5.ran)
  <2>1. /\ s1 \in Work!Sections /\ DOMAIN s2 = WorkFields /\ SomeCalls(s4)
        /\ LinesLeft(s4) /\ OnlyReportShares(s1, s4) /\ LoadsBring(s1, s2, s4, s3)
        /\ s5.settled => Settled(s1, s2, s4, s3, s5.ran)
    BY <1>7 DEF WorkInv, WorkFollows
  <2>2. /\ SomeCalls(s4') /\ DOMAIN s4' = DOMAIN s4
        /\ \A j \in DOMAIN s4 : /\ s4'[j].op = s4[j].op /\ s4'[j].arg = s4[j].arg
                                /\ s4'[j].gone = s4[j].gone
                                /\ j # i => s4'[j].ans = s4[j].ans
                                /\ Newest(s4', j) <=> Newest(s4, j)
        /\ s4'[i].ans = {[ok |-> ok, body |-> body]}
    <3> DEFINE m == Serve(s4, i, ok, body)
    <3>1. /\ SomeCalls(m) /\ DOMAIN m = DOMAIN s4
          /\ \A j \in DOMAIN s4 : /\ m[j].op = s4[j].op /\ m[j].arg = s4[j].arg
                                  /\ m[j].gone = s4[j].gone
                                  /\ j # i => m[j].ans = s4[j].ans
                                  /\ Newest(m, j) <=> Newest(s4, j)
          /\ m[i].ans = {[ok |-> ok, body |-> body]}
      BY <2>1, SomeServed
    <3> HIDE DEF m
    <3>2. s4' = m
      BY <1>1 DEF m
    <3> QED
      BY <3>1, <3>2
  <2>3. Reply(s4'[i].ans).body = body /\ (Agreed(s4'[i].ans) <=> ok)
    <3>1. Reply({[ok |-> ok, body |-> body]}) = [ok |-> ok, body |-> body]
      BY DEF Reply
    <3> QED
      BY <2>2, <3>1 DEF Agreed
  <2>4. \/ s3' = s3 /\ (Quiet(s4') => Quiet(s4))
        \/ ~Quiet(s4') /\ c.op \notin {"load", "ready"}
    <3>1. CASE c.op \in {"load", "ready"}
      BY <1>2, <2>2, <3>1 DEF Quiet
    <3>2. CASE c.op \notin {"load", "ready"} /\ ok
      BY <2>2, <2>3, <3>2 DEF Quiet
    <3>3. CASE c.op \notin {"load", "ready"} /\ ~ok
      <4>1. ~Agreed(c.ans)
        BY <1>1 DEF Agreed
      <4>2. Quiet(s4') => Quiet(s4)
        BY <1>1, <2>2, <4>1 DEF Quiet
      <4> QED
        BY <1>1, <3>3, <4>2
    <3> QED
      BY <3>1, <3>2, <3>3
  <2>5. LinesLeft(s4')
    <3>1. \A k \in DOMAIN s4' : s4'[k].gone => s4'[k].op = "create"
      BY <2>1, <2>2 DEF LinesLeft
    <3>2. ASSUME \E k \in DOMAIN s4' : s4'[k].gone
          PROVE  \E k \in DOMAIN s4' : /\ s4'[k].op = "create" /\ ~s4'[k].gone
                                       /\ s4'[k].ans # {} /\ ~Agreed(s4'[k].ans)
      <4>1. PICK j \in DOMAIN s4 : /\ s4[j].op = "create" /\ ~s4[j].gone
                                   /\ s4[j].ans # {} /\ ~Agreed(s4[j].ans)
        BY <2>1, <2>2, <3>2 DEF LinesLeft
      <4> QED
        BY <1>1, <2>2, <4>1
    <3> QED
      BY <3>1, <3>2 DEF LinesLeft
  <2>6. OnlyReportShares(s1, s4')
    BY <2>1, <2>2 DEF OnlyReportShares
  <2>7. LoadsBring(s1, s2, s4', s3')
    <3> SUFFICES ASSUME NEW k \in DOMAIN s4', s4'[k].op = "load" /\ Newest(s4', k)
                 PROVE  /\ s4'[k].arg = s2.number
                        /\ s1 # "report" /\ Quiet(s4') /\ s4'[k].ans # {} =>
                              Reply(s4'[k].ans).body = Snapshot(s3')
      BY DEF LoadsBring
    <3>1. k \in DOMAIN s4 /\ s4[k].op = "load" /\ Newest(s4, k) /\ s4'[k].arg = s4[k].arg
      BY <2>2
    <3>2. ASSUME s1 # "report", Quiet(s4'), s4'[k].ans # {}
          PROVE  Reply(s4'[k].ans).body = Snapshot(s3')
      <4>1. s3' = s3 /\ Quiet(s4)
        BY <2>4, <3>2
      <4>2. CASE k = i
        BY <1>3, <2>3, <3>1, <4>1, <4>2
      <4>3. CASE k # i
        BY <2>1, <2>2, <3>1, <3>2, <4>1, <4>3 DEF LoadsBring
      <4> QED
        BY <4>2, <4>3
    <3> QED
      BY <2>1, <3>1, <3>2 DEF LoadsBring
  <2>8. ASSUME s5.settled PROVE Settled(s1, s2, s4', s3', s5.ran)
    <3>1. Settled(s1, s2, s4, s3, s5.ran)
      BY <2>1, <2>8
    <3>2. ASSUME AvailabilityComes(s2, s4, s3, s5.ran)
          PROVE  AvailabilityComes(s2, s4', s3, s5.ran)
      <4>1. \A k \in DOMAIN s4 : s4[k].op = "ready" => s4'[k].arg = s3.prompts
        BY <2>2, <3>2 DEF AvailabilityComes
      <4>2. ASSUME NEW k \in DOMAIN s4, s4[k].op = "ready", s4'[k].ans # {}
            PROVE  SameAvailability(Reply(s4'[k].ans).body, s3, s5.ran)
        <5>1. CASE k = i
          BY <1>4, <2>3, <3>2, <4>2, <5>1 DEF AvailabilityComes
        <5>2. CASE k # i
          BY <2>2, <3>2, <4>2, <5>2 DEF AvailabilityComes
        <5> QED
          BY <5>1, <5>2
      <4>3. Flies(s4, "ready") => Flies(s4', "ready")
        BY <2>2 DEF Flies
      <4> QED
        BY <2>2, <3>2, <4>1, <4>2, <4>3 DEF AvailabilityComes
    <3> QED
      BY <2>4, <3>1, <3>2 DEF Settled
  <2> QED
    BY <2>1, <2>2, <2>5, <2>6, <2>7, <2>8 DEF WorkFollows
<1> QED
  BY <1>1, <1>6, <1>7 DEF WorkInv

\* A batch whose line was refused is still to be received.
Refused(n) ==
    \E k \in DOMAIN n : n[k].op = "create" /\ ~n[k].gone /\ n[k].ans # {} /\ ~Agreed(n[k].ans)

\* While a batch is in flight nothing is known but that.
LEMMA OrdinaryFollows ==
    ASSUME NEW section, NEW v, NEW s, NEW n, NEW settled, NEW ran, NEW r, NEW m,
           WorkFollows(section, v, s, n, settled, ran), Ordinary(section, v, m),
           (\E k \in DOMAIN m : m[k].gone) => Refused(m),
           \E k \in DOMAIN m : m[k].op = "create"
    PROVE  WorkFollows(section, v, r, m, settled, ran)
<1>1. ~Quiet(m)
  BY DEF Quiet
<1>2. LinesLeft(m)
  BY DEF Ordinary, Refused, LinesLeft
<1>3. LoadsBring(section, v, m, r)
  BY <1>1 DEF Ordinary, LoadsBring
<1>4. Settled(section, v, n, s, ran) => Settled(section, v, m, r, ran)
  BY <1>1 DEF Settled
<1> QED
  BY <1>2, <1>3, <1>4 DEF WorkFollows, Ordinary

LEMMA RefusedLeft ==
    ASSUME NEW section, NEW v, NEW s, NEW n, NEW settled, NEW ran,
           WorkFollows(section, v, s, n, settled, ran)
    PROVE  (\E k \in DOMAIN n : n[k].gone) => Refused(n)
BY DEF WorkFollows, LinesLeft, Refused

\* The lines that are left of a batch are one batch, not yet served.
IsBatch(c) == \E args : c \in CallsWith({"create"}, args, {{}})

\* A batch whose lines nobody awaits is added.
LEMMA OrdinaryAppended ==
    ASSUME NEW section, NEW v, NEW n, Ordinary(section, v, n), NEW c, IsBatch(c),
           NEW m, m = Append(n, c)
    PROVE  /\ Ordinary(section, v, m) /\ DOMAIN n \subseteq DOMAIN m
           /\ \A i \in DOMAIN n : m[i] = n[i]
           /\ Refused(n) => Refused(m)
<1>1. PICK ops, args, answers : n \in Seq(CallsWith(ops, args, answers))
  BY DEF Ordinary, SomeCalls
<1>2. PICK arg : c \in CallsWith({"create"}, arg, {{}})
  BY DEF IsBatch
<1> DEFINE C == CallsWith(ops \cup {"create"}, args \cup arg, answers \cup {{}})
<1>3. CallsWith(ops, args, answers) \subseteq C /\ c \in C /\ c.op = "create"
  BY <1>2 DEF CallsWith
<1> HIDE DEF C
<1>4. n \in Seq(C)
  BY <1>1, <1>3
<1>5. /\ m \in Seq(C) /\ Len(n) \in Nat
      /\ DOMAIN n = 1 .. Len(n) /\ DOMAIN m = 1 .. Len(n) + 1
      /\ m[Len(n) + 1] = c /\ \A i \in DOMAIN n : m[i] = n[i]
  BY <1>3, <1>4
<1>6. SomeCalls(m)
  BY <1>5 DEF SomeCalls, C
<1>7. ASSUME NEW i \in DOMAIN n, Newest(m, i) PROVE Newest(n, i)
  BY <1>5, <1>7 DEF Newest
<1>8. \A i \in DOMAIN m : m[i].op # "create" => i \in DOMAIN n /\ m[i] = n[i]
  BY <1>3, <1>5
<1>9. Ordinary(section, v, m)
  BY <1>6, <1>7, <1>8 DEF Ordinary, OnlyReportShares
<1>10. DOMAIN n \subseteq DOMAIN m
  BY <1>5
<1>11. Refused(n) => Refused(m)
  BY <1>5, <1>10 DEF Refused
<1> QED
  BY <1>5, <1>9, <1>10, <1>11

\* The last line of a batch nobody awaits is served: it has left.
LEMMA OrdinaryRemoved ==
    ASSUME NEW section, NEW v, NEW n, Ordinary(section, v, n), NEW i \in DOMAIN n, n[i].gone
    PROVE  Ordinary(section, v, RemoveAt(n, i)) /\ (Refused(n) => Refused(RemoveAt(n, i)))
<1> DEFINE m == RemoveAt(n, i)
           old(k) == IF k < i THEN k ELSE k + 1
           new(j) == IF j < i THEN j ELSE j - 1
<1>1. PICK ops, args, answers : n \in Seq(CallsWith(ops, args, answers))
  BY DEF Ordinary, SomeCalls
<1> DEFINE C == CallsWith(ops, args, answers)
<1> HIDE DEF C
<1>2. n \in Seq(C) /\ Len(n) \in Nat /\ DOMAIN n = 1 .. Len(n) /\ i \in 1 .. Len(n)
  BY <1>1 DEF C
<1>3. /\ Len(m) = Len(n) - 1
      /\ \A k \in 1 .. Len(n) - 1 : m[k] = IF k < i THEN n[k] ELSE n[k + 1]
  BY <1>2, Removed
<1>4. m \in Seq(C)
  <2>1. SubSeq(n, 1, i - 1) \in Seq(C) /\ SubSeq(n, i + 1, Len(n)) \in Seq(C)
    BY <1>2, SubSeqProperties
  <2> QED
    BY <2>1, ConcatProperties DEF RemoveAt
<1>5. SomeCalls(m)
  BY <1>4 DEF C, SomeCalls
<1> HIDE DEF m
<1>6. DOMAIN m = 1 .. Len(n) - 1
  BY <1>2, <1>3, <1>4
<1>7. ASSUME NEW k \in DOMAIN m PROVE old(k) \in DOMAIN n \ {i} /\ m[k] = n[old(k)]
  BY <1>2, <1>3, <1>6
<1>8. ASSUME NEW j \in DOMAIN n \ {i} PROVE new(j) \in DOMAIN m /\ old(new(j)) = j
  BY <1>2, <1>6
<1>9. n[i].op = "create"
  BY DEF Ordinary
<1>10. ASSUME NEW k \in DOMAIN m, Newest(m, k), m[k].op # "create" PROVE Newest(n, old(k))
  <2>1. ASSUME NEW j \in DOMAIN n, j > old(k) PROVE n[j].op # n[old(k)].op
    <3>1. CASE j = i
      BY <1>7, <1>9, <1>10, <3>1
    <3>2. CASE j # i
      <4>1. new(j) \in DOMAIN m /\ old(new(j)) = j /\ new(j) > k
        BY <1>2, <1>6, <1>8, <2>1, <3>2
      <4> QED
        BY <1>7, <1>10, <4>1 DEF Newest
    <3> QED
      BY <3>1, <3>2
  <2> QED
    BY <1>7, <1>10, <2>1 DEF Newest
<1>11. ASSUME Refused(n) PROVE Refused(m)
  <2>1. PICK j \in DOMAIN n : /\ n[j].op = "create" /\ ~n[j].gone
                              /\ n[j].ans # {} /\ ~Agreed(n[j].ans)
    BY <1>11 DEF Refused
  <2>2. new(j) \in DOMAIN m /\ m[new(j)] = n[j]
    BY <1>7, <1>8, <2>1
  <2> QED
    BY <2>1, <2>2 DEF Refused
<1> HIDE DEF old, new
<1>12. Ordinary(section, v, m)
  BY <1>5, <1>7, <1>10 DEF Ordinary, OnlyReportShares
<1> QED
  BY <1>11, <1>12 DEF m

\* A batch is answered, or what is left of it stays.
LEMMA OrdinaryServed ==
    ASSUME NEW section, NEW v, NEW n, Ordinary(section, v, n),
           NEW i \in DOMAIN n, n[i].op = "create", ~n[i].gone, n[i].ans = {}, NEW ok, NEW m,
           m = Serve(n, i, ok, {})
    PROVE  /\ Ordinary(section, v, m) /\ (\E k \in DOMAIN m : m[k].op = "create")
           /\ ~ok => Refused(m)
           /\ ((\E k \in DOMAIN n : n[k].gone) => Refused(n)) =>
                 ((\E k \in DOMAIN m : m[k].gone) => Refused(m))
<1>1. /\ SomeCalls(m) /\ DOMAIN m = DOMAIN n
      /\ \A j \in DOMAIN n : /\ m[j].op = n[j].op /\ m[j].arg = n[j].arg
                             /\ m[j].gone = n[j].gone /\ (j # i => m[j].ans = n[j].ans)
                             /\ Newest(m, j) <=> Newest(n, j)
      /\ m[i].ans = {[ok |-> ok, body |-> {}]}
  <2> DEFINE none == {}
             r == Serve(n, i, ok, none)
  <2>1. SomeCalls(n)
    BY DEF Ordinary
  <2> HIDE DEF none
  <2>2. /\ SomeCalls(r) /\ DOMAIN r = DOMAIN n
        /\ \A j \in DOMAIN n : /\ r[j].op = n[j].op /\ r[j].arg = n[j].arg
                               /\ r[j].gone = n[j].gone /\ (j # i => r[j].ans = n[j].ans)
                               /\ Newest(r, j) <=> Newest(n, j)
        /\ r[i].ans = {[ok |-> ok, body |-> none]}
    BY <2>1, SomeServed
  <2> HIDE DEF r
  <2>3. m = r /\ none = {}
    BY DEF r, none
  <2> QED
    BY <2>2, <2>3
<1>2. m[i].ans # {} /\ (Agreed(m[i].ans) <=> ok)
  <2> DEFINE x == [ok |-> ok, body |-> {}]
  <2>1. Reply({x}) = x /\ x.ok = ok
    BY DEF Reply
  <2> HIDE DEF x
  <2>2. m[i].ans = {x}
    BY <1>1 DEF x
  <2> QED
    BY <2>1, <2>2 DEF Agreed
<1>3. Ordinary(section, v, m)
  BY <1>1 DEF Ordinary, OnlyReportShares
<1>4. ~ok => Refused(m)
  BY <1>1, <1>2 DEF Refused
<1>5. Refused(n) => Refused(m)
  <2> SUFFICES ASSUME NEW j \in DOMAIN n, n[j].op = "create", ~n[j].gone, n[j].ans # {},
                      ~Agreed(n[j].ans)
               PROVE  Refused(m)
    BY DEF Refused
  <2>1. j # i
    OBVIOUS
  <2> QED
    BY <1>1, <2>1 DEF Refused
<1>6. (\E k \in DOMAIN m : m[k].gone) => \E k \in DOMAIN n : n[k].gone
  BY <1>1
<1>7. \E k \in DOMAIN m : m[k].op = "create"
  BY <1>1
<1> QED
  BY <1>3, <1>4, <1>5, <1>6, <1>7

Replaced(n, i, c) == [n EXCEPT ![i] = c]

LEMMA OrdinaryReplaced ==
    ASSUME NEW section, NEW v, NEW n, Ordinary(section, v, n),
           NEW i \in DOMAIN n, n[i].op = "create", n[i].ans = {}, NEW c, IsBatch(c),
           c.gone = n[i].gone, NEW m, m = Replaced(n, i, c)
    PROVE  /\ Ordinary(section, v, m) /\ (\E k \in DOMAIN m : m[k].op = "create")
           /\ ((\E k \in DOMAIN n : n[k].gone) => Refused(n)) =>
                 ((\E k \in DOMAIN m : m[k].gone) => Refused(m))
<1>1. PICK ops, args, answers : n \in Seq(CallsWith(ops, args, answers))
  BY DEF Ordinary, SomeCalls
<1>2. PICK arg : c \in CallsWith({"create"}, arg, {{}})
  BY DEF IsBatch
<1> DEFINE C == CallsWith(ops \cup {"create"}, args \cup arg, answers \cup {{}})
<1>3. CallsWith(ops, args, answers) \subseteq C /\ c \in C /\ c.op = "create"
  BY <1>2 DEF CallsWith
<1> HIDE DEF C
<1>4. n \in Seq(C)
  BY <1>1, <1>3
<1>5. /\ m \in Seq(C) /\ DOMAIN m = DOMAIN n /\ m[i] = c
      /\ \A j \in DOMAIN n : j # i => m[j] = n[j]
  BY <1>3, <1>4 DEF Replaced
<1>6. SomeCalls(m)
  BY <1>5 DEF SomeCalls, C
<1>7. \A j \in DOMAIN n : m[j].op = n[j].op /\ m[j].gone = n[j].gone
  BY <1>3, <1>5
<1>8. ASSUME NEW j \in DOMAIN n, Newest(m, j), m[j].op # "create"
      PROVE  Newest(n, j) /\ m[j].arg = n[j].arg
  BY <1>5, <1>7, <1>8 DEF Newest
<1>9. Ordinary(section, v, m)
  BY <1>5, <1>6, <1>7, <1>8 DEF Ordinary, OnlyReportShares
<1>10. Refused(n) => Refused(m)
  <2> SUFFICES ASSUME NEW j \in DOMAIN n, n[j].op = "create", ~n[j].gone, n[j].ans # {},
                      ~Agreed(n[j].ans)
               PROVE  Refused(m)
    BY DEF Refused
  <2>1. m[j] = n[j] /\ j \in DOMAIN m
    BY <1>5
  <2> QED
    BY <2>1 DEF Refused
<1>11. /\ (\E k \in DOMAIN m : m[k].gone) => \E k \in DOMAIN n : n[k].gone
       /\ \E k \in DOMAIN m : m[k].op = "create"
  BY <1>5, <1>7
<1> QED
  BY <1>9, <1>10, <1>11

LEMMA WorkLineServed ==
    ASSUME WorkInv, NEW i \in DOMAIN s4, Work!ServeCreate(i)
    PROVE  WorkInv'
<1>1. s4[i].op = "create" /\ s4[i].ans = {} /\ s1' = s1 /\ s2' = s2 /\ s5' = s5
  BY DEF Work!ServeCreate, Work!Unserved
<1> DEFINE a == s4[i].arg
           rest(t) == [Call("create", [a EXCEPT !.texts = @ \ {t}]) EXCEPT !.gone = s4[i].gone]
           orphan(t) == [rest(t) EXCEPT !.gone = TRUE]
<1>2. PICK t : \/ /\ \E m \in {s4, Append(s4, orphan(t))} :
                        s4' = IF s4[i].gone THEN RemoveAt(m, i) ELSE Serve(m, i, FALSE, {})
               \/ s4' = [s4 EXCEPT ![i] = rest(t)]
               \/ s4[i].gone /\ s4' = RemoveAt(s4, i)
               \/ ~s4[i].gone /\ s4' = Serve(s4, i, TRUE, {})
  BY DEF Work!ServeCreate, Work!Serve, Work!RemoveAt, Work!Call, Serve, RemoveAt, Call
<1>3. Ordinary(s1, s2, s4) /\ DOMAIN s3 = ServerFields
  BY DEF WorkInv, WorkBase
<1>4. DOMAIN s3' = ServerFields
  <2>1. DOMAIN s3' = DOMAIN s3
    BY DEF Work!ServeCreate
  <2> QED
    BY <1>3, <2>1
<1>5. /\ IsBatch(rest(t)) /\ rest(t).gone = s4[i].gone
      /\ IsBatch(orphan(t)) /\ orphan(t).gone
  <2> DEFINE x == [a EXCEPT !.texts = @ \ {t}]
             plain == Call("create", x)
             kept == [plain EXCEPT !.gone = s4[i].gone]
             left == [kept EXCEPT !.gone = TRUE]
  <2>1. s4[i].gone \in BOOLEAN
    <3>1. PICK ops, args, answers : s4 \in Seq(CallsWith(ops, args, answers))
      BY <1>3 DEF Ordinary, SomeCalls
    <3>2. s4[i] \in CallsWith(ops, args, answers)
      BY <3>1
    <3> QED
      BY <3>2 DEF CallsWith
  <2> HIDE DEF x
  <2>2. plain \in CallsWith({"create"}, {x}, {{}})
    BY DEF Call, CallsWith
  <2> HIDE DEF plain
  <2>3. kept \in CallsWith({"create"}, {x}, {{}}) /\ kept.gone = s4[i].gone
    BY <2>1, <2>2 DEF CallsWith
  <2> HIDE DEF kept
  <2>4. left \in CallsWith({"create"}, {x}, {{}}) /\ left.gone
    BY <2>3 DEF CallsWith
  <2> HIDE DEF left
  <2>5. IsBatch(kept) /\ kept.gone = s4[i].gone /\ IsBatch(left) /\ left.gone
    BY <2>3, <2>4 DEF IsBatch
  <2> QED
    BY <2>5 DEF left, kept, plain, x
<1> HIDE DEF rest, orphan
<1> DEFINE Awaited == (\E k \in DOMAIN s4 : s4[k].gone) => Refused(s4)
           Rest == /\ \E k \in DOMAIN s4' : s4'[k].op = "create"
                   /\ (\E k \in DOMAIN s4' : s4'[k].gone) => Refused(s4')
<1>6. Ordinary(s1, s2, s4') /\ (Awaited => Rest)
  <2>1. ASSUME NEW m, m \in {s4, Append(s4, orphan(t))}
        PROVE  /\ Ordinary(s1, s2, m) /\ i \in DOMAIN m /\ m[i] = s4[i]
               /\ Refused(s4) => Refused(m)
    BY <1>3, <1>5, <2>1, OrdinaryAppended
  <2>2. Refused(s4') => Rest
    BY DEF Refused
  <2>3. ASSUME NEW m, m \in {s4, Append(s4, orphan(t))}, s4[i].gone, s4' = RemoveAt(m, i)
        PROVE  Ordinary(s1, s2, s4') /\ (Awaited => Refused(s4'))
    BY <2>1, <2>3, OrdinaryRemoved
  <2>4. ASSUME NEW m, m \in {s4, Append(s4, orphan(t))}, ~s4[i].gone,
               s4' = Serve(m, i, FALSE, {})
        PROVE  /\ Ordinary(s1, s2, s4') /\ Refused(s4')
    BY <1>1, <2>1, <2>4, OrdinaryServed
  <2>5. CASE s4' = [s4 EXCEPT ![i] = rest(t)]
    <3>1. s4' = Replaced(s4, i, rest(t))
      BY <2>5 DEF Replaced
    <3> QED
      BY <1>1, <1>3, <1>5, <3>1, OrdinaryReplaced
  <2>6. CASE ~s4[i].gone /\ s4' = Serve(s4, i, TRUE, {})
    BY <1>1, <1>3, <2>6, OrdinaryServed
  <2> HIDE DEF Rest, Awaited
  <2> QED
    BY <1>2, <2>2, <2>3, <2>4, <2>5, <2>6
<1>7. WorkBase(s1, s2, s3', s4')
  BY <1>4, <1>6 DEF WorkInv, WorkBase
<1>8. ASSUME ~s5.lost PROVE WorkFollows(s1, s2, s3', s4', s5.settled, s5.ran)
  <2>1. WorkFollows(s1, s2, s3, s4, s5.settled, s5.ran)
    BY <1>8 DEF WorkInv
  <2>2. Rest
    BY <1>6, <2>1, RefusedLeft
  <2> QED
    BY <1>6, <2>1, <2>2, OrdinaryFollows
<1> QED
  BY <1>1, <1>7, <1>8 DEF WorkInv

LEMMA WorkFails ==
    ASSUME WorkInv, NEW i \in DOMAIN s4, Work!CallFails(i)
    PROVE  WorkInv'
<1>1. WorkBase(s1, s2, s3, s4)'
  BY BaseReceives
<1>2. s5' = [s5 EXCEPT !.lost = TRUE]
  BY DEF Work!CallFails
<1> QED
  BY <1>1, <1>2 DEF WorkInv, WorkPast

\* Whether the other prompts can run does not depend on the runs of one.
LEMMA ReadyOfOthers ==
    ASSUME NEW prompts, NEW done, NEW left, NEW t,
           \A m : \A u : u # t => (<<m, u>> \in done <=> <<m, u>> \in left)
    PROVE  \A u : u # t =>
              (u \in Work!Ready(prompts, done) <=> u \in Work!Ready(prompts, left))
<1> SUFFICES ASSUME NEW u, u # t
             PROVE  prompts[u].models \X {u} \ done = prompts[u].models \X {u} \ left
  BY DEF Work!Ready
<1> QED
  OBVIOUS

\* A background run of a prompt touches that prompt only.
LEMMA WorkRuns ==
    ASSUME WorkInv, Work!BackgroundTasks
    PROVE  WorkInv'
<1>1. s1' = s1 /\ s2' = s2 /\ s4' = s4
  BY DEF Work!BackgroundTasks, Work!PromptRunStarts, Work!PromptRunEnds
<1> DEFINE Touches(t) ==
             /\ DOMAIN s3' = DOMAIN s3 /\ s3'.prompts = s3.prompts /\ s3'.rows = s3.rows
             /\ \A m : \A u : u # t => (<<m, u>> \in s3.done <=> <<m, u>> \in s3'.done)
             /\ WorkPast(s5') /\ s5'.settled = s5.settled /\ s5'.lost = s5.lost
             /\ s5'.ran = s5.ran \cup {t} \/ (s5'.ran = s5.ran /\ s3'.done = s3.done)
<1>2. PICK t : Touches(t)
  <2>1. DOMAIN s3 = ServerFields /\ WorkPast(s5)
    BY DEF WorkInv, WorkBase
  <2>2. ASSUME NEW task, Work!PromptRunStarts(task)
        PROVE  \E t : Touches(t)
    <3> DEFINE t == task[2]
               reset == {<<task[1], t>>} \cap s3.failed
    <3>1. \/ s3' = [s3 EXCEPT !.queued = @ \ {task}] /\ s5' = [s5 EXCEPT !.ran = @]
          \/ /\ s3' = [s3 EXCEPT !.queued = @ \ {task}, !.begun = @ \cup {task},
                                 !.done = @ \ reset, !.failed = @ \ reset]
             /\ \/ s5' = [s5 EXCEPT !.ran = @ \cup {t}]
                \/ s5' = [s5 EXCEPT !.ran = @] /\ reset = {}
      BY <2>2 DEF Work!PromptRunStarts
    <3>2. \A m : \A u : u # t => <<m, u>> \notin reset
      OBVIOUS
    <3> HIDE DEF reset, t
    <3>3. /\ DOMAIN s3' = DOMAIN s3 /\ s3'.prompts = s3.prompts /\ s3'.rows = s3.rows
          /\ s3'.done = s3.done \/ s3'.done = s3.done \ reset
      BY <2>1, <3>1 DEF ServerFields
    <3>4. /\ WorkPast(s5') /\ s5'.settled = s5.settled /\ s5'.lost = s5.lost
          /\ s5'.ran = s5.ran \cup {t} \/ (s5'.ran = s5.ran /\ s3'.done = s3.done)
      <4>1. CASE s3' = [s3 EXCEPT !.queued = @ \ {task}] /\ s5' = [s5 EXCEPT !.ran = @]
        BY <2>1, <4>1 DEF WorkPast, ServerFields
      <4>2. CASE s5' = [s5 EXCEPT !.ran = @ \cup {t}]
        BY <2>1, <4>2 DEF WorkPast
      <4>3. CASE /\ s3' = [s3 EXCEPT !.queued = @ \ {task}, !.begun = @ \cup {task},
                                    !.done = @ \ reset, !.failed = @ \ reset]
                 /\ s5' = [s5 EXCEPT !.ran = @] /\ reset = {}
        <5>1. s3'.done = s3.done
          BY <2>1, <4>3 DEF ServerFields
        <5> QED
          BY <2>1, <4>3, <5>1 DEF WorkPast
      <4> QED
        BY <3>1, <4>1, <4>2, <4>3
    <3>5. \A m : \A u : u # t => (<<m, u>> \in s3.done <=> <<m, u>> \in s3'.done)
      BY <3>2, <3>3
    <3> QED
      BY <3>3, <3>4, <3>5
  <2>3. ASSUME NEW task, Work!PromptRunEnds(task)
        PROVE  \E t : Touches(t)
    <3> DEFINE t == task[2]
               run == {<<task[1], t>>}
    <3>1. \/ s3' = [s3 EXCEPT !.begun = @ \ {task}] /\ s5' = s5
          \/ /\ \E failed : s3' = [s3 EXCEPT !.begun = @ \ {task}, !.done = @ \cup run,
                                             !.failed = @ \cup failed]
             /\ s5' = [s5 EXCEPT !.ran = @ \cup {t}]
      BY <2>3 DEF Work!PromptRunEnds
    <3>2. \A m : \A u : u # t => <<m, u>> \notin run
      OBVIOUS
    <3> HIDE DEF run, t
    <3>3. /\ DOMAIN s3' = DOMAIN s3 /\ s3'.prompts = s3.prompts /\ s3'.rows = s3.rows
          /\ s3'.done = s3.done \/ s3'.done = s3.done \cup run
      BY <2>1, <3>1 DEF ServerFields
    <3>4. /\ WorkPast(s5') /\ s5'.settled = s5.settled /\ s5'.lost = s5.lost
          /\ s5'.ran = s5.ran \cup {t} \/ (s5'.ran = s5.ran /\ s3'.done = s3.done)
      BY <2>1, <3>1 DEF WorkPast, ServerFields
    <3>5. \A m : \A u : u # t => (<<m, u>> \in s3.done <=> <<m, u>> \in s3'.done)
      BY <3>2, <3>3
    <3> QED
      BY <3>3, <3>4, <3>5
  <2> QED
    BY <2>2, <2>3 DEF Work!BackgroundTasks
<1>3. \A a : SameAvailability(a, s3, s5.ran) => SameAvailability(a, s3', s5'.ran)
  <2>1. \A u : u # t => (u \in Work!Ready(s3.prompts, s3.done)
                          <=> u \in Work!Ready(s3.prompts, s3'.done))
    BY <1>2, ReadyOfOthers
  <2> QED
    BY <1>2, <2>1 DEF SameAvailability
<1>4. WorkBase(s1, s2, s3', s4)
  BY <1>2 DEF WorkInv, WorkBase
<1>5. ASSUME ~s5.lost PROVE WorkFollows(s1, s2, s3', s4, s5.settled, s5'.ran)
  <2>1. WorkFollows(s1, s2, s3, s4, s5.settled, s5.ran)
    BY <1>5 DEF WorkInv
  <2>2. LoadsBring(s1, s2, s4, s3')
    BY <1>2, <2>1 DEF WorkFollows, LoadsBring, Snapshot
  <2>3. AvailabilityComes(s2, s4, s3, s5.ran) => AvailabilityComes(s2, s4, s3', s5'.ran)
    BY <1>2, <1>3 DEF AvailabilityComes
  <2>4. Settled(s1, s2, s4, s3, s5.ran) => Settled(s1, s2, s4, s3', s5'.ran)
    BY <1>2, <2>3 DEF Settled
  <2> QED
    BY <2>1, <2>2, <2>4 DEF WorkFollows
<1> QED
  BY <1>1, <1>2, <1>4, <1>5 DEF WorkInv

LEMMA WorkKeeps == WorkInv /\ [Work!Next]_(Work!vars) => WorkInv'
<1> SUFFICES ASSUME WorkInv, [Work!Next]_(Work!vars) PROVE WorkInv'
  OBVIOUS
<1>1. CASE UNCHANGED Work!vars
  BY <1>1 DEF Work!vars, WorkInv
<1>2. CASE Work!PromptManagement
  BY <1>2, WorkHandlersKeep
<1>3. CASE Work!CompetitorSettings \/ Work!AlertInbox \/ Work!ReportActions
  BY <1>3, WorkSectionsKeep
<1>4. CASE Work!ProjectRuns
  BY <1>4, WorkTurned
<1>5. CASE Work!Answers
  BY <1>5, WorkWritten, WorkPromptsLoaded, WorkAvailable, WorkRowsLoaded, WorkShared,
     WorkFails, WorkLineServed, WorkServed
     DEF Work!Answers
<1>6. CASE Work!BackgroundTasks
  BY <1>6, WorkRuns
<1> QED
  BY <1>1, <1>2, <1>3, <1>4, <1>5, <1>6 DEF Work!Next

LEMMA WorkShows == WorkInv => Work!SectionFollowsServer
<1> SUFFICES ASSUME WorkInv, s4 = <<>>, s5.settled, ~s5.lost
             PROVE  CASE s1 = "prompts" ->
                           /\ s2.prompts = s3.prompts /\ s2.known = Work!Active(s3.prompts)
                           /\ s2.ready \ s5.ran =
                                 Work!Ready(s3.prompts, s3.done) \ s5.ran
                      [] s1 = "runs" -> s2.shown = s2.number
                      [] OTHER -> s2.rows = s3.rows
  BY DEF Work!SectionFollowsServer
<1>1. Settled(s1, s2, s4, s3, s5.ran) /\ s1 \in Work!Sections
  BY DEF WorkInv, WorkFollows
<1>2. Quiet(s4) /\ ~Flies(s4, "ready")
  BY DEF Quiet, Flies
<1>3. ASSUME AvailabilityComes(s2, s4, s3, s5.ran)
      PROVE  /\ s2.known = Work!Active(s3.prompts)
             /\ s2.ready \ s5.ran = Work!Ready(s3.prompts, s3.done) \ s5.ran
  <2>1. Work!Ready(s3.prompts, s3.done) \subseteq Work!Active(s3.prompts)
    BY DEF Work!Ready
  <2> QED
    BY <1>2, <1>3, <2>1 DEF AvailabilityComes, SameAvailability
<1>4. s1 \in {"prompts", "competitors", "alerts", "runs"}
  BY <1>1 DEF Settled, Work!Sections
<1> QED
  BY <1>1, <1>2, <1>3, <1>4 DEF Settled

(***************************************************************************)
(* Administration                                                          *)
(***************************************************************************)
PlainTabs == {"models", "prompts", "extraction", "costs"}

\* The calls of a tab, beside those for the counters.
CallsOfTab(t) ==
    CASE t = "models" -> {"models", "sync", "save"}
      [] t = "prompts" -> {"prompts", "toggle"}
      [] t = "extraction" -> {"extraction", "saveSettings", "resetSettings"}
      [] t = "brands" -> {"brands", "preview", "merge"}
      [] t = "queries" -> {"queries", "export"}
      [] t = "references" -> {"references"}
      [] t = "costs" -> {"costs"}

\* What is awaited was asked for by the mounted tab, and what nobody awaits is a write.
CallsKnown(t, n) ==
    /\ t \in Adm!Tabs /\ SomeCalls(n)
    /\ \A i \in DOMAIN n : /\ n[i].gone => n[i].op \in Adm!Writes
                           /\ ~n[i].gone => n[i].op \in CallsOfTab(t) \cup {"overview"}

\* A write that changed the counters is still to be received.
Changing(n) == \E i \in DOMAIN n : n[i].op \in {"save", "toggle"} /\ Agreed(n[i].ans)

\* Otherwise the newest refresh brings them, or brought them.
CountsCome(o, n, s) ==
    \/ Changing(n)
    \/ /\ \A i \in DOMAIN n : n[i].op = "overview" /\ Newest(n, i) /\ n[i].ans # {} =>
             Reply(n[i].ans).body = Adm!Counts(s)
       /\ o.settled /\ ~Flies(n, "overview") => o.counts = Adm!Counts(s)

\* The newest load of a paged table is for what the controls show.
RowsFollow(t, v, n) ==
    t \in Adm!PagedTabs =>
        /\ {"page", "query", "shown", "settled"} \subseteq DOMAIN v
        /\ \A i \in DOMAIN n : n[i].op = t /\ Newest(n, i) => n[i].arg = <<v.query, v.page>>
        /\ v.settled => v.shown = <<v.query, v.page>>

\* A selection that can be merged, and its preview.
Sound(k) ==
    /\ k = [canonical |-> k.canonical, sources |-> k.sources, clash |-> FALSE]
    /\ k.sources # {} /\ k.canonical \notin k.sources

Previewed(p, k) ==
    /\ Sound(k)
    /\ \E clash \in BOOLEAN :
          p = [canonical |-> k.canonical, sources |-> k.sources, clash |-> clash]

\* At most one preview is on its way, while none is shown and nothing can be confirmed;
\* what is shown is the preview of the key beside it.
PreviewsFollow(t, v, n) ==
    t = "brands" =>
        /\ {"canonical", "sources", "preview", "key", "previewing", "confirm"} \subseteq DOMAIN v
        /\ v.canonical # "none" => v.canonical \notin v.sources
        /\ v.preview # Adm!None => Previewed(v.preview, v.key)
        /\ v.confirm => ~v.preview.clash
        /\ \A i \in DOMAIN n : n[i].op = "preview" =>
              /\ v.previewing /\ v.preview = Adm!None /\ ~v.confirm /\ Sound(n[i].arg)
              /\ Agreed(n[i].ans) => Previewed(Reply(n[i].ans).body, n[i].arg)
        /\ \A i, j \in DOMAIN n : n[i].op = "preview" /\ n[j].op = "preview" => i = j

AdmInv ==
    /\ CallsKnown(s1, s4) /\ {"active", "prompts"} \subseteq DOMAIN s5
    /\ RowsFollow(s1, s2, s4) /\ PreviewsFollow(s1, s2, s4) /\ Adm!MergesArePreviewed
    /\ ~s7 => CountsCome(s3, s4, s5)

LEMMA CallsOfTabs ==
    \A t \in Adm!Tabs : "overview" \notin CallsOfTab(t) /\ (t # "brands" => "preview" \notin CallsOfTab(t))
BY DEF Adm!Tabs, Adm!PagedTabs, CallsOfTab

\* A call of the tab is made.
LEMMA AdmIssued ==
    ASSUME NEW t, NEW n, CallsKnown(t, n), NEW op \in CallsOfTab(t), NEW arg,
           NEW m, m = Issue(n, op, arg)
    PROVE  /\ CallsKnown(t, m)
           /\ \A o, s : CountsCome(o, n, s) => CountsCome(o, m, s)
           /\ \A v : RowsFollow(t, v, n) /\ op # t => RowsFollow(t, v, m)
           /\ \A v : PreviewsFollow(t, v, n) /\ op # "preview" => PreviewsFollow(t, v, m)
<1>1. SomeCalls(m) /\ Adds(m, n, Call(op, arg))
  BY SomeIssued DEF CallsKnown
<1>2. PICK k : /\ DOMAIN m = DOMAIN n \cup {k} /\ k \notin DOMAIN n
               /\ m[k] = Call(op, arg)
               /\ \A i \in DOMAIN n : m[i] = n[i] /\ (Newest(m, i) => Newest(n, i))
  BY <1>1 DEF Adds
<1>3. m[k].op = op /\ m[k].ans = {} /\ ~m[k].gone /\ ~Agreed(m[k].ans)
  BY <1>2 DEF Call, Agreed
<1>4. op # "overview"
  BY CallsOfTabs DEF CallsKnown
<1>5. CallsKnown(t, m)
  BY <1>1, <1>2, <1>3 DEF CallsKnown
<1>6. ASSUME NEW o, NEW s, CountsCome(o, n, s) PROVE CountsCome(o, m, s)
  <2>1. Changing(n) => Changing(m)
    BY <1>2 DEF Changing
  <2>2. Flies(n, "overview") => Flies(m, "overview")
    BY <1>2 DEF Flies
  <2> QED
    BY <1>2, <1>3, <1>4, <1>6, <2>1, <2>2 DEF CountsCome
<1>7. ASSUME NEW v, RowsFollow(t, v, n), op # t PROVE RowsFollow(t, v, m)
  BY <1>2, <1>3, <1>7 DEF RowsFollow
<1>8. ASSUME NEW v, PreviewsFollow(t, v, n), op # "preview" PROVE PreviewsFollow(t, v, m)
  BY <1>2, <1>3, <1>8 DEF PreviewsFollow
<1> QED
  BY <1>5, <1>6, <1>7, <1>8

\* The counters are loaded again.
LEMMA AdmRefreshed ==
    ASSUME NEW t, NEW n, CallsKnown(t, n), NEW arg, NEW m, m = Issue(n, "overview", arg)
    PROVE  /\ CallsKnown(t, m) /\ \A o, s : CountsCome(o, m, s)
           /\ \A v : RowsFollow(t, v, n) => RowsFollow(t, v, m)
           /\ \A v : PreviewsFollow(t, v, n) => PreviewsFollow(t, v, m)
<1>1. SomeCalls(m) /\ Adds(m, n, Call("overview", arg))
  BY SomeIssued DEF CallsKnown
<1>2. Call("overview", arg).op = "overview"
  BY DEF Call
<1>3. PICK k : /\ DOMAIN m = DOMAIN n \cup {k} /\ k \notin DOMAIN n
               /\ m[k] = Call("overview", arg)
               /\ \A i \in DOMAIN n : /\ m[i] = n[i]
                                      /\ Newest(m, i) => Newest(n, i) /\ n[i].op # "overview"
  BY <1>1, <1>2 DEF Adds
<1>4. m[k].op = "overview" /\ m[k].ans = {} /\ ~m[k].gone /\ ~Agreed(m[k].ans)
  BY <1>3 DEF Call, Agreed
<1>5. CallsKnown(t, m)
  BY <1>1, <1>3, <1>4 DEF CallsKnown
<1>6. ASSUME NEW o, NEW s PROVE CountsCome(o, m, s)
  <2>1. Flies(m, "overview")
    BY <1>3, <1>4 DEF Flies
  <2> QED
    BY <1>3, <1>4, <2>1 DEF CountsCome
<1>7. ASSUME NEW v, RowsFollow(t, v, n) PROVE RowsFollow(t, v, m)
  <2>1. t \in Adm!PagedTabs => t # "overview"
    BY DEF Adm!PagedTabs
  <2> QED
    BY <1>3, <1>4, <1>7, <2>1 DEF RowsFollow
<1>8. ASSUME NEW v, PreviewsFollow(t, v, n) PROVE PreviewsFollow(t, v, m)
  BY <1>3, <1>4, <1>8 DEF PreviewsFollow
<1> QED
  BY <1>5, <1>6, <1>7, <1>8

\* A call leaves.
LEMMA AdmLeft ==
    ASSUME NEW t, NEW n, CallsKnown(t, n), NEW i \in DOMAIN n, NEW m, m = Finish(n, i)
    PROVE  /\ CallsKnown(t, m)
           /\ n[i].op \notin {"overview", "save", "toggle"} =>
                 \A o, s : CountsCome(o, n, s) => CountsCome(o, m, s)
           /\ \A v : RowsFollow(t, v, n) => RowsFollow(t, v, m)
           /\ \A v : PreviewsFollow(t, v, n) => PreviewsFollow(t, v, m)
           /\ \A v : PreviewsFollow(t, v, n) /\ t = "brands" /\ n[i].op = "preview" =>
                 \A k \in DOMAIN m : m[k].op # "preview"
<1>0. SomeCalls(n)
  BY DEF CallsKnown
<1>1. /\ SomeCalls(m)
      /\ \A k \in DOMAIN m : \E j \in DOMAIN n \ {i} :
            /\ k = IF j < i THEN j ELSE j - 1
            /\ m[k].op = n[j].op /\ m[k].arg = n[j].arg
            /\ m[k].ans = n[j].ans /\ m[k].gone = n[j].gone
            /\ Newest(m, k) => Newest(n, j)
      /\ \A j \in DOMAIN n \ {i} : \E k \in DOMAIN m :
            /\ m[k].op = n[j].op /\ m[k].arg = n[j].arg
            /\ m[k].ans = n[j].ans /\ m[k].gone = n[j].gone
  BY <1>0, SomeLeft
<1>2. CallsKnown(t, m)
  BY <1>1 DEF CallsKnown
<1>3. ASSUME n[i].op \notin {"overview", "save", "toggle"}, NEW o, NEW s, CountsCome(o, n, s)
      PROVE  CountsCome(o, m, s)
  <2>1. Changing(n) => Changing(m)
    BY <1>1, <1>3 DEF Changing
  <2>2. Flies(n, "overview") => Flies(m, "overview")
    BY <1>1, <1>3 DEF Flies
  <2>3. ASSUME ~Changing(n), NEW k \in DOMAIN m, m[k].op = "overview", Newest(m, k), m[k].ans # {}
        PROVE  Reply(m[k].ans).body = Adm!Counts(s)
    <3>1. PICK j \in DOMAIN n : m[k].op = n[j].op /\ m[k].ans = n[j].ans /\ Newest(n, j)
      BY <1>1, <2>3
    <3> QED
      BY <1>3, <2>3, <3>1 DEF CountsCome
  <2> QED
    BY <1>3, <2>1, <2>2, <2>3 DEF CountsCome
<1>4. ASSUME NEW v, RowsFollow(t, v, n) PROVE RowsFollow(t, v, m)
  <2>1. ASSUME t \in Adm!PagedTabs, NEW k \in DOMAIN m, m[k].op = t, Newest(m, k)
        PROVE  m[k].arg = <<v.query, v.page>>
    <3>1. PICK j \in DOMAIN n : m[k].op = n[j].op /\ m[k].arg = n[j].arg /\ Newest(n, j)
      BY <1>1, <2>1
    <3> QED
      BY <1>4, <2>1, <3>1 DEF RowsFollow
  <2> QED
    BY <1>4, <2>1 DEF RowsFollow
<1>5. ASSUME NEW v, PreviewsFollow(t, v, n), t = "brands"
      PROVE  PreviewsFollow(t, v, m) /\ (n[i].op = "preview" => \A k \in DOMAIN m : m[k].op # "preview")
  <2>1. ASSUME NEW k \in DOMAIN m, m[k].op = "preview"
        PROVE  /\ v.previewing /\ v.preview = Adm!None /\ ~v.confirm /\ Sound(m[k].arg)
               /\ Agreed(m[k].ans) => Previewed(Reply(m[k].ans).body, m[k].arg)
               /\ n[i].op # "preview"
    <3>1. PICK j \in DOMAIN n \ {i} :
             m[k].op = n[j].op /\ m[k].arg = n[j].arg /\ m[k].ans = n[j].ans
      BY <1>1
    <3> QED
      BY <1>5, <2>1, <3>1 DEF PreviewsFollow
  <2>2. ASSUME NEW k \in DOMAIN m, NEW l \in DOMAIN m, m[k].op = "preview", m[l].op = "preview"
        PROVE  k = l
    <3>1. PICK j \in DOMAIN n \ {i} : k = (IF j < i THEN j ELSE j - 1) /\ m[k].op = n[j].op
      BY <1>1
    <3>2. PICK h \in DOMAIN n \ {i} : l = (IF h < i THEN h ELSE h - 1) /\ m[l].op = n[h].op
      BY <1>1
    <3>3. j = h
      BY <1>5, <2>2, <3>1, <3>2 DEF PreviewsFollow
    <3> QED
      BY <3>1, <3>2, <3>3
  <2> QED
    BY <1>5, <2>1, <2>2 DEF PreviewsFollow
<1>6. ASSUME NEW v, t # "brands" PROVE PreviewsFollow(t, v, m)
  BY <1>6 DEF PreviewsFollow
<1> QED
  BY <1>2, <1>3, <1>4, <1>5, <1>6

\* The load of a paged table is made, for what the controls show.
LEMMA AdmPageIssued ==
    ASSUME NEW t \in Adm!PagedTabs, NEW n, SomeCalls(n), NEW v,
           {"page", "query", "shown", "settled"} \subseteq DOMAIN v, ~v.settled,
           NEW m, m = Issue(n, t, <<v.query, v.page>>)
    PROVE  RowsFollow(t, v, m)
<1> DEFINE arg == <<v.query, v.page>>
           c == Call(t, arg)
<1>1. Adds(m, n, c)
  BY SomeIssued
<1>2. c.op = t /\ c.arg = arg
  BY DEF Call
<1> HIDE DEF c
<1>3. PICK k : /\ DOMAIN m = DOMAIN n \cup {k} /\ k \notin DOMAIN n /\ m[k] = c
               /\ \A i \in DOMAIN n : m[i] = n[i] /\ (Newest(m, i) => n[i].op # c.op)
  BY <1>1 DEF Adds
<1>4. ASSUME NEW i \in DOMAIN m, m[i].op = t, Newest(m, i) PROVE m[i].arg = arg
  BY <1>2, <1>3, <1>4
<1> QED
  BY <1>4 DEF RowsFollow

\* A call is served.
LEMMA AdmServed ==
    ASSUME NEW t, NEW n, CallsKnown(t, n), NEW i \in DOMAIN n, n[i].ans = {},
           NEW ok, NEW body, NEW m, m = Serve(n, i, ok, body)
    PROVE  /\ CallsKnown(t, m)
           /\ \A v : RowsFollow(t, v, n) => RowsFollow(t, v, m)
           /\ (n[i].op = "preview" /\ Sound(n[i].arg) => Previewed(body, n[i].arg))
              => \A v : PreviewsFollow(t, v, n) => PreviewsFollow(t, v, m)
           /\ \A o, s, u :
                 CountsCome(o, n, s) /\ Adm!Counts(u) = Adm!Counts(s)
                 /\ (n[i].op = "overview" => body = Adm!Counts(s)) => CountsCome(o, m, u)
           /\ n[i].op \in {"save", "toggle"} /\ ok => \A o, s : CountsCome(o, m, s)
<1>1. /\ SomeCalls(m) /\ DOMAIN m = DOMAIN n
      /\ \A j \in DOMAIN n :
            /\ m[j].op = n[j].op /\ m[j].arg = n[j].arg /\ m[j].gone = n[j].gone
            /\ j # i => m[j].ans = n[j].ans
            /\ Newest(m, j) <=> Newest(n, j)
      /\ m[i].ans = {[ok |-> ok, body |-> body]}
  BY SomeServed DEF CallsKnown
<1>2. m[i].ans # {} /\ Reply(m[i].ans) = [ok |-> ok, body |-> body]
  BY <1>1 DEF Reply
<1>3. Reply(m[i].ans).ok = ok /\ Reply(m[i].ans).body = body
  BY <1>2
<1>4. CallsKnown(t, m)
  BY <1>1 DEF CallsKnown
<1>5. ASSUME NEW v, RowsFollow(t, v, n) PROVE RowsFollow(t, v, m)
  BY <1>1, <1>5 DEF RowsFollow
<1>6. ASSUME n[i].op = "preview" /\ Sound(n[i].arg) => Previewed(body, n[i].arg),
             NEW v, PreviewsFollow(t, v, n)
      PROVE  PreviewsFollow(t, v, m)
  <2>1. ASSUME t = "brands", NEW j \in DOMAIN m, m[j].op = "preview"
        PROVE  /\ v.previewing /\ v.preview = Adm!None /\ ~v.confirm /\ Sound(m[j].arg)
               /\ Agreed(m[j].ans) => Previewed(Reply(m[j].ans).body, m[j].arg)
    BY <1>1, <1>3, <1>6, <2>1 DEF PreviewsFollow
  <2> QED
    BY <1>1, <1>6, <2>1 DEF PreviewsFollow
<1>7. Changing(n) => Changing(m)
  BY <1>1 DEF Changing, Agreed
<1>8. Flies(n, "overview") => Flies(m, "overview")
  BY <1>1 DEF Flies
<1>9. ASSUME NEW o, NEW s, NEW u, CountsCome(o, n, s), Adm!Counts(u) = Adm!Counts(s),
             n[i].op = "overview" => body = Adm!Counts(s)
      PROVE  CountsCome(o, m, u)
  <2>1. ASSUME ~Changing(n), NEW j \in DOMAIN m, m[j].op = "overview", Newest(m, j),
               m[j].ans # {}
        PROVE  Reply(m[j].ans).body = Adm!Counts(u)
    BY <1>1, <1>3, <1>9, <2>1 DEF CountsCome
  <2> QED
    BY <1>7, <1>8, <1>9, <2>1 DEF CountsCome
<1>10. n[i].op \in {"save", "toggle"} /\ ok => Changing(m)
  BY <1>1, <1>2, <1>3 DEF Changing, Agreed
<1> QED
  BY <1>4, <1>5, <1>6, <1>9, <1>10 DEF CountsCome

\* The places of the calls that outlast the tab that made them.
Outlast(n, k, p) ==
    /\ k \in 0 .. Len(n) /\ p \in [1 .. k -> DOMAIN n]
    /\ \A a, b \in 1 .. k : a < b => p[a] < p[b]
    /\ {p[a] : a \in 1 .. k} = {i \in DOMAIN n : n[i].op \in Adm!Writes \cup {"overview"}}

\* What is left of one that does.
Outlasting(c) == IF c.op \in Adm!Writes THEN [c EXCEPT !.gone = TRUE] ELSE c

Survivors(n, k, p) == [a \in 1 .. k |-> Outlasting(n[p[a]])]

\* Only the writes of the tab that is left stay, and what refreshes the counters.
LEMMA AdmUnmounted ==
    ASSUME NEW t, NEW n, CallsKnown(t, n), NEW other \in Adm!Tabs, NEW k, NEW p,
           Outlast(n, k, p), NEW m, m = Survivors(n, k, p)
    PROVE  /\ CallsKnown(other, m)
           /\ \A o, s : CountsCome(o, n, s) => CountsCome(o, m, s)
           /\ \A a \in DOMAIN m : m[a].op \in Adm!Writes \cup {"overview"}
<1>0. PICK ops, args, answers : n \in Seq(CallsWith(ops, args, answers))
  BY DEF CallsKnown, SomeCalls
<1>1. /\ Len(n) \in Nat /\ DOMAIN n = 1 .. Len(n) /\ k \in Nat
      /\ \A a \in 1 .. k : p[a] \in DOMAIN n
      /\ \A i \in DOMAIN n : n[i] \in CallsWith(ops, args, answers)
  BY <1>0 DEF Outlast
<1> DEFINE c(a) == Outlasting(n[p[a]])
<1>2. ASSUME NEW a \in 1 .. k
      PROVE  /\ c(a) \in CallsWith(ops, args, answers)
             /\ c(a).op = n[p[a]].op /\ c(a).arg = n[p[a]].arg
             /\ c(a).ans = n[p[a]].ans /\ c(a).late = n[p[a]].late
             /\ c(a).op \in Adm!Writes \cup {"overview"}
             /\ c(a).gone <=> c(a).op \in Adm!Writes
  <2>1. n[p[a]].op \in Adm!Writes \cup {"overview"}
    BY DEF Outlast
  <2>2. n[p[a]].gone => n[p[a]].op \in Adm!Writes
    BY <1>1 DEF CallsKnown
  <2>3. n[p[a]] \in CallsWith(ops, args, answers)
    BY <1>1
  <2> QED
    BY <2>1, <2>2, <2>3 DEF CallsWith, Outlasting
<1> HIDE DEF c
<1>3. m \in [1 .. k -> CallsWith(ops, args, answers)] /\ \A a \in 1 .. k : m[a] = c(a)
  BY <1>2 DEF c, Survivors
<1>10. SomeCalls(m) /\ DOMAIN m = 1 .. k
  <2>1. m \in Seq(CallsWith(ops, args, answers))
    BY <1>1, <1>3
  <2> QED
    BY <1>3, <2>1 DEF SomeCalls
<1>4. CallsKnown(other, m)
  BY <1>2, <1>3, <1>10 DEF CallsKnown
<1>5. ASSUME NEW i \in DOMAIN n, n[i].op \in Adm!Writes \cup {"overview"}
      PROVE  \E a \in 1 .. k : p[a] = i
  BY <1>5 DEF Outlast
<1>6. Changing(n) => Changing(m)
  <2> SUFFICES ASSUME Changing(n) PROVE Changing(m)
    OBVIOUS
  <2>1. PICK i \in DOMAIN n : n[i].op \in {"save", "toggle"} /\ Agreed(n[i].ans)
    BY DEF Changing
  <2>2. PICK a \in 1 .. k : p[a] = i
    BY <1>5, <2>1 DEF Adm!Writes
  <2> QED
    BY <1>2, <1>3, <1>10, <2>1, <2>2 DEF Changing
<1>7. Flies(n, "overview") => Flies(m, "overview")
  <2> SUFFICES ASSUME NEW i \in DOMAIN n, n[i].op = "overview" PROVE Flies(m, "overview")
    BY DEF Flies
  <2>1. PICK a \in 1 .. k : p[a] = i
    BY <1>5
  <2> QED
    BY <1>2, <1>3, <1>10, <2>1 DEF Flies
<1>8. ASSUME NEW a \in DOMAIN m, m[a].op = "overview", Newest(m, a)
      PROVE  p[a] \in DOMAIN n /\ n[p[a]].op = "overview" /\ Newest(n, p[a])
             /\ m[a].ans = n[p[a]].ans
  <2>1. p[a] \in DOMAIN n /\ n[p[a]].op = "overview" /\ m[a].ans = n[p[a]].ans
        /\ ~n[p[a]].late
    BY <1>1, <1>2, <1>3, <1>8, <1>10 DEF Newest
  <2>2. ASSUME NEW j \in DOMAIN n, j > p[a], n[j].op = "overview" PROVE FALSE
    <3>1. PICK b \in 1 .. k : p[b] = j
      BY <1>5, <2>2
    <3>2. b > a
      <4>1. a \in 1 .. k /\ \A x, y \in 1 .. k : x < y => p[x] < p[y]
        BY <1>10 DEF Outlast
      <4>2. ~(b < a) /\ b # a
        BY <1>1, <2>2, <3>1, <4>1
      <4> QED
        BY <1>1, <4>1, <4>2
    <3>3. b \in DOMAIN m /\ m[b].op = "overview"
      BY <1>2, <1>3, <1>10, <2>2, <3>1
    <3> QED
      BY <1>8, <3>2, <3>3 DEF Newest
  <2> QED
    BY <2>1, <2>2 DEF Newest
<1>9. ASSUME NEW o, NEW s, CountsCome(o, n, s) PROVE CountsCome(o, m, s)
  BY <1>6, <1>7, <1>8, <1>9 DEF CountsCome
<1> QED
  BY <1>2, <1>3, <1>4, <1>9, <1>10

LEMMA AdmSelected ==
    ASSUME AdmInv, NEW t \in Adm!Tabs, Adm!SelectTab(t)
    PROVE  AdmInv'
<1>1. /\ s1' = t /\ s2' = Adm!Mounted(t) /\ s3' = s3 /\ s5' = s5 /\ s6' = s6 /\ s7' = s7
  BY DEF Adm!SelectTab
<1> DEFINE kept(p) == [a \in DOMAIN p |-> s4[p[a]]]
           rest(p) == [a \in DOMAIN kept(p) |-> IF kept(p)[a].op \in Adm!Writes
                                                THEN [kept(p)[a] EXCEPT !.gone = TRUE]
                                                ELSE kept(p)[a]]
<1>2. PICK p \in Adm!Places(Adm!Writes \cup {"overview"}) : s4' = Adm!MountCalls(rest(p), t)
  BY DEF Adm!SelectTab, Adm!Unmount
<1>3. PICK k : Outlast(s4, k, p) /\ DOMAIN p = 1 .. k
  BY DEF Adm!Places, Outlast
<1>4. rest(p) = Survivors(s4, k, p)
  BY <1>3 DEF Survivors, Outlasting
<1>5. PICK m : m = rest(p)
  OBVIOUS
<1> HIDE DEF kept, rest
<1>6. s4' = Adm!MountCalls(m, t)
  BY <1>2, <1>5
<1>7. /\ CallsKnown(s1, s4) /\ {"active", "prompts"} \subseteq DOMAIN s5
      /\ ~s7 => CountsCome(s3, s4, s5)
      /\ Adm!MergesArePreviewed
  BY DEF AdmInv
<1>8. /\ CallsKnown(t, m) /\ (~s7 => CountsCome(s3, m, s5))
      /\ \A a \in DOMAIN m : m[a].op \in Adm!Writes \cup {"overview"}
  <2>1. \A o, s : CountsCome(o, s4, s) => CountsCome(o, m, s)
    BY <1>3, <1>4, <1>5, <1>7, AdmUnmounted
  <2>2. CallsKnown(t, m) /\ \A a \in DOMAIN m : m[a].op \in Adm!Writes \cup {"overview"}
    BY <1>3, <1>4, <1>5, <1>7, AdmUnmounted
  <2> QED
    BY <1>7, <2>1, <2>2
<1>13. ASSUME CallsKnown(t, s4'), ~s7 => CountsCome(s3, s4', s5),
              RowsFollow(t, s2', s4'), PreviewsFollow(t, s2', s4')
       PROVE  AdmInv'
  BY <1>1, <1>7, <1>13 DEF AdmInv, Adm!MergesArePreviewed
<1>9. CASE t = "prompts"
  <2>1. s4' = m /\ s1' = "prompts"
    BY <1>1, <1>6, <1>9 DEF Adm!MountCalls, Adm!PagedTabs
  <2>2. RowsFollow("prompts", s2', m) /\ PreviewsFollow("prompts", s2', m)
    BY DEF RowsFollow, PreviewsFollow, Adm!PagedTabs
  <2> QED
    BY <1>8, <1>9, <1>13, <2>1, <2>2
<1>10. CASE t \in Adm!PagedTabs
  <2> DEFINE arg == <<Adm!NoQuery, 1>>
  <2>1. s4' = Issue(m, t, arg)
    BY <1>6, <1>10 DEF Adm!MountCalls, Adm!PagedTabs, Adm!Issue, Adm!Call, Issue, Call
  <2>2. /\ {"page", "query", "shown", "settled"} \subseteq DOMAIN s2' /\ ~s2'.settled
        /\ s2'.query = Adm!NoQuery /\ s2'.page = 1
    BY <1>1, <1>10
       DEF Adm!Mounted, Adm!PagedTabs, Adm!ReferencesState, Adm!SearchQueriesState
  <2>3. RowsFollow(t, s2', s4')
    BY <1>8, <1>10, <2>1, <2>2, AdmPageIssued DEF CallsKnown
  <2>4. t \in CallsOfTab(t)
    BY <1>10 DEF CallsOfTab, Adm!PagedTabs
  <2>5. CallsKnown(t, s4') /\ (~s7 => CountsCome(s3, s4', s5))
    BY <1>8, <2>1, <2>4, AdmIssued
  <2>6. PreviewsFollow(t, s2', s4')
    BY <1>10 DEF PreviewsFollow, Adm!PagedTabs
  <2> QED
    BY <1>13, <2>3, <2>5, <2>6
<1>11. CASE t = "brands"
  <2>1. s4' = Issue(m, "brands", "mount") /\ s1' = "brands"
    BY <1>1, <1>6, <1>11
       DEF Adm!MountCalls, Adm!PagedTabs, Adm!Issue, Adm!Call, Issue, Call
  <2>2. s2' = Adm!BrandsState
    BY <1>1, <1>11 DEF Adm!Mounted
  <2>3. RowsFollow("brands", s2', m)
    BY DEF RowsFollow, Adm!PagedTabs
  <2>4. PreviewsFollow("brands", s2', m)
    BY <1>8, <2>2 DEF PreviewsFollow, Adm!BrandsState, Adm!Writes
  <2>5. "brands" \in CallsOfTab("brands") /\ "brands" \notin Adm!PagedTabs
    BY DEF CallsOfTab, Adm!PagedTabs
  <2>6. /\ CallsKnown(t, s4') /\ (~s7 => CountsCome(s3, s4', s5))
        /\ PreviewsFollow(t, s2', s4')
    BY <1>8, <1>11, <2>1, <2>4, <2>5, AdmIssued
  <2> QED
    BY <1>11, <1>13, <2>5, <2>6 DEF RowsFollow
<1>12. CASE t \in PlainTabs \ {"prompts"}
  <2>1. s4' = Issue(m, t, {})
    BY <1>6, <1>12
       DEF Adm!MountCalls, PlainTabs, Adm!PagedTabs, Adm!Issue, Adm!Call, Issue, Call
  <2>2. t \in CallsOfTab(t) /\ t \notin Adm!PagedTabs /\ t # "brands"
    BY <1>12 DEF CallsOfTab, PlainTabs, Adm!PagedTabs
  <2>3. CallsKnown(t, s4') /\ (~s7 => CountsCome(s3, s4', s5))
    BY <1>8, <2>1, <2>2, AdmIssued
  <2> QED
    BY <1>13, <2>2, <2>3 DEF RowsFollow, PreviewsFollow
<1> QED
  BY <1>9, <1>10, <1>11, <1>12 DEF PlainTabs, Adm!Tabs, Adm!PagedTabs

\* What a handler does with the calls of its tab: it makes one, or is the continuation of one.
Moves(t, n, m) ==
    \/ m = n
    \/ \E op \in CallsOfTab(t) : \E arg : m = Issue(n, op, arg)
    \/ \E i \in DOMAIN n : n[i].op \notin {"overview", "save", "toggle"} /\ m = Finish(n, i)
    \/ \E i \in DOMAIN n, op \in CallsOfTab(t) : \E arg :
           /\ n[i].op \notin {"overview", "save", "toggle"}
           /\ m = Issue(Finish(n, i), op, arg)
    \/ \E i \in DOMAIN n : \E arg : m = Issue(Finish(n, i), "overview", arg)

LEMMA AdmMoves ==
    ASSUME NEW t, NEW n, CallsKnown(t, n), NEW m, Moves(t, n, m)
    PROVE  CallsKnown(t, m) /\ \A o, s : CountsCome(o, n, s) => CountsCome(o, m, s)
<1>1. CASE m = n
  BY <1>1
<1>2. ASSUME NEW op \in CallsOfTab(t), NEW arg, m = Issue(n, op, arg)
      PROVE  CallsKnown(t, m) /\ \A o, s : CountsCome(o, n, s) => CountsCome(o, m, s)
  BY <1>2, AdmIssued
<1>3. ASSUME NEW i \in DOMAIN n
      PROVE  /\ CallsKnown(t, Finish(n, i))
             /\ n[i].op \notin {"overview", "save", "toggle"} =>
                   \A o, s : CountsCome(o, n, s) => CountsCome(o, Finish(n, i), s)
  BY AdmLeft
<1>4. ASSUME NEW i \in DOMAIN n, NEW op \in CallsOfTab(t), NEW arg,
             n[i].op \notin {"overview", "save", "toggle"}, m = Issue(Finish(n, i), op, arg)
      PROVE  CallsKnown(t, m) /\ \A o, s : CountsCome(o, n, s) => CountsCome(o, m, s)
  <2> DEFINE f == Finish(n, i)
  <2>1. CallsKnown(t, f) /\ m = Issue(f, op, arg)
    BY <1>3, <1>4
  <2>2. \A o, s : CountsCome(o, n, s) => CountsCome(o, f, s)
    BY <1>3, <1>4
  <2> HIDE DEF f
  <2>3. CallsKnown(t, m) /\ \A o, s : CountsCome(o, f, s) => CountsCome(o, m, s)
    BY <2>1, AdmIssued
  <2> QED
    BY <2>2, <2>3
<1>5. ASSUME NEW i \in DOMAIN n, NEW arg, m = Issue(Finish(n, i), "overview", arg)
      PROVE  CallsKnown(t, m) /\ \A o, s : CountsCome(o, m, s)
  <2> DEFINE f == Finish(n, i)
  <2>1. CallsKnown(t, f) /\ m = Issue(f, "overview", arg)
    BY <1>3, <1>5
  <2> HIDE DEF f
  <2> QED
    BY <2>1, AdmRefreshed
<1>6. CASE \E i \in DOMAIN n :
              n[i].op \notin {"overview", "save", "toggle"} /\ m = Finish(n, i)
  BY <1>3, <1>6
<1> QED
  BY <1>1, <1>2, <1>4, <1>5, <1>6 DEF Moves

\* A handler of the mounted tab leaves the rest of the page alone.
Handles == s1' = s1 /\ s3' = s3 /\ s5' = s5 /\ s6' = s6 /\ s7' = s7

LEMMA AdmHandled ==
    ASSUME AdmInv, Handles, Moves(s1, s4, s4'),
           RowsFollow(s1, s2', s4'), PreviewsFollow(s1, s2', s4')
    PROVE  AdmInv'
<1>1. CallsKnown(s1, s4') /\ \A o, s : CountsCome(o, s4, s) => CountsCome(o, s4', s)
  BY AdmMoves DEF AdmInv
<1> QED
  BY <1>1 DEF AdmInv, Handles, Adm!MergesArePreviewed

\* The handlers change the view and the calls alone.
LEMMA AdmDoes ==
    /\ \A v : Adm!SetView(v) => Handles /\ s2' = v /\ s4' = s4
    /\ \A v, op, arg : Adm!SetAndCall(v, op, arg) =>
          Handles /\ s2' = v /\ s4' = Issue(s4, op, arg)
    /\ \A i, v, n : Adm!Continue(i, v, n) => Handles /\ s2' = v /\ s4' = n
BY DEF Adm!SetView, Adm!SetAndCall, Adm!Continue, Handles, Adm!Issue, Adm!Call, Issue, Call

LEMMA AdmFinishes ==
    /\ \A n, i : Adm!Finish(n, i) = Finish(n, i)
    /\ \A n : \E arg : Adm!RefreshOverview(n) = Issue(n, "overview", arg)
    /\ \A n, op, arg : Adm!Issue(n, op, arg) = Issue(n, op, arg)
BY DEF Adm!Finish, Adm!RemoveAt, Finish, RemoveAt, Adm!RefreshOverview, Adm!Issue, Adm!Call,
       Issue, Call

\* The answer received is one to the mounted tab.
LEMMA AdmReceived ==
    ASSUME AdmInv, NEW op, NEW i \in DOMAIN s4, Adm!Received(op, i), op # "overview"
    PROVE  op \in CallsOfTab(s1) /\ s4[i].op = op /\ s1 \in Adm!Tabs
BY DEF AdmInv, CallsKnown, Adm!Received

\* Those of the other tabs, whatever they show.
LEMMA AdmPlainHandled ==
    ASSUME AdmInv, s1 \in PlainTabs, Handles, Moves(s1, s4, s4')
    PROVE  AdmInv'
<1>1. s1 \notin Adm!PagedTabs /\ s1 # "brands"
  BY DEF PlainTabs, Adm!PagedTabs
<1> QED
  BY <1>1, AdmHandled DEF RowsFollow, PreviewsFollow

LEMMA AdmPlainSets ==
    ASSUME AdmInv, s1 \in PlainTabs, NEW v, Adm!SetView(v)
    PROVE  AdmInv'
BY AdmDoes, AdmPlainHandled DEF Moves

LEMMA AdmPlainCalls ==
    ASSUME AdmInv, s1 \in PlainTabs, NEW op \in CallsOfTab(s1), NEW v, NEW arg,
           Adm!SetAndCall(v, op, arg)
    PROVE  AdmInv'
<1>1. Handles /\ s4' = Issue(s4, op, arg)
  BY AdmDoes
<1> QED
  BY <1>1, AdmPlainHandled DEF Moves

LEMMA AdmPlainContinues ==
    ASSUME AdmInv, NEW op, op # "overview", NEW i \in DOMAIN s4, Adm!Received(op, i),
           \A t \in Adm!Tabs : op \in CallsOfTab(t) => t \in PlainTabs, NEW v, NEW n,
           Adm!Continue(i, v, n),
           \/ n = Adm!Finish(s4, i) /\ op \notin {"save", "toggle"}
           \/ n = Adm!RefreshOverview(Adm!Finish(s4, i))
    PROVE  AdmInv'
<1>1. s4[i].op = op /\ s1 \in PlainTabs
  BY AdmReceived
<1>2. Handles /\ s4' = n
  BY AdmDoes
<1>3. \/ n = Finish(s4, i) /\ op \notin {"save", "toggle"}
      \/ \E arg : n = Issue(Finish(s4, i), "overview", arg)
  BY AdmFinishes
<1>4. Moves(s1, s4, s4')
  BY <1>1, <1>2, <1>3 DEF Moves
<1> QED
  BY <1>1, <1>2, <1>4, AdmPlainHandled

\* Which tab an answer belongs to.
LEMMA PlainCalls ==
    ASSUME NEW t \in Adm!Tabs,
           NEW op \in {"models", "sync", "save", "prompts", "toggle", "extraction",
                       "saveSettings", "resetSettings", "costs"},
           op \in CallsOfTab(t)
    PROVE  t \in PlainTabs
BY DEF Adm!Tabs, Adm!PagedTabs, CallsOfTab, PlainTabs

LEMMA AdmPlainKeeps ==
    ASSUME AdmInv, \/ Adm!ModelsTab \/ Adm!PromptsTab \/ Adm!ExtractionTab \/ Adm!CostsTab
    PROVE  AdmInv'
<1>1. \A t : Adm!On(t) => s1 = t
  BY DEF Adm!On
<1>2. ASSUME s1 \in PlainTabs, \E v : Adm!SetView(v) PROVE AdmInv'
  BY <1>2, AdmPlainSets
<1>3. ASSUME s1 \in PlainTabs,
             \E op, arg, v : op \in CallsOfTab(s1) /\ Adm!SetAndCall(v, op, arg)
      PROVE  AdmInv'
  BY <1>3, AdmPlainCalls
<1>4. ASSUME NEW i \in DOMAIN s4,
             NEW op \in {"models", "sync", "prompts", "extraction", "saveSettings",
                         "resetSettings", "costs"},
             Adm!Received(op, i), \E v : Adm!Continue(i, v, Adm!Finish(s4, i))
      PROVE  AdmInv'
  <2>1. \A t \in Adm!Tabs : op \in CallsOfTab(t) => t \in PlainTabs
    BY PlainCalls
  <2> QED
    BY <1>4, <2>1, AdmPlainContinues
<1>5. ASSUME NEW i \in DOMAIN s4, NEW op \in {"save", "toggle"}, Adm!Received(op, i),
             \E v : Adm!Continue(i, v, Adm!RefreshOverview(Adm!Finish(s4, i)))
      PROVE  AdmInv'
  <2>1. \A t \in Adm!Tabs : op \in CallsOfTab(t) => t \in PlainTabs
    BY PlainCalls
  <2> QED
    BY <1>5, <2>1, AdmPlainContinues
<1>6. {"models", "prompts", "extraction"} \subseteq PlainTabs
  BY DEF PlainTabs
<1>7. ASSUME Adm!ModelsTab PROVE AdmInv'
  <2>1. ASSUME Adm!On("models") PROVE s1 \in PlainTabs /\ {"sync", "save"} \subseteq CallsOfTab(s1)
    BY <1>1, <1>6, <2>1 DEF CallsOfTab
  <2>2. ASSUME NEW k, Adm!ToggleModel(k) PROVE AdmInv'
    BY <1>2, <2>1, <2>2 DEF Adm!ToggleModel
  <2>3. ASSUME Adm!DisableAll PROVE AdmInv'
    BY <1>2, <2>1, <2>3 DEF Adm!DisableAll
  <2>4. ASSUME Adm!SyncGateway PROVE AdmInv'
    BY <1>3, <2>1, <2>4 DEF Adm!SyncGateway
  <2>5. ASSUME Adm!SaveModels PROVE AdmInv'
    BY <1>3, <2>1, <2>5 DEF Adm!SaveModels
  <2>6. ASSUME NEW i \in DOMAIN s4, Adm!ModelsLoaded(i) PROVE AdmInv'
    BY <1>4, <2>6 DEF Adm!ModelsLoaded
  <2>7. ASSUME NEW i \in DOMAIN s4, Adm!GatewaySynced(i) PROVE AdmInv'
    BY <1>4, <2>7 DEF Adm!GatewaySynced
  <2>8. ASSUME NEW i \in DOMAIN s4, Adm!ModelsSaved(i) PROVE AdmInv'
    BY <1>5, <2>8 DEF Adm!ModelsSaved
  <2> QED
    BY <1>7, <2>2, <2>3, <2>4, <2>5, <2>6, <2>7, <2>8 DEF Adm!ModelsTab
<1>8. ASSUME Adm!PromptsTab PROVE AdmInv'
  <2>1. ASSUME Adm!On("prompts")
        PROVE  s1 \in PlainTabs /\ {"prompts", "toggle"} \subseteq CallsOfTab(s1)
    BY <1>1, <1>6, <2>1 DEF CallsOfTab
  <2>2. ASSUME NEW a, NEW q, Adm!FilterPrompts(a, q) PROVE AdmInv'
    BY <1>2, <2>1, <2>2 DEF Adm!FilterPrompts
  <2>3. ASSUME Adm!PromptsTimer PROVE AdmInv'
    BY <1>3, <2>1, <2>3 DEF Adm!PromptsTimer
  <2>4. ASSUME NEW row, Adm!TogglePrompt(row) PROVE AdmInv'
    BY <1>3, <2>1, <2>4 DEF Adm!TogglePrompt
  <2>5. ASSUME NEW i \in DOMAIN s4, Adm!PromptsLoaded(i) PROVE AdmInv'
    BY <1>4, <2>5 DEF Adm!PromptsLoaded
  <2>6. ASSUME NEW i \in DOMAIN s4, Adm!PromptToggled(i) PROVE AdmInv'
    BY <1>5, <2>6 DEF Adm!PromptToggled
  <2> QED
    BY <1>8, <2>2, <2>3, <2>4, <2>5, <2>6 DEF Adm!PromptsTab
<1>9. ASSUME Adm!ExtractionTab PROVE AdmInv'
  <2>1. ASSUME Adm!On("extraction")
        PROVE  s1 \in PlainTabs /\ {"saveSettings", "resetSettings"} \subseteq CallsOfTab(s1)
    BY <1>1, <1>6, <2>1 DEF CallsOfTab
  <2>2. ASSUME NEW d, Adm!EditDraft(d) PROVE AdmInv'
    BY <1>2, <2>1, <2>2 DEF Adm!EditDraft
  <2>3. ASSUME Adm!CancelDraft PROVE AdmInv'
    BY <1>2, <2>1, <2>3 DEF Adm!CancelDraft
  <2>4. ASSUME Adm!SaveSettings PROVE AdmInv'
    BY <1>3, <2>1, <2>4 DEF Adm!SaveSettings
  <2>5. ASSUME Adm!ResetSettings PROVE AdmInv'
    BY <1>3, <2>1, <2>5 DEF Adm!ResetSettings
  <2>6. ASSUME NEW i \in DOMAIN s4, Adm!SettingsLoaded(i) PROVE AdmInv'
    BY <1>4, <2>6 DEF Adm!SettingsLoaded
  <2>7. ASSUME NEW i \in DOMAIN s4, Adm!SettingsSaved(i) PROVE AdmInv'
    BY <1>4, <2>7 DEF Adm!SettingsSaved
  <2>8. ASSUME NEW i \in DOMAIN s4, Adm!SettingsReset(i) PROVE AdmInv'
    BY <1>4, <2>8 DEF Adm!SettingsReset
  <2> QED
    BY <1>9, <2>2, <2>3, <2>4, <2>5, <2>6, <2>7, <2>8 DEF Adm!ExtractionTab
<1>10. ASSUME Adm!CostsTab PROVE AdmInv'
  BY <1>4, <1>10 DEF Adm!CostsTab, Adm!CostsLoaded
<1> QED
  BY <1>7, <1>8, <1>9, <1>10

\* What the rows and controls of a paged table are judged by.
SameTable(v, w) ==
    /\ DOMAIN w = DOMAIN v
    /\ w.page = v.page /\ w.query = v.query /\ w.shown = v.shown /\ w.settled = v.settled

LEMMA SameRows ==
    ASSUME NEW t, NEW n, NEW v, NEW w, RowsFollow(t, v, n),
           {"page", "query", "shown", "settled"} \subseteq DOMAIN v => SameTable(v, w)
    PROVE  RowsFollow(t, w, n)
BY DEF RowsFollow, SameTable

LEMMA AdmPagedKeeps ==
    ASSUME AdmInv, Adm!ReferencesTab \/ Adm!SearchQueriesTab
    PROVE  AdmInv'
<1>0. CallsKnown(s1, s4) /\ SomeCalls(s4) /\ RowsFollow(s1, s2, s4)
  BY DEF AdmInv, CallsKnown
<1>1. ASSUME NEW q, NEW p, Adm!ShowPage(q, p) PROVE AdmInv'
  <2> DEFINE v == [s2 EXCEPT !.query = q, !.page = p, !.loading = TRUE, !.settled = FALSE]
  <2>1. s1 \in Adm!PagedTabs /\ Handles /\ s2' = v /\ s4' = Issue(s4, s1, <<q, p>>)
    BY <1>1, AdmDoes DEF Adm!ShowPage
  <2>2. {"page", "query", "shown", "settled"} \subseteq DOMAIN s2
    BY <1>0, <2>1 DEF RowsFollow
  <2>3. /\ {"page", "query", "shown", "settled"} \subseteq DOMAIN v /\ ~v.settled
        /\ v.query = q /\ v.page = p
    BY <2>2
  <2> HIDE DEF v
  <2>4. RowsFollow(s1, v, s4')
    BY <1>0, <2>1, <2>3, AdmPageIssued
  <2>5. s1 \in CallsOfTab(s1) /\ s1 # "brands"
    BY <2>1 DEF CallsOfTab, Adm!PagedTabs
  <2> QED
    BY <2>1, <2>4, <2>5, AdmHandled DEF Moves, PreviewsFollow
<1>2. ASSUME NEW i \in DOMAIN s4, Adm!ReferencesLoaded(i) PROVE AdmInv'
  <2> DEFINE f == Finish(s4, i)
             last == Newest(s4, i)
             x == s4[i].arg
             y == Adm!Body(i)
             v == [s2 EXCEPT !.shown = x, !.total = y, !.loading = FALSE, !.settled = last]
  <2>1. PICK t \in Adm!PagedTabs : Adm!Received(t, i)
    BY <1>2 DEF Adm!ReferencesLoaded
  <2>2. t # "overview"
    BY DEF Adm!PagedTabs
  <2>3. s4[i].op = t /\ t \in CallsOfTab(s1) /\ s1 \in Adm!Tabs
    BY <2>1, <2>2, AdmReceived
  <2>4. s1 = t
    BY <2>3 DEF CallsOfTab, Adm!Tabs, Adm!PagedTabs
  <2>5. Handles /\ s2' = v /\ s4' = f
    BY <1>2, AdmDoes, AdmFinishes DEF Adm!ReferencesLoaded, Adm!Newest, Newest
  <2>6. RowsFollow(s1, s2, f)
    BY <1>0, AdmLeft
  <2>7. last => x = <<s2.query, s2.page>>
    BY <1>0, <2>3, <2>4 DEF RowsFollow
  <2>8. {"page", "query", "shown", "settled"} \subseteq DOMAIN s2
    BY <1>0, <2>4 DEF RowsFollow
  <2> HIDE DEF x, y, last, f
  <2>9. /\ DOMAIN v = DOMAIN s2 /\ v.page = s2.page /\ v.query = s2.query
        /\ v.shown = x /\ v.settled = last
    BY <2>8
  <2> HIDE DEF v
  <2>10. RowsFollow(s1, v, f)
    BY <2>6, <2>7, <2>9 DEF RowsFollow
  <2>11. s4[i].op \notin {"overview", "save", "toggle"} /\ s1 # "brands"
    BY <2>3, <2>4 DEF Adm!PagedTabs
  <2>12. Moves(s1, s4, s4')
    BY <2>5, <2>11 DEF Moves, f
  <2> QED
    BY <2>5, <2>10, <2>11, <2>12, AdmHandled DEF PreviewsFollow
<1>3. ASSUME Adm!ExportCsv PROVE AdmInv'
  <2> DEFINE v == [s2 EXCEPT !.exporting = TRUE]
             x == s2.query
  <2>1. s1 = "queries" /\ Handles /\ s2' = v /\ s4' = Issue(s4, "export", x)
    BY <1>3, AdmDoes DEF Adm!ExportCsv, Adm!On
  <2>2. {"page", "query", "shown", "settled"} \subseteq DOMAIN s2 => SameTable(s2, v)
    BY DEF SameTable
  <2> HIDE DEF v, x
  <2>3. "export" \in CallsOfTab(s1) /\ "export" # s1 /\ s1 # "brands"
    BY <2>1 DEF CallsOfTab
  <2>4. RowsFollow(s1, s2, s4')
    BY <1>0, <2>1, <2>3, AdmIssued
  <2>5. RowsFollow(s1, v, s4')
    BY <2>2, <2>4, SameRows
  <2>6. Moves(s1, s4, s4')
    BY <2>1, <2>3 DEF Moves
  <2> QED
    BY <2>1, <2>3, <2>5, <2>6, AdmHandled DEF PreviewsFollow
<1>4. ASSUME NEW i \in DOMAIN s4, Adm!CsvExported(i) PROVE AdmInv'
  <2> DEFINE v == [s2 EXCEPT !.exporting = FALSE]
             f == Finish(s4, i)
  <2>1. Handles /\ s2' = v /\ s4' = f
    BY <1>4, AdmDoes, AdmFinishes DEF Adm!CsvExported
  <2>2. s4[i].op = "export" /\ "export" \in CallsOfTab(s1) /\ s1 \in Adm!Tabs
    BY <1>4, AdmReceived DEF Adm!CsvExported
  <2>3. s1 = "queries"
    BY <2>2 DEF CallsOfTab, Adm!Tabs, Adm!PagedTabs
  <2>4. {"page", "query", "shown", "settled"} \subseteq DOMAIN s2 => SameTable(s2, v)
    BY DEF SameTable
  <2>5. RowsFollow(s1, s2, f)
    BY <1>0, AdmLeft
  <2>6. Moves(s1, s4, s4')
    BY <2>1, <2>2 DEF Moves
  <2> HIDE DEF v, f
  <2>7. RowsFollow(s1, v, s4')
    BY <2>1, <2>4, <2>5, SameRows
  <2> QED
    BY <2>1, <2>3, <2>6, <2>7, AdmHandled DEF PreviewsFollow
<1>5. ASSUME Adm!ReferencesTab PROVE AdmInv'
  <2>1. ASSUME NEW q, Adm!SubmitSearch(q) PROVE AdmInv'
    BY <1>1, <2>1 DEF Adm!SubmitSearch
  <2>2. ASSUME Adm!NextPage \/ Adm!PreviousPage PROVE AdmInv'
    BY <1>1, <2>2 DEF Adm!NextPage, Adm!PreviousPage
  <2> QED
    BY <1>2, <1>5, <2>1, <2>2 DEF Adm!ReferencesTab
<1>6. ASSUME Adm!SearchQueriesTab PROVE AdmInv'
  BY <1>3, <1>4, <1>6 DEF Adm!SearchQueriesTab
<1> QED
  BY <1>5, <1>6

MergeFields == {"canonical", "sources", "preview", "key", "previewing", "confirm"}

\* Nothing is being previewed, shown or confirmed.
LEMMA NothingPreviewed ==
    ASSUME NEW v, NEW n, NEW w, PreviewsFollow("brands", v, n),
           MergeFields \subseteq DOMAIN v => MergeFields \subseteq DOMAIN w,
           w.canonical # "none" => w.canonical \notin w.sources,
           w.preview = Adm!None, ~w.confirm, w.previewing = v.previewing
    PROVE  PreviewsFollow("brands", w, n)
BY DEF PreviewsFollow, MergeFields

LEMMA AdmSelectionKeeps ==
    ASSUME AdmInv, NEW b, Adm!SelectCanonical(b) \/ Adm!ToggleSource(b)
    PROVE  AdmInv'
<1> DEFINE others == s2.sources \ {b}
           first == [s2 EXCEPT !.canonical = b]
           v == [first EXCEPT !.sources = others, !.preview = Adm!None]
           more == IF b \in s2.sources THEN others ELSE s2.sources \cup {b}
           w == [s2 EXCEPT !.sources = more, !.preview = Adm!None]
<1>1. s1 = "brands" /\ ~s2.confirm /\ PreviewsFollow("brands", s2, s4)
  BY DEF Adm!SelectCanonical, Adm!ToggleSource, Adm!On, Adm!Idle, AdmInv
<1>2. MergeFields \subseteq DOMAIN s2
  BY <1>1 DEF PreviewsFollow, MergeFields
<1>3. /\ Adm!SelectCanonical(b) => Handles /\ s2' = v /\ s4' = s4
      /\ Adm!ToggleSource(b) => Handles /\ s2' = w /\ s4' = s4 /\ b # s2.canonical
  BY AdmDoes DEF Adm!SelectCanonical, Adm!ToggleSource, Adm!UpdateSources
<1>4. b \notin others /\ (s2.canonical \in more => s2.canonical \in s2.sources \/ b = s2.canonical)
  OBVIOUS
<1> HIDE DEF others, more
<1>5. DOMAIN first = DOMAIN s2 /\ first.canonical = b /\ first.previewing = s2.previewing
      /\ first.confirm = s2.confirm
  BY <1>2 DEF MergeFields
<1> HIDE DEF first
<1>6. /\ DOMAIN v = DOMAIN s2 /\ v.canonical = b /\ v.sources = others /\ v.preview = Adm!None
      /\ v.previewing = s2.previewing /\ v.confirm = s2.confirm
  BY <1>2, <1>5 DEF MergeFields
<1>7. /\ DOMAIN w = DOMAIN s2 /\ w.canonical = s2.canonical /\ w.sources = more
      /\ w.preview = Adm!None /\ w.previewing = s2.previewing /\ w.confirm = s2.confirm
  BY <1>2 DEF MergeFields
<1> HIDE DEF v, w
<1>8. PreviewsFollow("brands", v, s4)
  BY <1>1, <1>2, <1>4, <1>6, NothingPreviewed
<1>9. ASSUME b # s2.canonical PROVE PreviewsFollow("brands", w, s4)
  <2>1. w.canonical # "none" => w.canonical \notin w.sources
    BY <1>1, <1>4, <1>7, <1>9 DEF PreviewsFollow
  <2> QED
    BY <1>1, <1>2, <1>7, <2>1, NothingPreviewed
<1>10. PreviewsFollow(s1, s2', s4') /\ Handles /\ s4' = s4
  BY <1>1, <1>3, <1>8, <1>9
<1> QED
  BY <1>1, <1>10, AdmHandled DEF Moves, RowsFollow, Adm!PagedTabs

LEMMA AdmPreviewKeeps ==
    ASSUME AdmInv, Adm!PreviewMerge
    PROVE  AdmInv'
<1> DEFINE v == [s2 EXCEPT !.previewing = TRUE, !.preview = Adm!None]
           k == Adm!Key(s2)
<1>1. /\ s1 = "brands" /\ ~s2.previewing /\ ~s2.confirm /\ s2.canonical # "none"
      /\ s2.sources # {} /\ Handles /\ s2' = v /\ s4' = Issue(s4, "preview", k)
  BY AdmDoes DEF Adm!PreviewMerge, Adm!On, Adm!Idle
<1>2. PreviewsFollow("brands", s2, s4) /\ CallsKnown("brands", s4) /\ SomeCalls(s4)
  BY <1>1 DEF AdmInv, CallsKnown
<1>3. MergeFields \subseteq DOMAIN s2
  BY <1>2 DEF PreviewsFollow, MergeFields
<1>4. Sound(k)
  BY <1>1, <1>2 DEF Sound, Adm!Key, PreviewsFollow
<1>5. /\ DOMAIN v = DOMAIN s2 /\ v.canonical = s2.canonical /\ v.sources = s2.sources
      /\ v.preview = Adm!None /\ v.previewing /\ v.confirm = s2.confirm
  BY <1>3 DEF MergeFields
<1> HIDE DEF v, k
<1>6. \A i \in DOMAIN s4 : s4[i].op # "preview"
  BY <1>1, <1>2 DEF PreviewsFollow
<1>7. PICK m : m = s4'
  OBVIOUS
<1>8. Adds(m, s4, Call("preview", k))
  BY <1>1, <1>2, <1>7, SomeIssued
<1>9. PICK l : /\ DOMAIN m = DOMAIN s4 \cup {l} /\ l \notin DOMAIN s4
               /\ m[l] = Call("preview", k) /\ \A i \in DOMAIN s4 : m[i] = s4[i]
  BY <1>8 DEF Adds
<1>10. m[l].arg = k /\ ~Agreed(m[l].ans)
  BY <1>9 DEF Call, Agreed
<1>11. PreviewsFollow("brands", v, m)
  <2>1. \A i \in DOMAIN m : m[i].op = "preview" => i = l
    BY <1>6, <1>9
  <2>2. MergeFields \subseteq DOMAIN v
    BY <1>3, <1>5
  <2>3. v.canonical # "none" => v.canonical \notin v.sources
    BY <1>2, <1>5 DEF PreviewsFollow
  <2> QED
    BY <1>1, <1>4, <1>5, <1>10, <2>1, <2>2, <2>3 DEF PreviewsFollow, MergeFields
<1>12. "preview" \in CallsOfTab(s1)
  BY <1>1 DEF CallsOfTab
<1>13. Moves(s1, s4, s4')
  BY <1>1, <1>12 DEF Moves
<1> QED
  BY <1>1, <1>7, <1>11, <1>13, AdmHandled DEF RowsFollow, Adm!PagedTabs

\* The answer of the mounted tab's call leaves.
LEMMA AdmBrandsReceived ==
    ASSUME AdmInv, NEW op \in {"preview", "merge", "brands"}, NEW i \in DOMAIN s4,
           Adm!Received(op, i)
    PROVE  /\ s1 = "brands" /\ s4[i].op = op /\ CallsKnown("brands", s4)
           /\ PreviewsFollow("brands", s2, s4) /\ PreviewsFollow("brands", s2, Finish(s4, i))
           /\ MergeFields \subseteq DOMAIN s2
           /\ op = "preview" => \A k \in DOMAIN Finish(s4, i) : Finish(s4, i)[k].op # "preview"
           /\ Agreed(s4[i].ans) /\ Adm!Body(i) = Reply(s4[i].ans).body
<1>1. op \in CallsOfTab(s1) /\ s4[i].op = op /\ s1 \in Adm!Tabs
  BY AdmReceived
<1>2. s1 = "brands"
  BY <1>1 DEF CallsOfTab, Adm!Tabs, Adm!PagedTabs
<1>3. CallsKnown("brands", s4) /\ PreviewsFollow("brands", s2, s4)
  BY <1>2 DEF AdmInv
<1>4. PreviewsFollow("brands", s2, Finish(s4, i))
  BY <1>3, AdmLeft
<1>5. op = "preview" => \A k \in DOMAIN Finish(s4, i) : Finish(s4, i)[k].op # "preview"
  BY <1>1, <1>3, AdmLeft
<1>6. Agreed(s4[i].ans) /\ Adm!Body(i) = Reply(s4[i].ans).body
  BY DEF Adm!Received, Adm!Unserved, Adm!Answer, Adm!Body, Agreed, Reply
<1>7. MergeFields \subseteq DOMAIN s2
  BY <1>3 DEF PreviewsFollow, MergeFields
<1> QED
  BY <1>1, <1>2, <1>3, <1>4, <1>5, <1>6, <1>7

LEMMA AdmPreviewedKeeps ==
    ASSUME AdmInv, NEW i \in DOMAIN s4, Adm!MergePreviewed(i)
    PROVE  AdmInv'
<1> DEFINE f == Finish(s4, i)
           x == Adm!Body(i)
           k == s4[i].arg
           v == [s2 EXCEPT !.preview = x, !.key = k, !.previewing = FALSE]
<1>1. /\ s1 = "brands" /\ s4[i].op = "preview" /\ PreviewsFollow("brands", s2, s4)
      /\ PreviewsFollow("brands", s2, f) /\ MergeFields \subseteq DOMAIN s2
      /\ \A j \in DOMAIN f : f[j].op # "preview"
      /\ Agreed(s4[i].ans) /\ x = Reply(s4[i].ans).body
  BY AdmBrandsReceived DEF Adm!MergePreviewed
<1>2. Handles /\ s2' = v /\ s4' = f
  BY AdmDoes, AdmFinishes DEF Adm!MergePreviewed
<1>3. Previewed(x, k) /\ ~s2.confirm /\ (s2.canonical # "none" => s2.canonical \notin s2.sources)
  BY <1>1 DEF PreviewsFollow
<1>4. Moves(s1, s4, s4')
  BY <1>1, <1>2 DEF Moves
<1> HIDE DEF x, k, f
<1>5. /\ DOMAIN v = DOMAIN s2 /\ v.canonical = s2.canonical /\ v.sources = s2.sources
      /\ v.preview = x /\ v.key = k /\ v.confirm = s2.confirm
  BY <1>1 DEF MergeFields
<1> HIDE DEF v
<1>6. PreviewsFollow("brands", v, f)
  BY <1>1, <1>3, <1>5 DEF PreviewsFollow, MergeFields
<1> QED
  BY <1>1, <1>2, <1>4, <1>6, AdmHandled DEF RowsFollow, Adm!PagedTabs

LEMMA AdmConfirmKeeps ==
    ASSUME AdmInv, Adm!OpenConfirm \/ Adm!CloseConfirm
    PROVE  AdmInv'
<1> DEFINE v == [s2 EXCEPT !.confirm = TRUE]
           w == [s2 EXCEPT !.confirm = FALSE]
<1>1. /\ s1 = "brands"
      /\ Adm!OpenConfirm => /\ Handles /\ s2' = v /\ s4' = s4
                            /\ s2.preview # Adm!None /\ ~s2.preview.clash
      /\ Adm!CloseConfirm => Handles /\ s2' = w /\ s4' = s4
  BY AdmDoes DEF Adm!OpenConfirm, Adm!CloseConfirm, Adm!On, Adm!PreviewIsCurrent
<1>2. PreviewsFollow("brands", s2, s4)
  BY <1>1 DEF AdmInv
<1>3. MergeFields \subseteq DOMAIN s2
  BY <1>2 DEF PreviewsFollow, MergeFields
<1>4. /\ DOMAIN v = DOMAIN s2 /\ v.canonical = s2.canonical /\ v.sources = s2.sources
      /\ v.preview = s2.preview /\ v.key = s2.key /\ v.previewing = s2.previewing
  BY <1>3 DEF MergeFields
<1>5. /\ DOMAIN w = DOMAIN s2 /\ w.canonical = s2.canonical /\ w.sources = s2.sources
      /\ w.preview = s2.preview /\ w.key = s2.key /\ w.previewing = s2.previewing
      /\ ~w.confirm
  BY <1>3 DEF MergeFields
<1> HIDE DEF v, w
<1>6. ASSUME s2.preview # Adm!None, ~s2.preview.clash PROVE PreviewsFollow("brands", v, s4)
  BY <1>2, <1>3, <1>4, <1>6 DEF PreviewsFollow, MergeFields
<1>7. PreviewsFollow("brands", w, s4)
  BY <1>2, <1>3, <1>5 DEF PreviewsFollow, MergeFields
<1> QED
  BY <1>1, <1>6, <1>7, AdmHandled DEF Moves, RowsFollow, Adm!PagedTabs

\* What the page merges is what the preview on the screen is of.
LEMMA AdmMergeKeeps ==
    ASSUME AdmInv, Adm!Merge
    PROVE  AdmInv'
<1> DEFINE v == [s2 EXCEPT !.merging = TRUE]
           k == Adm!Key(s2)
           p == s2.preview
<1>1. /\ s1 = "brands" /\ s2.confirm /\ s2.preview # Adm!None /\ s2.key = k
      /\ s1' = s1 /\ s3' = s3 /\ s5' = s5 /\ s7' = s7
      /\ s2' = v /\ s4' = Issue(s4, "merge", k) /\ s6' = {[merge |-> k, seen |-> p]}
  BY DEF Adm!Merge, Adm!On, Adm!PreviewIsCurrent, Adm!Issue, Adm!Call, Issue, Call
<1>2. PreviewsFollow("brands", s2, s4) /\ CallsKnown("brands", s4)
  BY <1>1 DEF AdmInv
<1>3. MergeFields \subseteq DOMAIN s2
  BY <1>2 DEF PreviewsFollow, MergeFields
<1>4. /\ DOMAIN v = DOMAIN s2 /\ v.canonical = s2.canonical /\ v.sources = s2.sources
      /\ v.preview = s2.preview /\ v.key = s2.key /\ v.previewing = s2.previewing
      /\ v.confirm = s2.confirm
  BY <1>3 DEF MergeFields
<1>5. Previewed(p, k) /\ ~p.clash
  BY <1>1, <1>2 DEF PreviewsFollow
<1> HIDE DEF v, p
<1>6. p = k /\ k.sources # {} /\ k.canonical \notin k.sources
  <2>1. PICK clash \in BOOLEAN :
           p = [canonical |-> k.canonical, sources |-> k.sources, clash |-> clash]
    BY <1>5 DEF Previewed
  <2>2. Sound(k)
    BY <1>5 DEF Previewed
  <2> HIDE DEF k
  <2>3. clash = FALSE
    BY <1>5, <2>1
  <2> QED
    BY <2>1, <2>2, <2>3 DEF Sound
<1> HIDE DEF k
<1>7. Adm!MergesArePreviewed'
  <2> DEFINE a == [merge |-> k, seen |-> p]
  <2>1. a.merge = k /\ a.seen = p
    OBVIOUS
  <2> HIDE DEF a
  <2>2. s6' = {a}
    BY <1>1 DEF a
  <2> QED
    BY <1>6, <2>1, <2>2 DEF Adm!MergesArePreviewed
<1>8. PICK m : m = s4'
  OBVIOUS
<1>9. "merge" \in CallsOfTab("brands")
  BY DEF CallsOfTab
<1>10. /\ CallsKnown("brands", m)
       /\ \A o, s : CountsCome(o, s4, s) => CountsCome(o, m, s)
       /\ PreviewsFollow("brands", s2, m)
  <2>1. m = Issue(s4, "merge", k)
    BY <1>1, <1>8
  <2>2. /\ CallsKnown("brands", m)
        /\ \A o, s : CountsCome(o, s4, s) => CountsCome(o, m, s)
    BY <1>2, <1>9, <2>1, AdmIssued
  <2>3. PreviewsFollow("brands", s2, m)
    BY <1>2, <1>9, <2>1, AdmIssued
  <2> QED
    BY <2>2, <2>3
<1>11. PreviewsFollow("brands", v, m)
  BY <1>3, <1>4, <1>10 DEF PreviewsFollow, MergeFields
<1>12. CallsKnown(s1', s4') /\ PreviewsFollow(s1', s2', s4')
  BY <1>1, <1>8, <1>10, <1>11
<1>13. RowsFollow(s1', s2', s4')
  BY <1>1 DEF RowsFollow, Adm!PagedTabs
<1>14. ~s7 => CountsCome(s3, s4', s5)
  BY <1>8, <1>10 DEF AdmInv
<1> QED
  BY <1>1, <1>7, <1>12, <1>13, <1>14 DEF AdmInv

LEMMA AdmMergedKeeps ==
    ASSUME AdmInv, NEW i \in DOMAIN s4, Adm!Merged(i)
    PROVE  AdmInv'
<1> DEFINE f == Finish(s4, i)
           none == {}
           v == [s2 EXCEPT !.confirm = FALSE, !.sources = none, !.preview = Adm!None,
                           !.key = Adm!None]
<1>1. /\ s1 = "brands" /\ s4[i].op = "merge" /\ CallsKnown("brands", s4)
      /\ PreviewsFollow("brands", s2, f) /\ MergeFields \subseteq DOMAIN s2
  BY AdmBrandsReceived DEF Adm!Merged
<1>2. Handles /\ s2' = v /\ s4' = Issue(f, "brands", "merge")
  BY AdmDoes, AdmFinishes DEF Adm!Merged
<1>3. "brands" \in CallsOfTab("brands")
  BY DEF CallsOfTab
<1>4. CallsKnown("brands", f)
  BY <1>1, AdmLeft
<1>5. Moves(s1, s4, s4')
  BY <1>1, <1>2, <1>3 DEF Moves
<1>6. \A x : x \notin none
  OBVIOUS
<1> HIDE DEF f, none
<1>7. PreviewsFollow("brands", s2, s4')
  BY <1>1, <1>2, <1>3, <1>4, AdmIssued
<1>8. /\ DOMAIN v = DOMAIN s2 /\ v.canonical = s2.canonical /\ v.sources = none
      /\ v.preview = Adm!None /\ v.previewing = s2.previewing /\ ~v.confirm
  BY <1>1 DEF MergeFields
<1> HIDE DEF v
<1>9. PreviewsFollow("brands", v, s4')
  BY <1>1, <1>6, <1>7, <1>8, NothingPreviewed
<1> QED
  BY <1>1, <1>2, <1>5, <1>9, AdmHandled DEF RowsFollow, Adm!PagedTabs

LEMMA AdmBrandsKeep ==
    ASSUME AdmInv, NEW i \in DOMAIN s4, Adm!BrandsLoaded(i)
    PROVE  AdmInv'
<1> DEFINE f == Finish(s4, i)
           x == Adm!Body(i)
           c == IF s2.canonical \in x THEN s2.canonical ELSE "none"
           g == s2.merging /\ s4[i].arg # "merge"
           v == [s2 EXCEPT !.list = x, !.loading = FALSE, !.canonical = c, !.merging = g]
<1>1. /\ s1 = "brands" /\ s4[i].op = "brands"
      /\ PreviewsFollow("brands", s2, f) /\ MergeFields \subseteq DOMAIN s2
  BY AdmBrandsReceived DEF Adm!BrandsLoaded
<1>2. Handles /\ s4' = f
  BY AdmDoes, AdmFinishes DEF Adm!BrandsLoaded
<1>3. s2' = v
  BY AdmDoes DEF Adm!BrandsLoaded
<1>4. Moves(s1, s4, s4')
  BY <1>1, <1>2 DEF Moves
<1>5. c \in {s2.canonical, "none"}
  OBVIOUS
<1> HIDE DEF x, f, c, g
<1>6. /\ DOMAIN v = DOMAIN s2 /\ v.canonical = c /\ v.sources = s2.sources
      /\ v.preview = s2.preview /\ v.key = s2.key /\ v.previewing = s2.previewing
      /\ v.confirm = s2.confirm
  BY <1>1 DEF MergeFields
<1> HIDE DEF v
<1>7. PreviewsFollow("brands", v, f)
  BY <1>1, <1>5, <1>6 DEF PreviewsFollow, MergeFields
<1> QED
  BY <1>1, <1>2, <1>3, <1>4, <1>7, AdmHandled DEF RowsFollow, Adm!PagedTabs

LEMMA AdmBrandsTabKeeps ==
    ASSUME AdmInv, Adm!BrandsTab
    PROVE  AdmInv'
<1>1. ASSUME NEW b, Adm!SelectCanonical(b) \/ Adm!ToggleSource(b) PROVE AdmInv'
  BY <1>1, AdmSelectionKeeps
<1>2. ASSUME NEW i \in DOMAIN s4,
             Adm!MergePreviewed(i) \/ Adm!Merged(i) \/ Adm!BrandsLoaded(i)
      PROVE  AdmInv'
  BY <1>2, AdmPreviewedKeeps, AdmMergedKeeps, AdmBrandsKeep
<1>3. CASE Adm!PreviewMerge \/ Adm!OpenConfirm \/ Adm!CloseConfirm \/ Adm!Merge
  BY <1>3, AdmPreviewKeeps, AdmConfirmKeeps, AdmMergeKeeps
<1> QED
  BY <1>1, <1>2, <1>3 DEF Adm!BrandsTab

\* The server serves a call, of any tab.
LEMMA AdmServerKeeps ==
    ASSUME AdmInv, Adm!Server
    PROVE  AdmInv'
<1>0. CallsKnown(s1, s4) /\ {"active", "prompts"} \subseteq DOMAIN s5
  BY DEF AdmInv
<1>1. ASSUME NEW i \in DOMAIN s4, s4[i].ans = {}, NEW ok, NEW body, Adm!Served(i, ok, body),
             {"active", "prompts"} \subseteq DOMAIN s5',
             s4[i].op = "preview" /\ Sound(s4[i].arg) => Previewed(body, s4[i].arg),
             \/ s4[i].op \in {"save", "toggle"} /\ ok
             \/ /\ Adm!Counts(s5') = Adm!Counts(s5)
                /\ s4[i].op = "overview" => body = Adm!Counts(s5)
      PROVE  AdmInv'
  <2>1. /\ s1' = s1 /\ s2' = s2 /\ s3' = s3 /\ s6' = s6 /\ s7' = s7
        /\ s4' = Serve(s4, i, ok, body)
    BY <1>1 DEF Adm!Served, Adm!Serve, Serve
  <2>2. PICK m : m = Serve(s4, i, ok, body)
    OBVIOUS
  <2>3. CallsKnown(s1, m) /\ \A v : RowsFollow(s1, v, s4) => RowsFollow(s1, v, m)
    BY <1>0, <1>1, <2>2, AdmServed
  <2>4. \A v : PreviewsFollow(s1, v, s4) => PreviewsFollow(s1, v, m)
    BY <1>0, <1>1, <2>2, AdmServed
  <2>5. \A o : CountsCome(o, s4, s5) => CountsCome(o, m, s5')
    BY <1>0, <1>1, <2>2, AdmServed
  <2> QED
    BY <1>1, <2>1, <2>2, <2>3, <2>4, <2>5 DEF AdmInv, Adm!MergesArePreviewed
<1>2. ASSUME NEW i \in DOMAIN s4, Adm!ServeRead(i) PROVE AdmInv'
  <2> DEFINE body == Adm!ReadBody(s4[i])
  <2>1. /\ s4[i].ans = {} /\ s4[i].op # "preview" /\ Adm!Served(i, TRUE, body) /\ s5' = s5
    BY <1>2 DEF Adm!ServeRead, Adm!Unserved
  <2>2. s4[i].op = "overview" => body = Adm!Counts(s5)
    BY DEF Adm!ReadBody, Adm!PagedTabs
  <2> HIDE DEF body
  <2> QED
    BY <1>0, <1>1, <2>1, <2>2
<1>3. ASSUME NEW i \in DOMAIN s4, Adm!ServeSync(i) PROVE AdmInv'
  <2>1. PICK listed : /\ s4[i].ans = {} /\ s4[i].op = "sync"
                      /\ Adm!Served(i, TRUE, listed) /\ s5' = s5
    BY <1>3 DEF Adm!ServeSync, Adm!Unserved
  <2> QED
    BY <1>0, <1>1, <2>1
<1>4. ASSUME NEW i \in DOMAIN s4, Adm!ServeSave(i) PROVE AdmInv'
  <2> DEFINE rows == s5.rows \cup s4[i].arg.gateway
             active == s4[i].arg.gateway \cap s4[i].arg.on
             body == [rows |-> rows, active |-> active]
  <2>1. /\ s4[i].ans = {} /\ s4[i].op = "save" /\ Adm!Served(i, TRUE, body)
        /\ s5' = [s5 EXCEPT !.rows = rows, !.active = active]
    BY <1>4 DEF Adm!ServeSave, Adm!Unserved
  <2>2. DOMAIN s5' = DOMAIN s5
    BY <2>1
  <2> HIDE DEF body
  <2> QED
    BY <1>0, <1>1, <2>1, <2>2
<1>5. ASSUME NEW i \in DOMAIN s4, Adm!ServeToggle(i) PROVE AdmInv'
  <2>1. PICK body : /\ s4[i].ans = {} /\ s4[i].op = "toggle" /\ Adm!Served(i, TRUE, body)
                    /\ DOMAIN s5' = DOMAIN s5
    BY <1>5 DEF Adm!ServeToggle, Adm!Unserved
  <2> QED
    BY <1>0, <1>1, <2>1
<1>6. ASSUME NEW i \in DOMAIN s4, Adm!ServeSettings(i) PROVE AdmInv'
  <2>1. PICK ok, new : /\ s4[i].ans = {} /\ s4[i].op \in {"saveSettings", "resetSettings"}
                       /\ Adm!Served(i, ok, new)
                       /\ s5' = s5 \/ s5' = [s5 EXCEPT !.settings = new]
    BY <1>6 DEF Adm!ServeSettings, Adm!Unserved
  <2>2. DOMAIN s5' = DOMAIN s5 /\ s5'.active = s5.active /\ s5'.prompts = s5.prompts
    BY <1>0, <2>1
  <2> QED
    BY <1>0, <1>1, <2>1, <2>2 DEF Adm!Counts
<1>7. ASSUME NEW i \in DOMAIN s4, Adm!ServePreview(i) PROVE AdmInv'
  <2> DEFINE a == s4[i].arg
  <2>1. PICK clash, ok :
           /\ clash \in BOOLEAN /\ s4[i].ans = {} /\ s4[i].op = "preview" /\ s5' = s5
           /\ Adm!Served(i, ok, [a EXCEPT !.clash = clash])
    BY <1>7 DEF Adm!ServePreview, Adm!Unserved
  <2>2. PICK body : body = [a EXCEPT !.clash = clash]
    OBVIOUS
  <2> HIDE DEF a
  <2>3. Sound(a) => Previewed(body, a)
    <3> SUFFICES ASSUME Sound(a) PROVE Previewed(body, a)
      OBVIOUS
    <3>1. a = [canonical |-> a.canonical, sources |-> a.sources, clash |-> FALSE]
      BY DEF Sound
    <3>2. body = [canonical |-> a.canonical, sources |-> a.sources, clash |-> clash]
      BY <2>2, <3>1
    <3>3. clash \in BOOLEAN
      BY <2>1
    <3> QED
      BY <3>2, <3>3 DEF Previewed
  <2> QED
    BY <1>0, <1>1, <2>1, <2>2, <2>3 DEF a
<1>8. ASSUME NEW i \in DOMAIN s4, Adm!ServeMerge(i) PROVE AdmInv'
  <2>1. PICK ok, brands :
           /\ s4[i].ans = {} /\ s4[i].op = "merge" /\ Adm!Served(i, ok, s4[i].arg)
           /\ s5' = s5 \/ s5' = [s5 EXCEPT !.brands = brands]
    BY <1>8 DEF Adm!ServeMerge, Adm!Unserved
  <2>2. DOMAIN s5' = DOMAIN s5 /\ s5'.active = s5.active /\ s5'.prompts = s5.prompts
    BY <1>0, <2>1
  <2> QED
    BY <1>0, <1>1, <2>1, <2>2 DEF Adm!Counts
<1> QED
  BY <1>2, <1>3, <1>4, <1>5, <1>6, <1>7, <1>8 DEF Adm!Server

LEMMA AdmOverviewKeeps ==
    ASSUME AdmInv, NEW i \in DOMAIN s4, Adm!OverviewLoaded(i)
    PROVE  AdmInv'
<1>0. CallsKnown(s1, s4)
  BY DEF AdmInv
<1>1. /\ s1' = s1 /\ s2' = s2 /\ s5' = s5 /\ s6' = s6 /\ s7' = s7 /\ s4[i].op = "overview"
      /\ s3' = [counts |-> Reply(s4[i].ans).body, settled |-> Newest(s4, i)]
      /\ s4[i].ans # {}
  BY DEF Adm!OverviewLoaded, Adm!Received, Adm!Unserved, Adm!Body, Adm!Answer, Reply,
         Adm!Newest, Newest
<1>2. PICK m : m = Finish(s4, i)
  OBVIOUS
<1>3. s4' = m
  BY <1>2, AdmFinishes DEF Adm!OverviewLoaded
<1>4. /\ CallsKnown(s1, m)
      /\ \A v : RowsFollow(s1, v, s4) => RowsFollow(s1, v, m)
      /\ \A v : PreviewsFollow(s1, v, s4) => PreviewsFollow(s1, v, m)
  BY <1>0, <1>2, AdmLeft
<1>5. ASSUME CountsCome(s3, s4, s5) PROVE CountsCome(s3', m, s5)
  <2>1. /\ \A k \in DOMAIN m : \E j \in DOMAIN s4 : /\ m[k].op = s4[j].op
                                                    /\ m[k].ans = s4[j].ans
                                                    /\ Newest(m, k) => Newest(s4, j)
        /\ \A j \in DOMAIN s4 \ {i} : \E k \in DOMAIN m : /\ m[k].op = s4[j].op
                                                          /\ m[k].ans = s4[j].ans
    BY <1>0, <1>2, SomeLeft DEF CallsKnown
  <2>2. Changing(s4) => Changing(m)
    BY <1>1, <2>1 DEF Changing
  <2>3. ASSUME ~Changing(s4)
        PROVE  \A j \in DOMAIN s4 : s4[j].op = "overview" /\ Newest(s4, j) /\ s4[j].ans # {} =>
                   Reply(s4[j].ans).body = Adm!Counts(s5)
    BY <1>5, <2>3 DEF CountsCome
  <2>4. ASSUME ~Changing(s4), s3'.settled PROVE s3'.counts = Adm!Counts(s5)
    BY <1>1, <2>3, <2>4
  <2>5. ASSUME ~Changing(s4), NEW k \in DOMAIN m, m[k].op = "overview", Newest(m, k),
               m[k].ans # {}
        PROVE  Reply(m[k].ans).body = Adm!Counts(s5)
    BY <2>1, <2>3, <2>5
  <2> QED
    BY <2>2, <2>4, <2>5 DEF CountsCome
<1> QED
  BY <1>1, <1>3, <1>4, <1>5 DEF AdmInv, Adm!MergesArePreviewed

\* The answer to a write whose tab is gone.
LEMMA AdmOrphanKeeps ==
    ASSUME AdmInv, NEW i \in DOMAIN s4, Adm!OrphanAnswered(i)
    PROVE  AdmInv'
<1> DEFINE agreed == Adm!Answer(s4, i).ok
<1>0. CallsKnown(s1, s4) /\ s4[i].op \in Adm!Writes
  BY DEF AdmInv, CallsKnown, Adm!OrphanAnswered
<1>1. /\ s1' = s1 /\ s2' = s2 /\ s3' = s3 /\ s5' = s5 /\ s6' = s6
      /\ s7' = (s7 \/ ~agreed)
      /\ s4' = IF agreed /\ s4[i].op \in {"save", "toggle"}
               THEN Adm!RefreshOverview(Adm!Finish(s4, i)) ELSE Adm!Finish(s4, i)
  BY DEF Adm!OrphanAnswered
<1> HIDE DEF agreed
<1>2. \/ s4' = Finish(s4, i) /\ (agreed => s4[i].op \notin {"save", "toggle"})
      \/ \E arg : s4' = Issue(Finish(s4, i), "overview", arg)
  BY <1>1, AdmFinishes
<1>3. PICK f : f = Finish(s4, i)
  OBVIOUS
<1>4. /\ CallsKnown(s1, f)
      /\ \A v : RowsFollow(s1, v, s4) => RowsFollow(s1, v, f)
      /\ \A v : PreviewsFollow(s1, v, s4) => PreviewsFollow(s1, v, f)
  BY <1>0, <1>3, AdmLeft
<1>5. CASE s4' = f /\ (agreed => s4[i].op \notin {"save", "toggle"})
  <2>1. ASSUME agreed, CountsCome(s3, s4, s5) PROVE CountsCome(s3, f, s5)
    <3>1. s4[i].op \notin {"overview", "save", "toggle"}
      BY <1>0, <1>5, <2>1 DEF Adm!Writes
    <3> QED
      BY <1>0, <1>3, <2>1, <3>1, AdmLeft
  <2> QED
    BY <1>1, <1>4, <1>5, <2>1 DEF AdmInv, Adm!MergesArePreviewed
<1>6. ASSUME NEW arg, s4' = Issue(f, "overview", arg) PROVE AdmInv'
  <2>1. PICK m : m = s4'
    OBVIOUS
  <2>2. /\ CallsKnown(s1, m) /\ \A o, s : CountsCome(o, m, s)
        /\ \A v : RowsFollow(s1, v, f) => RowsFollow(s1, v, m)
        /\ \A v : PreviewsFollow(s1, v, f) => PreviewsFollow(s1, v, m)
    BY <1>4, <1>6, <2>1, AdmRefreshed
  <2> QED
    BY <1>1, <1>4, <2>1, <2>2 DEF AdmInv, Adm!MergesArePreviewed
<1> QED
  BY <1>2, <1>3, <1>5, <1>6

\* A call of the mounted tab, or of the counters, fails.
LEMMA AdmFails ==
    ASSUME AdmInv, NEW i \in DOMAIN s4, Adm!CallFails(i)
    PROVE  AdmInv'
<1> DEFINE c == s4[i]
           v == Adm!Failed(s2, c)
<1>0. CallsKnown(s1, s4) /\ RowsFollow(s1, s2, s4) /\ PreviewsFollow(s1, s2, s4)
  BY DEF AdmInv
<1>1. /\ s1' = s1 /\ s3' = s3 /\ s5' = s5 /\ s6' = s6 /\ s7' = TRUE /\ ~c.gone
      /\ s2' = v /\ s4' = Finish(s4, i)
  BY AdmFinishes DEF Adm!CallFails
<1>2. PICK f : f = Finish(s4, i)
  OBVIOUS
<1>3. CallsKnown(s1, f) /\ RowsFollow(s1, s2, f) /\ PreviewsFollow(s1, s2, f)
  BY <1>0, <1>2, AdmLeft
<1>4. s1 = "brands" /\ c.op = "preview" => \A k \in DOMAIN f : f[k].op # "preview"
  BY <1>0, <1>2, AdmLeft
<1>5. c.op \in CallsOfTab(s1) \cup {"overview"} /\ s1 \in Adm!Tabs
  BY <1>0, <1>1 DEF CallsKnown
<1> HIDE DEF c
<1>6. RowsFollow(s1, v, f)
  <2>1. CASE s1 \in Adm!PagedTabs
    <3>1. c.op \in {"references", "queries", "export", "overview"}
      BY <1>5, <2>1 DEF CallsOfTab, Adm!PagedTabs
    <3>2. v \in {s2, [s2 EXCEPT !.loading = FALSE], [s2 EXCEPT !.exporting = FALSE]}
      BY <3>1 DEF Adm!Failed, Adm!PagedTabs
    <3> HIDE DEF v
    <3>3. {"page", "query", "shown", "settled"} \subseteq DOMAIN s2 => SameTable(s2, v)
      BY <3>2 DEF SameTable
    <3> QED
      BY <1>3, <3>3, SameRows
  <2> QED
    BY <2>1 DEF RowsFollow
<1>7. PreviewsFollow(s1, v, f)
  <2>1. CASE s1 = "brands"
    <3> DEFINE g == s2.merging /\ c.arg # "merge"
    <3>1. c.op \in {"brands", "preview", "merge", "overview"}
      BY <1>5, <2>1 DEF CallsOfTab
    <3>2. \/ v = s2 \/ v = [s2 EXCEPT !.loading = FALSE, !.merging = g]
          \/ v = [s2 EXCEPT !.merging = FALSE]
          \/ c.op = "preview" /\ v = [s2 EXCEPT !.previewing = FALSE]
      BY <3>1 DEF Adm!Failed, Adm!PagedTabs
    <3>3. MergeFields \subseteq DOMAIN s2
      BY <1>0, <2>1 DEF PreviewsFollow, MergeFields
    <3> HIDE DEF v, g
    <3>4. /\ DOMAIN v = DOMAIN s2 /\ v.canonical = s2.canonical /\ v.sources = s2.sources
          /\ v.preview = s2.preview /\ v.key = s2.key /\ v.confirm = s2.confirm
          /\ c.op # "preview" => v.previewing = s2.previewing
      BY <3>2, <3>3 DEF MergeFields
    <3>5. PreviewsFollow("brands", s2, f)
      BY <1>3, <2>1
    <3>6. ASSUME NEW k \in DOMAIN f, f[k].op = "preview" PROVE v.previewing = s2.previewing
      BY <1>4, <2>1, <3>4, <3>6
    <3> QED
      BY <2>1, <3>3, <3>4, <3>5, <3>6 DEF PreviewsFollow, MergeFields
  <2> QED
    BY <2>1 DEF PreviewsFollow
<1> QED
  BY <1>1, <1>2, <1>3, <1>6, <1>7 DEF AdmInv, Adm!MergesArePreviewed

LEMMA AdmBegins == Adm!Init => AdmInv
<1> SUFFICES ASSUME Adm!Init PROVE AdmInv
  OBVIOUS
<1> DEFINE none == {}
<1>1. /\ s1 = "models" /\ {"active", "prompts"} \subseteq DOMAIN s5 /\ s6 = none
      /\ s4 = Adm!MountCalls(Adm!Issue(<<>>, "overview", none), "models")
  BY DEF Adm!Init, Adm!AdminPanel
<1>2. \A a \in s6 : FALSE
  BY <1>1
<1> HIDE DEF none
<1>3. PICK n : n = Issue(<<>>, "overview", none)
  OBVIOUS
<1>4. \E arg : s4 = Issue(n, "models", arg)
  BY <1>1, <1>3 DEF Adm!MountCalls, Adm!PagedTabs, Adm!Issue, Adm!Call, Issue, Call
<1>5. CallsKnown("models", <<>>)
  <2>1. <<>> \in Seq(CallsWith({}, {}, {}))
    OBVIOUS
  <2>2. SomeCalls(<<>>)
    BY <2>1 DEF SomeCalls
  <2> QED
    BY <2>2 DEF CallsKnown, Adm!Tabs
<1>6. CallsKnown("models", n) /\ \A o, s : CountsCome(o, n, s)
  BY <1>3, <1>5, AdmRefreshed
<1>7. "models" \in CallsOfTab("models") /\ "models" \notin Adm!PagedTabs
  BY DEF CallsOfTab, Adm!PagedTabs
<1>8. CallsKnown("models", s4) /\ \A o, s : CountsCome(o, s4, s)
  BY <1>4, <1>6, <1>7, AdmIssued
<1> QED
  BY <1>1, <1>2, <1>7, <1>8 DEF AdmInv, RowsFollow, PreviewsFollow, Adm!MergesArePreviewed

LEMMA AdmKeeps == AdmInv /\ [Adm!Next]_(Adm!vars) => AdmInv'
<1> SUFFICES ASSUME AdmInv, [Adm!Next]_(Adm!vars) PROVE AdmInv'
  OBVIOUS
<1>1. CASE UNCHANGED Adm!vars
  BY <1>1 DEF Adm!vars, AdmInv, Adm!MergesArePreviewed
<1>2. ASSUME NEW t \in Adm!Tabs, Adm!SelectTab(t) PROVE AdmInv'
  BY <1>2, AdmSelected
<1>3. CASE Adm!ModelsTab \/ Adm!PromptsTab \/ Adm!ExtractionTab \/ Adm!CostsTab
  BY <1>3, AdmPlainKeeps
<1>4. CASE Adm!ReferencesTab \/ Adm!SearchQueriesTab
  BY <1>4, AdmPagedKeeps
<1>5. CASE Adm!BrandsTab
  BY <1>5, AdmBrandsTabKeeps
<1>6. CASE Adm!Server
  BY <1>6, AdmServerKeeps
<1>7. CASE Adm!Network
  BY <1>7, AdmOverviewKeeps, AdmOrphanKeeps, AdmFails DEF Adm!Network
<1> QED
  BY <1>1, <1>2, <1>3, <1>4, <1>5, <1>6, <1>7 DEF Adm!Next

LEMMA AdmShows ==
    AdmInv => Adm!MergesArePreviewed /\ Adm!RowsMatchControls /\ Adm!CountersFollow
<1> SUFFICES ASSUME AdmInv
             PROVE  Adm!MergesArePreviewed /\ Adm!RowsMatchControls /\ Adm!CountersFollow
  OBVIOUS
<1>1. Adm!MergesArePreviewed
  BY DEF AdmInv
<1>2. Adm!RowsMatchControls
  BY DEF AdmInv, RowsFollow, Adm!RowsMatchControls
<1>3. Adm!CountersFollow
  <2> SUFFICES ASSUME s4 = <<>>, ~s7, s3.settled PROVE s3.counts = Adm!Counts(s5)
    BY DEF Adm!CountersFollow
  <2>1. CountsCome(s3, s4, s5)
    BY DEF AdmInv
  <2> QED
    BY <2>1 DEF CountsCome, Changing, Flies
<1> QED
  BY <1>1, <1>2, <1>3

=============================================================================
