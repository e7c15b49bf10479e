--------------------------- MODULE RankReportProofs ---------------------------
(***************************************************************************)
(* The rank report shows what its controls ask for, for any projects,      *)
(* brands, dates and numbers of calls in flight.                           *)
(***************************************************************************)
EXTENDS RankReport, SequenceTheorems, TLAPS

(***************************************************************************)
(* Calls in flight, and the reports that are still awaited                 *)
(***************************************************************************)
IsCall(c) ==
    c = [op |-> c.op, arg |-> c.arg, ans |-> c.ans, late |-> c.late, gone |-> c.gone]

NetOK(n) == (\E S : n \in Seq(S)) /\ \A i \in DOMAIN n : IsCall(n[i])

Awaited(n, i) == n[i].op = "report" /\ ~n[i].gone

Live(n) == {n[i].arg : i \in {k \in DOMAIN n : Awaited(n, k)}}

LEMMA NetShape ==
    ASSUME NEW n, NetOK(n)
    PROVE  /\ Len(n) \in Nat /\ DOMAIN n = 1 .. Len(n)
           /\ \A i \in DOMAIN n : IsCall(n[i])
BY DEF NetOK

\* A function on 1 .. k is a sequence.
LEMMA FunctionIsSeq ==
    ASSUME NEW k \in Nat, NEW n, DOMAIN n = 1 .. k, n = [i \in 1 .. k |-> n[i]]
    PROVE  n \in Seq({n[i] : i \in 1 .. k}) /\ Len(n) = k
<1> DEFINE S == {n[i] : i \in 1 .. k}
<1>1. \A i \in 1 .. k : n[i] \in S
    OBVIOUS
<1> HIDE DEF S
<1>2. n \in [1 .. k -> S]
    BY <1>1
<1>3. n \in Seq(S)
    BY <1>2
<1>4. Len(n) \in Nat /\ DOMAIN n = 1 .. Len(n)
    BY <1>3
<1>5. Len(n) = k
    BY <1>4
<1> QED
    BY <1>3, <1>5 DEF S

\* A new call is awaited when it asks for a report.
LEMMA Issued ==
    ASSUME NEW n, NetOK(n), NEW op, NEW arg
    PROVE  /\ NetOK(Issue(n, op, arg))
           /\ op = "report" => Live(Issue(n, op, arg)) = Live(n) \cup {arg}
           /\ op # "report" => Live(Issue(n, op, arg)) = Live(n)
<1> DEFINE c == Call(op, arg)
           m == Append(n, c)
<1>1. Len(n) \in Nat /\ DOMAIN n = 1 .. Len(n)
    BY NetShape
<1>2. IsCall(c) /\ c.op = op /\ c.arg = arg /\ ~c.gone
    BY DEF Call, IsCall
<1> HIDE DEF c
<1>3. PICK S : n \in Seq(S)
    BY DEF NetOK
<1>4. n \in Seq(S \cup {c})
    BY <1>3
<1>5. /\ m \in Seq(S \cup {c}) /\ Len(m) = Len(n) + 1
      /\ \A i \in 1 .. Len(n) : m[i] = n[i]
      /\ m[Len(n) + 1] = c
    BY <1>4, AppendProperties
<1>6. DOMAIN m = 1 .. Len(n) \cup {Len(n) + 1}
    BY <1>1, <1>5
<1> HIDE DEF m
<1>7. NetOK(m)
    BY <1>1, <1>2, <1>5, <1>6 DEF NetOK
<1>8. \A i \in DOMAIN n : Awaited(m, i) <=> Awaited(n, i)
    BY <1>1, <1>5 DEF Awaited
<1>9. Awaited(m, Len(n) + 1) <=> op = "report"
    BY <1>2, <1>5 DEF Awaited
<1>10. ASSUME op = "report" PROVE Live(m) = Live(n) \cup {arg}
    BY <1>1, <1>2, <1>5, <1>6, <1>8, <1>9, <1>10 DEF Live
<1>11. ASSUME op # "report" PROVE Live(m) = Live(n)
    BY <1>1, <1>5, <1>6, <1>8, <1>9, <1>11 DEF Live
<1>12. Issue(n, op, arg) = m
    BY DEF Issue, m, c
<1> QED
    BY <1>7, <1>10, <1>11, <1>12

\* A call that is cancelled, or overtaken, stays a call.
LEMMA Changed ==
    ASSUME NEW A, NEW d \in [op : A, arg : A, ans : A, late : A, gone : A]
    PROVE  /\ [d EXCEPT !.gone = TRUE] \in
                  [op : A, arg : A, ans : A, late : A, gone : A \cup {TRUE}]
           /\ [d EXCEPT !.gone = TRUE].op = d.op
           /\ [d EXCEPT !.gone = TRUE].arg = d.arg
           /\ [d EXCEPT !.gone = TRUE].gone = TRUE
           /\ [d EXCEPT !.late = TRUE] \in
                  [op : A, arg : A, ans : A, late : A \cup {TRUE}, gone : A]
           /\ [d EXCEPT !.late = TRUE].op = d.op
           /\ [d EXCEPT !.late = TRUE].arg = d.arg
           /\ [d EXCEPT !.late = TRUE].gone = d.gone
OBVIOUS

LEMMA Wider ==
    ASSUME NEW c
    PROVE  IsCall(c) <=> \E A : c \in [op : A, arg : A, ans : A, late : A, gone : A]
<1>1. ASSUME NEW A, c \in [op : A, arg : A, ans : A, late : A, gone : A]
      PROVE  IsCall(c)
    BY <1>1 DEF IsCall
<1>2. ASSUME IsCall(c)
      PROVE  \E A : c \in [op : A, arg : A, ans : A, late : A, gone : A]
    <2> DEFINE A == {c.op, c.arg, c.ans, c.late, c.gone}
    <2>1. /\ c.op \in A /\ c.arg \in A /\ c.ans \in A
          /\ c.late \in A /\ c.gone \in A
        OBVIOUS
    <2> HIDE DEF A
    <2>2. c \in [op : A, arg : A, ans : A, late : A, gone : A]
        BY <1>2, <2>1 DEF IsCall
    <2> QED
        BY <2>2
<1> QED
    BY <1>1, <1>2

LEMMA ChangedCall ==
    ASSUME NEW d, IsCall(d)
    PROVE  /\ IsCall([d EXCEPT !.gone = TRUE]) /\ IsCall([d EXCEPT !.late = TRUE])
           /\ [d EXCEPT !.gone = TRUE].op = d.op
           /\ [d EXCEPT !.gone = TRUE].arg = d.arg
           /\ [d EXCEPT !.gone = TRUE].gone = TRUE
           /\ [d EXCEPT !.late = TRUE].op = d.op
           /\ [d EXCEPT !.late = TRUE].arg = d.arg
           /\ [d EXCEPT !.late = TRUE].gone = d.gone
<1>1. PICK A : d \in [op : A, arg : A, ans : A, late : A, gone : A]
    BY Wider
<1> DEFINE x == [d EXCEPT !.gone = TRUE]
           y == [d EXCEPT !.late = TRUE]
<1>2. /\ x \in [op : A, arg : A, ans : A, late : A, gone : A \cup {TRUE}]
      /\ x.op = d.op /\ x.arg = d.arg /\ x.gone = TRUE
      /\ y \in [op : A, arg : A, ans : A, late : A \cup {TRUE}, gone : A]
      /\ y.op = d.op /\ y.arg = d.arg /\ y.gone = d.gone
    BY <1>1, Changed
<1> HIDE DEF x, y
<1>3. IsCall(x) /\ IsCall(y)
    BY <1>2 DEF IsCall
<1> QED
    BY <1>2, <1>3 DEF x, y

\* Cancelled calls are not awaited any more.
LEMMA Cancelled ==
    ASSUME NEW n, NetOK(n), NEW op
    PROVE  /\ NetOK(Cancel(n, op))
           /\ op = "report" => Live(Cancel(n, op)) = {}
           /\ op # "report" => Live(Cancel(n, op)) = Live(n)
<1> DEFINE c(i) == IF n[i].op = op THEN [n[i] EXCEPT !.gone = TRUE] ELSE n[i]
           m == [i \in DOMAIN n |-> c(i)]
<1>1. Len(n) \in Nat /\ DOMAIN n = 1 .. Len(n) /\ \A i \in DOMAIN n : IsCall(n[i])
    BY NetShape
<1>2. ASSUME NEW i \in DOMAIN n
      PROVE  /\ IsCall(c(i)) /\ c(i).op = n[i].op /\ c(i).arg = n[i].arg
             /\ c(i).gone = IF n[i].op = op THEN TRUE ELSE n[i].gone
    <2>1. IsCall(n[i])
        BY <1>1
    <2>2. CASE n[i].op = op
        BY <2>1, <2>2, ChangedCall, Zenon
    <2>3. CASE n[i].op # op
        BY <2>1, <2>3, Zenon
    <2> QED
        BY <2>2, <2>3
<1> HIDE DEF c
<1>3. DOMAIN m = 1 .. Len(n) /\ m = [i \in 1 .. Len(n) |-> m[i]]
      /\ \A i \in DOMAIN n : m[i] = c(i)
    BY <1>1
<1> HIDE DEF m
<1>4. NetOK(m)
    BY <1>1, <1>2, <1>3, FunctionIsSeq DEF NetOK
<1>5. \A i \in DOMAIN n : Awaited(m, i) <=> Awaited(n, i) /\ n[i].op # op
    BY <1>2, <1>3 DEF Awaited
<1>6. ASSUME op = "report" PROVE Live(m) = {}
    BY <1>1, <1>3, <1>5, <1>6 DEF Live, Awaited
<1>7. ASSUME op # "report" PROVE Live(m) = Live(n)
    <2>1. \A i \in DOMAIN n : Awaited(m, i) <=> Awaited(n, i)
        BY <1>5, <1>7 DEF Awaited
    <2>2. DOMAIN m = DOMAIN n
        BY <1>1, <1>3
    <2>3. \A i \in DOMAIN n : m[i].arg = n[i].arg
        BY <1>2, <1>3
    <2>4. Live(m) \subseteq Live(n)
        BY <2>1, <2>2, <2>3 DEF Live
    <2>5. Live(n) \subseteq Live(m)
        BY <2>1, <2>2, <2>3 DEF Live
    <2> QED
        BY <2>4, <2>5
<1>8. Cancel(n, op) = m
    BY DEF Cancel, Unmount, m, c
<1> QED
    BY <1>4, <1>6, <1>7, <1>8

\* Without its i-th call, the calls in flight are the others, in their order.
LEMMA Removed ==
    ASSUME NEW S, NEW s \in Seq(S), NEW i \in 1 .. Len(s)
    PROVE  /\ RemoveAt(s, i) \in Seq(S)
           /\ Len(RemoveAt(s, i)) = Len(s) - 1
           /\ \A j \in 1 .. Len(s) - 1 :
                 RemoveAt(s, i)[j] = IF j < i THEN s[j] ELSE s[j + 1]
<1> DEFINE before == SubSeq(s, 1, i - 1)
           after == SubSeq(s, i + 1, Len(s))
<1>1. /\ before \in Seq(S) /\ Len(before) = i - 1
      /\ \A j \in 1 .. i - 1 : before[j] = s[j]
    BY SubSeqProperties
<1>2. /\ after \in Seq(S) /\ Len(after) = Len(s) - i
      /\ \A j \in 1 .. Len(s) - i : after[j] = s[i + j]
    BY SubSeqProperties
<1>3. RemoveAt(s, i) = before \o after
    BY DEF RemoveAt
<1> HIDE DEF before, after
<1>4. /\ before \o after \in Seq(S) /\ Len(before \o after) = Len(s) - 1
      /\ \A j \in 1 .. Len(s) - 1 :
            (before \o after)[j] = IF j <= i - 1 THEN before[j] ELSE after[j - (i - 1)]
    BY <1>1, <1>2, ConcatProperties
<1>5. ASSUME NEW j \in 1 .. Len(s) - 1, j < i
      PROVE  (before \o after)[j] = s[j]
    BY <1>1, <1>4, <1>5
<1>6. ASSUME NEW j \in 1 .. Len(s) - 1, ~(j < i)
      PROVE  (before \o after)[j] = s[j + 1]
    <2>1. (before \o after)[j] = after[j - (i - 1)]
        BY <1>4, <1>6
    <2>2. j - (i - 1) \in 1 .. Len(s) - i /\ i + (j - (i - 1)) = j + 1
        BY <1>6
    <2> QED
        BY <2>1, <2>2, <1>2
<1> QED
    BY <1>3, <1>4, <1>5, <1>6

\* A call that leaves takes at most its own report with it.
LEMMA Finished ==
    ASSUME NEW n, NetOK(n), NEW i \in DOMAIN n
    PROVE  /\ NetOK(Finish(n, i))
           /\ Live(Finish(n, i)) \subseteq Live(n)
           /\ ~Awaited(n, i) => Live(Finish(n, i)) = Live(n)
<1> DEFINE c(j) == IF j < i /\ n[j].op = n[i].op THEN [n[j] EXCEPT !.late = TRUE] ELSE n[j]
           m == [j \in DOMAIN n |-> c(j)]
           r == RemoveAt(m, i)
<1>1. Len(n) \in Nat /\ DOMAIN n = 1 .. Len(n) /\ \A j \in DOMAIN n : IsCall(n[j])
    BY NetShape
<1>2. ASSUME NEW j \in DOMAIN n
      PROVE  /\ IsCall(c(j)) /\ c(j).op = n[j].op /\ c(j).arg = n[j].arg
             /\ c(j).gone = n[j].gone
    <2>1. IsCall(n[j])
        BY <1>1
    <2>2. CASE j < i /\ n[j].op = n[i].op
        BY <2>1, <2>2, ChangedCall, Zenon
    <2>3. CASE ~(j < i /\ n[j].op = n[i].op)
        BY <2>1, <2>3, Zenon
    <2> QED
        BY <2>2, <2>3
<1> HIDE DEF c
<1>3. DOMAIN m = 1 .. Len(n) /\ m = [j \in 1 .. Len(n) |-> m[j]]
      /\ \A j \in DOMAIN n : m[j] = c(j)
    BY <1>1
<1>4. Finish(n, i) = r
    BY DEF Finish, r, m, c
<1> HIDE DEF m
<1>5. PICK S : m \in Seq(S) /\ Len(m) = Len(n)
    BY <1>1, <1>3, FunctionIsSeq
<1>6. /\ r \in Seq(S) /\ Len(r) = Len(n) - 1
      /\ \A j \in 1 .. Len(n) - 1 : r[j] = IF j < i THEN m[j] ELSE m[j + 1]
    BY <1>1, <1>5, Removed
<1>7. DOMAIN r = 1 .. Len(n) - 1
    BY <1>1, <1>6
<1> HIDE DEF r
<1> DEFINE old(j) == IF j < i THEN j ELSE j + 1
<1>8. ASSUME NEW j \in DOMAIN r
      PROVE  old(j) \in DOMAIN n /\ old(j) # i /\ r[j] = c(old(j))
    <2>1. j \in 1 .. Len(n) - 1 /\ i \in 1 .. Len(n)
        BY <1>1, <1>7
    <2>2. CASE j < i
        <3>1. j \in DOMAIN n /\ j # i
            BY <1>1, <2>1, <2>2
        <3>2. r[j] = m[j]
            BY <1>6, <2>1, <2>2
        <3>3. r[j] = c(j)
            BY <1>3, <3>1, <3>2
        <3> QED
            BY <2>2, <3>1, <3>3
    <2>3. CASE ~(j < i)
        <3>1. j + 1 \in DOMAIN n /\ j + 1 # i
            BY <1>1, <2>1, <2>3
        <3>2. r[j] = m[j + 1]
            BY <1>6, <2>1, <2>3
        <3>3. r[j] = c(j + 1)
            BY <1>3, <3>1, <3>2
        <3> QED
            BY <2>3, <3>1, <3>3
    <2> QED
        BY <2>2, <2>3
<1>9. ASSUME NEW k \in DOMAIN n, k # i
      PROVE  \E j \in DOMAIN r : old(j) = k
    <2>1. CASE k < i
        <3>1. k \in DOMAIN r /\ old(k) = k
            BY <1>1, <1>7, <2>1
        <3> QED
            BY <3>1
    <2>2. CASE ~(k < i)
        <3>1. k - 1 \in DOMAIN r /\ old(k - 1) = k
            BY <1>1, <1>7, <1>9, <2>2
        <3> QED
            BY <3>1
    <2> QED
        BY <2>1, <2>2
<1> HIDE DEF old
<1>10. NetOK(r)
    BY <1>2, <1>6, <1>8 DEF NetOK
<1>11. ASSUME NEW j \in DOMAIN r
       PROVE  /\ r[j].arg = n[old(j)].arg
              /\ Awaited(r, j) <=> Awaited(n, old(j))
    BY <1>2, <1>8 DEF Awaited
<1>12. Live(r) \subseteq Live(n)
    BY <1>8, <1>11 DEF Live
<1>13. ASSUME ~Awaited(n, i) PROVE Live(n) \subseteq Live(r)
    BY <1>9, <1>11, <1>13 DEF Live
<1> QED
    BY <1>4, <1>10, <1>12, <1>13

(***************************************************************************)
(* The page                                                                *)
(***************************************************************************)
Page(A) == [project : A, brands : A, brand : A, start : A, end : A, loading : A,
            error : A, filtered : A, pageIndex : A]

PageOK(v) == \E A : v \in Page(A)

\* What a change leaves: the parameters of the report and the loading flag.
Like(w, v) == PageOK(w) /\ Asked(w) = Asked(v) /\ w.loading = v.loading

LEMMA Typed ==
    ASSUME NEW A, NEW v \in Page(A), NEW x \in A
    PROVE  /\ [v EXCEPT !.project = x] \in Page(A)
           /\ [v EXCEPT !.brand = x] \in Page(A)
           /\ [v EXCEPT !.start = x] \in Page(A)
           /\ [v EXCEPT !.end = x] \in Page(A)
           /\ [v EXCEPT !.brands = x] \in Page(A)
           /\ [v EXCEPT !.loading = x] \in Page(A)
           /\ [v EXCEPT !.error = x] \in Page(A)
           /\ [v EXCEPT !.filtered = x] \in Page(A)
           /\ [v EXCEPT !.pageIndex = x] \in Page(A)
BY DEF Page

LEMMA PageWith ==
    ASSUME NEW v, PageOK(v), NEW x
    PROVE  \E A : v \in Page(A) /\ x \in A
<1>1. PICK A : v \in Page(A)
    BY DEF PageOK
<1>2. v \in Page(A \cup {x})
    BY <1>1 DEF Page
<1> QED
    BY <1>2

\* The parameters of the report leave the loading flag, the other fields the
\* parameters.
LEMMA PageChanged ==
    ASSUME NEW v, PageOK(v), NEW x
    PROVE  /\ PageOK([v EXCEPT !.project = x]) /\ [v EXCEPT !.project = x].loading = v.loading
           /\ PageOK([v EXCEPT !.brand = x]) /\ [v EXCEPT !.brand = x].loading = v.loading
           /\ PageOK([v EXCEPT !.start = x]) /\ [v EXCEPT !.start = x].loading = v.loading
           /\ PageOK([v EXCEPT !.end = x]) /\ [v EXCEPT !.end = x].loading = v.loading
           /\ PageOK([v EXCEPT !.loading = x]) /\ [v EXCEPT !.loading = x].loading = x
           /\ Asked([v EXCEPT !.loading = x]) = Asked(v)
           /\ Like([v EXCEPT !.brands = x], v) /\ Like([v EXCEPT !.error = x], v)
           /\ Like([v EXCEPT !.filtered = x], v) /\ Like([v EXCEPT !.pageIndex = x], v)
<1>1. PICK A : v \in Page(A) /\ x \in A
    BY PageWith
<1>2. /\ PageOK([v EXCEPT !.project = x]) /\ PageOK([v EXCEPT !.brand = x])
      /\ PageOK([v EXCEPT !.start = x]) /\ PageOK([v EXCEPT !.end = x])
      /\ PageOK([v EXCEPT !.loading = x]) /\ PageOK([v EXCEPT !.brands = x])
      /\ PageOK([v EXCEPT !.error = x]) /\ PageOK([v EXCEPT !.filtered = x])
      /\ PageOK([v EXCEPT !.pageIndex = x])
    BY <1>1, Typed, Zenon DEF PageOK
<1>3. /\ [v EXCEPT !.project = x].loading = v.loading
      /\ [v EXCEPT !.brand = x].loading = v.loading
      /\ [v EXCEPT !.start = x].loading = v.loading
      /\ [v EXCEPT !.end = x].loading = v.loading
      /\ [v EXCEPT !.loading = x].loading = x
      /\ Asked([v EXCEPT !.loading = x]) = Asked(v)
    BY <1>1 DEF Page, Asked
<1>4. /\ Asked([v EXCEPT !.brands = x]) = Asked(v)
      /\ Asked([v EXCEPT !.error = x]) = Asked(v)
      /\ Asked([v EXCEPT !.filtered = x]) = Asked(v)
      /\ Asked([v EXCEPT !.pageIndex = x]) = Asked(v)
    BY <1>1 DEF Page, Asked
<1>5. /\ [v EXCEPT !.brands = x].loading = v.loading
      /\ [v EXCEPT !.error = x].loading = v.loading
      /\ [v EXCEPT !.filtered = x].loading = v.loading
      /\ [v EXCEPT !.pageIndex = x].loading = v.loading
    BY <1>1 DEF Page, Asked
<1> QED
    BY <1>2, <1>3, <1>4, <1>5, Zenon DEF Like

(***************************************************************************)
(* The invariant: at most one report is awaited, that of the controls; the *)
(* report on the screen is theirs or hidden by the skeleton; and the       *)
(* skeleton of valid parameters hides a call.                              *)
(***************************************************************************)
Inv ==
    /\ PageOK(page) /\ NetOK(net)
    /\ Live(net) \subseteq {Asked(page)}
    /\ report # NoReport => report = Asked(page) \/ page.loading
    /\ page.loading /\ Valid(Asked(page)) => Live(net) # {}

\* The effect on the report's parameters cancels the reports of the old ones.
LEMMA EffectKeeps ==
    ASSUME Inv, NEW v, PageOK(v), v.loading = page.loading,
           NEW n, NetOK(n), Live(n) = Live(net), ReportEffect(v, n)
    PROVE  Inv'
<1>1. CASE Asked(v) = Asked(page)
    BY <1>1 DEF ReportEffect, Inv
<1>2. CASE Asked(v) # Asked(page) /\ Valid(Asked(v))
    <2> DEFINE w == [v EXCEPT !.loading = TRUE]
               m == Cancel(n, "report")
    <2>1. page' = w /\ net' = Issue(m, "report", Asked(v)) /\ report' = report
        BY <1>2 DEF ReportEffect
    <2>2. PageOK(w) /\ Asked(w) = Asked(v) /\ w.loading = TRUE
        BY PageChanged
    <2>3. NetOK(m) /\ Live(m) = {}
        BY Cancelled
    <2> HIDE DEF w, m
    <2>4. NetOK(net') /\ Live(net') = {Asked(v)}
        BY <2>1, <2>3, Issued
    <2> QED
        BY <2>1, <2>2, <2>4 DEF Inv
<1>3. CASE Asked(v) # Asked(page) /\ ~Valid(Asked(v))
    <2> DEFINE x == IF report = NoReport THEN v.pageIndex ELSE 0
               w == [v EXCEPT !.pageIndex = x]
    <2>1. page' = w /\ net' = Cancel(n, "report") /\ report' = NoReport
        BY <1>3 DEF ReportEffect
    <2>2. PageOK(w) /\ Asked(w) = Asked(v)
        BY PageChanged DEF Like
    <2> HIDE DEF w, x
    <2>3. NetOK(net') /\ Live(net') = {}
        BY <2>1, Cancelled
    <2> QED
        BY <1>3, <2>1, <2>2, <2>3 DEF Inv
<1> QED
    BY <1>1, <1>2, <1>3

(***************************************************************************)
(* Steps                                                                   *)
(***************************************************************************)
LEMMA Begins == Init => Inv
<1> SUFFICES ASSUME Init PROVE Inv
    OBVIOUS
<1>1. PageOK(page) /\ page.loading = FALSE
    <2> DEFINE A == {NoProject, <<>>, 0, 1, FALSE}
    <2>1. NoProject \in A /\ <<>> \in A /\ 0 \in A /\ 1 \in A /\ FALSE \in A
        OBVIOUS
    <2> HIDE DEF A
    <2>2. page \in Page(A) /\ page.loading = FALSE
        BY <2>1 DEF Init, Page
    <2> QED
        BY <2>2 DEF PageOK
<1>2. NetOK(net) /\ Live(net) = {} /\ report = NoReport
    BY DEF Init, NetOK, Live
<1> QED
    BY <1>1, <1>2 DEF Inv

LEMMA ProjectKeeps ==
    ASSUME Inv, NEW p \in Projects, SelectProject(p)
    PROVE  Inv'
<1> DEFINE v == [page EXCEPT !.project = p]
           m == Cancel(net, "brands")
           n == Issue(m, "brands", p)
<1>1. PageOK(v) /\ v.loading = page.loading
    BY PageChanged DEF Inv
<1>2. NetOK(m) /\ Live(m) = Live(net)
    BY Cancelled DEF Inv
<1>3. ReportEffect(v, n)
    BY DEF SelectProject
<1> HIDE DEF v, m
<1>4. NetOK(n) /\ Live(n) = Live(net)
    BY <1>2, Issued
<1> HIDE DEF n
<1> QED
    BY <1>1, <1>3, <1>4, EffectKeeps

LEMMA ControlsKeep ==
    ASSUME Inv, NEW x, SetBrandId(x) \/ SetStartDate(x) \/ SetEndDate(x)
    PROVE  Inv'
<1> DEFINE b == [page EXCEPT !.brand = x]
           s == [page EXCEPT !.start = x]
           e == [page EXCEPT !.end = x]
<1>1. /\ PageOK(b) /\ b.loading = page.loading
      /\ PageOK(s) /\ s.loading = page.loading
      /\ PageOK(e) /\ e.loading = page.loading
    BY PageChanged DEF Inv
<1>2. ReportEffect(b, net) \/ ReportEffect(s, net) \/ ReportEffect(e, net)
    BY DEF SetBrandId, SetStartDate, SetEndDate
<1>3. NetOK(net)
    BY DEF Inv
<1> HIDE DEF b, s, e
<1> QED
    BY <1>1, <1>2, <1>3, EffectKeeps

LEMMA BrandsKeep ==
    ASSUME Inv, NEW i \in DOMAIN net, BrandsLoaded(i)
    PROVE  Inv'
<1> DEFINE options == BrandOptions(net[i].arg)
           first == IF options = <<>> THEN 0 ELSE Head(options)
           w == [page EXCEPT !.brands = options]
           x == IF page.brand \in Range(options) THEN page.brand ELSE first
           v == [w EXCEPT !.brand = x]
           n == Finish(net, i)
<1>1. ReportEffect([page EXCEPT !.brands = options, !.brand = x], n)
    BY Zenon DEF BrandsLoaded
<1> HIDE DEF options, first, x
<1>2. [page EXCEPT !.brands = options, !.brand = x] = v
    OBVIOUS
<1>3. PageOK(w) /\ w.loading = page.loading
    BY PageChanged DEF Inv, Like
<1> HIDE DEF w
<1>4. PageOK(v) /\ v.loading = page.loading
    BY <1>3, PageChanged
<1> HIDE DEF v
<1>5. NetOK(n) /\ Live(n) = Live(net)
    BY Finished DEF Inv, Awaited, BrandsLoaded
<1> HIDE DEF n
<1> QED
    BY <1>1, <1>2, <1>4, <1>5, EffectKeeps

LEMMA ReportKeeps ==
    ASSUME Inv, NEW i \in DOMAIN net, ReportLoaded(i) \/ ReportFails(i)
    PROVE  Inv'
<1> DEFINE a == [page EXCEPT !.loading = FALSE]
           b(e) == [a EXCEPT !.error = e]
           c(e, x) == [b(e) EXCEPT !.pageIndex = x]
<1>1. PageOK(a) /\ Asked(a) = Asked(page) /\ a.loading = FALSE
    BY PageChanged DEF Inv
<1>2. \E e, x : page' = c(e, x)
    <2>1. CASE ReportLoaded(i)
        <3>1. page' = c(FALSE, 0)
            BY <2>1, Zenon DEF ReportLoaded
        <3> QED
            BY <3>1, Zenon
    <2>2. CASE ReportFails(i)
        <3> DEFINE x == IF report = NoReport THEN page.pageIndex ELSE 0
        <3>1. page' = c(TRUE, x)
            BY <2>2, Zenon DEF ReportFails
        <3> QED
            BY <3>1, Zenon
    <2> QED
        BY <2>1, <2>2
<1> HIDE DEF a
<1>3. PICK e, x : page' = c(e, x)
    BY <1>2, Zenon
<1>4. PageOK(b(e)) /\ Asked(b(e)) = Asked(page) /\ b(e).loading = FALSE
    BY <1>1, PageChanged DEF Like
<1> HIDE DEF b
<1>5. PageOK(page') /\ Asked(page') = Asked(page) /\ page'.loading = FALSE
    BY <1>3, <1>4, PageChanged DEF Like
<1>6. NetOK(net') /\ Live(net') \subseteq {Asked(page)}
    BY Finished DEF Inv, ReportLoaded, ReportFails
<1>7. report' = NoReport \/ report' = net[i].arg
    BY DEF ReportLoaded, ReportFails
<1>8. Awaited(net, i)
    BY DEF ReportLoaded, ReportFails, Ignored, Awaited
<1>9. net[i].arg = Asked(page)
    BY <1>8 DEF Inv, Live
<1> QED
    BY <1>5, <1>6, <1>7, <1>9 DEF Inv

LEMMA DroppedKeeps ==
    ASSUME Inv, NEW i \in DOMAIN net, Dropped(i)
    PROVE  Inv'
<1>1. NetOK(net') /\ Live(net') = Live(net)
    BY Finished DEF Inv, Dropped, Ignored, Awaited
<1> QED
    BY <1>1 DEF Inv, Dropped

LEMMA TableKeeps ==
    ASSUME Inv, SetGlobalFilter \/ SetPageIndex
    PROVE  Inv'
<1>1. Like(page', page)
    <2>1. CASE SetGlobalFilter
        <3> DEFINE x == ~page.filtered
                   a == [page EXCEPT !.filtered = x]
                   b == [a EXCEPT !.pageIndex = 0]
        <3>1. page' = b
            BY <2>1, Zenon DEF SetGlobalFilter
        <3> HIDE DEF x
        <3>2. Like(a, page)
            BY PageChanged DEF Inv
        <3> HIDE DEF a
        <3>3. Like(b, a)
            BY <3>2, PageChanged DEF Like
        <3> HIDE DEF b
        <3> QED
            BY <3>1, <3>2, <3>3 DEF Like
    <2>2. CASE SetPageIndex
        <3> DEFINE x == page.pageIndex + 1
        <3>1. page' = [page EXCEPT !.pageIndex = x]
            BY <2>2 DEF SetPageIndex
        <3> HIDE DEF x
        <3> QED
            BY <3>1, PageChanged DEF Inv
    <2> QED
        BY <2>1, <2>2
<1>2. net' = net /\ report' = report
    BY DEF SetGlobalFilter, SetPageIndex
<1> QED
    BY <1>1, <1>2 DEF Inv, Like

LEMMA StepKeeps == Inv /\ [Next]_vars => Inv'
<1> SUFFICES ASSUME Inv, [Next]_vars PROVE Inv'
    OBVIOUS
<1>1. CASE Filters
    BY <1>1, ProjectKeeps, ControlsKeep DEF Filters
<1>2. CASE Answers
    BY <1>2, BrandsKeep, ReportKeeps, DroppedKeeps DEF Answers
<1>3. CASE SetGlobalFilter \/ SetPageIndex
    BY <1>3, TableKeeps
<1>4. CASE UNCHANGED vars
    BY <1>4 DEF vars, Inv
<1> QED
    BY <1>1, <1>2, <1>3, <1>4 DEF Next

LEMMA InvMeans == Inv => ReportMatchesControls /\ SkeletonIsAwaited
BY DEF Inv, ReportMatchesControls, SkeletonIsAwaited, Live, Awaited

\* However often the controls change and whatever answers come in which order,
\* the report on the screen is the one they ask for.
THEOREM ReportsMatch == Spec => []ReportMatchesControls
<1>1. Spec => []Inv
    BY Begins, StepKeeps, PTL DEF Spec
<1> QED
    BY <1>1, InvMeans, PTL

\* The skeleton of valid parameters never waits for nothing.
THEOREM SkeletonsAreAwaited == Spec => []SkeletonIsAwaited
<1>1. Spec => []Inv
    BY Begins, StepKeeps, PTL DEF Spec
<1> QED
    BY <1>1, InvMeans, PTL
=============================================================================
