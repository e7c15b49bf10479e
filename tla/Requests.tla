------------------------------ MODULE Requests ------------------------------
(***************************************************************************)
(* The calls one page of the console has in flight (lib/api.ts).           *)
(*                                                                         *)
(* Every call is a fetch that the page awaits.  Nothing in the client      *)
(* aborts a fetch or numbers it, so the server may serve two calls, and    *)
(* the page may receive their answers, in any order.  The calls in flight  *)
(* are a sequence in the order the page made them: a call is served once   *)
(* (its answer is fixed then), and received or lost afterwards.  "late"    *)
(* marks a call that a newer call of the same operation, already settled,  *)
(* has overtaken; "gone" marks one whose component was unmounted: React    *)
(* ignores the state it sets.                                              *)
(***************************************************************************)
EXTENDS Naturals, Sequences, SequencesExt

\* fetch with method, path and body: the page goes on until it is answered.
Call(op, arg) ==
    [op |-> op, arg |-> arg, ans |-> {}, late |-> FALSE, gone |-> FALSE]

Issue(net, op, arg) == Append(net, Call(op, arg))

InFlight(net, op) == \E i \in DOMAIN net : net[i].op = op /\ ~net[i].gone

Unserved(net, i) == net[i].ans = {}

\* The server answers call i: a status below 400 with a body (ok), or an
\* error status, which the client turns into an ApiError.
Serve(net, i, ok, body) == [net EXCEPT ![i].ans = {[ok |-> ok, body |-> body]}]

Answer(net, i) == CHOOSE a \in net[i].ans : TRUE

\* Call i leaves, received or failed: it settles the older calls of its
\* operation as overtaken.
Finish(net, i) ==
    RemoveAt([j \in DOMAIN net |->
                 IF j < i /\ net[j].op = net[i].op
                 THEN [net[j] EXCEPT !.late = TRUE] ELSE net[j]], i)

\* No newer call of the operation was made, or this is the newest one.
Newest(net, i) ==
    /\ ~net[i].late
    /\ \A j \in DOMAIN net : j > i => net[j].op # net[i].op

\* The components that made the calls satisfying Left are unmounted.
Unmount(net, Left(_)) ==
    [i \in DOMAIN net |->
        IF Left(net[i]) THEN [net[i] EXCEPT !.gone = TRUE] ELSE net[i]]
=============================================================================
