---------------------------- MODULE ProjectGrid ----------------------------
(***************************************************************************)
(* The list of projects (features/projects/components/project-grid.tsx):   *)
(* the list is loaded when the page opens and again after a creation; a    *)
(* deletion and a change of the settings patch it with their own answers.  *)
(***************************************************************************)
EXTENDS Requests

CONSTANTS Ids,        \* projects the server can hold, numbered as created
          Names,      \* names a project can have
          Counts,     \* numbers of prompts of a project
          MaxFlight,  \* bound: calls in flight when the user acts
          MaxActs     \* bound: calls the user starts

ProjectGridParameters == Ids \subseteq Nat \ {0} /\ 0 \in Counts

VARIABLES page, server, net, past

vars == <<page, server, net, past>>

Closed == [id |-> 0, name |-> "", count |-> 0]

Records == [id : Ids, name : Names, count : Counts]

\* The page mounts and loads.  "crossed" is history: some list was in flight
\* together with a write, or a call failed whose effect is not known.
Init ==
    /\ page = [projects |-> {}, loading |-> TRUE, creating |-> FALSE,
               saving |-> FALSE, showCreate |-> FALSE, settings |-> Closed]
    /\ \E p \in Records : server = {p}
    /\ net = Issue(<<>>, "list", {})
    /\ past = [crossed |-> FALSE, acts |-> 0]

Acting == Len(net) < MaxFlight /\ past.acts < MaxActs

\* fetchProjects; a list asked for while nothing else is under way brings the
\* page up to date again.
Fetch(n) ==
    /\ net' = Issue(n, "list", {})
    /\ past' = [past EXCEPT !.crossed = n # <<>>]

StartWrite(op, arg) ==
    /\ Acting
    /\ net' = Issue(net, op, arg)
    /\ past' = [crossed |-> past.crossed \/ InFlight(net, "list"), acts |-> past.acts + 1]

SetPage(v) == page' = v /\ UNCHANGED <<server, net, past>>

OpenCreate == ~page.showCreate /\ SetPage([page EXCEPT !.showCreate = TRUE])

CloseCreate == page.showCreate /\ SetPage([page EXCEPT !.showCreate = FALSE])

\* The form is not sent without a name, a site and a brand.
HandleCreate(name) ==
    /\ page.showCreate /\ ~page.creating
    /\ StartWrite("create", name)
    /\ page' = [page EXCEPT !.creating = TRUE]
    /\ UNCHANGED server

\* window.confirm answered with yes.
HandleDelete(p) ==
    /\ ~page.loading /\ p \in page.projects
    /\ StartWrite("delete", p.id)
    /\ UNCHANGED <<page, server>>

\* The dialog edits a copy of the row.
OpenSettings(p) ==
    /\ ~page.loading /\ p \in page.projects /\ page.settings = Closed
    /\ SetPage([page EXCEPT !.settings = p])

EditSettings(name) ==
    /\ page.settings # Closed /\ name # page.settings.name
    /\ SetPage([page EXCEPT !.settings.name = name])

CloseSettings == page.settings # Closed /\ SetPage([page EXCEPT !.settings = Closed])

HandleSaveSettings ==
    /\ page.settings # Closed /\ ~page.saving
    /\ StartWrite("update", page.settings)
    /\ page' = [page EXCEPT !.saving = TRUE]
    /\ UNCHANGED server

Received(op, i) == net[i].op = op /\ ~Unserved(net, i) /\ Answer(net, i).ok

Body(i) == Answer(net, i).body

Listed(i) ==
    /\ Received("list", i)
    /\ page' = [page EXCEPT !.projects = Body(i), !.loading = FALSE]
    /\ net' = Finish(net, i)
    /\ UNCHANGED <<server, past>>

Created(i) ==
    /\ Received("create", i)
    /\ page' = [page EXCEPT !.showCreate = FALSE, !.creating = FALSE]
    /\ Fetch(Finish(net, i))
    /\ UNCHANGED server

Deleted(i) ==
    /\ Received("delete", i)
    /\ page' = [page EXCEPT !.projects = {p \in @ : p.id # net[i].arg}]
    /\ net' = Finish(net, i)
    /\ UNCHANGED <<server, past>>

\* Mutant of Saved: the row becomes the answer, whose counts are the defaults
\* of its schema.
SavedAsAnswered(i) ==
    /\ Received("update", i)
    /\ page' = [page EXCEPT
                  !.projects = {IF p.id = Body(i).id THEN Body(i) ELSE p : p \in @},
                  !.settings = Closed, !.saving = FALSE]
    /\ net' = Finish(net, i)
    /\ UNCHANGED <<server, past>>

\* The answer has no counts: those of the row are kept.  The dialog that is
\* open is closed, also if it is by now the one of another project.
Saved(i) ==
    /\ Received("update", i)
    /\ page' = [page EXCEPT
                  !.projects = {IF p.id = Body(i).id THEN [Body(i) EXCEPT !.count = p.count]
                                ELSE p : p \in @},
                  !.settings = Closed, !.saving = FALSE]
    /\ net' = Finish(net, i)
    /\ UNCHANGED <<server, past>>

\* The catch and finally blocks: a list that fails empties the page.
CallFails(i) ==
    /\ page' = CASE net[i].op = "list" -> [page EXCEPT !.projects = {}, !.loading = FALSE]
                 [] net[i].op = "create" -> [page EXCEPT !.creating = FALSE]
                 [] net[i].op = "update" -> [page EXCEPT !.saving = FALSE]
                 [] net[i].op = "delete" -> page
    /\ net' = Finish(net, i)
    /\ past' = [past EXCEPT !.crossed =
                   \/ @ \/ net[i].op = "list"
                   \/ ~Unserved(net, i) /\ Answer(net, i).ok]
    /\ UNCHANGED server

-----------------------------------------------------------------------------
(* The server (app/projects/router.py) *)

FreeIds == {k \in Ids : \A p \in server : p.id # k}

Ok(c) ==
    \/ c.op = "list"
    \/ c.op = "create" /\ FreeIds # {}
    \/ c.op \in {"delete", "update"} /\
       \E p \in server : p.id = IF c.op = "delete" THEN c.arg ELSE c.arg.id

NewId == CHOOSE k \in FreeIds : TRUE

Effect(c) ==
    CASE c.op = "list" -> server
      [] c.op = "create" -> server \cup {[id |-> NewId, name |-> c.arg, count |-> 0]}
      [] c.op = "delete" -> {p \in server : p.id # c.arg}
      [] c.op = "update" ->
           {IF p.id = c.arg.id THEN [p EXCEPT !.name = c.arg.name] ELSE p : p \in server}

Served(i) ==
    /\ Unserved(net, i)
    /\ server' = IF Ok(net[i]) THEN Effect(net[i]) ELSE server
    /\ net' = Serve(net, i, Ok(net[i]),
                    IF net[i].op = "update" THEN [net[i].arg EXCEPT !.count = 0] ELSE server)
    /\ UNCHANGED <<page, past>>

Handlers ==
    \/ OpenCreate \/ CloseCreate \/ CloseSettings \/ HandleSaveSettings
    \/ \E name \in Names : HandleCreate(name) \/ EditSettings(name)
    \/ \E p \in page.projects : HandleDelete(p) \/ OpenSettings(p)

Answers ==
    \E i \in DOMAIN net :
        Listed(i) \/ Created(i) \/ Deleted(i) \/ Saved(i) \/ CallFails(i) \/ Served(i)

Next == Handlers \/ Answers

Spec == Init /\ [][Next]_vars

-----------------------------------------------------------------------------
(* Properties *)

\* When everything the user asked for has been answered, the cards are the
\* projects of the server, with their names and counts, in whatever order
\* creations, deletions and changes of settings overlapped; only a list that
\* was in flight together with a write, or a lost answer, may leave others.
GridFollowsServer == net = <<>> /\ ~past.crossed => page.projects = server
=============================================================================
