--------------------------- MODULE QuestionServer ---------------------------
(***************************************************************************)
(* The server an editor asks about the graph, while builds replace the     *)
(* graph under it: DbHandle of packages/mcp/src/query/db.ts, ToolListing   *)
(* of packages/mcp/src/tool-listing.ts and what server.ts does when the    *)
(* client leaves, against writeGraphDb of packages/linker/src/db/writer.ts *)
(* and whatever saves observed.json beside the database.                   *)
(*                                                                         *)
(* The server is one thread, and every request runs to its end before the  *)
(* next; but it looks at the files of other processes call by call, and    *)
(* between two of its calls those may change.  A step is one such look.    *)
(*                                                                         *)
(* The tools listed are told apart by the facts they are decided from.  A  *)
(* generation is told apart only from that of the facts held.              *)
(***************************************************************************)
EXTENDS Naturals

CONSTANTS
    MaxBuilds,      \* how often graph.db is written
    MaxSaves,       \* how often observed.json is
    NoDb,           \* no graph.db; no database open
    NoFacts,        \* what is not known of a graph; no list
    NoAnswer,
    Failure         \* an answer that says why there is none

ASSUME QuestionServerAssumption ==
    /\ MaxBuilds \in Nat
    /\ MaxSaves \in Nat
    /\ NoDb \notin Nat
    /\ NoDb \notin [build : Nat, ours : BOOLEAN]
    /\ NoAnswer \notin [build : Nat, ours : BOOLEAN] \union {Failure}
    /\ Failure \notin [build : Nat, ours : BOOLEAN]

VARIABLES
    db,         \* graph.db: the build that wrote it, and whether its schema is ours
    builds,     \* how many builds have begun to replace it
    replacing,  \* whether one of them has removed it and not yet renamed its own
    beside,     \* how often observed.json was saved
    handle,     \* the database the server holds open
    openedAt,   \* the modification time it holds it under
    held,       \* what the server has read of a graph
    current,    \* whether that is of the handle's generation
    enabled,    \* the facts its tools are enabled by
    stamp,      \* the modification times the poll compares
    seen,       \* history: those of the files the list was decided from
    timer,      \* whether it polls
    job,        \* what it is doing: the request, and for what it opens the database
    pc,         \* and where it is in that
    modified,   \* the time statSync gave
    changed,    \* whether a tool was enabled or disabled
    connected,  \* whether there is a client
    listed,     \* the list the client was last given
    told,       \* whether it has been told of a new one
    since,      \* history: graph.db as it was at any time since the request
    answer      \* history: what the last request was answered with

disk == <<db, builds, replacing, beside>>
opened == <<handle, openedAt, current>>
listing == <<held, enabled, stamp, seen, timer, changed>>
doing == <<job, pc, modified>>
client == <<connected, listed, told>>
history == <<since, answer>>
vars == <<disk, opened, listing, doing, client, history>>

\* What the tools are decided from: what the graph holds, and whether there is
\* an observed file that can be read, which is every other one.
Holds(build) == build % 2
Facts(graph, saves) == [graph |-> graph, observed |-> saves % 2 = 1]

Usable(d) == d # NoDb /\ d.ours
TimeOf(d) == IF d = NoDb THEN NoDb ELSE d.build
StampNow == <<TimeOf(db), beside>>
FactsNow == Facts(IF Usable(db) THEN Holds(db.build) ELSE NoFacts, beside)

Request == {"list", "call", "read", "poll"}
Purpose == {"refresh", "handler", "nested"}
Idle == [request |-> "none", purpose |-> "none"]

Init ==
    /\ db = NoDb
    /\ builds = 0
    /\ replacing = FALSE
    /\ beside = 0
    /\ handle = NoDb
    /\ openedAt = 0
    /\ held = NoFacts
    /\ current = FALSE
    /\ enabled = Facts(NoFacts, 0)
    /\ stamp = <<NoDb, 0>>
    /\ seen = <<NoDb, 0>>
    /\ timer = FALSE
    /\ job = Idle
    /\ pc = "idle"
    /\ modified = 0
    /\ changed = FALSE
    /\ connected = FALSE
    /\ listed = NoFacts
    /\ told = FALSE
    /\ since = {}
    /\ answer = NoAnswer

-----------------------------------------------------------------------------
(***************************************************************************)
(* Builds, and whoever saves the observed file: processes of their own,    *)
(* at any step of this one.                                                *)
(***************************************************************************)

\* writeGraphDb removes the database it has written a new one for, if there is
\* one, and then renames the new one to its place.
RemoveDb ==
    /\ ~replacing
    /\ builds < MaxBuilds
    /\ builds' = builds + 1
    /\ replacing' = TRUE
    /\ db' = NoDb
    /\ since' = since \union {NoDb}
    /\ UNCHANGED <<beside, opened, listing, doing, client, answer>>

RenameDb(ours) ==
    /\ replacing
    /\ replacing' = FALSE
    /\ db' = [build |-> builds, ours |-> ours]
    /\ since' = since \union {db'}
    /\ UNCHANGED <<builds, beside, opened, listing, doing, client, answer>>

SaveObserved ==
    /\ beside < MaxSaves
    /\ beside' = beside + 1
    /\ UNCHANGED <<db, builds, replacing, opened, listing, doing, client, history>>

-----------------------------------------------------------------------------
(***************************************************************************)
(* Requests.                                                               *)
(***************************************************************************)

Connect ==
    /\ pc = "idle"
    /\ ~connected
    /\ connected' = TRUE
    /\ UNCHANGED <<disk, opened, listing, doing, listed, told, history>>

\* The client leaves: nobody is told of a new list, and the database is let go.
Disconnect ==
    /\ pc = "idle"
    /\ connected
    /\ connected' = FALSE
    /\ listed' = NoFacts
    /\ told' = FALSE
    /\ timer' = FALSE
    /\ handle' = NoDb
    /\ openedAt' = 0
    /\ answer' = NoAnswer
    /\ since' = {}
    /\ UNCHANGED <<disk, current, held, enabled, stamp, seen, changed, doing>>

\* A list, a call of a tool, a resource; the list is decided before the first two.
Ask(request) ==
    /\ pc = "idle"
    /\ connected
    /\ job' = [request |-> request,
               purpose |-> IF request = "read" THEN "handler" ELSE "refresh"]
    /\ pc' = "exists"
    /\ since' = {db}
    /\ answer' = NoAnswer
    /\ UNCHANGED <<disk, opened, listing, modified, client>>

Poll ==
    /\ pc = "idle"
    /\ timer
    /\ StampNow # stamp
    /\ job' = [request |-> "poll", purpose |-> "refresh"]
    /\ pc' = "exists"
    /\ since' = {db}
    /\ answer' = NoAnswer
    /\ UNCHANGED <<disk, opened, listing, modified, client>>

\* The request is over; a list or a call leaves the poll running.
Replies(with) ==
    /\ job' = Idle
    /\ pc' = "idle"
    /\ modified' = 0
    /\ answer' = with
    /\ UNCHANGED since

Refreshing == job.purpose \in {"refresh", "nested"}

\* The graph as it is now is what a refresh decides from, there or not.
SeesTheGraph == seen' = IF Refreshing THEN [seen EXCEPT ![1] = TimeOf(db)] ELSE seen

\* What comes of opening the database: for the list, its facts are read next;
\* for a request, it is answered.  A database that was opened, or is gone, is
\* told to the list first, which opens it for itself.
OpenedFor(with, isNews) ==
    IF Refreshing
    THEN pc' = "beside" /\ UNCHANGED <<job, modified, history>>
    ELSE IF isNews
    THEN /\ job' = [job EXCEPT !.purpose = "nested"]
         /\ pc' = "exists"
         /\ answer' = with
         /\ UNCHANGED <<modified, since>>
    ELSE Replies(with)

-----------------------------------------------------------------------------
(***************************************************************************)
(* DbHandle.open.                                                          *)
(***************************************************************************)

Exists ==
    /\ pc = "exists"
    /\ IF db = NoDb
       THEN /\ handle' = NoDb
            /\ openedAt' = 0
            /\ current' = (current /\ handle = NoDb)
            /\ SeesTheGraph
            /\ OpenedFor(Failure, handle # NoDb)
       ELSE /\ pc' = "stat"
            /\ UNCHANGED <<opened, seen, job, modified, history>>
    /\ UNCHANGED <<disk, held, enabled, stamp, timer, changed, client>>

\* The file is gone since: this throws, and a request is answered with it.  In
\* the poll nobody catches it.
Vanished ==
    /\ pc = "stat"
    /\ db = NoDb
    /\ IF job.request = "poll"
       THEN pc' = "down" /\ timer' = FALSE /\ UNCHANGED <<job, modified, history>>
       ELSE Replies(Failure) /\ UNCHANGED timer
    /\ UNCHANGED <<disk, opened, held, enabled, stamp, seen, changed, client>>

\* Mutation of SameAsOpen: a database that is open is asked for ever.
OnceOpen(time) == handle # NoDb

SameAsOpen(time) == handle # NoDb /\ openedAt = time

\* A database written since is closed.
Stat ==
    /\ pc = "stat"
    /\ db # NoDb
    /\ modified' = TimeOf(db)
    /\ IF SameAsOpen(TimeOf(db))
       THEN /\ IF Refreshing THEN pc' = "beside" /\ UNCHANGED <<job, history>>
               ELSE job' = Idle /\ pc' = "idle" /\ answer' = handle /\ UNCHANGED since
            /\ SeesTheGraph
            /\ UNCHANGED opened
       ELSE /\ handle' = NoDb
            /\ openedAt' = 0
            /\ pc' = "open"
            /\ UNCHANGED <<current, seen, job, history>>
    /\ UNCHANGED <<disk, held, enabled, stamp, timer, changed, client>>

\* Mutation of CurrentAfter: what was read of a graph is kept for the next.
KeptForTheNext == current

\* A new generation: nothing read before is of it.
CurrentAfter == FALSE

\* The database is held under the time read before it was opened: one that was
\* replaced in between is opened again for the next request.
OpenDb ==
    /\ pc = "open"
    /\ IF Usable(db)
       THEN /\ handle' = db
            /\ openedAt' = modified
            /\ current' = CurrentAfter
            /\ OpenedFor(db, TRUE)
       ELSE /\ OpenedFor(Failure, FALSE)
            /\ UNCHANGED opened
    /\ SeesTheGraph
    /\ UNCHANGED <<disk, held, enabled, stamp, timer, changed, client>>

-----------------------------------------------------------------------------
(***************************************************************************)
(* ToolListing.refresh.                                                    *)
(***************************************************************************)

\* The facts are read, those of the graph once a generation, and the tools
\* enabled by them.
Decide ==
    /\ pc = "beside"
    /\ LET graph == IF handle = NoDb THEN NoFacts ELSE IF current THEN held ELSE Holds(handle.build)
           facts == Facts(graph, beside)
       IN /\ held' = IF handle = NoDb THEN held ELSE graph
          /\ enabled' = facts
          /\ changed' = (enabled # facts)
    /\ seen' = [seen EXCEPT ![2] = beside]
    /\ current' = (current \/ handle # NoDb)
    /\ pc' = "stamp"
    /\ UNCHANGED <<disk, handle, openedAt, stamp, timer, job, modified, client, history>>

\* Mutation of Tells: nobody is told of what the poll found.
TellsOnCalls == changed /\ job.request # "list" /\ job.request # "poll"

\* The client is told, unless a list is what it asked for.
Tells == changed /\ job.request # "list"

Finishes ==
    \/ /\ job.request = "list"
       /\ listed' = enabled
       /\ told' = FALSE
       /\ timer' = TRUE
       /\ Replies(NoAnswer)
    \/ /\ job.request = "poll"
       /\ told' = (told \/ Tells)
       /\ Replies(NoAnswer)
       /\ UNCHANGED <<listed, timer>>
    \/ /\ job.purpose = "nested"
       /\ told' = (told \/ Tells)
       /\ Replies(IF answer = Failure \/ handle = NoDb THEN Failure ELSE handle)
       /\ UNCHANGED <<listed, timer>>
    \/ /\ job = [request |-> "call", purpose |-> "refresh"]
       /\ told' = (told \/ Tells)
       /\ job' = [job EXCEPT !.purpose = "handler"]
       /\ pc' = "exists"
       /\ timer' = TRUE
       /\ UNCHANGED <<listed, modified, history>>

StampIt ==
    /\ pc = "stamp"
    /\ stamp' = StampNow
    /\ changed' = FALSE
    /\ Finishes
    /\ UNCHANGED <<disk, opened, held, enabled, seen, connected>>

-----------------------------------------------------------------------------
World ==
    \/ RemoveDb
    \/ \E ours \in BOOLEAN : RenameDb(ours)
    \/ SaveObserved

Serve ==
    \/ Exists
    \/ Vanished
    \/ Stat
    \/ OpenDb
    \/ Decide
    \/ StampIt

Next ==
    \/ World
    \/ Connect
    \/ Disconnect
    \/ \E request \in Request \ {"poll"} : Ask(request)
    \/ Poll
    \/ Serve

\* A request is served to its end, and the poll fires.
Fairness == WF_vars(Serve) /\ SF_vars(Poll)

Spec == Init /\ [][Next]_vars /\ Fairness

-----------------------------------------------------------------------------
(***************************************************************************)
(* Properties.                                                             *)
(***************************************************************************)

Dbs == [build : 1 .. MaxBuilds, ours : BOOLEAN]
Graphs == {0, 1, NoFacts}
AllFacts == [graph : Graphs, observed : BOOLEAN]

TypeOK ==
    /\ db \in Dbs \union {NoDb}
    /\ builds \in 0 .. MaxBuilds
    /\ replacing \in BOOLEAN
    /\ beside \in 0 .. MaxSaves
    /\ handle \in Dbs \union {NoDb}
    /\ openedAt \in 0 .. MaxBuilds
    /\ held \in Graphs
    /\ current \in BOOLEAN
    /\ enabled \in AllFacts
    /\ {stamp, seen} \subseteq (1 .. MaxBuilds \union {NoDb}) \X (0 .. MaxSaves)
    /\ timer \in BOOLEAN
    /\ job \in [request : Request, purpose : Purpose] \union {Idle}
    /\ pc \in {"idle", "exists", "stat", "open", "beside", "stamp", "down"}
    /\ modified \in 0 .. MaxBuilds
    /\ changed \in BOOLEAN
    /\ connected \in BOOLEAN
    /\ listed \in AllFacts \union {NoFacts}
    /\ told \in BOOLEAN
    /\ since \subseteq Dbs \union {NoDb}
    /\ answer \in Dbs \union {Failure, NoAnswer}

\* A request is answered from a database that was there at some time since it
\* was asked, and is refused only if at some time there was none to read.
AnswersAreCurrent ==
    pc = "idle" /\ answer # NoAnswer =>
        IF answer = Failure THEN \E d \in since : ~Usable(d) ELSE answer \in since

\* What is read once per database is of the database that is open.
FactsAreOfTheOpenDatabase ==
    current /\ handle # NoDb => held = Holds(handle.build)

\* A client that has a list has the one its calls are held to, or was told
\* that there is another.
ClientKnowsOrIsTold ==
    pc = "idle" /\ listed # NoFacts => listed = enabled \/ told

\* A server that stays connected ends with the list of what is on the disk.
\* The code does not keep this: a file that changes after a refresh has read it
\* and before that refresh has stamped it is not looked at again.
TheListSettles ==
    <>[](timer /\ connected) => <>[](pc = "idle" => enabled = FactsNow)

\* But whatever is written, removed or saved at whichever step, and however often
\* a generation is reopened or a request refused meanwhile, it ends with that list
\* wherever the last stamp is of the files the list was decided from.
TheListSettlesIfStamped ==
    <>[](timer /\ connected) => <>[](pc = "idle" /\ stamp = seen => enabled = FactsNow)

\* A missing or stale file is an ordinary answer: the server stays up.
ServerStaysUp == pc # "down"
=============================================================================
