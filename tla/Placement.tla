------------------------------ MODULE Placement ------------------------------
(* Where tasks are: sections of projects, placements of top-level tasks in    *)
(* them (task_projects, one row per project), and subtasks under parents.     *)
(* domain/sections/service.py and the second half of domain/tasks/service.py, *)
(* with the undo of each change.                                              *)
(*                                                                            *)
(* A request is one transaction at READ COMMITTED with no explicit lock: it   *)
(* looks at rows and decides (Begin), and its writes show when it commits,    *)
(* whatever has been committed in between.  What it has decided is its write  *)
(* set.  Order keys are only compared for equality (an undo checks that the   *)
(* task is where the change left it), so a fresh key is a fresh number;       *)
(* _rebalance, which re-spaces keys that have grown long, is left out.        *)
(* Projects are never deleted here, and every user may edit all of them.      *)
EXTENDS Integers, FiniteSets, Sequences

CONSTANTS
    NumTasks,     \* bound: tasks ever created
    Sections,
    Projects,
    ProjectOf,    \* the project each section is in
    Existing,     \* the sections there are at first; the others can be created
    Sessions,     \* requests that may be open at the same time
    MaxDepth,     \* MAX_TASK_DEPTH
    MaxRequests,  \* bound: requests ever begun
    None

TaskIds == 1 .. NumTasks  \* in the order of their creation

ASSUME PlacementAssumption ==
    /\ NumTasks \in Nat \ {0} /\ MaxDepth \in Nat /\ MaxRequests \in Nat
    /\ ProjectOf \in [Sections -> Projects] /\ Existing \subseteq Sections
    /\ None \notin Sections /\ None \notin TaskIds /\ None \notin [sec : Sections, pos : Nat]

VARIABLES
    life,      \* of each task: "unborn", "live" or "dead" (deleted_at)
    slife,     \* of each section
    place,     \* [Tasks -> [Projects -> [sec, pos], or None]]
    parent,    \* [Tasks -> [up, pos]]: parent_id and parent_position
    trail,     \* activity rows with their undo payloads
    sess,      \* the open requests: None or what they have decided to write
    count,     \* requests begun; also the next fresh order key
    unmade,    \* history: sections whose creation has been undone
    collided,  \* history: sections deleted under a request that put a task there
    left,      \* history: deleted sections that a restored task was left in
    clashed,   \* history: tasks placed or removed on a premise no longer true
    strays     \* history: subtasks placed by the undo of a removal

histories == <<unmade, collided, left, clashed, strays>>
placeVars == <<life, slife, place, parent, trail, sess, count, histories>>

Lives == {"unborn", "live", "dead"}
Keys  == 0 .. MaxRequests
Spots == [sec: Sections, pos: Keys]
Ups   == [up: TaskIds \cup {None}, pos: Keys]

PlaceTypeOK ==
    /\ life \in [TaskIds -> Lives]
    /\ slife \in [Sections -> Lives]
    /\ place \in [TaskIds -> [Projects -> Spots \cup {None}]]
    /\ parent \in [TaskIds -> Ups]
    /\ \A t \in TaskIds, p \in Projects : place[t][p] # None => ProjectOf[place[t][p].sec] = p
    /\ \A t \in TaskIds : parent[t].up # None => parent[t].up < t
    /\ count \in Keys
    /\ unmade \subseteq Sections /\ collided \subseteq Sections /\ left \subseteq Sections
    /\ clashed \subseteq TaskIds /\ strays \subseteq TaskIds

-----------------------------------------------------------------------------
(* What a request can see.                                                    *)

\* task_ancestors: the chain is short, and a parent is older than its child.
Above[t \in TaskIds] ==
    IF parent[t].up = None THEN {} ELSE {parent[t].up} \cup Above[parent[t].up]
Ancestors(t) == Above[t]
Root(t) == IF parent[t].up = None THEN t ELSE CHOOSE u \in Ancestors(t) : parent[u].up = None

\* get_visible_task
HasVisibleChain(t) == \A u \in Ancestors(t) : life[u] = "live"
Visible(t) == life[t] = "live" /\ HasVisibleChain(t)

PlacedIn(t) == {p \in Projects : place[t][p] # None}
LiveIn(p)   == {s \in Sections : ProjectOf[s] = p /\ slife[s] = "live"}
Home(t)     == <<parent[t].up, PlacedIn(t)>>
\* The live tasks with a placement in s.
Members(s)  == {t \in TaskIds : /\ life[t] = "live" /\ place[t][ProjectOf[s]] # None
                                /\ place[t][ProjectOf[s]].sec = s}

PlaceInit ==
    /\ life = [t \in TaskIds |-> IF t = 1 THEN "live" ELSE "unborn"]
    /\ slife = [s \in Sections |-> IF s \in Existing THEN "live" ELSE "unborn"]
    /\ \E s \in Existing :
        place = [t \in TaskIds |-> [p \in Projects |->
                    IF t = 1 /\ p = ProjectOf[s] THEN [sec |-> s, pos |-> 0] ELSE None]]
    /\ parent = [t \in TaskIds |-> [up |-> None, pos |-> 0]]
    /\ trail = <<>> /\ sess = [r \in Sessions |-> None] /\ count = 0
    /\ unmade = {} /\ collided = {} /\ left = {} /\ clashed = {} /\ strays = {}

-----------------------------------------------------------------------------
(* Begin.  A write set says which rows of task_projects are inserted, updated *)
(* or deleted, which parents are set, and what is created, deleted, restored. *)

\* An update writes a column only if it differs from what was loaded.
Row(t, s, k) ==
    LET p == ProjectOf[s]
    IN  [t |-> t, p |-> p, spot |-> [sec |-> s, pos |-> k],
         stays |-> place[t][p] # None /\ place[t][p].sec = s]
Under(t, u, k) == [t |-> t, at |-> [up |-> u, pos |-> k], stays |-> parent[t].up = u]
Nothing == [ins |-> {}, upd |-> {}, del |-> {}, par |-> {},
            tasks |-> [t \in {} |-> "live"], secs |-> [s \in {} |-> "live"]]
All(S, v)  == [x \in S |-> v]
Revived(S) == All({t \in S : life[t] = "dead"}, "live")

\* undo is the payload of the request's activity row, None when it has none;
\* e is the entry of the trail that the request undoes, or 0.  What the request
\* saw is remembered for the histories alone.
Begin(r, op, w, undo, e) ==
    /\ sess[r] = None /\ count < MaxRequests
    /\ sess' = [sess EXCEPT ![r] =
                [op |-> op, w |-> w, undo |-> undo, undoes |-> e,
                 saw |-> [life |-> life, slife |-> slife, place |-> place, parent |-> parent]]]
    /\ count' = count + 1
    /\ UNCHANGED <<life, slife, place, parent, trail, histories>>

Fresh == count + 1

CreateTask(r, t, s) ==
    /\ life[t] = "unborn" /\ slife[s] = "live"
    /\ \A u \in 1 .. t - 1 : life[u] # "unborn"
    /\ Begin(r, "create", [Nothing EXCEPT !.ins = {Row(t, s, Fresh)}, !.tasks = All({t}, "live")],
             [op |-> "unmake_task", t |-> t], 0)

CreateSubtask(r, t, u) ==
    /\ life[t] = "unborn" /\ \A v \in 1 .. t - 1 : life[v] # "unborn"
    /\ Visible(u) /\ Cardinality(Ancestors(u)) + 1 < MaxDepth
    /\ Begin(r, "subtask", [Nothing EXCEPT !.par = {Under(t, u, Fresh)}, !.tasks = All({t}, "live")],
             [op |-> "unmake_task", t |-> t], 0)

\* move_tasks, for one task
Move(r, t, s) ==
    LET p == ProjectOf[s] IN
    /\ slife[s] = "live" /\ Visible(t) /\ parent[t].up = None /\ place[t][p] # None
    /\ Begin(r, "move", [Nothing EXCEPT !.upd = {Row(t, s, Fresh)}],
             [op |-> "move_back", t |-> t, old |-> place[t][p],
              expect |-> [sec |-> s, pos |-> Fresh]], 0)

MoveSubtask(r, t) ==
    /\ Visible(t) /\ parent[t].up # None
    /\ Begin(r, "reorder", [Nothing EXCEPT !.par = {Under(t, parent[t].up, Fresh)}],
             [op |-> "parent_back", t |-> t, old |-> parent[t], placed |-> FALSE,
              expect |-> [up |-> parent[t].up, pos |-> Fresh]], 0)

\* outdent_subtask.  A parent in several projects makes scalar_one_or_none raise.
Outdent(r, t) ==
    LET u == parent[t].up  IN
    /\ Visible(t) /\ u # None
    /\ LET top == parent[u].up = None IN
        /\ top => Cardinality(PlacedIn(u)) = 1
        /\ \E W \in IF top THEN {{Row(t, place[u][p].sec, Fresh)} : p \in PlacedIn(u)} ELSE {{}} :
            Begin(r, "outdent",
                  [Nothing EXCEPT !.ins = W,
                                  !.par = {Under(t, parent[u].up, IF top THEN 0 ELSE Fresh)}],
                  [op |-> "parent_back", t |-> t, old |-> parent[t], placed |-> top,
                   expect |-> [up |-> parent[u].up, pos |-> Fresh]], 0)

AddToProject(r, t, s) ==
    /\ Visible(t) /\ parent[t].up = None /\ place[t][ProjectOf[s]] = None /\ slife[s] = "live"
    /\ Begin(r, "add", [Nothing EXCEPT !.ins = {Row(t, s, Fresh)}],
             [op |-> "remove", t |-> t, p |-> ProjectOf[s]], 0)

\* remove_task_from_project; also the undo of an add
Remove(r, t, p, e) ==
    /\ Visible(t) /\ place[t][p] # None /\ Cardinality(PlacedIn(t)) > 1
    /\ Begin(r, "remove", [Nothing EXCEPT !.del = {<<t, p>>}],
             IF e = 0 THEN [op |-> "add_back", t |-> t, old |-> place[t][p]] ELSE None, e)

DeleteTask(r, t) ==
    /\ Visible(t)
    /\ Begin(r, "delete", [Nothing EXCEPT !.tasks = All({t}, "dead")],
             [op |-> "restore_task", t |-> t], 0)

CreateSection(r, s) ==
    /\ slife[s] = "unborn"
    /\ Begin(r, "new_section", [Nothing EXCEPT !.secs = All({s}, "live")],
             [op |-> "unmake_section", s |-> s], 0)

\* delete_section, its tasks moved to the section "to" or deleted with it
DeleteSection(r, s, to) ==
    LET p == ProjectOf[s]
        M == Members(s)
    IN  /\ slife[s] = "live"
        /\ LiveIn(p) \ {s} # {}
        /\ to \in (LiveIn(p) \ {s}) \cup {None}
        /\ Begin(r, "drop_section",
                 [Nothing EXCEPT !.secs = All({s}, "dead"),
                                 !.upd = IF to = None THEN {} ELSE {Row(t, to, Fresh) : t \in M},
                                 !.tasks = IF to = None THEN All(M, "dead") ELSE @],
                 [op |-> "restore_section", s |-> s,
                  moved |-> IF to = None THEN {} ELSE {[t |-> t, pos |-> place[t][p].pos] : t \in M},
                  killed |-> IF to = None THEN M ELSE {}], 0)

ServiceCall(r) ==
    \/ \E t \in TaskIds, s \in Sections : CreateTask(r, t, s) \/ Move(r, t, s) \/ AddToProject(r, t, s)
    \/ \E t, u \in TaskIds : CreateSubtask(r, t, u)
    \/ \E t \in TaskIds, p \in Projects : Remove(r, t, p, 0)
    \/ \E t \in TaskIds : MoveSubtask(r, t) \/ Outdent(r, t) \/ DeleteTask(r, t)
    \/ \E s \in Sections : CreateSection(r, s)
    \/ \E s \in Sections, to \in Sections \cup {None} : DeleteSection(r, s, to)

-----------------------------------------------------------------------------
(* The undo handlers.                                                         *)

\* tasks.move_back: only if it was not moved again, and its section is there.
MoveBack(r, c, e) ==
    LET p == ProjectOf[c.old.sec] IN
    /\ Visible(c.t) /\ place[c.t][p] = c.expect /\ slife[c.old.sec] = "live"
    /\ Begin(r, "move_back", [Nothing EXCEPT !.upd = {Row(c.t, c.old.sec, c.old.pos)}], None, e)

\* Faulty variant: the placement an outdent gave the task is left behind.
ParentBackPlaced(r, c, e) ==
    /\ Visible(c.t) /\ parent[c.t].up = c.expect.up
    /\ life[c.old.up] = "live"
    /\ Begin(r, "parent_back", [Nothing EXCEPT !.par = {Under(c.t, c.old.up, c.old.pos)}], None, e)

\* tasks.parent_back, of a reorder or an outdent
ParentBack(r, c, e) ==
    /\ Visible(c.t) /\ parent[c.t].up = c.expect.up
    /\ IF c.expect.up # None THEN parent[c.t].pos = c.expect.pos
       ELSE Cardinality(PlacedIn(c.t)) = 1 /\ \A p \in PlacedIn(c.t) : place[c.t][p].pos = c.expect.pos
    /\ life[c.old.up] = "live"
    /\ Begin(r, "parent_back",
             [Nothing EXCEPT !.par = {Under(c.t, c.old.up, c.old.pos)},
                             !.del = IF c.placed THEN {c.t} \X Projects ELSE {}], None, e)

\* tasks.add_to_project
AddBack(r, c, e) ==
    /\ Visible(c.t) /\ place[c.t][ProjectOf[c.old.sec]] = None /\ slife[c.old.sec] = "live"
    /\ Begin(r, "add", [Nothing EXCEPT !.ins = {Row(c.t, c.old.sec, c.old.pos)}], None, e)

\* Faulty variant: a task comes back into the section it was deleted in.
RestoreInPlace(r, c, e) ==
    /\ life[c.t] # "unborn" /\ HasVisibleChain(c.t)
    /\ Begin(r, "restore", [Nothing EXCEPT !.tasks = Revived({c.t})], None, e)

\* tasks.restore.  If the section of the placement it is seen through (for a
\* subtask, its root's) is gone, that placement goes to a section that is not.
RestoreTask(r, c, e) ==
    LET u == Root(c.t)
    IN  /\ life[c.t] # "unborn" /\ HasVisibleChain(c.t)
        /\ \/ /\ PlacedIn(u) = {}
              /\ Begin(r, "restore", [Nothing EXCEPT !.tasks = Revived({c.t})], None, e)
           \/ \E p \in PlacedIn(u) :
                \/ /\ slife[place[u][p].sec] = "live"
                   /\ Begin(r, "restore", [Nothing EXCEPT !.tasks = Revived({c.t})], None, e)
                \/ /\ slife[place[u][p].sec] # "live"
                   /\ \E s \in LiveIn(p) :
                        Begin(r, "restore", [Nothing EXCEPT !.tasks = Revived({c.t}),
                                                            !.upd = {Row(u, s, Fresh)}], None, e)

\* sections.restore: the tasks come back wherever they are now.
RestoreSection(r, c, e) ==
    Begin(r, "raise_section",
          [Nothing EXCEPT !.secs = All({c.s} \ LiveIn(ProjectOf[c.s]), "live"),
                          !.upd = {Row(m.t, c.s, m.pos) :
                                    m \in {x \in c.moved : place[x.t][ProjectOf[c.s]] # None}},
                          !.tasks = Revived(c.killed)], None, e)

\* sections.delete, the undo of create_section: its tasks stay in it.
UnmakeSection(r, c, e) ==
    /\ slife[c.s] = "live" /\ LiveIn(ProjectOf[c.s]) \ {c.s} # {}
    /\ Begin(r, "unmake_section", [Nothing EXCEPT !.secs = All({c.s}, "dead")], None, e)

\* tasks.delete, the undo of a creation
UnmakeTask(r, c, e) ==
    Visible(c.t) /\ Begin(r, "delete", [Nothing EXCEPT !.tasks = All({c.t}, "dead")], None, e)

TakeBack(r) ==
    \E e \in 1 .. Len(trail) : LET c == trail[e].undo IN
        /\ ~trail[e].undone
        /\ \/ c.op = "move_back" /\ MoveBack(r, c, e)
           \/ c.op = "parent_back" /\ ParentBack(r, c, e)
           \/ c.op = "remove" /\ Remove(r, c.t, c.p, e)
           \/ c.op = "add_back" /\ AddBack(r, c, e)
           \/ c.op = "restore_task" /\ RestoreTask(r, c, e)
           \/ c.op = "restore_section" /\ RestoreSection(r, c, e)
           \/ c.op = "unmake_section" /\ UnmakeSection(r, c, e)
           \/ c.op = "unmake_task" /\ UnmakeTask(r, c, e)

-----------------------------------------------------------------------------
(* Commit.                                                                    *)

\* The value that the last write of a row leaves in it.
Placed(w, t, p) ==
    LET W == {x \in w.ins \cup w.upd : x.t = t /\ x.p = p}
    IN  IF <<t, p>> \in w.del THEN None
        ELSE IF W = {} THEN place[t][p]
        ELSE LET x == CHOOSE x \in W : TRUE
             IN  IF x.stays /\ place[t][p] # None THEN [place[t][p] EXCEPT !.pos = x.spot.pos]
                 ELSE x.spot
Parented(w, t) ==
    LET W == {x \in w.par : x.t = t}
    IN  IF W = {} THEN parent[t]
        ELSE LET x == CHOOSE x \in W : TRUE
             IN  IF x.stays THEN [parent[t] EXCEPT !.pos = x.at.pos] ELSE x.at

InSection(t, s) == place[t][ProjectOf[s]] # None /\ place[t][ProjectOf[s]].sec = s

\* The same, as a request saw it.
SawPlaced(q, t) == {p \in Projects : q.saw.place[t][p] # None}
SawHome(q, t)   == <<q.saw.parent[t].up, SawPlaced(q, t)>>
SawMember(q, t, s) ==
    /\ q.saw.life[t] = "live" /\ q.saw.place[t][ProjectOf[s]] # None
    /\ q.saw.place[t][ProjectOf[s]].sec = s

\* The tasks whose home a write set changes, and all those it writes.
Rehomed(w) == {x.t : x \in w.ins \cup w.par} \cup {x[1] : x \in w.del}
Touched(w) == {x.t : x \in w.ins \cup w.upd} \cup DOMAIN w.tasks

\* Section s is not there and task t is in it, by what request q does last.
\* Deleted since q looked, or filled since q, which deletes it, looked.
Collides(q, t, s) ==
    /\ slife'[s] # "live" /\ InSection(t, s)'
    /\ \/ q.saw.slife[s] = "live" /\ t \in Touched(q.w)
       \/ q.op = "drop_section" /\ s \in DOMAIN q.w.secs /\ life'[t] = "live" /\ ~SawMember(q, t, s)
\* Task t came back there.  A task's restore repairs only the placement it looks
\* at; a section's restore repairs none, also not of a task of one project: it
\* brings back whom its deletion took along, wherever they have got to since.
Leaves(q, t, s) ==
    /\ slife'[s] # "live" /\ InSection(t, s)' /\ life[t] = "dead" /\ life'[t] = "live"
    /\ \/ q.op = "raise_section"
       \/ q.saw.parent[t].up # None \/ q.saw.place[t] # place[t] \/ PlacedIn(t) # {ProjectOf[s]}

\* An insert of a row that exists and an update of one that is gone fail; so
\* does a second creation (it is another task or section in the code).
CommitSession(r) ==
    LET q == sess[r]
        w == q.w
    IN
    /\ q # None
    /\ \A x \in w.ins : place[x.t][x.p] = None
    /\ \A x \in w.upd : place[x.t][x.p] # None
    /\ q.op \in {"create", "subtask"} => \A t \in DOMAIN w.tasks : life[t] = "unborn"
    /\ q.op = "new_section" => \A s \in DOMAIN w.secs : slife[s] = "unborn"
    /\ place' = [t \in TaskIds |-> [p \in Projects |-> Placed(w, t, p)]]
    /\ parent' = [t \in TaskIds |-> Parented(w, t)]
    /\ life' = [t \in TaskIds |-> IF t \in DOMAIN w.tasks THEN w.tasks[t] ELSE life[t]]
    /\ slife' = [s \in Sections |-> IF s \in DOMAIN w.secs THEN w.secs[s] ELSE slife[s]]
    /\ trail' = IF q.undoes # 0 THEN [trail EXCEPT ![q.undoes].undone = TRUE]
                ELSE Append(trail, [undo |-> q.undo, undone |-> FALSE])
    /\ unmade' = IF q.op = "unmake_section" THEN unmade \cup DOMAIN w.secs ELSE unmade
    /\ collided' = collided \cup {s \in Sections : \E t \in TaskIds : Collides(q, t, s)}
    /\ left' = left \cup {s \in Sections : \E t \in TaskIds : Leaves(q, t, s)}
    /\ clashed' = clashed \cup {t \in TaskIds : t \in Rehomed(w) /\ Home(t) # SawHome(q, t)}
    /\ strays' = strays \cup {t \in TaskIds : /\ q.undoes # 0 /\ t \in {x.t : x \in w.ins}
                                             /\ parent[t].up # None}
    /\ sess' = [sess EXCEPT ![r] = None]
    /\ UNCHANGED count

RollBack(r) ==
    /\ sess[r] # None /\ sess' = [sess EXCEPT ![r] = None]
    /\ UNCHANGED <<life, slife, place, parent, trail, count, histories>>

PlaceNext == \E r \in Sessions : ServiceCall(r) \/ TakeBack(r) \/ CommitSession(r) \/ RollBack(r)

PlaceSpec == PlaceInit /\ [][PlaceNext]_placeVars

-----------------------------------------------------------------------------
(* Properties.                                                                *)

\* Every placement of a live task is in a section that people see, through any
\* deletions of tasks and sections, moves and undos.
\* Three exceptions, all in the code: undoing the creation of a section leaves its
\* tasks in it; a section deleted while another request puts a task there; and
\* one in which a task came back: one of several projects (tasks.restore looks at
\* one placement), or any that the restore of another section brings back.
InSight ==
    \A t \in TaskIds : life[t] = "live" => \A p \in PlacedIn(t) :
        LET s == place[t][p].sec IN slife[s] = "live" \/ s \in unmade \cup collided \cup left

\* A top-level task is in at least one project and a subtask in none of its own,
\* through outdents, additions, removals and their undos, for every task whose
\* home two overlapping requests have not both changed.  The exception: undoing
\* the removal of a task that is a subtask by now places it.
Homes ==
    \A t \in TaskIds \ clashed : life[t] # "unborn" =>
        /\ parent[t].up = None => PlacedIn(t) # {}
        /\ PlacedIn(t) # {} => parent[t].up = None \/ t \in strays
=============================================================================
