------------------------------ MODULE AiActions ------------------------------
(* What the assistant proposes and a person decides: ai/actions.py (preview,  *)
(* confirm, apply, undo) on the tool registry (ai/tools/registry.py), the     *)
(* undo of a batch (core/undo.py) and the agent that applies its own action   *)
(* (agents/runtime.py).                                                       *)
(*                                                                            *)
(* An action is a list of edits, each of one task (update_task).  A request   *)
(* is one transaction at READ COMMITTED.  Those that decide lock the row of   *)
(* the action first; nothing locks the tasks between a look at their versions *)
(* and the write, or between a preview and the versions noted for it.         *)
(*                                                                            *)
(* What an edit writes is a mark of its own in the task, so it is there       *)
(* exactly as long as it has been applied and not undone.                     *)
EXTENDS Integers, FiniteSets, Sequences, SequencesExt

CONSTANTS
    Tasks,
    Actions,
    Does,       \* [Actions -> Seq(Tasks)]: the task each operation edits
    Requests,   \* requests that may be open at the same time
    MaxEdits    \* bound: changes to the tasks by others

\* propose refuses an empty list of calls.
ASSUME ActionsAssumption ==
    /\ Does \in [Actions -> Seq(Tasks)] /\ \A a \in Actions : Does[a] # <<>>
    /\ MaxEdits \in Nat

VARIABLES
    version,  \* tasks.version
    deleted,  \* tasks.deleted_at
    marks,    \* per task: the operations <<a, k>> whose effect it shows
    act,      \* ai_actions
    rows,     \* the activity rows of an applied action, one per operation
    req,      \* the open requests
    edits,
    how,      \* history: what each action was applied on
    since,    \* history: what happened to its tasks since their versions were noted
    touched   \* history: actions whose tasks others changed after it was applied

tasks == <<version, deleted, marks>>
hist  == <<how, since, touched>>
vars  == <<tasks, act, rows, req, edits, hist>>

Idle   == [stage |-> "idle"]
Unmade == [state |-> "none", watch |-> <<>>, risk |-> "low", preview |-> 0]
States == {"none", "proposed", "applied", "rejected", "expired", "failed", "undone"}
Clean  == [changed |-> FALSE, doubled |-> FALSE]
Never  == [times |-> 0, changed |-> FALSE, doubled |-> FALSE, raced |-> FALSE, knew |-> TRUE, sure |-> TRUE]

Ops(a)     == DOMAIN Does[a]
Of(a)      == Range(Does[a])
Versions(a) == [t \in Of(a) |-> version[t]]

TypeOK ==
    /\ version \in [Tasks -> Nat] /\ deleted \in [Tasks -> BOOLEAN]
    /\ \A t \in Tasks : \A m \in marks[t] : m[2] \in Ops(m[1]) /\ Does[m[1]][m[2]] = t
    /\ \A a \in Actions :
        /\ act[a].state \in States /\ act[a].risk \in {"low", "high"} /\ act[a].preview \in Nat
        /\ rows[a] # <<>> <=> act[a].state \in {"applied", "undone"}
    /\ \A r \in Requests : req[r].stage \in {"idle", "asked", "preview", "read", "ready"}
    /\ edits \in 0 .. MaxEdits /\ touched \subseteq Actions

Init ==
    /\ version = [t \in Tasks |-> 1] /\ deleted = [t \in Tasks |-> FALSE]
    /\ marks = [t \in Tasks |-> {}]
    /\ act = [a \in Actions |-> Unmade] /\ rows = [a \in Actions |-> <<>>]
    /\ req = [r \in Requests |-> Idle]
    /\ edits = 0 /\ how = [a \in Actions |-> Never] /\ since = [a \in Actions |-> Clean] /\ touched = {}

Busy(r)   == req[r].stage # "idle"
Holds(r)  == req[r].stage \in {"preview", "read", "ready"}
\* Nobody holds the row of the action, or is still inserting it.
Free(a)   == \A r \in Requests : Holds(r) => req[r].a # a
Close(r)  == req' = [req EXCEPT ![r] = Idle]
Goes(r, stage) == req' = [req EXCEPT ![r].stage = stage]
\* It goes on to write, and may have read the versions by the time it does.
Write(r)  == req' = [req EXCEPT ![r].stage = "ready", ![r].saw = Versions(req[r].a)]

\* The tasks in T have changed: requests about to write on the strength of
\* their versions, and actions proposed for or applied to them, are affected.  A
\* change is doubled if it gave a number the task had had before.
Overtaken(rs, T) == [r \in Requests |->
    IF rs[r].stage = "ready" /\ Of(rs[r].a) \cap T # {} THEN [rs[r] EXCEPT !.raced = TRUE] ELSE rs[r]]
Touch(T, but) ==
    /\ touched' = touched \cup {a \in Actions \ but : act[a].state = "applied" /\ Of(a) \cap T # {}}
    /\ since' = [a \in Actions |->
            IF act[a].state = "proposed" /\ Of(a) \cap T # {}
            THEN [changed |-> TRUE,
                  doubled |-> since[a].doubled \/ \E t \in Of(a) \cap T : version'[t] <= version[t]]
            ELSE since[a]]

-----------------------------------------------------------------------------
(* Others.                                                                    *)

\* Somebody edits or deletes a task.  The version is read and written without a
\* lock: a change that had read it before other writes gives a number again.
Change(t) ==
    /\ ~deleted[t] /\ edits < MaxEdits /\ edits' = edits + 1
    /\ version' \in {[version EXCEPT ![t] = v] : v \in 2 .. version[t] + 1}
    /\ deleted' \in {deleted, [deleted EXCEPT ![t] = TRUE]}
    /\ req' = Overtaken(req, {t})
    /\ Touch({t}, {})
    /\ UNCHANGED <<marks, act, rows, how>>

-----------------------------------------------------------------------------
(* Proposing and previewing.                                                  *)

\* propose; auto when an agent applies its own low-risk action at once.
Propose(r, a, auto) ==
    /\ ~Busy(r) /\ act[a].state = "none" /\ Free(a)
    /\ req' = [req EXCEPT ![r] = [stage |-> "preview", a |-> a, new |-> TRUE, auto |-> auto,
                                  sure |-> FALSE, preview |-> 1, saw |-> <<>>, raced |-> FALSE]]
    /\ UNCHANGED <<tasks, act, rows, edits, hist>>

\* _preview: every operation is tried and rolled back.  One that fails leaves
\* nothing of a proposal, and fails an action that was there.
Preview(r) ==
    LET a == req[r].a IN
    /\ req[r].stage = "preview"
    /\ \/ /\ \A t \in Of(a) : ~deleted[t]
          /\ Goes(r, "read") /\ UNCHANGED act
       \/ /\ act' = IF req[r].new THEN act ELSE [act EXCEPT ![a].state = "failed"]
          /\ Close(r)
    /\ UNCHANGED <<tasks, rows, edits, hist>>

\* _watch, the risk, and the commit; the agent goes on in its transaction.
Store(r) ==
    LET a == req[r].a
    IN  /\ req[r].stage = "read"
        /\ \E risk \in {"low", "high"} :
            /\ act' = [act EXCEPT ![a] =
                [state |-> "proposed", watch |-> Versions(a), risk |-> risk,
                 preview |-> act[a].preview + 1]]
            /\ IF req[r].auto /\ risk = "low" THEN Write(r) ELSE Close(r)
        /\ since' = [since EXCEPT ![a] = Clean]
        /\ UNCHANGED <<tasks, rows, edits, how, touched>>

-----------------------------------------------------------------------------
(* Deciding.                                                                  *)

\* A person who looks at the preview presses Apply, and confirms it if it says
\* high risk; the request is on its way, or waits for the row.
Press(r, a) ==
    /\ ~Busy(r) /\ act[a].state = "proposed"
    /\ \A s \in Requests : Holds(s) /\ req[s].a = a => ~req[s].new
    /\ req' = [req EXCEPT ![r] = [stage |-> "asked", a |-> a, new |-> FALSE, auto |-> FALSE,
                                  sure |-> act[a].risk = "high", preview |-> act[a].preview,
                                  saw |-> <<>>, raced |-> FALSE]]
    /\ UNCHANGED <<tasks, act, rows, edits, hist>>

\* Faulty variant: one task that is as it was will do.
StaleAll(a) == \A t \in Of(a) : deleted[t] \/ version[t] # act[a].watch[t]

\* _stale
Stale(a) == \E t \in Of(a) : deleted[t] \/ version[t] # act[a].watch[t]

\* Faulty variant: the row is read without for update.
OpenUnlocked(r) ==
    LET a == req[r].a IN
    /\ req[r].stage = "asked"
    /\ act[a].state = "proposed" /\ (act[a].risk = "high" => req[r].sure)
    /\ IF Stale(a) THEN Goes(r, "preview") ELSE Write(r)
    /\ UNCHANGED <<tasks, act, rows, edits, hist>>

\* apply_action, as far as its first writes
Open(r) ==
    LET a == req[r].a IN
    /\ req[r].stage = "asked" /\ Free(a)
    /\ act[a].state = "proposed" /\ (act[a].risk = "high" => req[r].sure)
    /\ IF Stale(a) THEN Goes(r, "preview") ELSE Write(r)
    /\ UNCHANGED <<tasks, act, rows, edits, hist>>

\* It was decided already, or is not confirmed; one that is overdue is refused
\* as well, which leaves what Abort leaves.
Refuse(r) ==
    LET a == req[r].a IN
    /\ req[r].stage = "asked" /\ Free(a)
    /\ act[a].state # "proposed" \/ (act[a].risk = "high" /\ ~req[r].sure)
    /\ Close(r)
    /\ UNCHANGED <<tasks, act, rows, edits, hist>>

\* The edits that operations 1 .. k of a make to t.
EditsOf(a, k, t) == Cardinality({j \in 1 .. k : Does[a][j] = t})

\* _execute, and the commit: all operations in one savepoint, under one batch,
\* or none when one fails.
Execute(r) ==
    LET a == req[r].a IN
    /\ req[r].stage = "ready"
    /\ \/ /\ req[r].raced \/ \A t \in Of(a) : ~deleted[t]
          /\ \E base \in {Versions(a), req[r].saw} :
                /\ version' = [t \in Tasks |-> IF t \in Of(a) THEN base[t] + EditsOf(a, Len(Does[a]), t)
                                                               ELSE version[t]]
                /\ rows' = [rows EXCEPT ![a] =
                        [k \in Ops(a) |-> [after |-> base[Does[a][k]] + EditsOf(a, k, Does[a][k]),
                                           undone |-> FALSE]]]
          /\ marks' = [t \in Tasks |-> marks[t] \cup {<<a, k>> : k \in {j \in Ops(a) : Does[a][j] = t}}]
          /\ act' = [act EXCEPT ![a].state = "applied"]
          /\ how' = [how EXCEPT ![a] =
                [times |-> @.times + 1, changed |-> since[a].changed, doubled |-> since[a].doubled,
                 raced |-> req[r].raced, knew |-> req[r].preview = act[a].preview,
                 sure |-> req[r].sure \/ act[a].risk = "low"]]
          /\ req' = Overtaken([req EXCEPT ![r] = Idle], Of(a))
          /\ Touch(Of(a), {a})
       \/ /\ act' = [act EXCEPT ![a].state = "failed"] /\ Close(r)
          /\ UNCHANGED <<version, marks, rows, hist>>
    /\ UNCHANGED <<deleted, edits>>

\* A request fails or its process dies; a proposal not committed was never made.
Abort(r) ==
    /\ Busy(r) /\ Close(r)
    /\ act' = IF Holds(r) /\ req[r].new THEN [act EXCEPT ![req[r].a] = Unmade] ELSE act
    /\ UNCHANGED <<tasks, rows, edits, hist>>

Reject(a) ==
    /\ act[a].state = "proposed" /\ Free(a)
    /\ act' = [act EXCEPT ![a].state = "rejected"]
    /\ UNCHANGED <<tasks, rows, req, edits, hist>>

\* expire_actions
Expire(a) ==
    /\ act[a].state = "proposed" /\ Free(a)
    /\ act' = [act EXCEPT ![a].state = "expired"]
    /\ UNCHANGED <<tasks, rows, req, edits, hist>>

-----------------------------------------------------------------------------
(* Undoing.                                                                   *)

\* _undo_update looks at the version, then update_task makes a new one.  The
\* operations of a batch are undone newest first: those after k have been when
\* it is k's turn.
Undoable(a, K) ==
    \A k \in K :
        LET t     == Does[a][k]
            newer == {j \in K : j > k /\ Does[a][j] = t}
        IN  ~rows[a][k].undone /\ ~deleted[t] /\ version[t] + Cardinality(newer) = rows[a][k].after

\* The operations K of a are reversed.
TakeBack(a, K) ==
    /\ version' = [t \in Tasks |-> version[t] + Cardinality({k \in K : Does[a][k] = t})]
    /\ marks' = [t \in Tasks |-> marks[t] \ {<<a, k>> : k \in K}]
    /\ rows' = [rows EXCEPT ![a] =
            [k \in Ops(a) |-> IF k \in K THEN [rows[a][k] EXCEPT !.undone = TRUE] ELSE rows[a][k]]]
    /\ req' = Overtaken(req, {Does[a][k] : k \in K})
    /\ Touch({Does[a][k] : k \in K}, {})
    /\ UNCHANGED <<deleted, edits, how>>

\* undo_action: the whole batch, or none of it
UndoAction(a) ==
    /\ act[a].state = "applied" /\ Free(a)
    /\ Undoable(a, Ops(a)) /\ TakeBack(a, Ops(a))
    /\ act' = [act EXCEPT ![a].state = "undone"]

\* One of its changes, or the batch, is undone from the activity feed; the
\* action is not told.
UndoRows(a, K) ==
    /\ act[a].state = "applied" /\ Undoable(a, K) /\ TakeBack(a, K)
    /\ UNCHANGED act

-----------------------------------------------------------------------------
Next ==
    \/ \E t \in Tasks : Change(t)
    \/ \E r \in Requests, a \in Actions : Press(r, a) \/ \E auto \in BOOLEAN : Propose(r, a, auto)
    \/ \E r \in Requests :
        Preview(r) \/ Store(r) \/ Open(r) \/ Refuse(r) \/ Execute(r) \/ Abort(r)
    \/ \E a \in Actions :
        Reject(a) \/ Expire(a) \/ UndoAction(a) \/ \E K \in {{k} : k \in Ops(a)} \cup {Ops(a)} : UndoRows(a, K)

Spec == Init /\ [][Next]_vars

-----------------------------------------------------------------------------
(* Properties.                                                                *)

\* What is written is written on the tasks as they were when their versions were
\* noted for the preview: no task the action touches has changed since, and a
\* high-risk action was confirmed as such.  Two kinds of change get through: one
\* between the check of the versions and the write (ai/actions.py:241-257), and
\* one that gave a task a number it had had before, as two writers at once do.
\* Of the preview it says less: it is made a moment before the versions are noted
\* (ai/actions.py:86-97), and need not be the one the decider saw (NeverBlind).
AppliedAsDecided ==
    \A a \in Actions : how[a].times > 0 =>
        /\ how[a].sure
        /\ how[a].changed => how[a].raced \/ how[a].doubled

\* An action is applied at most once and then whole, and undone whole, whoever
\* decides about it at the same time: until it is applied nothing of it is in
\* the tasks, and then exactly what has not been taken back
\* (_require_proposed, _execute, undo_action).
OnceAndWhole ==
    \A a \in Actions :
        LET there == {k \in Ops(a) : <<a, k>> \in marks[Does[a][k]]}
        IN  /\ how[a].times <= 1
            /\ act[a].state \in States \ {"applied", "undone"} => there = {}
            /\ act[a].state = "applied" => there = {k \in Ops(a) : ~rows[a][k].undone}
            /\ act[a].state = "undone" => there = {} /\ \A k \in Ops(a) : rows[a][k].undone

\* "Undo reverses the whole batch" (ai/actions.py:14): an applied action nobody
\* has interfered with can be undone.  It does not hold: each edit of a task
\* expects the version it left, and undoing the last one makes a new version
\* (domain/tasks/service.py:2319), so of two edits of a task the first never goes.
UndoWorks ==
    \A a \in Actions : act[a].state = "applied" /\ a \notin touched => Undoable(a, Ops(a))

\* "Returned for a fresh decision instead of being applied blind"
\* (ai/actions.py:10): the preview that is applied is the one its decider saw.
\* It does not hold: a second request that waits for the row, or is sent again
\* after the answer to the first was lost, applies the new preview.
NeverBlind == \A a \in Actions : how[a].knew
=============================================================================
