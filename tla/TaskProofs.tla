----------------------------- MODULE TaskProofs ------------------------------
(* Proofs about the tasks domain, for any number of tasks, sections, projects *)
(* and open requests: the life of tasks and their dependencies (module        *)
(* TaskGraph) and where tasks are (module Placement).                         *)
(*                                                                            *)
(* What a request does is fixed when it begins and becomes visible when it    *)
(* commits, so every invariant here relates an open request to the rows as    *)
(* they are now.  For TaskGraph, Began says once what a request that begins   *)
(* may be; the proofs about cycles, occurrences, hand-offs and undo all start *)
(* from it.  For Placement, Decided says what an open request has decided, in *)
(* a form that no other commit disturbs.                                      *)
EXTENDS TaskGraph, Placement, TLAPS, FiniteSetTheorems, WellFoundedInduction

-----------------------------------------------------------------------------
(* The life of tasks and their dependencies: types.                           *)

FieldType ==
    [done |-> BOOLEAN, dead |-> BOOLEAN, type |-> {"task", "approval"},
     verdict |-> {"none", "pending", "approved", "rejected"},
     title |-> Titles, mode |-> Modes, version |-> Nat]

Values  == UNION {FieldType[f] : f \in Fields}
Typed   == {p \in UNION {[D -> Values] : D \in SUBSET Fields} :
                \A f \in DOMAIN p : p[f] \in FieldType[f]}
Opens   == [stage: {"begun", "flushed"}, op: Ops, t: Tasks, u: Tasks, patch: Typed,
            saw: Rows, undoes: Nat, spawn: SUBSET Tasks, tell: SUBSET Tasks,
            linked: BOOLEAN, late: BOOLEAN]
Entries == [op: Ops, t: Tasks, u: Tasks, patch: Typed, saw: Rows, undone: BOOLEAN]

TypeInv ==
    /\ row \in [Tasks -> Rows]
    /\ deps \subseteq Tasks \X Tasks
    /\ kids \in [Tasks -> Nat]
    /\ log \in Seq(Entries)
    /\ told \subseteq Tasks /\ scan \subseteq Tasks
    /\ raced \subseteq {"link", "row", "mode"}
    /\ req \in [Requests -> {Idle} \cup Opens]
    /\ \A r \in Requests : Busy(r) => req[r].undoes \in 0 .. Len(log)

\* A row is a value of the right kind for each field, and conversely.
LEMMA RowFields ==
    ASSUME NEW w \in Rows
    PROVE  DOMAIN w = Fields /\ \A f \in Fields : w[f] \in FieldType[f]
BY DEF Fields, FieldType, Rows

LEMMA RowOf ==
    ASSUME NEW w, w = [f \in Fields |-> w[f]], \A f \in Fields : w[f] \in FieldType[f]
    PROVE  w \in Rows
BY DEF Fields, FieldType, Rows

\* So is a patch, for some of the fields.
LEMMA PatchFields ==
    ASSUME NEW p \in Typed
    PROVE  /\ DOMAIN p \subseteq Fields /\ p = [f \in DOMAIN p |-> p[f]]
           /\ \A f \in DOMAIN p : p[f] \in FieldType[f]
BY DEF Typed

LEMMA PatchOf ==
    ASSUME NEW p, p = [f \in DOMAIN p |-> p[f]], DOMAIN p \subseteq Fields,
           \A f \in DOMAIN p : p[f] \in FieldType[f]
    PROVE  p \in Typed
<1>1. \A f \in DOMAIN p : p[f] \in Values
  BY DEF Values
<1>2. p \in [DOMAIN p -> Values]
  BY <1>1
<1> QED
  BY <1>2 DEF Typed

\* The row w with the patch p written to it.
After(p, w) == [f \in Fields |-> IF f \in DOMAIN p THEN p[f] ELSE w[f]]

LEMMA AfterIsRow ==
    ASSUME NEW w \in Rows, NEW p \in Typed
    PROVE  After(p, w) \in Rows
<1>1. \A f \in Fields : After(p, w)[f] \in FieldType[f]
  BY RowFields, PatchFields DEF After
<1>2. After(p, w) = [f \in Fields |-> After(p, w)[f]]
  BY DEF After
<1> QED
  BY <1>1, <1>2, RowOf

LEMMA NoPatchTyped == NoPatch \in Typed /\ DOMAIN NoPatch = {}
BY PatchOf DEF NoPatch

LEMMA EmptyPatch ==
    ASSUME NEW p \in Typed, DOMAIN p = {} PROVE p = NoPatch
<1>1. p = [f \in DOMAIN p |-> p[f]]
  BY PatchFields
<1> QED
  BY <1>1 DEF NoPatch

-----------------------------------------------------------------------------
(* What a request is when it has begun.                                       *)

\* What Start makes of p, for the row w it has read.
Patch(w, p) ==
    IF DOMAIN p = {} THEN p
    ELSE [f \in {g \in DOMAIN p : p[g] # w[g]} \cup {"version"} |->
             IF f = "version" THEN w.version + 1 ELSE p[f]]

FreshRequest(op, t, u, p, e) ==
    [stage |-> "begun", op |-> op, t |-> t, u |-> u, patch |-> Patch(row[t], p),
     saw |-> row[t], undoes |-> e, spawn |-> {}, tell |-> {}, linked |-> FALSE, late |-> FALSE]

LEMMA StartIs ==
    ASSUME NEW r, NEW op, NEW t, NEW u, NEW p, NEW e, Start(r, op, t, u, p, e)
    PROVE  /\ req' = [req EXCEPT ![r] = FreshRequest(op, t, u, p, e)]
           /\ UNCHANGED <<row, deps, kids, log, told, scan, raced>>
BY DEF Start, FreshRequest, Patch

\* The patch holds the fields that differ, and the next version.
LEMMA PatchIs ==
    ASSUME NEW w \in Rows, NEW p \in Typed, "version" \notin DOMAIN p
    PROVE  /\ Patch(w, p) \in Typed
           /\ DOMAIN p = {} => Patch(w, p) = NoPatch
           /\ DOMAIN p # {} => /\ "version" \in DOMAIN Patch(w, p)
                               /\ Patch(w, p).version = w.version + 1
           /\ DOMAIN Patch(w, p) \subseteq DOMAIN p \cup {"version"}
           /\ \A f \in DOMAIN Patch(w, p) \ {"version"} :
                 Patch(w, p)[f] = p[f] /\ p[f] # w[f]
           /\ \A f \in DOMAIN p : f \notin DOMAIN Patch(w, p) => p[f] = w[f]
<1>1. CASE DOMAIN p = {}
  BY <1>1, EmptyPatch DEF Patch
<1>2. CASE DOMAIN p # {}
  <2> DEFINE D == {g \in DOMAIN p : p[g] # w[g]} \cup {"version"}
             q == Patch(w, p)
  <2>1. q = [f \in D |-> IF f = "version" THEN w.version + 1 ELSE p[f]]
    BY <1>2 DEF Patch
  <2>2. DOMAIN q = D /\ \A f \in D : q[f] = IF f = "version" THEN w.version + 1 ELSE p[f]
    BY <2>1
  <2>3. q \in Typed
    <3>1. D \subseteq Fields
      BY PatchFields DEF Fields
    <3>2. \A f \in D \ {"version"} : q[f] \in FieldType[f]
      BY <2>2, PatchFields
    <3>3. q["version"] \in FieldType["version"]
      BY <2>2 DEF Rows, FieldType
    <3>4. q = [f \in DOMAIN q |-> q[f]]
      BY <2>1, <2>2
    <3> HIDE DEF q
    <3>5. \A f \in DOMAIN q : q[f] \in FieldType[f]
      BY <2>2, <3>2, <3>3
    <3> QED
      BY <2>2, <3>1, <3>4, <3>5, PatchOf
  <2> HIDE DEF q
  <2>4. "version" \in DOMAIN q /\ q["version"] = w.version + 1
    BY <2>2
  <2>5. DOMAIN q \subseteq DOMAIN p \cup {"version"}
    BY <2>2
  <2>6. \A f \in DOMAIN q \ {"version"} : q[f] = p[f] /\ p[f] # w[f]
    BY <2>2
  <2>7. \A f \in DOMAIN p : f \notin DOMAIN q => p[f] = w[f]
    BY <2>2
  <2> QED
    BY <1>2, <2>3, <2>4, <2>5, <2>6, <2>7 DEF q
<1> QED
  BY <1>1, <1>2

\* What a request of its own assigns to the row w.
Fits(op, p, w) ==
    /\ op \in {"complete", "reopen", "decide", "convert", "edit", "delete", "link", "unlink"}
    /\ op = "complete" => p = [done |-> TRUE] /\ ~w.done
    /\ op = "reopen" => p = [done |-> FALSE] /\ w.done
    /\ op = "decide" => /\ DOMAIN p \subseteq {"verdict", "done"} /\ "verdict" \in DOMAIN p
                        /\ w.verdict = "pending" /\ p.verdict # "none" /\ w.type = "approval"
    /\ op = "convert" => DOMAIN p = {"type", "verdict"} /\ p.type # w.type
    /\ op = "edit" => \E f \in DOMAIN p : p[f] # w[f]
    /\ op = "delete" => p = [dead |-> TRUE] /\ ~w.dead
    /\ op \in {"link", "unlink"} => p = NoPatch

\* What an undo of the entry c assigns to the row w.
Reverses(c, op, t, u, p, w) ==
    /\ t = c.t
    /\ c.op \in {"complete", "reopen", "decide", "convert", "edit", "delete", "link", "unlink"}
    /\ op = "skip" => p = NoPatch
    /\ c.op = "complete" => \/ op = "skip" /\ ~w.done
                            \/ op = "reopen" /\ p = [done |-> FALSE]
    /\ c.op = "reopen" => \/ op = "skip" /\ w.done
                          \/ op = "complete" /\ p = [done |-> TRUE]
    /\ c.op = "decide" => op = "reconsider" /\ p = [verdict |-> "pending", done |-> c.saw.done]
    /\ c.op = "convert" => \/ op = "skip" /\ w.type = c.saw.type
                           \/ /\ op = "convert"
                              /\ p = [type |-> c.saw.type,
                                      verdict |-> IF c.saw.type = "task" THEN "none"
                                                  ELSE IF c.saw.verdict = "none" THEN "pending"
                                                  ELSE c.saw.verdict]
    /\ c.op = "edit" => /\ w.version = c.patch.version
                        /\ \/ /\ op = "skip"
                              /\ \A f \in DOMAIN c.patch \ {"version"} : c.saw[f] = w[f]
                           \/ /\ op = "edit"
                              /\ p = [f \in DOMAIN c.patch \ {"version"} |-> c.saw[f]]
    /\ c.op = "delete" => op = "restore" /\ p = [dead |-> FALSE]
    /\ c.op = "link" => op = "unlink" /\ u = c.u
    /\ c.op = "unlink" => op = "link" /\ u = c.u

Asked(r, op, t, u, p, e) ==
    /\ op \in Ops /\ t \in Tasks /\ u \in Tasks /\ e \in 0 .. Len(log)
    /\ p \in Typed /\ "version" \notin DOMAIN p
    /\ Start(r, op, t, u, p, e)
    /\ op = "complete" => p = [done |-> TRUE]
    /\ op = "link" => t # u /\ ~Reaches(deps, u, t)
    /\ e = 0 => Fits(op, p, row[t])
    /\ e # 0 => ~log[e].undone /\ Reverses(log[e], op, t, u, p, row[t])

Begins(r) == \E op, t, u, p, e : Asked(r, op, t, u, p, e)

LEMMA SmallPatches ==
    /\ \A v \in BOOLEAN : [done |-> v] \in Typed /\ [dead |-> v] \in Typed
    /\ \A x \in Titles : [title |-> x] \in Typed
    /\ \A x \in Modes : [mode |-> x] \in Typed
    /\ \A v \in FieldType.verdict : /\ [verdict |-> v] \in Typed
                                    /\ \A d \in BOOLEAN : [verdict |-> v, done |-> d] \in Typed
                                    /\ \A ty \in FieldType.type : [type |-> ty, verdict |-> v] \in Typed
<1>1. \A v \in BOOLEAN : [done |-> v] \in Typed /\ [dead |-> v] \in Typed
  BY PatchOf DEF FieldType, Fields
<1>2. \A x \in Titles : [title |-> x] \in Typed
  BY PatchOf DEF FieldType, Fields
<1>3. \A x \in Modes : [mode |-> x] \in Typed
  BY PatchOf DEF FieldType, Fields
<1>4. \A v \in FieldType.verdict : [verdict |-> v] \in Typed
  BY PatchOf DEF FieldType, Fields
<1>5. \A v \in FieldType.verdict, d \in BOOLEAN : [verdict |-> v, done |-> d] \in Typed
  BY PatchOf DEF FieldType, Fields
<1>6. \A v \in FieldType.verdict, ty \in FieldType.type : [type |-> ty, verdict |-> v] \in Typed
  BY PatchOf DEF FieldType, Fields
<1> QED
  BY <1>1, <1>2, <1>3, <1>4, <1>5, <1>6

LEMMA AskBegins ==
    ASSUME TypeInv, NEW r \in Requests, Ask(r)
    PROVE  Begins(r)
<1>t. 0 \in 0 .. Len(log) /\ \A t \in Tasks : row[t] \in Rows
  BY DEF TypeInv
<1>p. NoPatch \in Typed /\ DOMAIN NoPatch = {}
  BY NoPatchTyped
<1> PICK t \in Tasks :
        \/ \E v, force \in BOOLEAN : SetCompleted(r, t, v, force, 0)
        \/ \E v \in {"approved", "rejected"} : Decide(r, t, v)
        \/ \E ty \in {"task", "approval"} : Convert(r, t, ty, "none", 0)
        \/ \E x \in Titles : Edit(r, t, [title |-> x], 0)
        \/ \E x \in Modes : Edit(r, t, [mode |-> x], 0)
        \/ Delete(r, t)
        \/ \E u \in Tasks : Link(r, t, u, 0) \/ Unlink(r, t, u, 0)
  BY DEF Ask
<1> row[t] \in Rows
  BY <1>t
<1>1. CASE \E v, force \in BOOLEAN : SetCompleted(r, t, v, force, 0)
  <2> PICK v \in BOOLEAN, force \in BOOLEAN : SetCompleted(r, t, v, force, 0)
    BY <1>1
  <2>1. Start(r, IF v THEN "complete" ELSE "reopen", t, t, [done |-> v], 0) /\ row[t].done # v
    BY DEF SetCompleted, Skip
  <2>2. row[t].done \in BOOLEAN
    BY DEF Rows
  <2>3. CASE v
    <3>1. Fits("complete", [done |-> TRUE], row[t])
      BY <2>1, <2>2, <2>3 DEF Fits
    <3>2. Asked(r, "complete", t, t, [done |-> TRUE], 0)
      BY <2>1, <2>3, <3>1, <1>t, SmallPatches DEF Asked, Ops
    <3> QED
      BY <3>2 DEF Begins
  <2>4. CASE ~v
    <3>1. Fits("reopen", [done |-> FALSE], row[t])
      BY <2>1, <2>2, <2>4 DEF Fits
    <3>2. Asked(r, "reopen", t, t, [done |-> FALSE], 0)
      BY <2>1, <2>4, <3>1, <1>t, SmallPatches DEF Asked, Ops
    <3> QED
      BY <3>2 DEF Begins
  <2> QED
    BY <2>3, <2>4
<1>2. CASE \E v \in {"approved", "rejected"} : Decide(r, t, v)
  <2> PICK v \in {"approved", "rejected"} : Decide(r, t, v)
    BY <1>2
  <2> DEFINE p == IF v = "approved" THEN [verdict |-> v, done |-> TRUE] ELSE [verdict |-> v]
  <2>1. row[t].type = "approval" /\ row[t].verdict = "pending" /\ Start(r, "decide", t, t, p, 0)
    BY DEF Decide
  <2>2. p \in Typed /\ "version" \notin DOMAIN p
    BY SmallPatches DEF FieldType
  <2>3. Fits("decide", p, row[t])
    BY <2>1 DEF Fits
  <2> HIDE DEF p
  <2>4. Asked(r, "decide", t, t, p, 0)
    BY <2>1, <2>2, <2>3, <1>t DEF Asked, Ops
  <2> QED
    BY <2>4 DEF Begins
<1>3. CASE \E ty \in {"task", "approval"} : Convert(r, t, ty, "none", 0)
  <2> PICK ty \in {"task", "approval"} : Convert(r, t, ty, "none", 0)
    BY <1>3
  <2> DEFINE p == [type |-> ty, verdict |-> IF ty = "task" THEN "none" ELSE "pending"]
  <2>1. row[t].type # ty /\ Start(r, "convert", t, t, p, 0)
    BY DEF Convert, Skip
  <2>2. p \in Typed /\ "version" \notin DOMAIN p
    BY SmallPatches DEF FieldType
  <2>3. Fits("convert", p, row[t])
    BY <2>1 DEF Fits
  <2> HIDE DEF p
  <2>4. Asked(r, "convert", t, t, p, 0)
    BY <2>1, <2>2, <2>3, <1>t DEF Asked, Ops
  <2> QED
    BY <2>4 DEF Begins
<1>4. ASSUME NEW p \in Typed, "version" \notin DOMAIN p, Edit(r, t, p, 0) PROVE Begins(r)
  <2>1. (\E f \in DOMAIN p : p[f] # row[t][f]) /\ Start(r, "edit", t, t, p, 0)
    BY <1>4 DEF Edit, Skip
  <2>2. Fits("edit", p, row[t])
    BY <2>1 DEF Fits
  <2>3. Asked(r, "edit", t, t, p, 0)
    BY <2>1, <2>2, <1>4, <1>t DEF Asked, Ops
  <2> QED
    BY <2>3 DEF Begins
<1>5. CASE \E x \in Titles : Edit(r, t, [title |-> x], 0)
  <2> PICK x \in Titles : Edit(r, t, [title |-> x], 0)
    BY <1>5
  <2> DEFINE p == [title |-> x]
  <2>1. p \in Typed /\ "version" \notin DOMAIN p
    BY SmallPatches
  <2>2. Edit(r, t, p, 0)
    OBVIOUS
  <2> QED
    BY <1>4, <2>1, <2>2
<1>6. CASE \E x \in Modes : Edit(r, t, [mode |-> x], 0)
  <2> PICK x \in Modes : Edit(r, t, [mode |-> x], 0)
    BY <1>6
  <2> DEFINE p == [mode |-> x]
  <2>1. p \in Typed /\ "version" \notin DOMAIN p
    BY SmallPatches
  <2>2. Edit(r, t, p, 0)
    OBVIOUS
  <2> QED
    BY <1>4, <2>1, <2>2
<1>7. CASE Delete(r, t)
  <2>1. Start(r, "delete", t, t, [dead |-> TRUE], 0) /\ Fits("delete", [dead |-> TRUE], row[t])
    BY <1>7 DEF Delete, Fits
  <2>2. Asked(r, "delete", t, t, [dead |-> TRUE], 0)
    BY <2>1, <1>t, SmallPatches DEF Asked, Ops
  <2> QED
    BY <2>2 DEF Begins
<1>8. ASSUME NEW u \in Tasks, Link(r, t, u, 0) PROVE Begins(r)
  <2>1. Start(r, "link", t, u, NoPatch, 0) /\ t # u /\ ~Reaches(deps, u, t)
    BY <1>8 DEF Link
  <2>2. Fits("link", NoPatch, row[t])
    BY DEF Fits
  <2>3. Asked(r, "link", t, u, NoPatch, 0)
    BY <2>1, <2>2, <1>t, <1>p DEF Asked, Ops
  <2> QED
    BY <2>3 DEF Begins
<1>9. ASSUME NEW u \in Tasks, Unlink(r, t, u, 0) PROVE Begins(r)
  <2>1. Start(r, "unlink", t, u, NoPatch, 0)
    BY <1>9 DEF Unlink
  <2>2. Fits("unlink", NoPatch, row[t])
    BY DEF Fits
  <2>3. Asked(r, "unlink", t, u, NoPatch, 0)
    BY <2>1, <2>2, <1>t, <1>p DEF Asked, Ops
  <2> QED
    BY <2>3 DEF Begins
<1> QED
  BY <1>1, <1>2, <1>3, <1>5, <1>6, <1>7, <1>8, <1>9

LEMMA UndoBegins ==
    ASSUME TypeInv, NEW r \in Requests, Undo(r)
    PROVE  Begins(r)
<1>p. NoPatch \in Typed /\ DOMAIN NoPatch = {}
  BY NoPatchTyped
<1> PICK e \in 1 .. Len(log) :
        /\ ~log[e].undone
        /\ \/ log[e].op = "complete" /\ SetCompleted(r, log[e].t, FALSE, TRUE, e)
           \/ log[e].op = "reopen" /\ SetCompleted(r, log[e].t, TRUE, TRUE, e)
           \/ log[e].op = "decide" /\ Reconsider(r, log[e].t, log[e].saw.done, e)
           \/ log[e].op = "convert"
                /\ Convert(r, log[e].t, log[e].saw.type, log[e].saw.verdict, e)
           \/ /\ log[e].op = "edit" /\ row[log[e].t].version = log[e].patch.version
              /\ Edit(r, log[e].t,
                      [f \in DOMAIN log[e].patch \ {"version"} |-> log[e].saw[f]], e)
           \/ log[e].op = "delete" /\ Restore(r, log[e].t, e)
           \/ log[e].op = "link" /\ Unlink(r, log[e].t, log[e].u, e)
           \/ log[e].op = "unlink" /\ Link(r, log[e].t, log[e].u, e)
  BY Zenon DEF Undo
<1> DEFINE c == log[e]
           t == c.t
           w == row[t]
<1>c. c \in Entries /\ e \in 0 .. Len(log) /\ e # 0 /\ ~c.undone
  BY DEF TypeInv
<1>t. t \in Tasks /\ c.u \in Tasks /\ c.saw \in Rows /\ c.patch \in Typed
  BY <1>c DEF Entries
<1>w. w \in Rows
  BY <1>t DEF TypeInv
<1>1. ASSUME NEW op \in Ops, NEW u \in Tasks, NEW p \in Typed, "version" \notin DOMAIN p,
             Start(r, op, t, u, p, e), Reverses(c, op, t, u, p, w),
             op = "complete" => p = [done |-> TRUE],
             op = "link" => t # u /\ ~Reaches(deps, u, t)
      PROVE  Begins(r)
  <2>1. Asked(r, op, t, u, p, e)
    BY <1>1, <1>c, <1>t DEF Asked
  <2> QED
    BY <2>1 DEF Begins
<1> HIDE DEF c
<1>s. ASSUME Skip(r, t, e), Reverses(c, "skip", t, t, NoPatch, w) PROVE Begins(r)
  <2>1. Start(r, "skip", t, t, NoPatch, e)
    BY <1>s DEF Skip
  <2>2. "skip" \in Ops /\ "skip" # "complete" /\ "skip" # "link" /\ "version" \notin DOMAIN NoPatch
    BY <1>p DEF Ops
  <2> QED
    BY <1>1, <1>s, <1>t, <1>p, <2>1, <2>2
<1>2. CASE c.op = "complete" /\ SetCompleted(r, t, FALSE, TRUE, e)
  <2>0. w.done \in BOOLEAN
    BY <1>w DEF Rows
  <2>1. CASE w.done = FALSE
    <3>1. Skip(r, t, e)
      BY <1>2, <2>1 DEF SetCompleted
    <3>2. Reverses(c, "skip", t, t, NoPatch, w)
      BY <1>2, <1>c, <2>1 DEF Reverses
    <3> QED
      BY <1>s, <3>1, <3>2
  <2>2. CASE w.done # FALSE
    <3>1. Start(r, "reopen", t, t, [done |-> FALSE], e)
      BY <1>2, <2>2 DEF SetCompleted
    <3>2. Reverses(c, "reopen", t, t, [done |-> FALSE], w)
      BY <1>2, <1>c DEF Reverses
    <3> QED
      BY <1>1, <3>1, <3>2, <1>t, SmallPatches DEF Ops
  <2> QED
    BY <2>1, <2>2
<1>3. CASE c.op = "reopen" /\ SetCompleted(r, t, TRUE, TRUE, e)
  <2>1. CASE w.done = TRUE
    <3>1. Skip(r, t, e)
      BY <1>3, <2>1 DEF SetCompleted
    <3>2. Reverses(c, "skip", t, t, NoPatch, w)
      BY <1>3, <1>c, <2>1 DEF Reverses
    <3> QED
      BY <1>s, <3>1, <3>2
  <2>2. CASE w.done # TRUE
    <3>1. Start(r, "complete", t, t, [done |-> TRUE], e)
      BY <1>3, <2>2 DEF SetCompleted
    <3>2. Reverses(c, "complete", t, t, [done |-> TRUE], w)
      BY <1>3, <1>c DEF Reverses
    <3> QED
      BY <1>1, <3>1, <3>2, <1>t, SmallPatches DEF Ops
  <2> QED
    BY <2>1, <2>2
<1>4. CASE c.op = "decide" /\ Reconsider(r, t, c.saw.done, e)
  <2> DEFINE p == [verdict |-> "pending", done |-> c.saw.done]
  <2>1. Start(r, "reconsider", t, t, p, e)
    BY <1>4 DEF Reconsider
  <2>2. Reverses(c, "reconsider", t, t, p, w)
    BY <1>4, <1>c DEF Reverses
  <2>3. p \in Typed /\ "version" \notin DOMAIN p
    BY <1>t, SmallPatches DEF FieldType, Rows
  <2> HIDE DEF p
  <2> QED
    BY <1>1, <2>1, <2>2, <2>3, <1>t DEF Ops
<1>5. CASE c.op = "convert" /\ Convert(r, t, c.saw.type, c.saw.verdict, e)
  <2> DEFINE v == IF c.saw.type = "task" THEN "none"
                  ELSE IF c.saw.verdict = "none" THEN "pending" ELSE c.saw.verdict
             p == [type |-> c.saw.type, verdict |-> v]
  <2>1. CASE w.type = c.saw.type
    <3>1. Skip(r, t, e)
      BY <1>5, <2>1 DEF Convert
    <3>2. Reverses(c, "skip", t, t, NoPatch, w)
      BY <1>5, <1>c, <2>1 DEF Reverses
    <3> QED
      BY <1>s, <3>1, <3>2
  <2>2. CASE w.type # c.saw.type
    <3>1. Start(r, "convert", t, t, p, e)
      BY <1>5, <2>2 DEF Convert
    <3>2. Reverses(c, "convert", t, t, p, w)
      BY <1>5, <1>c DEF Reverses
    <3>3. p \in Typed /\ "version" \notin DOMAIN p
      <4>1. v \in FieldType.verdict /\ c.saw.type \in FieldType.type
        BY <1>t DEF FieldType, Rows
      <4> QED
        BY <4>1, SmallPatches
    <3> HIDE DEF p
    <3> QED
      BY <1>1, <3>1, <3>2, <3>3, <1>t DEF Ops
  <2> QED
    BY <2>1, <2>2
<1>6. CASE /\ c.op = "edit" /\ w.version = c.patch.version
           /\ Edit(r, t, [f \in DOMAIN c.patch \ {"version"} |-> c.saw[f]], e)
  <2> DEFINE p == [f \in DOMAIN c.patch \ {"version"} |-> c.saw[f]]
  <2>1. CASE \A f \in DOMAIN p : p[f] = w[f]
    <3>1. Skip(r, t, e)
      BY <1>6, <2>1 DEF Edit
    <3>2. \A f \in DOMAIN c.patch \ {"version"} : c.saw[f] = w[f]
      BY <2>1
    <3>3. Reverses(c, "skip", t, t, NoPatch, w)
      BY <1>6, <1>c, <3>2 DEF Reverses
    <3> QED
      BY <1>s, <3>1, <3>3
  <2>2. CASE \E f \in DOMAIN p : p[f] # w[f]
    <3>1. Start(r, "edit", t, t, p, e)
      BY <1>6, <2>2 DEF Edit
    <3>2. Reverses(c, "edit", t, t, p, w)
      BY <1>6, <1>c DEF Reverses
    <3>3. p \in Typed /\ "version" \notin DOMAIN p
      <4>1. DOMAIN p \subseteq Fields /\ \A f \in DOMAIN p : p[f] \in FieldType[f]
        BY <1>t, PatchFields, RowFields
      <4>2. p = [f \in DOMAIN p |-> p[f]]
        OBVIOUS
      <4>3. "version" \notin DOMAIN p
        OBVIOUS
      <4> HIDE DEF p
      <4> QED
        BY <4>1, <4>2, <4>3, PatchOf
    <3> HIDE DEF p
    <3> QED
      BY <1>1, <3>1, <3>2, <3>3, <1>t DEF Ops
  <2> QED
    BY <2>1, <2>2
<1>7. CASE c.op = "delete" /\ Restore(r, t, e)
  <2>1. Start(r, "restore", t, t, [dead |-> FALSE], e)
    BY <1>7 DEF Restore
  <2>2. Reverses(c, "restore", t, t, [dead |-> FALSE], w)
    BY <1>7, <1>c DEF Reverses
  <2> QED
    BY <1>1, <2>1, <2>2, <1>t, SmallPatches DEF Ops
<1>8. CASE c.op = "link" /\ Unlink(r, t, c.u, e)
  <2>1. Start(r, "unlink", t, c.u, NoPatch, e)
    BY <1>8 DEF Unlink
  <2>2. Reverses(c, "unlink", t, c.u, NoPatch, w)
    BY <1>8, <1>c DEF Reverses
  <2> QED
    BY <1>1, <2>1, <2>2, <1>t, <1>p DEF Ops
<1>9. CASE c.op = "unlink" /\ Link(r, t, c.u, e)
  <2>1. Start(r, "link", t, c.u, NoPatch, e) /\ t # c.u /\ ~Reaches(deps, c.u, t)
    BY <1>9 DEF Link
  <2>2. Reverses(c, "link", t, c.u, NoPatch, w)
    BY <1>9, <1>c DEF Reverses
  <2> QED
    BY <1>1, <2>1, <2>2, <1>t, <1>p DEF Ops
<1> QED
  BY <1>2, <1>3, <1>4, <1>5, <1>6, <1>7, <1>8, <1>9 DEF c

-----------------------------------------------------------------------------
(* Type correctness.                                                          *)

LEMMA BusyIsOpen ==
    ASSUME TypeInv, NEW r \in Requests
    PROVE  /\ Busy(r) <=> req[r] \in Opens
           /\ ~Busy(r) <=> req[r] = Idle
<1>1. Idle.stage = "idle"
  BY DEF Idle
<1>2. \A q \in Opens : q.stage # "idle"
  BY DEF Opens
<1>3. req[r] \in {Idle} \cup Opens
  BY DEF TypeInv
<1> QED
  BY <1>1, <1>2, <1>3 DEF Busy

LEMMA FreshIsOpen ==
    ASSUME TypeInv, NEW r \in Requests, NEW op, NEW t, NEW u, NEW p, NEW e, Asked(r, op, t, u, p, e)
    PROVE  FreshRequest(op, t, u, p, e) \in Opens
<1>1. row[t] \in Rows /\ t \in Tasks /\ u \in Tasks /\ op \in Ops /\ e \in Nat
  BY DEF Asked, TypeInv
<1>2. Patch(row[t], p) \in Typed
  BY <1>1, PatchIs DEF Asked
<1> QED
  BY <1>1, <1>2 DEF FreshRequest, Opens

\* A commit, step by step: the row, the log and the other requests.
LEMMA CommitIs ==
    ASSUME TypeInv, NEW r \in Requests, Commit(r)
    PROVE  /\ req[r] \in Opens /\ req[r].stage = "flushed" /\ req[r].t \in Tasks
           /\ row' = [row EXCEPT ![req[r].t] = After(req[r].patch, row[req[r].t])]
           /\ After(req[r].patch, row[req[r].t]) \in Rows
           /\ req'[r] = Idle
           /\ \A s \in Requests \ {r} :
                /\ ~Busy(s) => req'[s] = Idle
                /\ Busy(s) => /\ req'[s] \in Opens
                              /\ \A x \in {"stage", "op", "t", "u", "patch", "saw", "undoes",
                                           "spawn", "tell"} : req'[s][x] = req[s][x]
                              /\ req'[s].linked = (req[s].linked \/ req[r].op = "link")
                              /\ req'[s].late = (req[s].late \/ req[s].stage = "flushed")
<1> DEFINE q == req[r]
<1>1. q.stage = "flushed" /\ Busy(r)
  BY DEF Commit, Busy
<1>2. q \in Opens
  BY <1>1, BusyIsOpen
<1>3. q.t \in Tasks /\ q.patch \in Typed
  BY <1>2 DEF Opens
<1>4. row' = [row EXCEPT ![q.t] = After(q.patch, row[q.t])]
  BY DEF Commit, After
<1>5. After(q.patch, row[q.t]) \in Rows
  BY <1>3, AfterIsRow DEF TypeInv
<1>6. req' = [s \in Requests |->
                IF s = r THEN Idle
                ELSE IF Busy(s) THEN [req[s] EXCEPT !.linked = @ \/ q.op = "link",
                                                    !.late = @ \/ req[s].stage = "flushed"]
                ELSE req[s]]
  BY DEF Commit
<1>7. ASSUME NEW s \in Requests \ {r}
      PROVE  /\ ~Busy(s) => req'[s] = Idle
             /\ Busy(s) => /\ req'[s] \in Opens
                           /\ \A x \in {"stage", "op", "t", "u", "patch", "saw", "undoes",
                                           "spawn", "tell"} : req'[s][x] = req[s][x]
                           /\ req'[s].linked = (req[s].linked \/ q.op = "link")
                           /\ req'[s].late = (req[s].late \/ req[s].stage = "flushed")
  <2>1. CASE ~Busy(s)
    BY <1>6, <2>1, BusyIsOpen
  <2>2. CASE Busy(s)
    <3>1. req[s] \in Opens
      BY <2>2, BusyIsOpen
    <3>2. req'[s] = [req[s] EXCEPT !.linked = @ \/ q.op = "link",
                                   !.late = @ \/ req[s].stage = "flushed"]
      BY <1>6, <2>2
    <3>3. (req[s].linked \/ q.op = "link") \in BOOLEAN
          /\ (req[s].late \/ req[s].stage = "flushed") \in BOOLEAN
      BY Zenon
    <3> HIDE DEF q
    <3> QED
      BY <3>1, <3>2, <3>3, <2>2 DEF Opens
  <2> QED
    BY <2>1, <2>2
<1> QED
  BY <1>1, <1>2, <1>3, <1>4, <1>5, <1>6, <1>7

\* What a commit does to the log: mark an entry, or add one.
LEMMA CommitLog ==
    ASSUME TypeInv, NEW r \in Requests, Commit(r)
    PROVE  /\ log' \in Seq(Entries)
           /\ req[r].undoes # 0 =>
                /\ req[r].undoes \in 1 .. Len(log) /\ Len(log') = Len(log)
                /\ log'[req[r].undoes].undone
                /\ \A e \in 1 .. Len(log) :
                    /\ e # req[r].undoes => log'[e] = log[e]
                    /\ \A x \in {"op", "t", "u", "patch", "saw"} : log'[e][x] = log[e][x]
           /\ req[r].undoes = 0 =>
                /\ Len(log') = Len(log) + 1
                /\ \A e \in 1 .. Len(log) : log'[e] = log[e]
                /\ \A x \in {"op", "t", "u", "patch", "saw"} : log'[Len(log')][x] = req[r][x]
                /\ ~log'[Len(log')].undone
<1> DEFINE q == req[r]
           c == [op |-> q.op, t |-> q.t, u |-> q.u, patch |-> q.patch, saw |-> q.saw,
                 undone |-> FALSE]
<1>1. q \in Opens
  BY BusyIsOpen DEF Commit, Busy
<1>2. q.undoes \in 0 .. Len(log) /\ log \in Seq(Entries)
  BY DEF TypeInv, Commit, Busy
<1>3. CASE q.undoes # 0
  <2>0. q.undoes \in 1 .. Len(log)
    BY <1>2, <1>3
  <2>1. log' = [log EXCEPT ![q.undoes].undone = TRUE]
    BY <1>3 DEF Commit
  <2>2. log[q.undoes] \in Entries
    BY <1>2, <2>0
  <2>3. [log[q.undoes] EXCEPT !.undone = TRUE] \in Entries
    BY <2>2 DEF Entries
  <2> DEFINE d == [log[q.undoes] EXCEPT !.undone = TRUE]
             n == q.undoes
  <2>4. log' = [log EXCEPT ![n] = d]
    BY <2>1
  <2>5. d.undone /\ \A x \in {"op", "t", "u", "patch", "saw"} : d[x] = log[q.undoes][x]
    BY <2>2 DEF Entries
  <2>6. d \in Entries /\ log \in Seq(Entries) /\ n \in 1 .. Len(log)
    BY <1>2, <2>0, <2>3
  <2> HIDE DEF d, n
  <2>7. log' \in Seq(Entries) /\ Len(log') = Len(log) /\ log'[n] = d
        /\ \A e \in 1 .. Len(log) : e # n => log'[e] = log[e]
    BY <2>4, <2>6
  <2> QED
    BY <1>3, <2>0, <2>5, <2>7 DEF n
<1>4. CASE q.undoes = 0
  <2>1. log' = Append(log, c)
    BY <1>4 DEF Commit
  <2>2. c \in Entries
    BY <1>1 DEF Opens, Entries
  <2>3. ~c.undone /\ \A x \in {"op", "t", "u", "patch", "saw"} : c[x] = q[x]
    OBVIOUS
  <2> HIDE DEF c, q
  <2>4. log' \in Seq(Entries) /\ Len(log') = Len(log) + 1 /\ log'[Len(log) + 1] = c
        /\ \A e \in 1 .. Len(log) : log'[e] = log[e]
    BY <1>2, <2>1, <2>2
  <2> QED
    BY <1>4, <2>3, <2>4 DEF q
<1> QED
  BY <1>3, <1>4

LEMMA FlushIs ==
    ASSUME TypeInv, NEW r \in Requests, Flush(r)
    PROVE  LET q == req[r]  z == req'[r] IN
           /\ q \in Opens /\ q.stage = "begun" /\ z \in Opens /\ z.stage = "flushed"
           /\ \A x \in {"op", "t", "u", "patch", "saw", "undoes", "linked", "late"} : z[x] = q[x]
           /\ z.spawn = NextOccurrence(q)
           /\ z.tell = IF q.op = "complete" THEN Ready(q.t) ELSE {}
           /\ \A s \in Requests \ {r} : /\ req'[s] = req[s]
                                        /\ req[s].stage = "flushed" => ~Clash(q, req[s])
           /\ UNCHANGED <<row, deps, kids, log, told, scan, raced>>
<1> DEFINE q == req[r]
           N == NextOccurrence(q)
           T == IF q.op = "complete" THEN Ready(q.t) ELSE {}
<1>1. q \in Opens /\ q.stage = "begun"
  BY BusyIsOpen DEF Flush, Busy
<1>2. N \subseteq Tasks /\ T \subseteq Tasks
  BY <1>1 DEF NextOccurrence, Ready, Opens
<1>3. req' = [req EXCEPT ![r] = [q EXCEPT !.stage = "flushed", !.spawn = N, !.tell = T]]
  BY DEF Flush
<1>4. \A s \in Requests \ {r} : /\ req'[s] = req[s]
                                /\ req[s].stage = "flushed" => ~Clash(q, req[s])
  <2> HIDE DEF N, T
  <2>1. \A s \in Requests \ {r} : req[s].stage = "flushed" => ~Clash(q, req[s])
    BY DEF Flush
  <2>2. \A s \in Requests \ {r} : req'[s] = req[s]
    BY <1>3 DEF TypeInv
  <2> QED
    BY <2>1, <2>2
<1>5. UNCHANGED <<row, deps, kids, log, told, scan, raced>>
  BY DEF Flush
<1> DEFINE z == [q EXCEPT !.stage = "flushed", !.spawn = N, !.tell = T]
<1> HIDE DEF N, T, q
<1>6. /\ z \in Opens /\ z.stage = "flushed" /\ z.spawn = N /\ z.tell = T
      /\ \A x \in {"op", "t", "u", "patch", "saw", "undoes", "linked", "late"} : z[x] = q[x]
  BY <1>1, <1>2 DEF Opens
<1>7. req'[r] = z
  BY <1>3 DEF TypeInv
<1> HIDE DEF z
<1> QED
  BY <1>1, <1>4, <1>5, <1>6, <1>7 DEF q, N, T

LEMMA BeginIs ==
    ASSUME TypeInv, NEW r \in Requests, ~Busy(r), Begins(r)
    PROVE  \E op, t, u, p, e :
             /\ Asked(r, op, t, u, p, e) /\ t \in Tasks /\ u \in Tasks /\ row[t] \in Rows
             /\ p \in Typed /\ "version" \notin DOMAIN p /\ e \in 0 .. Len(log)
             /\ req'[r] = FreshRequest(op, t, u, p, e) /\ FreshRequest(op, t, u, p, e) \in Opens
             /\ \A s \in Requests \ {r} : req'[s] = req[s]
             /\ UNCHANGED <<row, deps, kids, log, told, scan, raced>>
<1>1. PICK op, t, u, p, e : Asked(r, op, t, u, p, e)
  BY DEF Begins
<1>2. t \in Tasks /\ u \in Tasks /\ row[t] \in Rows
  BY <1>1 DEF Asked, TypeInv
<1>3. FreshRequest(op, t, u, p, e) \in Opens
  BY <1>1, FreshIsOpen
<1>4. Start(r, op, t, u, p, e)
  BY <1>1 DEF Asked
<1>5. req' = [req EXCEPT ![r] = FreshRequest(op, t, u, p, e)]
      /\ UNCHANGED <<row, deps, kids, log, told, scan, raced>>
  BY <1>4, StartIs
<1>6. req'[r] = FreshRequest(op, t, u, p, e) /\ \A s \in Requests \ {r} : req'[s] = req[s]
  BY <1>5 DEF TypeInv
<1>7. p \in Typed /\ "version" \notin DOMAIN p /\ e \in 0 .. Len(log)
  BY <1>1 DEF Asked
<1> QED
  BY <1>1, <1>2, <1>3, <1>5, <1>6, <1>7

LEMMA AbortIs ==
    ASSUME TypeInv, NEW r \in Requests, Abort(r)
    PROVE  /\ req'[r] = Idle /\ \A s \in Requests \ {r} : req'[s] = req[s]
           /\ UNCHANGED <<row, deps, kids, log, told, scan, raced>>
BY DEF Abort, TypeInv

\* Next, with a request that begins in one piece.
LEMMA Steps ==
    ASSUME TypeInv, [Next]_vars
    PROVE  \/ \E r \in Requests : ~Busy(r) /\ Begins(r)
           \/ \E r \in Requests : Flush(r) \/ Commit(r) \/ Abort(r)
           \/ Scan \/ ScanCommit \/ UNCHANGED vars
<1>1. ASSUME NEW r \in Requests, Ask(r) \/ Undo(r) PROVE ~Busy(r) /\ Begins(r)
  <2>1. ~Busy(r)
    BY <1>1 DEF Ask, Undo
  <2> QED
    BY <1>1, <2>1, AskBegins, UndoBegins
<1> QED
  BY <1>1 DEF Next

LEMMA RacedGrows ==
    ASSUME TypeInv, [Next]_vars PROVE raced \subseteq raced'
<1>1. ASSUME NEW r \in Requests, ~Busy(r), Begins(r) PROVE raced' = raced
  BY <1>1, BeginIs
<1>2. ASSUME NEW r \in Requests, Flush(r) \/ Abort(r) PROVE raced' = raced
  BY <1>2 DEF Flush, Abort
<1>3. ASSUME NEW r \in Requests, Commit(r) PROVE raced \subseteq raced'
  BY <1>3 DEF Commit
<1>4. Scan \/ ScanCommit \/ UNCHANGED vars => raced' = raced
  BY DEF Scan, ScanCommit, vars
<1> QED
  BY <1>1, <1>2, <1>3, <1>4, Steps

LEMMA TypeInit == Init => TypeInv
<1> SUFFICES ASSUME Init PROVE TypeInv
  OBVIOUS
<1>1. PICK A \in SUBSET Tasks :
        row = [t \in Tasks |->
            [done |-> FALSE, dead |-> FALSE,
             type |-> IF t \in A THEN "approval" ELSE "task",
             verdict |-> IF t \in A THEN "pending" ELSE "none",
             title |-> Untitled, mode |-> "on_complete", version |-> 0]]
  BY DEF Init
<1>2. row \in [Tasks -> Rows]
  BY <1>1, TaskAssumption DEF Rows, Modes
<1>3. \A r \in Requests : req[r] = Idle /\ ~Busy(r)
  BY DEF Init, Idle, Busy
<1>4. kids \in [Tasks -> Nat] /\ log \in Seq(Entries)
  BY DEF Init
<1>5. req \in [Requests -> {Idle} \cup Opens]
  BY DEF Init
<1> QED
  BY <1>2, <1>3, <1>4, <1>5 DEF Init, TypeInv

LEMMA TypeNext == TypeInv /\ [Next]_vars => TypeInv'
<1> SUFFICES ASSUME TypeInv, [Next]_vars PROVE TypeInv'
  OBVIOUS
<1>q. DOMAIN req = Requests /\ \A r \in Requests : req[r] \in {Idle} \cup Opens
  BY DEF TypeInv
<1>i. Idle.stage = "idle" /\ \A q \in Opens : q.stage # "idle"
  BY DEF Idle, Opens
<1>1. CASE \E r \in Requests : ~Busy(r) /\ Begins(r)
  <2>1. PICK r \in Requests : ~Busy(r) /\ Begins(r)
    BY <1>1
  <2>2. PICK op, t, u, p, e :
          /\ Asked(r, op, t, u, p, e) /\ e \in 0 .. Len(log)
          /\ req'[r] = FreshRequest(op, t, u, p, e) /\ FreshRequest(op, t, u, p, e) \in Opens
          /\ \A s \in Requests \ {r} : req'[s] = req[s]
          /\ UNCHANGED <<row, deps, kids, log, told, scan, raced>>
    BY <2>1, BeginIs
  <2>3. req' = [req EXCEPT ![r] = FreshRequest(op, t, u, p, e)]
    BY <2>2, StartIs DEF Asked
  <2>4. req' \in [Requests -> {Idle} \cup Opens]
    BY <2>2, <2>3 DEF TypeInv
  <2>5. FreshRequest(op, t, u, p, e).undoes = e
    BY DEF FreshRequest
  <2>6. \A s \in Requests : Busy(s)' => req'[s].undoes \in 0 .. Len(log')
    BY <2>2, <2>5 DEF TypeInv, Busy
  <2> QED
    BY <2>2, <2>4, <2>6 DEF TypeInv
<1>2. CASE \E r \in Requests : Flush(r)
  <2> PICK r \in Requests : Flush(r)
    BY <1>2
  <2>1. /\ req[r] \in Opens /\ req'[r] \in Opens /\ req'[r].undoes = req[r].undoes
        /\ \A s \in Requests \ {r} : req'[s] = req[s]
        /\ UNCHANGED <<row, deps, kids, log, told, scan, raced>>
    BY FlushIs
  <2>2. \E z : req' = [req EXCEPT ![r] = z]
    BY DEF Flush
  <2>3. req' \in [Requests -> {Idle} \cup Opens]
    BY <2>1, <2>2 DEF TypeInv
  <2>4. Busy(r)
    BY <2>1, <1>i DEF Busy
  <2>5. \A s \in Requests : Busy(s)' => req'[s].undoes \in 0 .. Len(log')
    BY <2>1, <2>4 DEF TypeInv, Busy
  <2> QED
    BY <2>1, <2>3, <2>5 DEF TypeInv
<1>3. CASE \E r \in Requests : Commit(r)
  <2> PICK r \in Requests : Commit(r)
    BY <1>3
  <2>1. req[r] \in Opens /\ req[r].t \in Tasks /\ req[r].u \in Tasks /\ req[r].tell \subseteq Tasks
    BY CommitIs DEF Opens
  <2>2. row' \in [Tasks -> Rows]
    <3> DEFINE d == After(req[r].patch, row[req[r].t])
    <3>1. row' = [row EXCEPT ![req[r].t] = d] /\ d \in Rows
      BY CommitIs
    <3> HIDE DEF d
    <3> QED
      BY <2>1, <3>1 DEF TypeInv
  <2>3. log' \in Seq(Entries) /\ Len(log') >= Len(log)
    <3>1. Len(log) \in Nat
      BY DEF TypeInv
    <3> QED
      BY <3>1, CommitLog
  <2>4. deps' \subseteq Tasks \X Tasks /\ told' \subseteq Tasks
    <3>1. told' = req[r].tell
      BY DEF Commit
    <3>2. \/ deps' = deps \cup {<<req[r].t, req[r].u>>}
          \/ deps' = deps \ {<<req[r].t, req[r].u>>} \/ deps' = deps
      BY DEF Commit
    <3> QED
      BY <2>1, <3>1, <3>2 DEF TypeInv
  <2>5. kids' \in [Tasks -> Nat]
    <3>1. kids' = [t \in Tasks |-> IF t \in req[r].spawn THEN kids[t] + 1 ELSE kids[t]]
      BY DEF Commit
    <3> QED
      BY <3>1 DEF TypeInv
  <2>6. raced' \subseteq {"link", "row", "mode"} /\ scan' = scan
    BY DEF Commit, TypeInv, Races
  <2>7. \A s \in Requests : req'[s] \in {Idle} \cup Opens
    BY CommitIs
  <2>8. req' \in [Requests -> {Idle} \cup Opens]
    <3>1. req' = [s \in Requests |-> req'[s]]
      BY DEF Commit
    <3> QED
      BY <3>1, <2>7
  <2>9. ASSUME NEW s \in Requests, Busy(s)' PROVE req'[s].undoes \in 0 .. Len(log')
    <3>1. s # r /\ Busy(s)
      BY <2>9, <1>i, CommitIs DEF Busy
    <3>2. req'[s].undoes = req[s].undoes
      BY <3>1, CommitIs
    <3>3. req[s].undoes \in 0 .. Len(log) /\ Len(log) \in Nat /\ Len(log') \in Nat
      BY <3>1, <2>3 DEF TypeInv
    <3> QED
      BY <3>2, <3>3, <2>3
  <2> QED
    BY <2>2, <2>3, <2>4, <2>5, <2>6, <2>8, <2>9 DEF TypeInv
<1>4. CASE \E r \in Requests : Abort(r)
  <2> PICK r \in Requests : Abort(r)
    BY <1>4
  <2>1. req' = [req EXCEPT ![r] = Idle] /\ UNCHANGED <<row, deps, kids, log, told, scan, raced>>
    BY DEF Abort
  <2>2. req' \in [Requests -> {Idle} \cup Opens]
    BY <2>1 DEF TypeInv
  <2>3. \A s \in Requests : Busy(s)' => req'[s].undoes \in 0 .. Len(log')
    BY <2>1, <1>i, AbortIs DEF TypeInv, Busy
  <2> QED
    BY <2>1, <2>2, <2>3 DEF TypeInv
<1>5. CASE Scan \/ ScanCommit
  <2>1. UNCHANGED <<row, deps, log, told, req, raced>>
    BY <1>5 DEF Scan, ScanCommit
  <2>2. kids' \in [Tasks -> Nat] /\ scan' \subseteq Tasks
    BY <1>5 DEF Scan, ScanCommit, TypeInv
  <2> QED
    BY <2>1, <2>2 DEF TypeInv, Busy
<1>6. CASE UNCHANGED vars
  BY <1>6 DEF vars, TypeInv, Busy
<1> QED
  BY <1>1, <1>2, <1>3, <1>4, <1>5, <1>6, Steps

LEMMA TypeAlways == Spec => []TypeInv
BY TypeInit, TypeNext, PTL DEF Spec

\* The rows, the log and every open request keep their types, for any number of
\* tasks, requests and changes.
THEOREM TypeCorrect == Spec => []TypeOK
<1>1. TypeInv => TypeOK
  <2> SUFFICES ASSUME TypeInv PROVE TypeOK
    OBVIOUS
  <2>1. ASSUME NEW r \in Requests, req[r].stage # "idle"
        PROVE  /\ req[r].op \in Ops /\ req[r].stage \in {"begun", "flushed"}
               /\ req[r].undoes \in 0 .. Len(log)
               /\ req[r].spawn \subseteq Tasks /\ req[r].tell \subseteq Tasks
    <3>1. req[r] \in Opens /\ req[r].undoes \in 0 .. Len(log)
      BY <2>1, BusyIsOpen DEF Busy, TypeInv
    <3> QED
      BY <3>1 DEF Opens
  <2> QED
    BY <2>1 DEF TypeInv, TypeOK
<1> QED
  BY <1>1, TypeAlways, PTL

-----------------------------------------------------------------------------
(* No cycle among dependencies.                                               *)

\* Fewer links reach less and hold fewer cycles.
LEMMA FewerLinks ==
    ASSUME NEW D, NEW E \in SUBSET D
    PROVE  /\ Acyclic(D) => Acyclic(E)
           /\ \A t, u : ~Reaches(D, u, t) => ~Reaches(E, u, t)
<1>1. Acyclic(D) => Acyclic(E)
  BY DEF Acyclic
<1>2. ASSUME NEW t, NEW u, ~Reaches(D, u, t) PROVE ~Reaches(E, u, t)
  <2>1. PICK S \in SUBSET Tasks : u \in S /\ (\A e \in D : e[1] \in S => e[2] \in S) /\ t \notin S
    BY <1>2 DEF Reaches
  <2>2. \A e \in E : e[1] \in S => e[2] \in S
    BY <2>1
  <2> QED
    BY <2>1, <2>2 DEF Reaches
<1> QED
  BY <1>1, <1>2

\* What _would_cycle asks is enough: a link from t to u that t is not reached
\* from closes no cycle.
LEMMA LinkClosesNothing ==
    ASSUME NEW D \in SUBSET (Tasks \X Tasks), Acyclic(D),
           NEW t \in Tasks, NEW u \in Tasks, ~Reaches(D, u, t)
    PROVE  Acyclic(D \cup {<<t, u>>})
<1>1. PICK C \in SUBSET Tasks : u \in C /\ t \notin C /\ \A e \in D : e[1] \in C => e[2] \in C
  BY DEF Reaches
<1>2. SUFFICES ASSUME NEW S \in SUBSET Tasks, S # {}
               PROVE  \E x \in S : \A y \in S : <<x, y>> \notin D \cup {<<t, u>>}
  BY DEF Acyclic
<1>3. CASE S \cap C = {}
  <2>1. PICK x \in S : \A y \in S : <<x, y>> \notin D
    BY <1>2 DEF Acyclic
  <2>2. u \notin S
    BY <1>1, <1>3
  <2>3. \A y \in S : <<x, y>> # <<t, u>>
    BY <2>2
  <2> QED
    BY <2>1, <2>3
<1>4. CASE S \cap C # {}
  <2>1. PICK x \in S \cap C : \A y \in S \cap C : <<x, y>> \notin D
    BY <1>4 DEF Acyclic
  <2>2. x # t
    BY <1>1
  <2>3. ASSUME NEW y \in S, <<x, y>> \in D PROVE FALSE
    <3>1. y \in C
      BY <1>1, <2>3
    <3> QED
      BY <2>1, <2>3, <3>1
  <2>4. \A y \in S : <<x, y>> # <<t, u>>
    BY <2>2
  <2> QED
    BY <2>3, <2>4
<1> QED
  BY <1>3, <1>4

\* While no other link has been committed, what the request found still holds.
LinksChecked ==
    \A r \in Requests : Busy(r) /\ req[r].op = "link" /\ ~req[r].linked =>
        ~Reaches(deps, req[r].u, req[r].t)

CycleInv == "link" \in raced \/ (Acyclic(deps) /\ LinksChecked)

LEMMA CycleInit == Init => CycleInv
<1> SUFFICES ASSUME Init PROVE CycleInv
  OBVIOUS
<1>1. \A r \in Requests : ~Busy(r)
  BY DEF Init, Idle, Busy
<1> QED
  BY <1>1 DEF Init, CycleInv, LinksChecked

LEMMA CycleNext == TypeInv /\ CycleInv /\ [Next]_vars => CycleInv'
<1> SUFFICES ASSUME TypeInv, CycleInv, [Next]_vars, "link" \notin raced'
             PROVE  Acyclic(deps') /\ LinksChecked'
  BY DEF CycleInv
<1>r. "link" \notin raced
  BY RacedGrows
<1>0. Acyclic(deps) /\ LinksChecked
  BY <1>r DEF CycleInv
<1>1. CASE \E r \in Requests : ~Busy(r) /\ Begins(r)
  <2>1. PICK r \in Requests : ~Busy(r) /\ Begins(r)
    BY <1>1
  <2>2. PICK op, t, u, p, e :
          /\ Asked(r, op, t, u, p, e) /\ req'[r] = FreshRequest(op, t, u, p, e)
          /\ \A s \in Requests \ {r} : req'[s] = req[s]
          /\ UNCHANGED <<row, deps, kids, log, told, scan, raced>>
    BY <2>1, BeginIs
  <2>3. req'[r].op = "link" => ~Reaches(deps, req'[r].u, req'[r].t)
    BY <2>2 DEF Asked, FreshRequest
  <2> QED
    BY <1>0, <2>2, <2>3 DEF LinksChecked, Busy
<1>2. CASE \E r \in Requests : Flush(r)
  <2> PICK r \in Requests : Flush(r)
    BY <1>2
  <2>1. /\ \A x \in {"op", "t", "u", "linked"} : req'[r][x] = req[r][x]
        /\ \A s \in Requests \ {r} : req'[s] = req[s]
        /\ deps' = deps /\ req[r].stage = "begun"
    BY FlushIs
  <2> QED
    BY <1>0, <2>1 DEF LinksChecked, Busy
<1>3. CASE \E r \in Requests : Commit(r)
  <2> PICK r \in Requests : Commit(r)
    BY <1>3
  <2> DEFINE q == req[r]
  <2>1. /\ q \in Opens /\ q.stage = "flushed" /\ req'[r] = Idle
    BY CommitIs
  <2>2. q.t \in Tasks /\ q.u \in Tasks /\ Busy(r)
    BY <2>1 DEF Opens, Busy
  <2>3. q.op = "link" => ~q.linked
    <3>1. raced' = raced \cup Races(r, q)
      BY DEF Commit
    <3> QED
      BY <3>1 DEF Races
  <2>4. /\ q.op = "link" => deps' = deps \cup {<<q.t, q.u>>}
        /\ q.op # "link" => deps' \in SUBSET deps
    BY DEF Commit
  <2>5. Acyclic(deps')
    <3>1. CASE q.op = "link"
      <4>1. ~Reaches(deps, q.u, q.t)
        BY <1>0, <2>2, <2>3, <3>1 DEF LinksChecked
      <4> HIDE DEF q
      <4> QED
        BY <1>0, <2>2, <2>4, <3>1, <4>1, LinkClosesNothing DEF TypeInv
    <3>2. CASE q.op # "link"
      BY <1>0, <2>4, <3>2, FewerLinks
    <3> QED
      BY <3>1, <3>2
  <2>6. ASSUME NEW s \in Requests, Busy(s)', req'[s].op = "link", ~req'[s].linked
        PROVE  ~Reaches(deps', req'[s].u, req'[s].t)
    <3>1. s # r /\ Busy(s)
      BY <2>1, <2>6, CommitIs DEF Idle, Busy
    <3>2. /\ req'[s].op = req[s].op /\ req'[s].t = req[s].t /\ req'[s].u = req[s].u
          /\ req'[s].linked = (req[s].linked \/ q.op = "link")
      BY <3>1, CommitIs
    <3>3. q.op # "link" /\ ~req[s].linked
      BY <2>6, <3>2
    <3>4. ~Reaches(deps, req[s].u, req[s].t)
      BY <1>0, <2>6, <3>1, <3>2, <3>3 DEF LinksChecked
    <3> QED
      BY <2>4, <3>2, <3>3, <3>4, FewerLinks
  <2> QED
    BY <2>5, <2>6 DEF LinksChecked
<1>4. CASE \E r \in Requests : Abort(r)
  <2> PICK r \in Requests : Abort(r)
    BY <1>4
  <2>1. req'[r] = Idle /\ (\A s \in Requests \ {r} : req'[s] = req[s]) /\ deps' = deps
    BY AbortIs
  <2> QED
    BY <1>0, <2>1 DEF LinksChecked, Busy, Idle
<1>5. CASE Scan \/ ScanCommit
  BY <1>0, <1>5 DEF Scan, ScanCommit, LinksChecked, Busy
<1>6. CASE UNCHANGED vars
  BY <1>0, <1>6 DEF vars, LinksChecked, Busy
<1> QED
  BY <1>1, <1>2, <1>3, <1>4, <1>5, <1>6, Steps

\* However tasks are linked, unlinked and restored by undo, no cycle of
\* dependencies is ever committed, but by two requests that both add a link.
THEOREM NeverCyclic == Spec => []NoCycle
<1>1. TypeInv /\ CycleInv => NoCycle
  BY DEF CycleInv, NoCycle
<1>2. TypeInv /\ CycleInv /\ [Next]_vars => (TypeInv /\ CycleInv)'
  BY TypeNext, CycleNext
<1> QED
  BY <1>1, <1>2, TypeInit, CycleInit, PTL DEF Spec

-----------------------------------------------------------------------------
(* At most one next occurrence.                                               *)

\* Two requests that have flushed hold locks on different rows, and a request
\* that completes a task holds the lock on its row.
RowLocks ==
    /\ \A r, s \in Requests :
        r # s /\ req[r].stage = "flushed" /\ req[s].stage = "flushed" => ~Clash(req[r], req[s])
    /\ \A r \in Requests : Busy(r) /\ req[r].op = "complete" => req[r].patch # NoPatch

LEMMA LocksInit == Init => RowLocks
BY DEF Init, RowLocks, Idle, Busy

LEMMA LocksNext == TypeInv /\ RowLocks /\ [Next]_vars => RowLocks'
<1> SUFFICES ASSUME TypeInv, RowLocks, [Next]_vars PROVE RowLocks'
  OBVIOUS
<1>i. Idle.stage = "idle"
  BY DEF Idle
<1>s. \A p, q : Clash(p, q) => Clash(q, p)
  BY DEF Clash
<1>1. CASE \E r \in Requests : ~Busy(r) /\ Begins(r)
  <2>1. PICK r \in Requests : ~Busy(r) /\ Begins(r)
    BY <1>1
  <2>2. PICK op, t, u, p, e :
          /\ Asked(r, op, t, u, p, e) /\ req'[r] = FreshRequest(op, t, u, p, e)
          /\ t \in Tasks /\ row[t] \in Rows /\ p \in Typed /\ "version" \notin DOMAIN p
          /\ \A s \in Requests \ {r} : req'[s] = req[s]
    BY <2>1, BeginIs
  <2>3. req'[r].op = op /\ req'[r].stage = "begun" /\ req'[r].patch = Patch(row[t], p)
    BY <2>2 DEF FreshRequest
  <2>4. op = "complete" => Patch(row[t], p) # NoPatch
    <3>1. op = "complete" => DOMAIN p # {}
      BY <2>2 DEF Asked
    <3>2. DOMAIN p # {} => "version" \in DOMAIN Patch(row[t], p)
      BY <2>2, PatchIs
    <3> QED
      BY <3>1, <3>2, NoPatchTyped
  <2> QED
    BY <2>2, <2>3, <2>4 DEF RowLocks, Busy
<1>2. CASE \E r \in Requests : Flush(r)
  <2> PICK r \in Requests : Flush(r)
    BY <1>2
  <2>1. /\ \A x \in {"op", "t", "u", "patch"} : req'[r][x] = req[r][x]
        /\ \A s \in Requests \ {r} : /\ req'[s] = req[s]
                                     /\ req[s].stage = "flushed" => ~Clash(req[r], req[s])
        /\ req[r].stage = "begun"
    BY FlushIs
  <2>2. \A s : Clash(req'[r], s) <=> Clash(req[r], s)
    BY <2>1 DEF Clash
  <2> QED
    BY <2>1, <2>2, <1>s DEF RowLocks, Busy
<1>3. CASE \E r \in Requests : Commit(r)
  <2> PICK r \in Requests : Commit(r)
    BY <1>3
  <2>1. ASSUME NEW s \in Requests, Busy(s)'
        PROVE  s # r /\ Busy(s)
               /\ \A x \in {"stage", "op", "t", "u", "patch"} : req'[s][x] = req[s][x]
    <3>1. s # r /\ Busy(s)
      BY <2>1, <1>i, CommitIs DEF Busy
    <3> QED
      BY <3>1, CommitIs
  <2>2. \A s \in Requests : req'[s].stage = "flushed" => Busy(s)'
    BY DEF Busy
  <2>3. ASSUME NEW s \in Requests, NEW x \in Requests, Busy(s)', Busy(x)',
               Clash(req[s], req[x])'
        PROVE  Clash(req[s], req[x])
    BY <2>1, <2>3 DEF Clash
  <2> QED
    BY <2>1, <2>2, <2>3 DEF RowLocks
<1>4. CASE \E r \in Requests : Abort(r)
  <2> PICK r \in Requests : Abort(r)
    BY <1>4
  <2>1. req'[r] = Idle /\ (\A s \in Requests \ {r} : req'[s] = req[s])
    BY AbortIs
  <2> QED
    BY <2>1, <1>i DEF RowLocks, Busy
<1>5. CASE Scan \/ ScanCommit \/ UNCHANGED vars
  BY <1>5 DEF Scan, ScanCommit, vars, RowLocks, Busy
<1> QED
  BY <1>1, <1>2, <1>3, <1>4, <1>5, Steps

\* What a request and the scan know of a recurrence stays true while they are
\* open, and an occurrence about to be inserted is the task's first.
OccurrencesKnown ==
    /\ \A t \in Tasks : kids[t] <= 1
    /\ \A t \in scan : row[t].mode = "on_schedule" /\ kids[t] = 0
    /\ \A r \in Requests : Busy(r) =>
        /\ req[r].saw.mode = row[req[r].t].mode
        /\ \A t \in req[r].spawn :
            /\ t = req[r].t /\ req[r].stage = "flushed" /\ req[r].op = "complete"
            /\ req[r].saw.mode = "on_complete" /\ kids[t] = 0

OccurrenceInv == "mode" \in raced \/ OccurrencesKnown

LEMMA OccurrenceInit == Init => OccurrenceInv
BY DEF Init, OccurrenceInv, OccurrencesKnown, Idle, Busy

LEMMA OccurrenceNext == TypeInv /\ RowLocks /\ OccurrenceInv /\ [Next]_vars => OccurrenceInv'
<1> SUFFICES ASSUME TypeInv, RowLocks, OccurrenceInv, [Next]_vars, "mode" \notin raced'
             PROVE  OccurrencesKnown'
  BY DEF OccurrenceInv
<1>r. "mode" \notin raced
  BY RacedGrows
<1>0. OccurrencesKnown
  BY <1>r DEF OccurrenceInv
<1>i. Idle.stage = "idle"
  BY DEF Idle
<1>1. CASE \E r \in Requests : ~Busy(r) /\ Begins(r)
  <2>1. PICK r \in Requests : ~Busy(r) /\ Begins(r)
    BY <1>1
  <2>2. PICK op, t, u, p, e :
          /\ Asked(r, op, t, u, p, e) /\ req'[r] = FreshRequest(op, t, u, p, e)
          /\ \A s \in Requests \ {r} : req'[s] = req[s]
          /\ UNCHANGED <<row, deps, kids, log, told, scan, raced>>
    BY <2>1, BeginIs
  <2>3. req'[r].t = t /\ req'[r].saw = row[t] /\ req'[r].spawn = {}
    BY <2>2 DEF FreshRequest
  <2> QED
    BY <1>0, <2>2, <2>3 DEF OccurrencesKnown, Busy
<1>2. CASE \E r \in Requests : Flush(r)
  <2> PICK r \in Requests : Flush(r)
    BY <1>2
  <2> DEFINE q == req[r]
  <2>1. /\ \A x \in {"op", "t", "saw"} : req'[r][x] = q[x]
        /\ \A s \in Requests \ {r} : req'[s] = req[s]
        /\ UNCHANGED <<row, kids, scan>>
        /\ q.stage = "begun" /\ req'[r].stage = "flushed" /\ req'[r].spawn = NextOccurrence(q)
    BY FlushIs
  <2>2. \A t \in NextOccurrence(q) :
          t = q.t /\ q.op = "complete" /\ q.saw.mode = "on_complete" /\ kids[t] = 0
    BY DEF NextOccurrence
  <2>3. Busy(r)
    BY <2>1 DEF Busy
  <2>4. req'[r].saw.mode = row'[req'[r].t].mode
    BY <1>0, <2>1, <2>3 DEF OccurrencesKnown
  <2> QED
    BY <1>0, <2>1, <2>2, <2>4 DEF OccurrencesKnown, Busy
<1>3. CASE \E r \in Requests : Commit(r)
  <2> PICK r \in Requests : Commit(r)
    BY <1>3
  <2> DEFINE q == req[r]
             d == After(q.patch, row[q.t])
  <2>1. /\ q \in Opens /\ q.stage = "flushed" /\ req'[r] = Idle /\ q.t \in Tasks
        /\ row' = [row EXCEPT ![q.t] = d]
    BY CommitIs
  <2>2. Busy(r)
    BY <2>1 DEF Busy
  <2>3. kids' = [t \in Tasks |-> IF t \in q.spawn THEN kids[t] + 1 ELSE kids[t]] /\ scan' = scan
    BY DEF Commit
  <2>4. \A t \in q.spawn : /\ t = q.t /\ q.op = "complete" /\ row[t].mode = "on_complete"
                           /\ kids[t] = 0 /\ t \in Tasks
    BY <1>0, <2>1, <2>2 DEF OccurrencesKnown
  <2>5. \A t \in Tasks : kids'[t] <= 1
    BY <1>0, <2>3, <2>4 DEF OccurrencesKnown, TypeInv
  <2>6. ASSUME NEW t \in Tasks, \/ t \in scan \/ \E s \in Requests \ {r} : Busy(s)
        PROVE  row'[t].mode = row[t].mode
    <3>1. "mode" \notin DOMAIN q.patch
      <4>1. raced' = raced \cup Races(r, q)
        BY DEF Commit
      <4>2. "mode" \notin Races(r, q)
        BY <4>1
      <4> QED
        BY <2>6, <4>2 DEF Races
    <3>2. d.mode = row[q.t].mode
      BY <3>1 DEF After, Fields
    <3> HIDE DEF d
    <3> QED
      BY <2>1, <3>2 DEF TypeInv
  <2>7. \A t \in scan : row'[t].mode = "on_schedule" /\ kids'[t] = 0
    <3>1. scan \subseteq Tasks
      BY DEF TypeInv
    <3>2. \A t \in scan : t \notin q.spawn
      BY <1>0, <2>4 DEF OccurrencesKnown
    <3> QED
      BY <1>0, <2>3, <2>6, <3>1, <3>2 DEF OccurrencesKnown
  <2>8. ASSUME NEW s \in Requests, Busy(s)'
        PROVE  /\ req'[s].saw.mode = row'[req'[s].t].mode
               /\ \A t \in req'[s].spawn :
                    /\ t = req'[s].t /\ req'[s].stage = "flushed" /\ req'[s].op = "complete"
                    /\ req'[s].saw.mode = "on_complete" /\ kids'[t] = 0
    <3>1. s # r /\ Busy(s)
      BY <2>1, <2>8, <1>i, CommitIs DEF Busy
    <3>2. \A x \in {"stage", "op", "t", "saw", "spawn"} : req'[s][x] = req[s][x]
      BY <3>1, CommitIs
    <3>3. req[s].t \in Tasks /\ req[s].spawn \subseteq Tasks
      BY <3>1, BusyIsOpen DEF Opens
    <3>4. req'[s].saw.mode = row'[req'[s].t].mode
      BY <1>0, <2>6, <3>1, <3>2, <3>3 DEF OccurrencesKnown
    <3>5. ASSUME NEW t \in req[s].spawn PROVE kids'[t] = 0
      <4>1. t = req[s].t /\ req[s].stage = "flushed" /\ req[s].op = "complete" /\ kids[t] = 0
        BY <1>0, <3>1 DEF OccurrencesKnown
      <4>2. req[s].patch # NoPatch /\ ~Clash(q, req[s])
        BY <2>1, <3>1, <4>1 DEF RowLocks
      <4>3. t \notin q.spawn
        <5>1. q.op = "complete" => q.patch # NoPatch
          BY <2>2 DEF RowLocks
        <5> QED
          BY <2>4, <4>1, <4>2, <5>1 DEF Clash
      <4> QED
        BY <2>3, <3>3, <4>1, <4>3
    <3>6. \A t \in req[s].spawn :
            /\ t = req[s].t /\ req[s].stage = "flushed" /\ req[s].op = "complete"
            /\ req[s].saw.mode = "on_complete"
      BY <1>0, <3>1 DEF OccurrencesKnown
    <3> QED
      BY <3>2, <3>4, <3>5, <3>6
  <2> QED
    BY <2>3, <2>5, <2>7, <2>8 DEF OccurrencesKnown
<1>4. CASE \E r \in Requests : Abort(r)
  <2> PICK r \in Requests : Abort(r)
    BY <1>4
  <2>1. /\ req'[r] = Idle /\ (\A s \in Requests \ {r} : req'[s] = req[s])
        /\ UNCHANGED <<row, kids, scan>>
    BY AbortIs
  <2> QED
    BY <1>0, <1>i, <2>1 DEF OccurrencesKnown, Busy
<1>5. CASE Scan
  <2>1. /\ scan' = {t \in Tasks : row[t].mode = "on_schedule" /\ ~row[t].dead /\ kids[t] = 0}
        /\ UNCHANGED <<row, kids, req>>
    BY <1>5 DEF Scan
  <2> QED
    BY <1>0, <2>1 DEF OccurrencesKnown, Busy
<1>6. CASE ScanCommit
  <2>1. /\ scan' = {} /\ UNCHANGED <<row, req>>
        /\ kids' = [t \in Tasks |-> IF t \in scan THEN kids[t] + 1 ELSE kids[t]]
    BY <1>6 DEF ScanCommit
  <2>2. \A t \in Tasks : kids'[t] <= 1
    BY <1>0, <2>1 DEF OccurrencesKnown, TypeInv
  <2>3. ASSUME NEW r \in Requests, Busy(r), NEW t \in req[r].spawn PROVE kids'[t] = kids[t]
    <3>1. row[t].mode = "on_complete"
      BY <1>0, <2>3 DEF OccurrencesKnown
    <3>2. t \notin scan
      BY <1>0, <3>1 DEF OccurrencesKnown
    <3>3. t \in Tasks
      BY <2>3, BusyIsOpen DEF Opens
    <3> QED
      BY <2>1, <3>2, <3>3
  <2> QED
    BY <1>0, <2>1, <2>2, <2>3 DEF OccurrencesKnown, Busy
<1>7. CASE UNCHANGED vars
  BY <1>0, <1>7 DEF vars, OccurrencesKnown, Busy
<1> QED
  BY <1>1, <1>2, <1>3, <1>4, <1>5, <1>6, <1>7, Steps

\* A recurring task never gets a second next occurrence from completions,
\* reopenings, their undos and the nightly scan, unless its recurrence is edited
\* under another open transaction.
THEOREM OccursOnce == Spec => []OneOccurrence
<1> DEFINE Inv == TypeInv /\ RowLocks /\ OccurrenceInv
<1>1. Inv => OneOccurrence
  BY DEF OccurrenceInv, OccurrencesKnown, OneOccurrence
<1>2. Init => Inv
  BY TypeInit, LocksInit, OccurrenceInit
<1>3. Inv /\ [Next]_vars => Inv'
  BY TypeNext, LocksNext, OccurrenceNext
<1> QED
  BY <1>1, <1>2, <1>3, PTL DEF Spec

-----------------------------------------------------------------------------
(* Hand-offs.                                                                 *)

\* Nothing waits for itself, and a completion that has looked tells those who
\* were ready then, which they still are if nobody committed since.
HandOffInv ==
    /\ \A t \in Tasks : <<t, t>> \notin deps
    /\ \A r \in Requests : Busy(r) /\ req[r].op = "link" => req[r].t # req[r].u
    /\ \A r \in Requests :
        req[r].stage = "flushed" /\ req[r].op = "complete" /\ ~req[r].late =>
            req[r].tell = Ready(req[r].t)

LEMMA HandOffInit == Init => HandOffInv
<1> SUFFICES ASSUME Init PROVE HandOffInv
  OBVIOUS
<1>1. ASSUME NEW t \in Tasks PROVE <<t, t>> \notin deps
  <2>1. Acyclic(deps)
    BY DEF Init
  <2>2. {t} \in (SUBSET Tasks) \ {{}}
    OBVIOUS
  <2>3. \E x \in {t} : \A y \in {t} : <<x, y>> \notin deps
    BY <2>1, <2>2 DEF Acyclic
  <2> QED
    BY <2>3
<1>2. \A r \in Requests : ~Busy(r) /\ req[r].stage # "flushed"
  BY DEF Init, Idle, Busy
<1> QED
  BY <1>1, <1>2 DEF HandOffInv

\* Whom a task's completion frees depends on the rows and the links only.
LEMMA SameReady ==
    ASSUME row' = row, deps' = deps PROVE \A t : Ready(t)' = Ready(t)
BY DEF Ready, IsOpen

LEMMA HandOffNext == TypeInv /\ HandOffInv /\ [Next]_vars => HandOffInv'
<1> SUFFICES ASSUME TypeInv, HandOffInv, [Next]_vars PROVE HandOffInv'
  OBVIOUS
<1>i. Idle.stage = "idle"
  BY DEF Idle
<1>l. \A r \in Requests : req[r].stage = "flushed" => Busy(r)
  BY DEF Busy
<1>1. CASE \E r \in Requests : ~Busy(r) /\ Begins(r)
  <2>1. PICK r \in Requests : ~Busy(r) /\ Begins(r)
    BY <1>1
  <2>2. PICK op, t, u, p, e :
          /\ Asked(r, op, t, u, p, e) /\ req'[r] = FreshRequest(op, t, u, p, e)
          /\ \A s \in Requests \ {r} : req'[s] = req[s]
          /\ UNCHANGED <<row, deps, kids, log, told, scan, raced>>
    BY <2>1, BeginIs
  <2>3. req'[r].stage = "begun" /\ (req'[r].op = "link" => req'[r].t # req'[r].u)
    BY <2>2 DEF FreshRequest, Asked
  <2>4. \A x : Ready(x)' = Ready(x)
    BY <2>2, SameReady
  <2>5. \A s \in Requests :
          req'[s].stage = "flushed" /\ req'[s].op = "complete" /\ ~req'[s].late =>
              req'[s].tell = Ready(req[s].t)'
    BY <2>2, <2>3, <2>4 DEF HandOffInv
  <2> QED
    BY <2>2, <2>3, <2>5 DEF HandOffInv, Busy
<1>2. CASE \E r \in Requests : Flush(r)
  <2> PICK r \in Requests : Flush(r)
    BY <1>2
  <2>1. /\ \A x \in {"op", "t", "u"} : req'[r][x] = req[r][x]
        /\ \A s \in Requests \ {r} : req'[s] = req[s]
        /\ UNCHANGED <<row, deps>> /\ req[r].stage = "begun"
        /\ req'[r].tell = IF req[r].op = "complete" THEN Ready(req[r].t) ELSE {}
    BY FlushIs
  <2>2. \A x : Ready(x)' = Ready(x)
    BY <2>1, SameReady
  <2>3. ASSUME NEW s \in Requests, req'[s].stage = "flushed", req'[s].op = "complete",
               ~req'[s].late
        PROVE  req'[s].tell = Ready(req[s].t)'
    <3>1. CASE s = r
      <4>1. req'[r].tell = Ready(req[r].t)
        BY <2>1, <2>3, <3>1
      <4> QED
        BY <4>1, <2>1, <2>2, <3>1
    <3>2. CASE s # r
      <4>1. req[s].tell = Ready(req[s].t) /\ req'[s] = req[s]
        BY <2>1, <2>3, <3>2 DEF HandOffInv
      <4> QED
        BY <4>1, <2>2
    <3> QED
      BY <3>1, <3>2
  <2> QED
    BY <2>1, <2>3 DEF HandOffInv, Busy
<1>3. CASE \E r \in Requests : Commit(r)
  <2> PICK r \in Requests : Commit(r)
    BY <1>3
  <2> DEFINE q == req[r]
  <2>1. q \in Opens /\ q.stage = "flushed" /\ req'[r] = Idle /\ Busy(r)
    BY CommitIs, <1>l
  <2>2. deps' = IF q.op = "link" THEN deps \cup {<<q.t, q.u>>}
                ELSE IF q.op = "unlink" THEN deps \ {<<q.t, q.u>>} ELSE deps
    BY DEF Commit
  <2>3. \A t \in Tasks : <<t, t>> \notin deps'
    <3>1. q.op = "link" => q.t # q.u
      BY <2>1 DEF HandOffInv
    <3> HIDE DEF q
    <3> QED
      BY <2>2, <3>1 DEF HandOffInv
  <2>4. ASSUME NEW s \in Requests, Busy(s)'
        PROVE  /\ s # r /\ Busy(s) /\ req'[s].late = (req[s].late \/ req[s].stage = "flushed")
               /\ \A x \in {"stage", "op", "t", "u"} : req'[s][x] = req[s][x]
    <3>1. s # r /\ Busy(s)
      BY <2>1, <2>4, <1>i, CommitIs DEF Busy
    <3> QED
      BY <3>1, CommitIs
  <2>5. ASSUME NEW s \in Requests, req'[s].stage = "flushed" PROVE req'[s].late
    <3>1. Busy(s)'
      BY <2>5 DEF Busy
    <3> QED
      BY <2>4, <2>5, <3>1
  <2>6. ASSUME NEW s \in Requests, Busy(s)', req'[s].op = "link" PROVE req'[s].t # req'[s].u
    BY <2>4, <2>6 DEF HandOffInv
  <2> QED
    BY <2>3, <2>5, <2>6 DEF HandOffInv
<1>4. CASE \E r \in Requests : Abort(r)
  <2> PICK r \in Requests : Abort(r)
    BY <1>4
  <2>1. /\ req'[r] = Idle /\ (\A s \in Requests \ {r} : req'[s] = req[s])
        /\ UNCHANGED <<row, deps>>
    BY AbortIs
  <2>2. \A x : Ready(x)' = Ready(x)
    BY <2>1, SameReady
  <2>3. \A s \in Requests :
          req'[s].stage = "flushed" /\ req'[s].op = "complete" /\ ~req'[s].late =>
              req'[s].tell = Ready(req[s].t)'
    BY <1>i, <2>1, <2>2 DEF HandOffInv
  <2> QED
    BY <1>i, <2>1, <2>3 DEF HandOffInv, Busy
<1>5. CASE Scan \/ ScanCommit \/ UNCHANGED vars
  <2>1. UNCHANGED <<row, deps, req>>
    BY <1>5 DEF Scan, ScanCommit, vars
  <2>2. \A x : Ready(x)' = Ready(x)
    BY <2>1, SameReady
  <2>3. \A s \in Requests :
          req'[s].stage = "flushed" /\ req'[s].op = "complete" /\ ~req'[s].late =>
              req'[s].tell = Ready(req[s].t)'
    BY <2>1, <2>2 DEF HandOffInv
  <2> QED
    BY <2>1, <2>3 DEF HandOffInv, Busy
<1> QED
  BY <1>1, <1>2, <1>3, <1>4, <1>5, Steps

LEMMA HandOffStep ==
    ASSUME TypeInv, HandOffInv, [Next]_vars, NEW r \in Requests,
           req[r].stage = "flushed", req[r].op = "complete", ~req[r].late,
           req'[r].stage = "idle", ~row[req[r].t].done, row'[req[r].t].done
    PROVE  told' = {u \in Tasks : <<u, req[r].t>> \in deps' /\ (IsOpen(u) /\ ~Blocked(u))'}
<1> DEFINE t == req[r].t
<1>1. Commit(r)
  <2>1. row' # row
    OBVIOUS
  <2>2. ~(Scan \/ ScanCommit \/ UNCHANGED vars)
    BY <2>1 DEF Scan, ScanCommit, vars
  <2>3. \A s \in Requests : ~(~Busy(s) /\ Begins(s))
    <3>1. \A s \in Requests : ~Busy(s) /\ Begins(s) => row' = row
      BY BeginIs
    <3> QED
      BY <2>1, <3>1
  <2>4. \A s \in Requests : ~Flush(s) /\ ~Abort(s)
    BY <2>1 DEF Flush, Abort
  <2>5. PICK s \in Requests : Commit(s)
    BY <2>2, <2>3, <2>4, Steps
  <2>6. s = r
    <3>1. CASE s # r
      <4>1. Busy(r)
        BY DEF Busy
      <4>2. req'[r].stage = req[r].stage
        BY <2>5, <3>1, <4>1, CommitIs
      <4> QED
        BY <4>2
    <3> QED
      BY <3>1
  <2> QED
    BY <2>5, <2>6
<1>2. told' = Ready(t) /\ deps' = deps
  BY <1>1 DEF Commit, HandOffInv
<1>3. t \in Tasks /\ \A w \in Tasks : w # t => row'[w] = row[w]
  <2> DEFINE d == After(req[r].patch, row[t])
  <2>1. t \in Tasks /\ row' = [row EXCEPT ![t] = d]
    BY <1>1, CommitIs
  <2> HIDE DEF d, t
  <2> QED
    BY <2>1 DEF TypeInv
<1>4. \A w \in Tasks : IsOpen(w)' <=> w # t /\ IsOpen(w)
  BY <1>3 DEF IsOpen
<1>5. <<t, t>> \notin deps
  BY <1>3 DEF HandOffInv
<1>6. ASSUME NEW u \in Tasks
      PROVE  u \in Ready(t) <=> <<u, t>> \in deps' /\ (IsOpen(u) /\ ~Blocked(u))'
  <2>1. Blocked(u)' <=> \E w \in Tasks : <<u, w>> \in deps /\ w # t /\ IsOpen(w)
    BY <1>2, <1>4 DEF Blocked
  <2>2. IsOpen(u)' <=> u # t /\ IsOpen(u)
    BY <1>4
  <2> HIDE DEF t
  <2>3. u \in Ready(t) <=> /\ <<u, t>> \in deps /\ IsOpen(u)
                           /\ \A w \in Tasks : <<u, w>> \in deps /\ w # t => ~IsOpen(w)
    BY DEF Ready
  <2> QED
    BY <1>2, <1>5, <2>1, <2>2, <2>3
<1>7. Ready(t) \subseteq Tasks
  BY DEF Ready
<1> QED
  BY <1>2, <1>6, <1>7

\* A completion whose look no other commit has overtaken tells exactly the tasks
\* that its commit leaves open and unblocked, whatever else they waited for.
THEOREM HandsOff == Spec => HandOffReaches
<1> DEFINE Inv == TypeInv /\ HandOffInv
<1>1. Inv /\ [Next]_vars =>
        [\A r \in Requests :
            (req[r].stage = "flushed" /\ req[r].op = "complete" /\ ~req[r].late
                /\ req'[r].stage = "idle" /\ ~row[req[r].t].done /\ row'[req[r].t].done)
            => told' = {u \in Tasks : <<u, req[r].t>> \in deps'
                                        /\ (IsOpen(u) /\ ~Blocked(u))'}]_vars
  BY HandOffStep
<1>2. Init => Inv
  BY TypeInit, HandOffInit
<1>3. Inv /\ [Next]_vars => Inv'
  BY TypeNext, HandOffNext
<1> QED
  BY <1>1, <1>2, <1>3, PTL DEF Spec, HandOffReaches

-----------------------------------------------------------------------------
(* Undo.                                                                      *)

\* A request or an entry of the log was made by a change of its own.
Change(c) == \E p \in Typed : "version" \notin DOMAIN p /\ Fits(c.op, p, c.saw)
                              /\ c.patch = Patch(c.saw, p)

\* The request q was made to undo the entry c.
Undoes(q, c) == \E p \in Typed : /\ "version" \notin DOMAIN p /\ q.patch = Patch(q.saw, p)
                                 /\ Reverses(c, q.op, q.t, q.u, p, q.saw)

Origins ==
    /\ \A e \in 1 .. Len(log) : Change(log[e])
    /\ \A r \in Requests : Busy(r) =>
        IF req[r].undoes = 0 THEN Change(req[r]) ELSE Undoes(req[r], log[req[r].undoes])

\* They depend on what never changes in a request or an entry.
LEMMA SameChange ==
    ASSUME NEW c, NEW d, \A x \in {"op", "patch", "saw"} : c[x] = d[x]
    PROVE  Change(c) => Change(d)
BY DEF Change

LEMMA SameUndoes ==
    ASSUME NEW q, NEW z, \A x \in {"op", "t", "u", "patch", "saw"} : q[x] = z[x],
           NEW c, NEW d, \A x \in {"op", "t", "u", "patch", "saw"} : c[x] = d[x]
    PROVE  Undoes(q, c) => Undoes(z, d)
<1>1. /\ q.op = z.op /\ q.t = z.t /\ q.u = z.u /\ q.patch = z.patch /\ q.saw = z.saw
      /\ c.op = d.op /\ c.t = d.t /\ c.u = d.u /\ c.patch = d.patch /\ c.saw = d.saw
  OBVIOUS
<1>2. ASSUME NEW p, Reverses(c, q.op, q.t, q.u, p, q.saw)
      PROVE  Reverses(d, z.op, z.t, z.u, p, z.saw)
  BY <1>1, <1>2 DEF Reverses
<1> QED
  BY <1>1, <1>2 DEF Undoes

LEMMA OriginsInit == Init => Origins
BY DEF Init, Origins, Idle, Busy

LEMMA OriginsNext == TypeInv /\ Origins /\ [Next]_vars => Origins'
<1> SUFFICES ASSUME TypeInv, Origins, [Next]_vars PROVE Origins'
  OBVIOUS
<1>i. Idle.stage = "idle"
  BY DEF Idle
<1>1. CASE \E r \in Requests : ~Busy(r) /\ Begins(r)
  <2>1. PICK r \in Requests : ~Busy(r) /\ Begins(r)
    BY <1>1
  <2>2. PICK op, t, u, p, e :
          /\ Asked(r, op, t, u, p, e) /\ req'[r] = FreshRequest(op, t, u, p, e)
          /\ p \in Typed /\ "version" \notin DOMAIN p
          /\ \A s \in Requests \ {r} : req'[s] = req[s]
          /\ UNCHANGED <<row, deps, kids, log, told, scan, raced>>
    BY <2>1, BeginIs
  <2> DEFINE z == req'[r]
  <2>3. /\ z.op = op /\ z.t = t /\ z.u = u /\ z.saw = row[t] /\ z.undoes = e
        /\ z.patch = Patch(row[t], p)
    BY <2>2 DEF FreshRequest
  <2> HIDE DEF z
  <2>4. IF z.undoes = 0 THEN Change(z) ELSE Undoes(z, log[z.undoes])
    <3>1. CASE e = 0
      <4>1. Fits(op, p, row[t])
        BY <2>2, <3>1 DEF Asked
      <4> QED
        BY <2>2, <2>3, <3>1, <4>1 DEF Change
    <3>2. CASE e # 0
      <4>1. Reverses(log[e], op, t, u, p, row[t])
        BY <2>2, <3>2 DEF Asked
      <4> QED
        BY <2>2, <2>3, <3>2, <4>1 DEF Undoes
    <3> QED
      BY <3>1, <3>2
  <2>5. ASSUME NEW s \in Requests, Busy(s)'
        PROVE  IF req'[s].undoes = 0 THEN Change(req'[s]) ELSE Undoes(req'[s], log[req'[s].undoes])
    <3>1. CASE s = r
      BY <2>4, <3>1 DEF z
    <3>2. CASE s # r
      BY <2>2, <2>5, <3>2 DEF Origins, Busy
    <3> QED
      BY <3>1, <3>2
  <2>6. log' = log
    BY <2>2
  <2> QED
    BY <2>5, <2>6 DEF Origins
<1>2. CASE \E r \in Requests : Flush(r)
  <2> PICK r \in Requests : Flush(r)
    BY <1>2
  <2>1. /\ \A x \in {"op", "t", "u", "patch", "saw", "undoes"} : req'[r][x] = req[r][x]
        /\ \A s \in Requests \ {r} : req'[s] = req[s]
        /\ log' = log /\ req[r].stage = "begun"
    BY FlushIs
  <2>2. Busy(r)
    BY <2>1 DEF Busy
  <2>3. IF req[r].undoes = 0 THEN Change(req[r]) ELSE Undoes(req[r], log[req[r].undoes])
    BY <2>2 DEF Origins
  <2>4. IF req'[r].undoes = 0 THEN Change(req'[r]) ELSE Undoes(req'[r], log[req'[r].undoes])
    <3>1. req'[r].undoes = req[r].undoes
      BY <2>1
    <3>2. \A x \in {"op", "t", "u", "patch", "saw"} : req[r][x] = req'[r][x]
      BY <2>1
    <3> QED
      BY <2>3, <3>1, <3>2, SameChange, SameUndoes
  <2>5. ASSUME NEW s \in Requests, Busy(s)'
        PROVE  IF req'[s].undoes = 0 THEN Change(req'[s]) ELSE Undoes(req'[s], log[req'[s].undoes])
    <3>1. CASE s = r
      BY <2>4, <3>1
    <3>2. CASE s # r
      BY <2>1, <2>5, <3>2 DEF Origins, Busy
    <3> QED
      BY <3>1, <3>2
  <2> QED
    BY <2>1, <2>5 DEF Origins
<1>3. CASE \E r \in Requests : Commit(r)
  <2> PICK r \in Requests : Commit(r)
    BY <1>3
  <2>1. req[r] \in Opens /\ req[r].stage = "flushed" /\ req'[r] = Idle
    BY CommitIs
  <2>2. Busy(r) /\ req[r].undoes \in 0 .. Len(log) /\ Len(log) \in Nat
    BY <2>1 DEF Busy, TypeInv
  <2>3. Len(log') >= Len(log) /\ \A e \in 1 .. Len(log) :
          \A x \in {"op", "t", "u", "patch", "saw"} : log'[e][x] = log[e][x]
    BY <2>2, CommitLog
  <2>4. ASSUME NEW e \in 1 .. Len(log) PROVE Change(log'[e])
    <3>1. Change(log[e])
      BY DEF Origins
    <3>2. \A x \in {"op", "patch", "saw"} : log[e][x] = log'[e][x]
      BY <2>3
    <3> QED
      BY <3>1, <3>2, SameChange
  <2>5. ASSUME NEW e \in 1 .. Len(log') PROVE Change(log'[e])
    <3>1. CASE e \in 1 .. Len(log)
      BY <2>4, <3>1
    <3>2. CASE e \notin 1 .. Len(log)
      <4>1. req[r].undoes = 0 /\ e = Len(log')
        BY <2>2, <3>2, CommitLog
      <4>2. \A x \in {"op", "patch", "saw"} : req[r][x] = log'[e][x]
        BY <4>1, CommitLog
      <4>3. Change(req[r])
        BY <2>2, <4>1 DEF Origins
      <4> QED
        BY <4>2, <4>3, SameChange
    <3> QED
      BY <3>1, <3>2
  <2>6. ASSUME NEW s \in Requests, Busy(s)'
        PROVE  IF req'[s].undoes = 0 THEN Change(req'[s]) ELSE Undoes(req'[s], log'[req'[s].undoes])
    <3>1. s # r /\ Busy(s)
      BY <2>1, <2>6, <1>i, CommitIs DEF Busy
    <3>2. \A x \in {"op", "t", "u", "patch", "saw", "undoes"} : req[s][x] = req'[s][x]
      BY <3>1, CommitIs
    <3>3. req[s].undoes \in 0 .. Len(log)
      BY <3>1 DEF TypeInv
    <3>4. CASE req[s].undoes = 0
      <4>1. Change(req[s])
        BY <3>1, <3>4 DEF Origins
      <4> QED
        BY <3>2, <3>4, <4>1, SameChange
    <3>5. CASE req[s].undoes # 0
      <4> DEFINE e == req[s].undoes
      <4>1. Undoes(req[s], log[e])
        BY <3>1, <3>5 DEF Origins
      <4>2. \A x \in {"op", "t", "u", "patch", "saw"} : log[e][x] = log'[e][x]
        BY <2>3, <3>3, <3>5
      <4>3. Undoes(req'[s], log'[e])
        BY <3>2, <4>1, <4>2, SameUndoes
      <4> QED
        BY <3>2, <3>5, <4>3
    <3> QED
      BY <3>4, <3>5
  <2> QED
    BY <2>5, <2>6 DEF Origins
<1>4. CASE \E r \in Requests : Abort(r)
  <2> PICK r \in Requests : Abort(r)
    BY <1>4
  <2>1. req'[r] = Idle /\ (\A s \in Requests \ {r} : req'[s] = req[s]) /\ log' = log
    BY AbortIs
  <2> QED
    BY <1>i, <2>1 DEF Origins, Busy
<1>5. CASE Scan \/ ScanCommit \/ UNCHANGED vars
  BY <1>5 DEF Scan, ScanCommit, vars, Origins, Busy
<1> QED
  BY <1>1, <1>2, <1>3, <1>4, <1>5, Steps

\* The version tells what a row holds: as long as no two requests have written
\* over each other, a row with the version that a change left is as the change
\* left it, and a row with the version that a request read is as it read it.
VersionsTell ==
    /\ \A e \in 1 .. Len(log) : LET c == log[e] IN
        c.patch # NoPatch =>
            /\ c.patch.version <= row[c.t].version
            /\ c.patch.version = row[c.t].version => row[c.t] = After(c.patch, c.saw)
    /\ \A r \in Requests : Busy(r) => LET q == req[r] IN
        /\ q.saw.version <= row[q.t].version
        /\ q.saw.version = row[q.t].version => row[q.t] = q.saw
        /\ q.undoes # 0 => LET c == log[q.undoes] IN
            c.patch # NoPatch =>
                /\ c.patch.version <= q.saw.version
                /\ c.patch.version = q.saw.version => q.saw = After(c.patch, c.saw)

VersionInv == "row" \in raced \/ VersionsTell

LEMMA VersionInit == Init => VersionInv
BY DEF Init, VersionInv, VersionsTell, Idle, Busy

\* A patch that is not empty has the version after the one it was made from.
LEMMA NextVersion ==
    ASSUME NEW p \in Typed, "version" \notin DOMAIN p, NEW w \in Rows, Patch(w, p) # NoPatch
    PROVE  /\ Patch(w, p) \in Typed /\ "version" \in DOMAIN Patch(w, p)
           /\ Patch(w, p).version = w.version + 1
           /\ After(Patch(w, p), w).version = w.version + 1
<1>1. DOMAIN p # {}
  BY PatchIs
<1>2. Patch(w, p).version = w.version + 1 /\ "version" \in DOMAIN Patch(w, p)
  BY <1>1, PatchIs
<1>3. After(Patch(w, p), w).version = w.version + 1
  BY <1>2 DEF After, Fields
<1> QED
  BY <1>2, <1>3, PatchIs

LEMMA NextVersionOf ==
    ASSUME TypeInv, Origins, NEW r \in Requests, Busy(r), req[r].patch # NoPatch
    PROVE  /\ "version" \in DOMAIN req[r].patch /\ req[r].patch.version = req[r].saw.version + 1
           /\ After(req[r].patch, req[r].saw).version = req[r].saw.version + 1
<1>1. req[r] \in Opens /\ req[r].saw \in Rows
  BY BusyIsOpen DEF Opens
<1>2. PICK p \in Typed : "version" \notin DOMAIN p /\ req[r].patch = Patch(req[r].saw, p)
  BY DEF Origins, Change, Undoes
<1> QED
  BY <1>1, <1>2, NextVersion

LEMMA SameRow ==
    ASSUME NEW w \in Rows PROVE After(NoPatch, w) = w
<1>1. w = [f \in Fields |-> w[f]]
  BY DEF Fields, Rows
<1> QED
  BY <1>1, NoPatchTyped DEF After

\* A commit that races with nothing leaves its row as the request wrote it.
LEMMA CommitWrites ==
    ASSUME TypeInv, Origins, VersionsTell, NEW r \in Requests, Commit(r), "row" \notin raced'
    PROVE  LET q == req[r] IN
           /\ q.t \in Tasks /\ Busy(r) /\ q.saw \in Rows
           /\ \A t \in Tasks : t # q.t \/ q.patch = NoPatch => row'[t] = row[t]
           /\ q.patch # NoPatch =>
                /\ row[q.t] = q.saw /\ row'[q.t] = After(q.patch, q.saw)
                /\ q.patch.version = q.saw.version + 1 /\ row'[q.t].version = q.saw.version + 1
<1> DEFINE q == req[r]
           d == After(q.patch, row[q.t])
<1>1. q \in Opens /\ q.stage = "flushed" /\ q.t \in Tasks /\ row' = [row EXCEPT ![q.t] = d]
  BY CommitIs
<1>2. Busy(r) /\ q.saw \in Rows /\ row[q.t] \in Rows
  BY <1>1 DEF Busy, Opens, TypeInv
<1>3. row'[q.t] = d /\ \A t \in Tasks : t # q.t => row'[t] = row[t]
  <2> HIDE DEF d, q
  <2> QED
    BY <1>1 DEF TypeInv
<1>4. CASE q.patch = NoPatch
  <2>1. d = row[q.t]
    BY <1>2, <1>4, SameRow
  <2> QED
    BY <1>1, <1>2, <1>3, <1>4, <2>1
<1>5. CASE q.patch # NoPatch
  <2>1. row[q.t].version = q.saw.version
    <3>1. raced' = raced \cup Races(r, q)
      BY DEF Commit
    <3> QED
      BY <1>5, <3>1 DEF Races
  <2>2. row[q.t] = q.saw
    BY <1>2, <2>1 DEF VersionsTell
  <2>3. q.patch.version = q.saw.version + 1 /\ d.version = q.saw.version + 1
    BY <1>2, <1>5, <2>2, NextVersionOf
  <2> QED
    BY <1>1, <1>2, <1>3, <1>5, <2>2, <2>3
<1> QED
  BY <1>4, <1>5

LEMMA VersionNext == TypeInv /\ Origins /\ VersionInv /\ [Next]_vars => VersionInv'
<1> SUFFICES ASSUME TypeInv, Origins, VersionInv, [Next]_vars, "row" \notin raced'
             PROVE  VersionsTell'
  BY DEF VersionInv
<1>0. VersionsTell
  BY RacedGrows DEF VersionInv
<1>i. Idle.stage = "idle"
  BY DEF Idle
<1>l. ASSUME NEW e \in 1 .. Len(log)
      PROVE  log[e].t \in Tasks /\ log[e].patch \in Typed /\ log[e].saw \in Rows
             /\ (log[e].patch # NoPatch => log[e].patch.version \in Nat)
  <2>1. log[e] \in Entries
    BY DEF TypeInv
  <2>2. log[e].t \in Tasks /\ log[e].patch \in Typed /\ log[e].saw \in Rows
    BY <2>1 DEF Entries
  <2>3. PICK p \in Typed : "version" \notin DOMAIN p /\ log[e].patch = Patch(log[e].saw, p)
    BY DEF Origins, Change
  <2>4. log[e].patch # NoPatch => log[e].patch.version \in Nat
    BY <2>2, <2>3, NextVersion DEF Rows
  <2> QED
    BY <2>2, <2>4
<1>n. \A t \in Tasks : row[t].version \in Nat
  BY DEF TypeInv, Rows
<1>1. CASE \E r \in Requests : ~Busy(r) /\ Begins(r)
  <2>1. PICK r \in Requests : ~Busy(r) /\ Begins(r)
    BY <1>1
  <2>2. PICK op, t, u, p, e :
          /\ Asked(r, op, t, u, p, e) /\ req'[r] = FreshRequest(op, t, u, p, e)
          /\ t \in Tasks /\ e \in 0 .. Len(log)
          /\ \A s \in Requests \ {r} : req'[s] = req[s]
          /\ UNCHANGED <<row, deps, kids, log, told, scan, raced>>
    BY <2>1, BeginIs
  <2>3. req'[r].t = t /\ req'[r].saw = row[t] /\ req'[r].undoes = e
    BY <2>2 DEF FreshRequest
  <2>4. e # 0 => log[e].t = t /\ e \in 1 .. Len(log)
    BY <2>2 DEF Asked, Reverses
  <2>5. e # 0 /\ log[e].patch # NoPatch =>
          /\ log[e].patch.version <= row[t].version
          /\ log[e].patch.version = row[t].version => row[t] = After(log[e].patch, log[e].saw)
    BY <1>0, <2>4 DEF VersionsTell
  <2>6. ASSUME NEW s \in Requests, Busy(s)'
        PROVE  LET q == req'[s] IN
               /\ q.saw.version <= row[q.t].version
               /\ q.saw.version = row[q.t].version => row[q.t] = q.saw
               /\ q.undoes # 0 => LET c == log[q.undoes] IN
                    c.patch # NoPatch =>
                        /\ c.patch.version <= q.saw.version
                        /\ c.patch.version = q.saw.version => q.saw = After(c.patch, c.saw)
    <3>1. CASE s = r
      BY <1>n, <2>2, <2>3, <2>5, <3>1
    <3>2. CASE s # r
      <4>1. req'[s] = req[s] /\ Busy(s)
        BY <2>2, <2>6, <3>2 DEF Busy
      <4> QED
        BY <1>0, <4>1 DEF VersionsTell
    <3> QED
      BY <3>1, <3>2
  <2>7. row' = row /\ log' = log
    BY <2>2
  <2> QED
    BY <1>0, <2>6, <2>7 DEF VersionsTell
<1>2. CASE \E r \in Requests : Flush(r)
  <2> PICK r \in Requests : Flush(r)
    BY <1>2
  <2>1. /\ \A x \in {"t", "saw", "undoes"} : req'[r][x] = req[r][x]
        /\ \A s \in Requests \ {r} : req'[s] = req[s]
        /\ row' = row /\ log' = log /\ req[r].stage = "begun"
    BY FlushIs
  <2>2. \A s \in Requests : /\ Busy(s)' => Busy(s)
                            /\ req'[s].t = req[s].t /\ req'[s].saw = req[s].saw
                            /\ req'[s].undoes = req[s].undoes
    BY <2>1 DEF Busy
  <2> QED
    BY <1>0, <2>1, <2>2 DEF VersionsTell
<1>3. CASE \E r \in Requests : Commit(r)
  <2> PICK r \in Requests : Commit(r)
    BY <1>3
  <2> DEFINE q == req[r]
  <2>1. req'[r] = Idle
    BY CommitIs
  <2>2. /\ q.t \in Tasks /\ Busy(r) /\ q.saw \in Rows
        /\ \A t \in Tasks : t # q.t \/ q.patch = NoPatch => row'[t] = row[t]
        /\ q.patch # NoPatch =>
             /\ row[q.t] = q.saw /\ row'[q.t] = After(q.patch, q.saw)
             /\ q.patch.version = q.saw.version + 1 /\ row'[q.t].version = q.saw.version + 1
    BY <1>0, CommitWrites
  <2>3. q.undoes \in 0 .. Len(log) /\ Len(log) \in Nat
    BY <2>2 DEF TypeInv
  <2>4. \A e \in 1 .. Len(log) :
          \A x \in {"op", "t", "u", "patch", "saw"} : log'[e][x] = log[e][x]
    BY <2>3, CommitLog
  <2> HIDE DEF q
  \* A row that changes gets a version above any that was known of it.
  <2>5. ASSUME NEW t \in Tasks, NEW v \in Nat, v <= row[t].version
        PROVE  /\ v <= row'[t].version
               /\ v = row'[t].version => row'[t] = row[t] /\ v = row[t].version
    <3>1. CASE t # q.t \/ q.patch = NoPatch
      BY <2>2, <2>5, <3>1
    <3>2. CASE t = q.t /\ q.patch # NoPatch
      <4>1. row[t].version = q.saw.version /\ row'[t].version = q.saw.version + 1
            /\ q.saw.version \in Nat
        BY <1>n, <2>2, <3>2
      <4> QED
        BY <2>5, <4>1
    <3> QED
      BY <3>1, <3>2
  <2>6. ASSUME NEW e \in 1 .. Len(log'), log'[e].patch # NoPatch
        PROVE  /\ log'[e].patch.version <= row'[log'[e].t].version
               /\ log'[e].patch.version = row'[log'[e].t].version =>
                    row'[log'[e].t] = After(log'[e].patch, log'[e].saw)
    <3>1. CASE e \in 1 .. Len(log)
      <4> DEFINE c == log[e]
      <4>1. log'[e].t = c.t /\ log'[e].patch = c.patch /\ log'[e].saw = c.saw
        BY <2>4, <3>1
      <4>2. /\ c.patch.version <= row[c.t].version
            /\ c.patch.version = row[c.t].version => row[c.t] = After(c.patch, c.saw)
        BY <1>0, <2>6, <3>1, <4>1 DEF VersionsTell
      <4>3. c.t \in Tasks /\ c.patch.version \in Nat
        BY <1>l, <2>6, <3>1, <4>1
      <4> HIDE DEF c
      <4>4. /\ c.patch.version <= row'[c.t].version
            /\ c.patch.version = row'[c.t].version => row'[c.t] = row[c.t]
                                                     /\ c.patch.version = row[c.t].version
        BY <2>5, <4>2, <4>3
      <4> QED
        BY <4>1, <4>2, <4>4
    <3>2. CASE e \notin 1 .. Len(log)
      <4>1. q.undoes = 0 /\ e = Len(log')
        BY <2>3, <3>2, CommitLog DEF q
      <4>2. log'[e].t = q.t /\ log'[e].patch = q.patch /\ log'[e].saw = q.saw
        BY <4>1, CommitLog DEF q
      <4>3. q.saw.version + 1 \in Nat
        BY <2>2 DEF Rows
      <4> QED
        BY <2>2, <2>6, <4>2, <4>3
    <3> QED
      BY <3>1, <3>2
  <2>7. ASSUME NEW s \in Requests, Busy(s)'
        PROVE  LET z == req'[s] IN
               /\ z.saw.version <= row'[z.t].version
               /\ z.saw.version = row'[z.t].version => row'[z.t] = z.saw
               /\ z.undoes # 0 => LET c == log'[z.undoes] IN
                    c.patch # NoPatch =>
                        /\ c.patch.version <= z.saw.version
                        /\ c.patch.version = z.saw.version => z.saw = After(c.patch, c.saw)
    <3>1. s # r /\ Busy(s)
      BY <2>1, <2>7, <1>i, CommitIs DEF Busy
    <3> DEFINE z == req[s]
    <3>2. req'[s].saw = z.saw /\ req'[s].t = z.t /\ req'[s].undoes = z.undoes
      BY <3>1, CommitIs
    <3>3. /\ z.saw.version <= row[z.t].version
          /\ z.saw.version = row[z.t].version => row[z.t] = z.saw
          /\ z.undoes # 0 => LET c == log[z.undoes] IN
                c.patch # NoPatch =>
                    /\ c.patch.version <= z.saw.version
                    /\ c.patch.version = z.saw.version => z.saw = After(c.patch, c.saw)
      BY <1>0, <3>1 DEF VersionsTell
    <3>4. z \in Opens /\ z.undoes \in 0 .. Len(log)
      BY <3>1, BusyIsOpen DEF TypeInv
    <3>5. z.t \in Tasks /\ z.saw.version \in Nat
      BY <3>4 DEF Opens, Rows
    <3> HIDE DEF z
    <3>6. /\ z.saw.version <= row'[z.t].version
          /\ z.saw.version = row'[z.t].version => row'[z.t] = row[z.t]
                                                 /\ z.saw.version = row[z.t].version
      BY <2>5, <3>3, <3>5
    <3>7. z.undoes # 0 => /\ log'[z.undoes].patch = log[z.undoes].patch
                          /\ log'[z.undoes].saw = log[z.undoes].saw
      BY <2>4, <3>4
    <3> QED
      BY <3>2, <3>3, <3>6, <3>7
  <2> QED
    BY <2>6, <2>7 DEF VersionsTell
<1>4. CASE \E r \in Requests : Abort(r)
  <2> PICK r \in Requests : Abort(r)
    BY <1>4
  <2>1. req'[r] = Idle /\ (\A s \in Requests \ {r} : req'[s] = req[s]) /\ log' = log /\ row' = row
    BY AbortIs
  <2> QED
    BY <1>0, <1>i, <2>1 DEF VersionsTell, Busy
<1>5. CASE Scan \/ ScanCommit \/ UNCHANGED vars
  <2>1. req' = req /\ log' = log /\ row' = row
    BY <1>5 DEF Scan, ScanCommit, vars
  <2> QED
    BY <1>0, <2>1 DEF VersionsTell, Busy
<1> QED
  BY <1>1, <1>2, <1>3, <1>4, <1>5, Steps

\* What an undo assigns to a row that is as the change left it is what the
\* change found there.
LEMMA Restores ==
    ASSUME NEW c, c.saw \in Rows, Change(c), Proper(c.saw), NEW w \in Rows,
           w = After(c.patch, c.saw), NEW p \in Typed, "version" \notin DOMAIN p,
           NEW op, NEW t, NEW u, Reverses(c, op, t, u, p, w), c.patch # NoPatch
    PROVE  \A f \in Fields \ {"version"} : After(Patch(w, p), w)[f] = c.saw[f]
<1>1. PICK o \in Typed : "version" \notin DOMAIN o /\ Fits(c.op, o, c.saw) /\ c.patch = Patch(c.saw, o)
  BY DEF Change
<1> SUFFICES ASSUME NEW f \in Fields \ {"version"} PROVE After(Patch(w, p), w)[f] = c.saw[f]
  OBVIOUS
<1> DEFINE was == c.saw
<1>2. After(Patch(w, p), w)[f] = IF f \in DOMAIN p THEN p[f] ELSE w[f]
  <2>1. After(Patch(w, p), w)[f] = IF f \in DOMAIN Patch(w, p) THEN Patch(w, p)[f] ELSE w[f]
    BY DEF After
  <2>2. DOMAIN Patch(w, p) \subseteq DOMAIN p \cup {"version"}
    BY PatchIs
  <2>3. f \in DOMAIN Patch(w, p) => Patch(w, p)[f] = p[f]
    BY PatchIs
  <2>4. f \in DOMAIN p /\ f \notin DOMAIN Patch(w, p) => p[f] = w[f]
    BY PatchIs
  <2> QED
    BY <2>1, <2>2, <2>3, <2>4
<1>3. w[f] = IF f \in DOMAIN o THEN o[f] ELSE was[f]
  <2>1. w[f] = IF f \in DOMAIN Patch(was, o) THEN Patch(was, o)[f] ELSE was[f]
    BY <1>1 DEF After
  <2>2. DOMAIN Patch(was, o) \subseteq DOMAIN o \cup {"version"}
    BY <1>1, PatchIs
  <2>3. f \in DOMAIN Patch(was, o) => Patch(was, o)[f] = o[f]
    BY <1>1, PatchIs
  <2>4. f \in DOMAIN o /\ f \notin DOMAIN Patch(was, o) => o[f] = was[f]
    BY <1>1, PatchIs
  <2> QED
    BY <2>1, <2>2, <2>3, <2>4
<1>4. was.done \in BOOLEAN /\ was.dead \in BOOLEAN /\ was.type \in {"task", "approval"}
  BY DEF Rows
<1>e. c.patch = [g \in DOMAIN c.patch |-> c.patch[g]] /\ DOMAIN c.patch \subseteq DOMAIN o \cup {"version"}
      /\ \A g \in DOMAIN o : g \notin DOMAIN c.patch => o[g] = was[g]
  BY <1>1, PatchIs, PatchFields
<1>w. \A g \in Fields \ {"version"} : w[g] = IF g \in DOMAIN o THEN o[g] ELSE was[g]
  <2> TAKE g \in Fields \ {"version"}
  <2>1. w[g] = IF g \in DOMAIN Patch(was, o) THEN Patch(was, o)[g] ELSE was[g]
    BY <1>1 DEF After
  <2>3. g \in DOMAIN Patch(was, o) => Patch(was, o)[g] = o[g] /\ g \in DOMAIN o
    BY <1>1, PatchIs
  <2>4. g \in DOMAIN o /\ g \notin DOMAIN Patch(was, o) => o[g] = was[g]
    BY <1>1, PatchIs
  <2> QED
    BY <2>1, <2>3, <2>4
<1> HIDE DEF was
<1>5. CASE c.op = "complete"
  <2>1. o = [done |-> TRUE] /\ ~was.done
    BY <1>1, <1>5 DEF Fits, was
  <2>2. w["done"] = TRUE
    BY <1>w, <2>1 DEF Fields
  <2>3. p = [done |-> FALSE]
    BY <1>5, <2>2 DEF Reverses
  <2>4. was["done"] = FALSE /\ DOMAIN p = {"done"} /\ p["done"] = FALSE
    BY <1>4, <2>1, <2>3
  <2>5. CASE f = "done"
    BY <1>2, <2>4, <2>5 DEF was
  <2>6. CASE f # "done"
    BY <1>2, <1>3, <2>1, <2>4, <2>6 DEF was
  <2> QED
    BY <2>5, <2>6
<1>6. CASE c.op = "reopen"
  <2>1. o = [done |-> FALSE] /\ was.done
    BY <1>1, <1>6 DEF Fits, was
  <2>2. w["done"] = FALSE
    BY <1>w, <2>1 DEF Fields
  <2>3. p = [done |-> TRUE]
    BY <1>6, <2>2 DEF Reverses
  <2>4. was["done"] = TRUE /\ DOMAIN p = {"done"} /\ p["done"] = TRUE
    BY <1>4, <2>1, <2>3
  <2>5. CASE f = "done"
    BY <1>2, <2>4, <2>5 DEF was
  <2>6. CASE f # "done"
    BY <1>2, <1>3, <2>1, <2>4, <2>6 DEF was
  <2> QED
    BY <2>5, <2>6
<1>7. CASE c.op = "decide"
  <2>1. DOMAIN o \subseteq {"verdict", "done"} /\ was.verdict = "pending"
    BY <1>1, <1>7 DEF Fits, was
  <2>2. p = [verdict |-> "pending", done |-> was.done]
    BY <1>7 DEF Reverses, was
  <2> QED
    BY <1>2, <1>3, <2>1, <2>2 DEF was
<1>8. CASE c.op = "convert"
  <2>1. DOMAIN o = {"type", "verdict"} /\ o.type # was.type
    BY <1>1, <1>8 DEF Fits, was
  <2>2. w["type"] # was.type
    BY <1>w, <2>1 DEF Fields
  <2>3. p = [type |-> was.type, verdict |-> IF was.type = "task" THEN "none"
                                           ELSE IF was.verdict = "none" THEN "pending"
                                           ELSE was.verdict]
    BY <1>8, <2>2 DEF Reverses, was
  <2>4. p.type = was.type /\ p.verdict = was.verdict /\ DOMAIN p = {"type", "verdict"}
    BY <1>4, <2>3 DEF Proper, was
  <2> QED
    BY <1>2, <1>3, <2>1, <2>4 DEF was
<1>9. CASE c.op = "edit"
  <2>1. \/ \A g \in DOMAIN c.patch \ {"version"} : was[g] = w[g]
        \/ p = [g \in DOMAIN c.patch \ {"version"} |-> was[g]]
    BY <1>9 DEF Reverses, was
  <2>2. CASE p = [g \in DOMAIN c.patch \ {"version"} |-> was[g]]
    BY <1>2, <1>3, <1>e, <2>2 DEF was
  <2>3. CASE p # [g \in DOMAIN c.patch \ {"version"} |-> was[g]]
    <3>1. \A g \in DOMAIN c.patch \ {"version"} : was[g] = w[g]
      BY <2>1, <2>3
    <3>2. p = NoPatch
      BY <1>9, <2>3 DEF Reverses, was
    <3>3. f \notin DOMAIN p
      BY <3>2, NoPatchTyped
    <3> QED
      BY <1>2, <1>3, <1>e, <3>1, <3>3 DEF was
  <2> QED
    BY <2>2, <2>3
<1>10. CASE c.op = "delete"
  <2>1. o = [dead |-> TRUE] /\ ~was.dead
    BY <1>1, <1>10 DEF Fits, was
  <2>2. p = [dead |-> FALSE]
    BY <1>10 DEF Reverses
  <2>3. was["dead"] = FALSE /\ DOMAIN p = {"dead"} /\ p["dead"] = FALSE
    BY <1>4, <2>1, <2>2
  <2>4. CASE f = "dead"
    BY <1>2, <2>3, <2>4 DEF was
  <2>5. CASE f # "dead"
    BY <1>2, <1>3, <2>1, <2>3, <2>5 DEF was
  <2> QED
    BY <2>4, <2>5
<1>11. CASE c.op \in {"link", "unlink"}
  <2>1. o = NoPatch
    BY <1>1, <1>11 DEF Fits
  <2>2. c.patch = NoPatch
    BY <1>1, <2>1, NoPatchTyped, PatchIs
  <2> QED
    BY <2>2
<1> QED
  BY <1>1, <1>5, <1>6, <1>7, <1>8, <1>9, <1>10, <1>11 DEF Fits

\* Only the commit of its undo marks an entry as undone.
LEMMA OnlyUndoMarks ==
    ASSUME TypeInv, [Next]_vars, NEW e \in 1 .. Len(log), ~log[e].undone, log'[e].undone
    PROVE  \E r \in Requests : Commit(r) /\ req[r].undoes = e
<1>1. log' # log
  OBVIOUS
<1>2. ~(Scan \/ ScanCommit \/ UNCHANGED vars)
  BY <1>1 DEF Scan, ScanCommit, vars
<1>3. \A s \in Requests : ~(~Busy(s) /\ Begins(s))
  <2>1. \A s \in Requests : ~Busy(s) /\ Begins(s) => log' = log
    BY BeginIs
  <2> QED
    BY <1>1, <2>1
<1>4. \A s \in Requests : ~Flush(s) /\ ~Abort(s)
  BY <1>1 DEF Flush, Abort
<1>5. PICK r \in Requests : Commit(r)
  BY <1>2, <1>3, <1>4, Steps
<1>6. req[r].undoes = e
  <2>1. req[r].undoes = 0 => log'[e] = log[e]
    BY <1>5, CommitLog
  <2>2. req[r].undoes # 0 /\ e # req[r].undoes => log'[e] = log[e]
    BY <1>5, CommitLog
  <2> QED
    BY <2>1, <2>2
<1> QED
  BY <1>5, <1>6

LEMMA UndoStep ==
    ASSUME TypeInv, Origins, VersionInv, [Next]_vars,
           NEW e \in 1 .. Len(log), ~log[e].undone, log'[e].undone, "row" \notin raced'
    PROVE  LET c == log[e] IN
           /\ c.patch # NoPatch /\ Proper(c.saw) /\ row[c.t].version = c.patch.version =>
                \A f \in Fields \ {"version"} : row'[c.t][f] = c.saw[f]
           /\ c.op = "link" => <<c.t, c.u>> \notin deps'
           /\ c.op = "unlink" => <<c.t, c.u>> \in deps'
           /\ c.op = "edit" => \A f \in DOMAIN c.patch : row[c.t][f] = c.patch[f]
<1> PICK r \in Requests : Commit(r) /\ req[r].undoes = e
  BY OnlyUndoMarks
<1> DEFINE q == req[r]
           c == log[e]
<1>0. VersionsTell
  BY RacedGrows DEF VersionInv
<1>1. /\ q.t \in Tasks /\ Busy(r) /\ q.saw \in Rows
      /\ \A t \in Tasks : t # q.t \/ q.patch = NoPatch => row'[t] = row[t]
      /\ q.patch # NoPatch => row[q.t] = q.saw /\ row'[q.t] = After(q.patch, q.saw)
  BY <1>0, CommitWrites
<1>2. c.t \in Tasks /\ c.patch \in Typed /\ c.saw \in Rows /\ Change(c) /\ e # 0
  <2>1. c \in Entries
    BY DEF TypeInv
  <2> QED
    BY <2>1 DEF Entries, Origins
<1>3. PICK p \in Typed : /\ "version" \notin DOMAIN p /\ q.patch = Patch(q.saw, p)
                         /\ Reverses(c, q.op, q.t, q.u, p, q.saw)
  BY <1>1, <1>2 DEF Origins, Undoes
<1>4. q.t = c.t
  BY <1>3 DEF Reverses
<1>5. c.patch # NoPatch =>
        /\ c.patch.version <= q.saw.version /\ q.saw.version <= row[c.t].version
        /\ c.patch.version = q.saw.version => q.saw = After(c.patch, c.saw)
        /\ q.saw.version = row[c.t].version => row[c.t] = q.saw
  BY <1>0, <1>1, <1>2, <1>4 DEF VersionsTell
<1>6. q.saw.version \in Nat /\ row[c.t].version \in Nat /\ row[c.t] \in Rows
  BY <1>1, <1>2 DEF TypeInv, Rows
<1>7. PICK o \in Typed : "version" \notin DOMAIN o /\ Fits(c.op, o, c.saw) /\ c.patch = Patch(c.saw, o)
  BY <1>2 DEF Change
<1>8. c.patch # NoPatch => c.patch.version \in Nat
  BY <1>2, <1>7, NextVersion DEF Rows
<1> HIDE DEF c, q
<1>9. ASSUME c.patch # NoPatch, Proper(c.saw), row[c.t].version = c.patch.version,
             NEW f \in Fields \ {"version"}
      PROVE  row'[c.t][f] = c.saw[f]
  <2>1. q.saw = After(c.patch, c.saw) /\ row[c.t] = q.saw
    BY <1>5, <1>6, <1>8, <1>9
  <2>2. After(q.patch, q.saw)[f] = c.saw[f]
    <3> DEFINE w == q.saw
               op == q.op
               t == q.t
               u == q.u
    <3>1. /\ c.saw \in Rows /\ Change(c) /\ Proper(c.saw) /\ w \in Rows
          /\ w = After(c.patch, c.saw) /\ "version" \notin DOMAIN p
          /\ Reverses(c, op, t, u, p, w) /\ c.patch # NoPatch
      BY <1>1, <1>2, <1>3, <1>9, <2>1
    <3> HIDE DEF w, op, t, u
    <3>2. \A g \in Fields \ {"version"} : After(Patch(w, p), w)[g] = c.saw[g]
      BY <3>1, Restores
    <3> QED
      BY <1>3, <3>2 DEF w
  <2>3. row'[c.t] = After(q.patch, q.saw)
    <3>1. CASE q.patch = NoPatch
      BY <1>1, <1>2, <2>1, <3>1, SameRow
    <3>2. CASE q.patch # NoPatch
      BY <1>1, <1>4, <3>2
    <3> QED
      BY <3>1, <3>2
  <2> QED
    BY <2>2, <2>3
<1>10. deps' = IF q.op = "link" THEN deps \cup {<<q.t, q.u>>}
               ELSE IF q.op = "unlink" THEN deps \ {<<q.t, q.u>>} ELSE deps
  BY DEF Commit, q
<1>11. c.op = "link" => <<c.t, c.u>> \notin deps'
  <2>1. c.op = "link" => q.op = "unlink" /\ q.t = c.t /\ q.u = c.u
    BY <1>3 DEF Reverses
  <2> QED
    BY <1>10, <2>1
<1>12. c.op = "unlink" => <<c.t, c.u>> \in deps'
  <2>1. c.op = "unlink" => q.op = "link" /\ q.t = c.t /\ q.u = c.u
    BY <1>3 DEF Reverses
  <2> QED
    BY <1>10, <2>1
<1>13. ASSUME c.op = "edit", NEW f \in DOMAIN c.patch PROVE row[c.t][f] = c.patch[f]
  \* An edit wrote something that was not there.
  <2>1. PICK g \in DOMAIN o : o[g] # c.saw[g]
    BY <1>7, <1>13 DEF Fits
  <2>2. c.patch # NoPatch /\ g \in DOMAIN c.patch \ {"version"} /\ c.patch[g] # c.saw[g]
    <3>1. DOMAIN o # {} => "version" \in DOMAIN c.patch
      BY <1>2, <1>7, PatchIs
    <3>2. \A h \in DOMAIN o : h \notin DOMAIN c.patch => o[h] = c.saw[h]
      BY <1>2, <1>7, PatchIs
    <3>3. \A h \in DOMAIN c.patch \ {"version"} : c.patch[h] = o[h]
      BY <1>2, <1>7, PatchIs
    <3> QED
      BY <1>7, <2>1, <3>1, <3>2, <3>3, NoPatchTyped
  \* The undo began on the row as the edit left it, so it had something to write.
  <2>3. q.saw.version = c.patch.version /\ q.saw = After(c.patch, c.saw)
    BY <1>3, <1>5, <1>13, <2>2 DEF Reverses
  <2>4. DOMAIN c.patch \subseteq Fields
    BY <1>2, PatchFields
  <2>5. q.saw[g] = c.patch[g]
    BY <2>2, <2>3, <2>4 DEF After
  <2>6. p = [h \in DOMAIN c.patch \ {"version"} |-> c.saw[h]]
    BY <1>3, <1>13, <2>2, <2>5 DEF Reverses
  <2>7. q.patch # NoPatch
    <3>1. DOMAIN p # {}
      BY <2>2, <2>6
    <3> QED
      BY <1>1, <1>3, <3>1, PatchIs, NoPatchTyped
  <2>8. row[c.t] = q.saw
    BY <1>1, <1>4, <2>7
  <2> QED
    BY <2>3, <2>4, <2>8 DEF After
<1> QED
  BY <1>9, <1>11, <1>12, <1>13 DEF c

\* Taking a change back is exact wherever nothing else has written since, in any
\* sequence of changes and undos of any length, by requests that overlap but do
\* not write over each other: the rows, the links, and the check of an edit.
THEOREM UndoIsSound == Spec => UndoSound
<1> DEFINE Inv == TypeInv /\ Origins /\ VersionInv
<1>1. Inv /\ [Next]_vars =>
        [\A e \in 1 .. Len(log) : LET c == log[e] IN
            (~c.undone /\ log'[e].undone /\ "row" \notin raced') =>
            /\ c.patch # NoPatch /\ Proper(c.saw) /\ row[c.t].version = c.patch.version =>
                \A f \in Fields \ {"version"} : row'[c.t][f] = c.saw[f]
            /\ c.op = "link" => <<c.t, c.u>> \notin deps'
            /\ c.op = "unlink" => <<c.t, c.u>> \in deps'
            /\ c.op = "edit" => \A f \in DOMAIN c.patch : row[c.t][f] = c.patch[f]]_vars
  BY UndoStep
<1>2. Init => Inv
  BY TypeInit, OriginsInit, VersionInit
<1>3. Inv /\ [Next]_vars => Inv'
  BY TypeNext, OriginsNext, VersionNext
<1> QED
  BY <1>1, <1>2, <1>3, PTL DEF Spec, UndoSound

-----------------------------------------------------------------------------
(* Where tasks are.                                                           *)

Born(t) == life[t] # "unborn"
Gone    == unmade \cup collided \cup left
Makes   == {"create", "subtask"}

-----------------------------------------------------------------------------
(* What a request has decided.                                                *)

PayloadOK(c) ==
    /\ c.op = "move_back" => c.t \in TaskIds /\ c.old \in Spots
    /\ c.op = "parent_back" =>
        /\ c.t \in TaskIds /\ c.old \in Ups /\ c.old.up \in TaskIds /\ c.old.up < c.t
        /\ c.placed <=> c.expect.up = None
    /\ c.op = "remove" => c.t \in TaskIds /\ c.p \in Projects
    /\ c.op = "add_back" => c.t \in TaskIds /\ c.old \in Spots
    /\ c.op \in {"restore_task", "unmake_task"} => c.t \in TaskIds
    /\ c.op \in {"restore_section", "unmake_section"} => c.s \in Sections
    /\ c.op = "restore_section" =>
        c.killed \subseteq TaskIds /\ \A m \in c.moved : m.t \in TaskIds /\ m.pos \in Keys

LogInv ==
    /\ trail \in Seq({trail[i] : i \in DOMAIN trail})
    /\ \A i \in DOMAIN trail : /\ trail[i] = [undo |-> trail[i].undo, undone |-> trail[i].undone]
                               /\ PayloadOK(trail[i].undo)

TypedWrites(q) ==
    /\ \A x \in q.w.ins \cup q.w.upd : x.spot \in Spots /\ x.p = ProjectOf[x.spot.sec]
    /\ \A x \in q.w.ins \cup q.w.par : x.t \in TaskIds
    /\ \A x \in q.w.par : x.at \in Ups /\ (x.at.up # None => x.at.up < x.t)
    /\ q.w.del \subseteq TaskIds \X Projects
    /\ \A t \in DOMAIN q.w.tasks : t \in TaskIds /\ q.w.tasks[t] \in {"live", "dead"}
    /\ \A s \in DOMAIN q.w.secs : s \in Sections /\ q.w.secs[s] \in {"live", "dead"}
    /\ q.undoes \in Nat /\ (q.undoes = 0 => PayloadOK(q.undo))

\* It writes tasks that there are, or makes them, the next one in the order.
Grounded(q) ==
    /\ \A x \in q.w.ins \cup q.w.par : Born(x.t) \/ x.t \in DOMAIN q.w.tasks
    /\ \A t \in DOMAIN q.w.tasks :
        /\ IF q.op \in Makes THEN t \in Rehomed(q.w) ELSE Born(t)
        /\ \A u \in 1 .. t - 1 : Born(u)

\* The home a task will have if it is still where the request saw it.
NewPlaced(q, t) ==
    (SawPlaced(q, t) \cup {x.p : x \in {y \in q.w.ins : y.t = t}}) \ {p \in Projects : <<t, p>> \in q.w.del}
NewUp(q, t, u) ==
    IF \A x \in q.w.par : x.t # t THEN u = q.saw.parent[t].up
    ELSE \E x \in q.w.par : x.t = t /\ u = IF x.stays THEN q.saw.parent[t].up ELSE x.at.up
Replaces(q, t) == q.undoes # 0 /\ t \in {x.t : x \in q.w.ins} /\ q.saw.parent[t].up # None
HomeSound(q) ==
    \A t \in Rehomed(q.w) \ clashed : \A u \in TaskIds \cup {None} : NewUp(q, t, u) =>
        /\ u = None => NewPlaced(q, t) # {}
        /\ NewPlaced(q, t) # {} => u = None \/ t \in strays \/ Replaces(q, t)

\* It puts tasks into sections it saw or raises, or that a parent was left in.
RowsLit(q) ==
    \A x \in q.w.ins \cup q.w.upd :
        \/ q.saw.slife[x.spot.sec] = "live" \/ x.spot.sec \in Gone
        \/ x.spot.sec \in DOMAIN q.w.secs /\ q.w.secs[x.spot.sec] = "live"

\* A section it deletes is emptied, unless it undoes its creation.
Moves(q, t, p, s) ==
    /\ \E x \in q.w.upd : x.t = t /\ x.p = p
    /\ \A x \in q.w.ins \cup q.w.upd : x.t = t /\ x.p = p => ~x.stays /\ x.spot.sec # s
Emptied(q, s) ==
    \A t \in TaskIds : SawMember(q, t, s) =>
        \/ t \in DOMAIN q.w.tasks /\ q.w.tasks[t] = "dead"
        \/ Moves(q, t, ProjectOf[s], s)
SecsEmptied(q) ==
    \A s \in DOMAIN q.w.secs :
        q.w.secs[s] = "live" \/ q.op = "unmake_section" \/ (q.op = "drop_section" /\ Emptied(q, s))

\* A task of one project that it restores is in a section it saw.
Repaired(q, t) ==
    \A p \in Projects : q.saw.parent[t].up = None /\ SawPlaced(q, t) = {p} =>
        \/ q.saw.slife[q.saw.place[t][p].sec] = "live"
        \/ Moves(q, t, p, q.saw.place[t][p].sec)
Repairs(q) ==
    \A t \in DOMAIN q.w.tasks : q.w.tasks[t] = "live" =>
        q.op \in Makes \cup {"raise_section"} \/ (q.op = "restore" /\ Repaired(q, t))

Decided(q) ==
    TypedWrites(q) /\ Grounded(q) /\ HomeSound(q) /\ RowsLit(q) /\ SecsEmptied(q) /\ Repairs(q)

ReqInv ==
    /\ DOMAIN sess = Sessions
    /\ \A q \in {sess[r] : r \in Sessions} \ {None} : Decided(q)

-----------------------------------------------------------------------------
(* The tasks.                                                                 *)

BirthInv ==
    /\ \A t \in TaskIds : ~Born(t) => parent[t].up = None /\ PlacedIn(t) = {}
    /\ \A t, u \in TaskIds : u < t /\ Born(t) => Born(u)

IInv == PlaceTypeOK /\ LogInv /\ ReqInv /\ BirthInv /\ Homes /\ InSight

-----------------------------------------------------------------------------
(* The chain of ancestors.  That the recursive function exists is shown by a  *)
(* least counterexample: a parent is older than its child.                    *)

LEMMA LeastNat ==
    ASSUME NEW T \in SUBSET Nat, T # {}
    PROVE  \E n \in T : \A m \in T : n <= m
<1>. DEFINE R == OpToRel(<, Nat)
<1>1. IsWellFoundedOn(R, Nat) BY NatLessThanWellFounded
<1>. HIDE DEF R
<1>2. PICK n \in T : \A m \in T : ~(<<m, n>> \in R) BY <1>1, WFMin
<1>3. ASSUME NEW m \in T PROVE n <= m
  <2>1. ~(<<m, n>> \in R) BY <1>2
  <2>2. ~(m < n) BY <2>1 DEF R, OpToRel
  <2>. QED BY <2>2
<1>. QED BY <1>2, <1>3

LEMMA AboveIs ==
    ASSUME PlaceTypeOK, NEW t \in TaskIds
    PROVE  Above[t] = IF parent[t].up = None THEN {} ELSE {parent[t].up} \cup Above[parent[t].up]
<1>. DEFINE Body(g, u) == IF parent[u].up = None THEN {} ELSE {parent[u].up} \cup g[parent[u].up]
            Good(g, n) == \A u \in 1 .. n : g[u] = Body(g, u)
            T == {n \in 0 .. NumTasks : ~\E g : Good(g, n)}
<1>0. NumTasks \in Nat /\ \A u \in TaskIds : parent[u].up = None \/ (parent[u].up \in TaskIds /\ parent[u].up < u)
    BY PlacementAssumption DEF PlaceTypeOK, Ups
<1>1. T = {}
  <2>1. SUFFICES ASSUME T # {} PROVE FALSE OBVIOUS
  <2>2. PICK n \in T : \A m \in T : n <= m
    <3>1. T \in SUBSET Nat BY <1>0
    <3>. HIDE DEF T
    <3>. QED BY <2>1, <3>1, LeastNat
  <2>3. n \in 0 .. NumTasks /\ ~\E g : Good(g, n) BY <2>2
  <2>4. n # 0
    <3>1. Good(<<>>, 0) OBVIOUS
    <3>. QED BY <2>3, <3>1
  <2>5. n - 1 \in 0 .. NumTasks /\ n - 1 \notin T
    <3>1. n - 1 \in 0 .. NumTasks /\ ~(n <= n - 1) BY <1>0, <2>3, <2>4
    <3>. HIDE DEF T
    <3>. QED BY <2>2, <3>1
  <2>6. PICK g : Good(g, n - 1) BY <2>5
  <2>. DEFINE h == [u \in 1 .. n |-> IF u = n THEN Body(g, n) ELSE g[u]]
  <2>7. ASSUME NEW u \in 1 .. n PROVE h[u] = Body(h, u)
    <3>1. u \in TaskIds /\ n \in TaskIds BY <1>0, <2>3, <2>4 DEF TaskIds
    <3>2. parent[u].up # None => parent[u].up \in 1 .. n - 1 /\ parent[u].up \in TaskIds
        BY <1>0, <2>3, <3>1 DEF TaskIds
    <3>3. Body(h, u) = Body(g, u)
      <4>1. CASE parent[u].up = None BY <4>1
      <4>2. CASE parent[u].up # None
        <5>1. parent[u].up \in 1 .. n /\ parent[u].up # n BY <2>3, <2>4, <3>2, <4>2
        <5>2. h[parent[u].up] = g[parent[u].up] BY <5>1
        <5>. QED BY <5>2
      <4>. QED BY <4>1, <4>2
    <3>4. h[u] = Body(g, u)
      <4>1. CASE u = n BY <4>1
      <4>2. CASE u # n
        <5>1. u \in 1 .. n - 1 BY <2>3, <4>2
        <5>. QED BY <2>6, <4>2, <5>1
      <4>. QED BY <4>1, <4>2
    <3>. QED BY <3>3, <3>4
  <2>8. Good(h, n) BY <2>7
  <2>. QED BY <2>3, <2>8
<1>2. PICK g : Good(g, NumTasks)
  <2>1. NumTasks \in 0 .. NumTasks /\ NumTasks \notin T
    <3>. HIDE DEF T
    <3>. QED BY <1>0, <1>1
  <2>. QED BY <2>1
<1>. DEFINE f == [u \in TaskIds |-> g[u]]
<1>3. f = [u \in TaskIds |-> IF parent[u].up = None THEN {} ELSE {parent[u].up} \cup f[parent[u].up]]
  <2>1. ASSUME NEW u \in TaskIds
        PROVE  g[u] = IF parent[u].up = None THEN {} ELSE {parent[u].up} \cup f[parent[u].up]
      BY <1>0, <1>2 DEF TaskIds
  <2>. QED BY <2>1
<1>4. Above = [u \in TaskIds |-> IF parent[u].up = None THEN {} ELSE {parent[u].up} \cup Above[parent[u].up]]
  <2>. HIDE DEF f
  <2>. QED BY <1>3 DEF Above
<1>. QED BY <1>4

\* A visible task's parent is live.
LEMMA ParentSeen ==
    ASSUME PlaceTypeOK, NEW t \in TaskIds, Visible(t), parent[t].up # None
    PROVE  life[parent[t].up] = "live"
BY AboveIs DEF Visible, HasVisibleChain, Ancestors

-----------------------------------------------------------------------------
(* Begin: whatever a request decides is sound, as far as it can see.          *)

Now == [life |-> life, slife |-> slife, place |-> place, parent |-> parent]
Request(op, w, undo, e) == [op |-> op, w |-> w, undo |-> undo, undoes |-> e, saw |-> Now]

LEMMA SawIs ==
    ASSUME NEW op, NEW w, NEW undo, NEW e, NEW q, q = Request(op, w, undo, e)
    PROVE  /\ q.op = op /\ q.w = w /\ q.undo = undo /\ q.undoes = e
           /\ q.saw.life = life /\ q.saw.slife = slife /\ q.saw.place = place /\ q.saw.parent = parent
           /\ \A t \in TaskIds : SawPlaced(q, t) = PlacedIn(t)
           /\ \A t \in TaskIds, s \in Sections : SawMember(q, t, s) => t \in Members(s)
<1>1. /\ q.op = op /\ q.w = w /\ q.undo = undo /\ q.undoes = e
      /\ q.saw.life = life /\ q.saw.slife = slife /\ q.saw.place = place /\ q.saw.parent = parent
    BY DEF Request, Now
<1>. QED BY <1>1 DEF SawPlaced, PlacedIn, SawMember, Members

LEMMA NothingIs ==
    /\ Nothing.ins = {} /\ Nothing.upd = {} /\ Nothing.del = {} /\ Nothing.par = {}
    /\ DOMAIN Nothing.tasks = {} /\ DOMAIN Nothing.secs = {}
    /\ Nothing = [ins |-> Nothing.ins, upd |-> Nothing.upd, del |-> Nothing.del, par |-> Nothing.par,
                  tasks |-> Nothing.tasks, secs |-> Nothing.secs]
BY DEF Nothing

\* What is immediate for a request that writes nothing of some kind.
LEMMA NothingOpen ==
    ASSUME NEW q
    PROVE  /\ q.w.ins = {} /\ q.w.par = {} /\ q.w.del = {} => HomeSound(q)
           /\ q.w.ins = {} /\ q.w.upd = {} => RowsLit(q)
           /\ DOMAIN q.w.secs = {} => SecsEmptied(q)
           /\ (\A t \in DOMAIN q.w.tasks : q.w.tasks[t] # "live") => Repairs(q)
<1>1. q.w.ins = {} /\ q.w.par = {} /\ q.w.del = {} => Rehomed(q.w) = {} BY DEF Rehomed
<1>. QED BY <1>1 DEF HomeSound, RowsLit, SecsEmptied, Repairs

LEMMA RowIs ==
    ASSUME NEW t \in TaskIds, NEW s \in Sections, NEW k \in Keys
    PROVE  /\ Row(t, s, k).t = t /\ Row(t, s, k).p = ProjectOf[s] /\ Row(t, s, k).p \in Projects
           /\ Row(t, s, k).spot \in Spots /\ Row(t, s, k).spot.sec = s
           /\ Row(t, s, k).stays <=> (place[t][ProjectOf[s]] # None /\ place[t][ProjectOf[s]].sec = s)
BY PlacementAssumption DEF Row, Spots

LEMMA FreshIs == ASSUME PlaceTypeOK, count < MaxRequests PROVE Fresh \in Keys /\ count \in Nat /\ 0 \in Keys
BY PlacementAssumption DEF PlaceTypeOK, Keys, Fresh

LEMMA CreateTaskSound ==
    ASSUME IInv, NEW r \in Sessions, NEW t \in TaskIds, NEW s \in Sections, CreateTask(r, t, s)
    PROVE  \E op, w, undo, e : Begin(r, op, w, undo, e) /\ Decided(Request(op, w, undo, e))
<1>. DEFINE line  == Row(t, s, Fresh)
            w    == [Nothing EXCEPT !.ins = {line}, !.tasks = All({t}, "live")]
            undo == [op |-> "unmake_task", t |-> t]
<1>1. life[t] = "unborn" /\ slife[s] = "live" /\ (\A u \in 1 .. t - 1 : Born(u)) /\ Begin(r, "create", w, undo, 0)
    BY DEF CreateTask, Born
<1>2. PICK q : q = Request("create", w, undo, 0) OBVIOUS
<1>3. /\ w.ins = {line} /\ w.upd = {} /\ w.del = {} /\ w.par = {} /\ w.secs = Nothing.secs
      /\ DOMAIN w.tasks = {t} /\ w.tasks[t] = "live"
    BY NothingIs DEF All
<1>4. PlaceTypeOK /\ BirthInv BY DEF IInv
<1>5. /\ line.t = t /\ line.p \in Projects /\ line.p = ProjectOf[s] /\ line.spot \in Spots /\ line.spot.sec = s
  <2>1. Fresh \in Keys BY <1>1, <1>4, FreshIs DEF Begin
  <2>. QED BY <2>1, RowIs
<1>. HIDE DEF line, w
<1>6. /\ q.op = "create" /\ q.w = w /\ q.undo = undo /\ q.undoes = 0
      /\ q.saw.slife = slife /\ q.saw.parent = parent /\ SawPlaced(q, t) = PlacedIn(t)
    BY <1>2, SawIs
<1>7. Rehomed(w) = {t} BY <1>3, <1>5 DEF Rehomed
<1>8. TypedWrites(q) BY <1>3, <1>5, <1>6, NothingIs DEF TypedWrites, PayloadOK
<1>9. Grounded(q) BY <1>1, <1>3, <1>5, <1>6, <1>7 DEF Grounded, Makes
<1>10. HomeSound(q)
  <2>1. \A u : NewUp(q, t, u) => u = None BY <1>1, <1>3, <1>4, <1>6 DEF NewUp, BirthInv, Born
  <2>2. line.p \in NewPlaced(q, t) BY <1>3, <1>5, <1>6 DEF NewPlaced
  <2>. QED BY <1>6, <1>7, <2>1, <2>2 DEF HomeSound
<1>11. RowsLit(q) BY <1>1, <1>3, <1>5, <1>6 DEF RowsLit
<1>12. SecsEmptied(q) BY <1>3, <1>6, NothingIs, NothingOpen
<1>13. Repairs(q) BY <1>6 DEF Repairs, Makes
<1>. QED BY <1>1, <1>2, <1>8, <1>9, <1>10, <1>11, <1>12, <1>13 DEF Decided

LEMMA UnderIs ==
    ASSUME NEW t \in TaskIds, NEW u \in TaskIds \cup {None}, NEW k \in Keys
    PROVE  /\ Under(t, u, k).t = t /\ Under(t, u, k).at \in Ups /\ Under(t, u, k).at.up = u
           /\ Under(t, u, k).stays <=> parent[t].up = u
BY DEF Under, Ups

LEMMA CreateSubtaskSound ==
    ASSUME IInv, NEW r \in Sessions, NEW t \in TaskIds, NEW u \in TaskIds, CreateSubtask(r, t, u)
    PROVE  \E op, w, undo, e : Begin(r, op, w, undo, e) /\ Decided(Request(op, w, undo, e))
<1>. DEFINE line  == Under(t, u, Fresh)
            w    == [Nothing EXCEPT !.par = {line}, !.tasks = All({t}, "live")]
            undo == [op |-> "unmake_task", t |-> t]
<1>1. /\ life[t] = "unborn" /\ (\A v \in 1 .. t - 1 : Born(v)) /\ life[u] = "live"
      /\ Begin(r, "subtask", w, undo, 0)
    BY DEF CreateSubtask, Born, Visible
<1>2. PICK q : q = Request("subtask", w, undo, 0) OBVIOUS
<1>3. /\ w.par = {line} /\ w.ins = {} /\ w.upd = {} /\ w.del = {} /\ w.secs = Nothing.secs
      /\ DOMAIN w.tasks = {t} /\ w.tasks[t] = "live"
    BY NothingIs DEF All
<1>4. PlaceTypeOK /\ BirthInv BY DEF IInv
<1>5. u < t /\ u # None
  <2>1. ~(t < u) /\ t # u BY <1>1, <1>4 DEF BirthInv, Born
  <2>. QED BY <2>1, PlacementAssumption DEF TaskIds
<1>6. line.t = t /\ line.at \in Ups /\ line.at.up = u /\ (line.stays <=> parent[t].up = u)
  <2>1. Fresh \in Keys BY <1>1, <1>4, FreshIs DEF Begin
  <2>. QED BY <2>1, UnderIs
<1>. HIDE DEF line, w
<1>7. /\ q.op = "subtask" /\ q.w = w /\ q.undo = undo /\ q.undoes = 0
      /\ q.saw.parent = parent /\ SawPlaced(q, t) = PlacedIn(t)
    BY <1>2, SawIs
<1>8. Rehomed(w) = {t} BY <1>3, <1>6 DEF Rehomed
<1>9. TypedWrites(q) BY <1>3, <1>5, <1>6, <1>7, NothingIs DEF TypedWrites, PayloadOK
<1>10. Grounded(q) BY <1>1, <1>3, <1>6, <1>7, <1>8 DEF Grounded, Makes
<1>11. HomeSound(q)
  <2>1. parent[t].up = None /\ PlacedIn(t) = {} BY <1>1, <1>4 DEF BirthInv, Born
  <2>2. \A v : NewUp(q, t, v) => v = u BY <1>3, <1>5, <1>6, <1>7, <2>1 DEF NewUp
  <2>3. NewPlaced(q, t) = {} BY <1>3, <1>7, <2>1 DEF NewPlaced
  <2>. QED BY <1>5, <1>7, <1>8, <2>2, <2>3 DEF HomeSound
<1>12. RowsLit(q) BY <1>3, <1>7, NothingOpen
<1>13. SecsEmptied(q) BY <1>3, <1>7, NothingIs, NothingOpen
<1>14. Repairs(q) BY <1>7 DEF Repairs, Makes
<1>. QED BY <1>1, <1>2, <1>9, <1>10, <1>11, <1>12, <1>13, <1>14 DEF Decided

LEMMA MoveSound ==
    ASSUME IInv, NEW r \in Sessions, NEW t \in TaskIds, NEW s \in Sections, Move(r, t, s)
    PROVE  \E op, w, undo, e : Begin(r, op, w, undo, e) /\ Decided(Request(op, w, undo, e))
<1>. DEFINE line  == Row(t, s, Fresh)
            w    == [Nothing EXCEPT !.upd = {line}]
            undo == [op |-> "move_back", t |-> t, old |-> place[t][ProjectOf[s]],
                     expect |-> [sec |-> s, pos |-> Fresh]]
<1>1. /\ slife[s] = "live" /\ place[t][ProjectOf[s]] # None
      /\ Begin(r, "move", w, undo, 0)
    BY DEF Move
<1>2. PICK q : q = Request("move", w, undo, 0) OBVIOUS
<1>3. /\ w.upd = {line} /\ w.ins = {} /\ w.par = {} /\ w.del = {} /\ w.secs = Nothing.secs
      /\ w.tasks = Nothing.tasks
    BY NothingIs
<1>4. PlaceTypeOK /\ ProjectOf[s] \in Projects BY PlacementAssumption DEF IInv
<1>5. line.p = ProjectOf[s] /\ line.spot \in Spots /\ line.spot.sec = s
  <2>1. Fresh \in Keys BY <1>1, <1>4, FreshIs DEF Begin
  <2>. QED BY <2>1, RowIs
<1>6. place[t][ProjectOf[s]] \in Spots BY <1>1, <1>4 DEF PlaceTypeOK
<1>. HIDE DEF line, w
<1>7. q.w = w /\ q.undo = undo /\ q.undoes = 0 /\ q.saw.slife = slife BY <1>2, SawIs
<1>8. PayloadOK(undo) BY <1>6 DEF PayloadOK
<1>9. TypedWrites(q) BY <1>3, <1>5, <1>7, <1>8, NothingIs DEF TypedWrites
<1>10. Grounded(q) BY <1>3, <1>7, NothingIs DEF Grounded
<1>11. RowsLit(q) BY <1>1, <1>3, <1>5, <1>7 DEF RowsLit
<1>. QED BY <1>1, <1>2, <1>3, <1>7, <1>9, <1>10, <1>11, NothingIs, NothingOpen DEF Decided

LEMMA MoveSubtaskSound ==
    ASSUME IInv, NEW r \in Sessions, NEW t \in TaskIds, MoveSubtask(r, t)
    PROVE  \E op, w, undo, e : Begin(r, op, w, undo, e) /\ Decided(Request(op, w, undo, e))
<1>. DEFINE u    == parent[t].up
            line  == Under(t, u, Fresh)
            w    == [Nothing EXCEPT !.par = {line}]
            undo == [op |-> "parent_back", t |-> t, old |-> parent[t], placed |-> FALSE,
                     expect |-> [up |-> u, pos |-> Fresh]]
<1>1. life[t] = "live" /\ u # None /\ Begin(r, "reorder", w, undo, 0) BY DEF MoveSubtask, Visible
<1>2. PICK q : q = Request("reorder", w, undo, 0) OBVIOUS
<1>3. /\ w.par = {line} /\ w.ins = {} /\ w.upd = {} /\ w.del = {} /\ w.secs = Nothing.secs
      /\ w.tasks = Nothing.tasks
    BY NothingIs
<1>4. PlaceTypeOK /\ Homes /\ parent[t] \in Ups /\ u \in TaskIds /\ u < t
    BY <1>1 DEF IInv, PlaceTypeOK, Ups
<1>5. line.t = t /\ line.at \in Ups /\ line.at.up = u
  <2>1. Fresh \in Keys BY <1>1, <1>4, FreshIs DEF Begin
  <2>. QED BY <1>4, <2>1, UnderIs
<1>6. PayloadOK(undo) BY <1>1, <1>4 DEF PayloadOK
<1>. HIDE DEF line, w, undo
<1>7. /\ q.w = w /\ q.undo = undo /\ q.undoes = 0 /\ q.op = "reorder"
      /\ q.saw.parent = parent /\ SawPlaced(q, t) = PlacedIn(t)
    BY <1>2, SawIs
<1>8. Rehomed(w) = {t} BY <1>3, <1>5 DEF Rehomed
<1>9. TypedWrites(q) BY <1>3, <1>4, <1>5, <1>6, <1>7, NothingIs DEF TypedWrites
<1>10. Grounded(q) BY <1>1, <1>3, <1>5, <1>7, NothingIs DEF Grounded, Born
<1>11. HomeSound(q)
  <2>1. \A v : NewUp(q, t, v) => v = u BY <1>3, <1>5, <1>7 DEF NewUp
  <2>2. NewPlaced(q, t) = PlacedIn(t)
      BY <1>3, <1>7 DEF NewPlaced, PlacedIn
  <2>3. t \notin clashed /\ PlacedIn(t) # {} => t \in strays BY <1>1, <1>4 DEF Homes
  <2>. QED BY <1>1, <1>7, <1>8, <2>1, <2>2, <2>3 DEF HomeSound
<1>. QED BY <1>1, <1>2, <1>3, <1>7, <1>9, <1>10, <1>11, NothingIs, NothingOpen DEF Decided

LEMMA OutdentSound ==
    ASSUME IInv, NEW r \in Sessions, NEW t \in TaskIds, Outdent(r, t)
    PROVE  \E op, w, undo, e : Begin(r, op, w, undo, e) /\ Decided(Request(op, w, undo, e))
<1>. DEFINE u    == parent[t].up
            top  == parent[u].up = None
            k    == IF top THEN 0 ELSE Fresh
            rows == IF top THEN {{Row(t, place[u][p].sec, Fresh)} : p \in PlacedIn(u)} ELSE {{}}
            line  == Under(t, parent[u].up, k)
            undo == [op |-> "parent_back", t |-> t, old |-> parent[t], placed |-> top,
                     expect |-> [up |-> parent[u].up, pos |-> Fresh]]
            Wr(W) == [Nothing EXCEPT !.ins = W, !.par = {line}]
<1>1. Visible(t) /\ u # None /\ \E W \in rows : Begin(r, "outdent", Wr(W), undo, 0) BY DEF Outdent
<1>2. PICK W \in rows : Begin(r, "outdent", Wr(W), undo, 0) BY <1>1
<1>. DEFINE w == Wr(W)
<1>3. PICK q : q = Request("outdent", w, undo, 0) OBVIOUS
<1>4. /\ w.ins = W /\ w.par = {line} /\ w.upd = {} /\ w.del = {} /\ w.secs = Nothing.secs
      /\ w.tasks = Nothing.tasks
    BY NothingIs
<1>5. PlaceTypeOK /\ Homes /\ InSight BY DEF IInv
<1>6. /\ parent[t] \in Ups /\ u \in TaskIds /\ u < t
      /\ parent[u].up \in TaskIds \cup {None} /\ (~top => parent[u].up < u)
    BY <1>1, <1>5 DEF PlaceTypeOK, Ups
<1>7. u \in Nat /\ t \in Nat /\ (~top => parent[u].up \in Nat)
    BY <1>6 DEF TaskIds
<1>8. Fresh \in Keys /\ k \in Keys BY <1>2, <1>5, FreshIs DEF Begin
<1>9. line.t = t /\ line.at \in Ups /\ line.at.up = parent[u].up /\ ~line.stays
  <2>1. parent[u].up # u BY <1>1, <1>6, <1>7
  <2>. HIDE DEF k
  <2>. QED BY <1>6, <1>8, <2>1, UnderIs
<1>10. life[t] = "live" /\ life[u] = "live" BY <1>1, <1>5, ParentSeen DEF Visible
<1>11. ASSUME NEW x \in W
       PROVE  /\ x.t = t /\ x.p \in Projects /\ x.p = ProjectOf[x.spot.sec] /\ x.spot \in Spots
              /\ slife[x.spot.sec] = "live" \/ x.spot.sec \in Gone
  <2>1. PICK p \in PlacedIn(u) : x = Row(t, place[u][p].sec, Fresh) BY <1>2
  <2>2. place[u][p].sec \in Sections BY <1>5, <1>6, <2>1 DEF PlacedIn, PlaceTypeOK, Spots
  <2>3. slife[place[u][p].sec] = "live" \/ place[u][p].sec \in Gone
      BY <1>5, <1>6, <1>10, <2>1 DEF InSight, Gone
  <2>4. /\ x.t = t /\ x.p \in Projects /\ x.p = ProjectOf[place[u][p].sec]
        /\ x.spot \in Spots /\ x.spot.sec = place[u][p].sec
      BY <1>8, <2>1, <2>2, RowIs
  <2>. QED BY <2>3, <2>4
<1>12. (top => W # {}) /\ (~top => W = {}) BY <1>2
<1>13. PayloadOK(undo) /\ Begin(r, "outdent", w, undo, 0) BY <1>1, <1>2, <1>6 DEF PayloadOK
<1>. HIDE DEF line, w, undo, rows
<1>14. /\ q.w = w /\ q.undo = undo /\ q.undoes = 0 /\ q.op = "outdent"
       /\ q.saw.parent = parent /\ q.saw.slife = slife /\ SawPlaced(q, t) = PlacedIn(t)
    BY <1>3, SawIs
<1>15. Rehomed(w) = {t} BY <1>4, <1>9, <1>11 DEF Rehomed
<1>16. TypedWrites(q) BY <1>4, <1>6, <1>7, <1>9, <1>11, <1>13, <1>14, NothingIs DEF TypedWrites
<1>17. Grounded(q) BY <1>4, <1>9, <1>10, <1>11, <1>14, NothingIs DEF Grounded, Born
<1>18. HomeSound(q)
  <2>1. \A v : NewUp(q, t, v) => v = parent[u].up BY <1>4, <1>9, <1>14 DEF NewUp
  <2>2. top => NewPlaced(q, t) # {} BY <1>4, <1>11, <1>12, <1>14 DEF NewPlaced
  <2>3. ~top => NewPlaced(q, t) = PlacedIn(t) BY <1>4, <1>12, <1>14 DEF NewPlaced, PlacedIn
  <2>4. t \notin clashed /\ PlacedIn(t) # {} => t \in strays BY <1>1, <1>5, <1>10 DEF Homes
  <2>. QED BY <1>14, <1>15, <2>1, <2>2, <2>3, <2>4 DEF HomeSound
<1>19. RowsLit(q) BY <1>4, <1>11, <1>14 DEF RowsLit
<1>. QED BY <1>3, <1>4, <1>13, <1>14, <1>16, <1>17, <1>18, <1>19, NothingIs, NothingOpen DEF Decided

LEMMA AddToProjectSound ==
    ASSUME IInv, NEW r \in Sessions, NEW t \in TaskIds, NEW s \in Sections, AddToProject(r, t, s)
    PROVE  \E op, w, undo, e : Begin(r, op, w, undo, e) /\ Decided(Request(op, w, undo, e))
<1>. DEFINE line  == Row(t, s, Fresh)
            w    == [Nothing EXCEPT !.ins = {line}]
            undo == [op |-> "remove", t |-> t, p |-> ProjectOf[s]]
<1>1. life[t] = "live" /\ parent[t].up = None /\ slife[s] = "live" /\ Begin(r, "add", w, undo, 0)
    BY DEF AddToProject, Visible
<1>2. PICK q : q = Request("add", w, undo, 0) OBVIOUS
<1>3. /\ w.ins = {line} /\ w.upd = {} /\ w.par = {} /\ w.del = {} /\ w.secs = Nothing.secs
      /\ w.tasks = Nothing.tasks
    BY NothingIs
<1>4. PlaceTypeOK /\ ProjectOf[s] \in Projects BY PlacementAssumption DEF IInv
<1>5. line.t = t /\ line.p \in Projects /\ line.p = ProjectOf[s] /\ line.spot \in Spots /\ line.spot.sec = s
  <2>1. Fresh \in Keys BY <1>1, <1>4, FreshIs DEF Begin
  <2>. QED BY <2>1, RowIs
<1>6. PayloadOK(undo) BY <1>4 DEF PayloadOK
<1>. HIDE DEF line, w, undo
<1>7. /\ q.w = w /\ q.undo = undo /\ q.undoes = 0 /\ q.op = "add"
      /\ q.saw.slife = slife /\ q.saw.parent = parent
    BY <1>2, SawIs
<1>8. Rehomed(w) = {t} BY <1>3, <1>5 DEF Rehomed
<1>9. TypedWrites(q) BY <1>3, <1>5, <1>6, <1>7, NothingIs DEF TypedWrites
<1>10. Grounded(q) BY <1>1, <1>3, <1>5, <1>7, NothingIs DEF Grounded, Born
<1>11. HomeSound(q)
  <2>1. \A v : NewUp(q, t, v) => v = None BY <1>1, <1>3, <1>7 DEF NewUp
  <2>2. line.p \in NewPlaced(q, t) BY <1>3, <1>5, <1>7 DEF NewPlaced
  <2>. QED BY <1>7, <1>8, <2>1, <2>2 DEF HomeSound
<1>12. RowsLit(q) BY <1>1, <1>3, <1>5, <1>7 DEF RowsLit
<1>. QED BY <1>1, <1>2, <1>3, <1>7, <1>9, <1>10, <1>11, <1>12, NothingIs, NothingOpen DEF Decided

LEMMA RemoveSound ==
    ASSUME IInv, NEW r \in Sessions, NEW t \in TaskIds, NEW p \in Projects, NEW n \in Nat, Remove(r, t, p, n)
    PROVE  \E op, w, undo, e : Begin(r, op, w, undo, e) /\ Decided(Request(op, w, undo, e))
<1>. DEFINE w    == [Nothing EXCEPT !.del = {<<t, p>>}]
            undo == IF n = 0 THEN [op |-> "add_back", t |-> t, old |-> place[t][p]] ELSE None
<1>1. /\ life[t] = "live" /\ place[t][p] # None /\ Cardinality(PlacedIn(t)) > 1
      /\ Begin(r, "remove", w, undo, n)
    BY DEF Remove, Visible
<1>2. PICK q : q = Request("remove", w, undo, n) OBVIOUS
<1>3. /\ w.del = {<<t, p>>} /\ w.ins = {} /\ w.upd = {} /\ w.par = {} /\ w.secs = Nothing.secs
      /\ w.tasks = Nothing.tasks
    BY NothingIs
<1>4. PlaceTypeOK /\ Homes /\ place[t][p] \in Spots BY <1>1 DEF IInv, PlaceTypeOK
<1>5. n = 0 => PayloadOK(undo) BY <1>4 DEF PayloadOK
<1>. HIDE DEF w, undo
<1>6. /\ q.w = w /\ q.undo = undo /\ q.undoes = n /\ q.op = "remove"
      /\ q.saw.parent = parent /\ SawPlaced(q, t) = PlacedIn(t)
    BY <1>2, SawIs
<1>7. Rehomed(w) = {t} BY <1>3 DEF Rehomed
<1>8. TypedWrites(q) BY <1>3, <1>5, <1>6, NothingIs DEF TypedWrites
<1>9. Grounded(q) BY <1>3, <1>6, NothingIs DEF Grounded
<1>10. HomeSound(q)
  <2>1. \A v : NewUp(q, t, v) => v = parent[t].up BY <1>3, <1>6 DEF NewUp
  <2>2. NewPlaced(q, t) = PlacedIn(t) \ {p} BY <1>3, <1>6 DEF NewPlaced, PlacedIn
  <2>3. NewPlaced(q, t) # {}
    <3>1. SUFFICES ASSUME PlacedIn(t) \subseteq {p} PROVE FALSE BY <2>2
    <3>2. Cardinality(PlacedIn(t)) \in {0, 1}
      <4>1. PlacedIn(t) = {} \/ PlacedIn(t) = {p} BY <3>1
      <4>. QED BY <4>1, FS_EmptySet, FS_Singleton
    <3>. QED BY <1>1, <3>2
  <2>4. t \notin clashed /\ PlacedIn(t) # {} => parent[t].up = None \/ t \in strays
      BY <1>1, <1>4 DEF Homes
  <2>. QED BY <1>6, <1>7, <2>1, <2>2, <2>3, <2>4 DEF HomeSound
<1>. QED BY <1>1, <1>2, <1>3, <1>6, <1>8, <1>9, <1>10, NothingIs, NothingOpen DEF Decided

\* Deleting a task, or undoing its creation.
LEMMA DeleteSound ==
    ASSUME IInv, NEW t \in TaskIds, Visible(t), NEW undo, NEW n \in Nat, n = 0 => PayloadOK(undo)
    PROVE  Decided(Request("delete", [Nothing EXCEPT !.tasks = All({t}, "dead")], undo, n))
<1>. DEFINE w == [Nothing EXCEPT !.tasks = All({t}, "dead")]
<1>1. PICK q : q = Request("delete", w, undo, n) OBVIOUS
<1>2. /\ w.ins = {} /\ w.upd = {} /\ w.par = {} /\ w.del = {} /\ w.secs = Nothing.secs
      /\ DOMAIN w.tasks = {t} /\ w.tasks[t] = "dead"
    BY NothingIs DEF All
<1>3. Born(t) /\ \A u \in 1 .. t - 1 : Born(u)
  <2>1. Born(t) /\ BirthInv BY DEF Visible, Born, IInv
  <2>2. \A u \in 1 .. t - 1 : u \in TaskIds /\ u < t BY PlacementAssumption DEF TaskIds
  <2>. QED BY <2>1, <2>2 DEF BirthInv
<1>. HIDE DEF w
<1>4. q.w = w /\ q.undo = undo /\ q.undoes = n /\ q.op = "delete" BY <1>1, SawIs
<1>5. TypedWrites(q) BY <1>2, <1>4, NothingIs DEF TypedWrites
<1>6. Grounded(q) BY <1>2, <1>3, <1>4 DEF Grounded, Makes
<1>7. Repairs(q) BY <1>2, <1>4 DEF Repairs
<1>. QED BY <1>1, <1>2, <1>4, <1>5, <1>6, <1>7, NothingIs, NothingOpen DEF Decided, w

LEMMA CreateSectionSound ==
    ASSUME IInv, NEW r \in Sessions, NEW s \in Sections, CreateSection(r, s)
    PROVE  \E op, w, undo, e : Begin(r, op, w, undo, e) /\ Decided(Request(op, w, undo, e))
<1>. DEFINE w    == [Nothing EXCEPT !.secs = All({s}, "live")]
            undo == [op |-> "unmake_section", s |-> s]
<1>1. Begin(r, "new_section", w, undo, 0) BY DEF CreateSection
<1>2. PICK q : q = Request("new_section", w, undo, 0) OBVIOUS
<1>3. /\ w.ins = {} /\ w.upd = {} /\ w.par = {} /\ w.del = {} /\ w.tasks = Nothing.tasks
      /\ DOMAIN w.secs = {s} /\ w.secs[s] = "live"
    BY NothingIs DEF All
<1>4. PayloadOK(undo) BY DEF PayloadOK
<1>. HIDE DEF w, undo
<1>5. q.w = w /\ q.undo = undo /\ q.undoes = 0 /\ q.op = "new_section" BY <1>2, SawIs
<1>6. TypedWrites(q) BY <1>3, <1>4, <1>5, NothingIs DEF TypedWrites
<1>7. Grounded(q) BY <1>3, <1>5, NothingIs DEF Grounded
<1>8. SecsEmptied(q) BY <1>3, <1>5 DEF SecsEmptied
<1>. QED BY <1>1, <1>2, <1>3, <1>5, <1>6, <1>7, <1>8, NothingIs, NothingOpen DEF Decided

\* The tasks before one that there is, are there.
LEMMA OlderBorn ==
    ASSUME IInv, NEW t \in TaskIds, Born(t)
    PROVE  \A u \in 1 .. t - 1 : Born(u)
<1>1. \A u \in 1 .. t - 1 : u \in TaskIds /\ u < t BY PlacementAssumption DEF TaskIds
<1>. QED BY <1>1 DEF BirthInv, IInv

LEMMA DeleteSectionSound ==
    ASSUME IInv, NEW r \in Sessions, NEW s \in Sections, NEW to \in Sections \cup {None},
           DeleteSection(r, s, to)
    PROVE  \E op, w, undo, e : Begin(r, op, w, undo, e) /\ Decided(Request(op, w, undo, e))
<1>. DEFINE p    == ProjectOf[s]
            M    == Members(s)
            rows == IF to = None THEN {} ELSE {Row(t, to, Fresh) : t \in M}
            dead == IF to = None THEN All(M, "dead") ELSE Nothing.tasks
            w    == [Nothing EXCEPT !.secs = All({s}, "dead"), !.upd = rows,
                                    !.tasks = IF to = None THEN All(M, "dead") ELSE @]
            undo == [op |-> "restore_section", s |-> s,
                     moved |-> IF to = None THEN {} ELSE {[t |-> t, pos |-> place[t][p].pos] : t \in M},
                     killed |-> IF to = None THEN M ELSE {}]
<1>1. to \in (LiveIn(p) \ {s}) \cup {None} /\ Begin(r, "drop_section", w, undo, 0) BY DEF DeleteSection
<1>2. PICK q : q = Request("drop_section", w, undo, 0) OBVIOUS
<1>3. /\ w.ins = {} /\ w.upd = rows /\ w.par = {} /\ w.del = {} /\ w.tasks = dead
      /\ DOMAIN w.secs = {s} /\ w.secs[s] = "dead"
    BY NothingIs DEF All
<1>4. PlaceTypeOK /\ Fresh \in Keys BY <1>1, FreshIs DEF IInv, Begin
<1>5. to # None => to # s /\ to \in Sections /\ ProjectOf[to] = p /\ slife[to] = "live"
    BY <1>1 DEF LiveIn
<1>6. ASSUME NEW t \in M PROVE t \in TaskIds /\ life[t] = "live" /\ place[t][p] \in Spots /\ place[t][p].sec = s
    BY <1>4, PlacementAssumption DEF Members, PlaceTypeOK
<1>7. \A t \in M : to # None => Row(t, to, Fresh) \in rows OBVIOUS
<1>8. ASSUME NEW x \in rows
      PROVE  /\ to # None /\ x.t \in M /\ x.p = p /\ x.spot \in Spots /\ x.spot.sec = to
             /\ ~x.stays
  <2>1. PICK t \in M : to # None /\ x = Row(t, to, Fresh) OBVIOUS
  <2>. HIDE DEF M
  <2>2. place[t][p].sec # to BY <1>5, <1>6, <2>1
  <2>. QED BY <1>4, <1>5, <1>6, <2>1, <2>2, RowIs
<1>9. /\ DOMAIN dead \subseteq M /\ \A t \in DOMAIN dead : dead[t] = "dead"
      /\ to = None => DOMAIN dead = M
    BY NothingIs DEF All
<1>10. PayloadOK(undo)
  <2>1. M \subseteq TaskIds /\ \A t \in M : place[t][p].pos \in Keys BY <1>6 DEF Spots
  <2>. HIDE DEF M
  <2>. QED BY <2>1 DEF PayloadOK
<1>11. \A t \in M : to # None => Row(t, to, Fresh).t = t BY <1>4, <1>5, <1>6, RowIs
<1>. HIDE DEF w, undo, rows, dead
<1>12. /\ q.w = w /\ q.undo = undo /\ q.undoes = 0 /\ q.op = "drop_section"
       /\ q.saw.slife = slife /\ \A t \in TaskIds : SawMember(q, t, s) => t \in M
    BY <1>2, SawIs
<1>. HIDE DEF M
<1>13. TypedWrites(q)
  <2>1. \A x \in q.w.ins \cup q.w.upd : x.spot \in Spots /\ x.p = ProjectOf[x.spot.sec]
      BY <1>3, <1>5, <1>8, <1>12
  <2>2. \A t \in DOMAIN q.w.tasks : t \in TaskIds /\ q.w.tasks[t] \in {"live", "dead"}
      BY <1>3, <1>6, <1>9, <1>12
  <2>. QED BY <1>3, <1>10, <1>12, <2>1, <2>2 DEF TypedWrites
<1>14. Grounded(q) BY <1>3, <1>6, <1>9, <1>12, OlderBorn DEF Grounded, Makes, Born
<1>15. RowsLit(q) BY <1>3, <1>5, <1>8, <1>12 DEF RowsLit
<1>16. Emptied(q, s)
  <2>1. SUFFICES ASSUME NEW t \in TaskIds, t \in M, ~(t \in DOMAIN w.tasks /\ w.tasks[t] = "dead")
                 PROVE  Moves(q, t, p, s)
      BY <1>12 DEF Emptied
  <2>2. to # None BY <1>3, <1>9, <2>1
  <2>3. \E x \in q.w.upd : x.t = t /\ x.p = p BY <1>3, <1>7, <1>8, <1>11, <1>12, <2>1, <2>2
  <2>. QED BY <1>3, <1>5, <1>8, <1>12, <2>2, <2>3 DEF Moves
<1>17. SecsEmptied(q) BY <1>3, <1>12, <1>16 DEF SecsEmptied
<1>18. Repairs(q) BY <1>3, <1>9, <1>12 DEF Repairs
<1>. QED BY <1>1, <1>2, <1>3, <1>12, <1>13, <1>14, <1>15, <1>17, <1>18, NothingOpen DEF Decided

-----------------------------------------------------------------------------
(* The same for the undo handlers.                                            *)

LEMMA MoveBackSound ==
    ASSUME IInv, NEW r \in Sessions, NEW c, NEW n \in Nat \ {0}, c.op = "move_back", PayloadOK(c), MoveBack(r, c, n)
    PROVE  \E op, w, undo, e : Begin(r, op, w, undo, e) /\ Decided(Request(op, w, undo, e))
<1>. DEFINE line == Row(c.t, c.old.sec, c.old.pos)
            w   == [Nothing EXCEPT !.upd = {line}]
<1>1. slife[c.old.sec] = "live" /\ Begin(r, "move_back", w, None, n) BY DEF MoveBack
<1>2. PICK q : q = Request("move_back", w, None, n) OBVIOUS
<1>3. /\ w.upd = {line} /\ w.ins = {} /\ w.par = {} /\ w.del = {} /\ w.secs = Nothing.secs
      /\ w.tasks = Nothing.tasks
    BY NothingIs
<1>4. line.p = ProjectOf[line.spot.sec] /\ line.spot \in Spots /\ line.spot.sec = c.old.sec
    BY RowIs DEF PayloadOK, Spots
<1>. HIDE DEF line, w
<1>5. q.w = w /\ q.undoes = n /\ q.saw.slife = slife BY <1>2, SawIs
<1>6. TypedWrites(q) BY <1>3, <1>4, <1>5, NothingIs DEF TypedWrites
<1>7. Grounded(q) BY <1>3, <1>5, NothingIs DEF Grounded
<1>8. RowsLit(q) BY <1>1, <1>3, <1>4, <1>5 DEF RowsLit
<1>. QED BY <1>1, <1>2, <1>3, <1>5, <1>6, <1>7, <1>8, NothingIs, NothingOpen DEF Decided

LEMMA ParentBackSound ==
    ASSUME IInv, NEW r \in Sessions, NEW c, NEW n \in Nat \ {0}, c.op = "parent_back", PayloadOK(c),
           ParentBack(r, c, n)
    PROVE  \E op, w, undo, e : Begin(r, op, w, undo, e) /\ Decided(Request(op, w, undo, e))
<1>. DEFINE t    == c.t
            line  == Under(t, c.old.up, c.old.pos)
            gone == IF c.placed THEN {t} \X Projects ELSE {}
            w    == [Nothing EXCEPT !.par = {line}, !.del = gone]
<1>1. /\ life[t] = "live" /\ parent[t].up = c.expect.up
      /\ Begin(r, "parent_back", w, None, n)
    BY DEF ParentBack, Visible
<1>2. PICK q : q = Request("parent_back", w, None, n) OBVIOUS
<1>3. /\ w.par = {line} /\ w.ins = {} /\ w.upd = {} /\ w.del = gone /\ w.secs = Nothing.secs
      /\ w.tasks = Nothing.tasks
    BY NothingIs
<1>4. /\ t \in TaskIds /\ c.old.up \in TaskIds /\ c.old.up # None /\ c.old.up < t /\ c.old.pos \in Keys
      /\ c.placed <=> c.expect.up = None
    BY PlacementAssumption DEF PayloadOK, Ups
<1>5. line.t = t /\ line.at \in Ups /\ line.at.up = c.old.up /\ (line.stays => parent[t].up = c.old.up)
    BY <1>4, UnderIs
<1>6. gone \subseteq TaskIds \X Projects BY <1>4
<1>7. (c.placed => \A p \in Projects : <<t, p>> \in gone) /\ (~c.placed => gone = {}) OBVIOUS
<1>8. Homes BY DEF IInv
<1>9. \A x \in gone : x[1] = t OBVIOUS
<1>. HIDE DEF line, w, gone, t
<1>10. /\ q.w = w /\ q.undoes = n /\ q.op = "parent_back"
       /\ q.saw.parent = parent /\ SawPlaced(q, t) = PlacedIn(t)
    BY <1>2, <1>4, SawIs
<1>11. Rehomed(w) = {t} BY <1>3, <1>5, <1>9 DEF Rehomed
<1>12. TypedWrites(q) BY <1>3, <1>4, <1>5, <1>6, <1>10, NothingIs DEF TypedWrites
<1>13. Grounded(q) BY <1>1, <1>3, <1>5, <1>10, NothingIs DEF Grounded, Born
<1>14. HomeSound(q)
  <2>1. \A v : NewUp(q, t, v) => v = c.old.up BY <1>3, <1>5, <1>10 DEF NewUp
  <2>2. c.placed => NewPlaced(q, t) = {} BY <1>3, <1>7, <1>10 DEF NewPlaced, PlacedIn
  <2>3. ~c.placed => NewPlaced(q, t) = PlacedIn(t) BY <1>3, <1>7, <1>10 DEF NewPlaced, PlacedIn
  <2>4. ~c.placed /\ t \notin clashed /\ PlacedIn(t) # {} => t \in strays BY <1>1, <1>4, <1>8 DEF Homes
  <2>. QED BY <1>4, <1>10, <1>11, <2>1, <2>2, <2>3, <2>4 DEF HomeSound
<1>. QED BY <1>1, <1>2, <1>3, <1>10, <1>12, <1>13, <1>14, NothingIs, NothingOpen DEF Decided

LEMMA AddBackSound ==
    ASSUME IInv, NEW r \in Sessions, NEW c, NEW n \in Nat \ {0}, c.op = "add_back", PayloadOK(c), AddBack(r, c, n)
    PROVE  \E op, w, undo, e : Begin(r, op, w, undo, e) /\ Decided(Request(op, w, undo, e))
<1>. DEFINE t   == c.t
            line == Row(t, c.old.sec, c.old.pos)
            w   == [Nothing EXCEPT !.ins = {line}]
<1>1. life[t] = "live" /\ slife[c.old.sec] = "live" /\ Begin(r, "add", w, None, n)
    BY DEF AddBack, Visible
<1>2. PICK q : q = Request("add", w, None, n) OBVIOUS
<1>3. /\ w.ins = {line} /\ w.upd = {} /\ w.par = {} /\ w.del = {} /\ w.secs = Nothing.secs
      /\ w.tasks = Nothing.tasks
    BY NothingIs
<1>4. /\ t \in TaskIds /\ line.t = t /\ line.p = ProjectOf[line.spot.sec] /\ line.p \in Projects
      /\ line.spot \in Spots /\ line.spot.sec = c.old.sec
    BY RowIs DEF PayloadOK, Spots
<1>. HIDE DEF line, w, t
<1>5. /\ q.w = w /\ q.undoes = n /\ q.op = "add" /\ q.saw.slife = slife /\ q.saw.parent = parent
      /\ SawPlaced(q, t) = PlacedIn(t)
    BY <1>2, <1>4, SawIs
<1>6. Rehomed(w) = {t} BY <1>3, <1>4 DEF Rehomed
<1>7. TypedWrites(q) BY <1>3, <1>4, <1>5, NothingIs DEF TypedWrites
<1>8. Grounded(q) BY <1>1, <1>3, <1>4, <1>5, NothingIs DEF Grounded, Born
<1>9. HomeSound(q)
  <2>1. \A v : NewUp(q, t, v) => v = parent[t].up BY <1>3, <1>5 DEF NewUp
  <2>2. line.p \in NewPlaced(q, t) BY <1>3, <1>4, <1>5 DEF NewPlaced
  <2>3. parent[t].up # None => Replaces(q, t) BY <1>3, <1>4, <1>5 DEF Replaces
  <2>. QED BY <1>5, <1>6, <2>1, <2>2, <2>3 DEF HomeSound
<1>10. RowsLit(q) BY <1>1, <1>3, <1>4, <1>5 DEF RowsLit
<1>. QED BY <1>1, <1>2, <1>3, <1>5, <1>7, <1>8, <1>9, <1>10, NothingIs, NothingOpen DEF Decided

\* What a restoration decides: at most the one row, moved to a section it saw.
Revives(w, t) ==
    /\ w.ins = {} /\ w.par = {} /\ w.del = {} /\ w.secs = Nothing.secs
    /\ DOMAIN w.tasks \subseteq {t} /\ \A u \in DOMAIN w.tasks : w.tasks[u] = "live"

LEMMA RestoreDecided ==
    ASSUME IInv, NEW t \in TaskIds, Born(t), NEW w, Revives(w, t), NEW n \in Nat \ {0},
           \A x \in w.upd : /\ x.spot \in Spots /\ x.p = ProjectOf[x.spot.sec] /\ ~x.stays
                            /\ slife[x.spot.sec] = "live"
                            /\ x.t = t => slife[place[t][x.p].sec] # "live",
           \A p \in Projects : parent[t].up = None /\ PlacedIn(t) = {p} =>
              \/ slife[place[t][p].sec] = "live"
              \/ \E x \in w.upd : x.t = t /\ x.p = p
    PROVE  Decided(Request("restore", w, None, n))
<1>1. PICK q : q = Request("restore", w, None, n) OBVIOUS
<1>2. /\ q.w = w /\ q.undoes = n /\ q.op = "restore" /\ q.saw.slife = slife /\ q.saw.parent = parent
      /\ q.saw.place = place /\ SawPlaced(q, t) = PlacedIn(t)
    BY <1>1, SawIs
<1>3. TypedWrites(q) BY <1>2, NothingIs DEF TypedWrites, Revives
<1>4. Grounded(q) BY <1>2, OlderBorn DEF Grounded, Makes, Revives
<1>5. RowsLit(q) BY <1>2 DEF RowsLit, Revives
<1>6. Repaired(q, t)
  <2>1. SUFFICES ASSUME NEW p \in Projects, parent[t].up = None, PlacedIn(t) = {p},
                        slife[place[t][p].sec] # "live"
                 PROVE  Moves(q, t, p, place[t][p].sec)
      BY <1>2 DEF Repaired
  <2>2. \E x \in w.upd : x.t = t /\ x.p = p BY <2>1
  <2>. QED BY <1>2, <2>1, <2>2 DEF Moves, Revives
<1>7. Repairs(q) BY <1>2, <1>6 DEF Repairs, Revives
<1>8. Decided(q) BY <1>2, <1>3, <1>4, <1>5, <1>7, NothingIs, NothingOpen DEF Decided, Revives
<1>. QED BY <1>1, <1>8

LEMMA RestoreTaskSound ==
    ASSUME IInv, NEW r \in Sessions, NEW c, NEW n \in Nat \ {0}, c.op = "restore_task", PayloadOK(c),
           RestoreTask(r, c, n)
    PROVE  \E op, w, undo, e : Begin(r, op, w, undo, e) /\ Decided(Request(op, w, undo, e))
<1>. DEFINE t    == c.t
            u    == Root(t)
            bare == [Nothing EXCEPT !.tasks = Revived({t})]
            W(s) == [Nothing EXCEPT !.tasks = Revived({t}), !.upd = {Row(u, s, Fresh)}]
            Lit(p) == slife[place[u][p].sec] = "live"
<1>1. t \in TaskIds /\ PlaceTypeOK /\ Born(t) BY DEF PayloadOK, IInv, RestoreTask, Born
<1>2. bare.upd = {} /\ Revives(bare, t) BY NothingIs DEF Revives, Revived, All
<1>3. \A s : W(s).upd = {Row(u, s, Fresh)} /\ Revives(W(s), t) BY NothingIs DEF Revives, Revived, All
<1>4. parent[t].up = None => u = t BY DEF Root
<1>5. \/ PlacedIn(u) = {} /\ Begin(r, "restore", bare, None, n)
      \/ \E p \in PlacedIn(u) :
           \/ Lit(p) /\ Begin(r, "restore", bare, None, n)
           \/ ~Lit(p) /\ \E s \in LiveIn(p) : Begin(r, "restore", W(s), None, n)
    BY DEF RestoreTask
<1>. HIDE DEF u, t, bare, W
<1>6. CASE PlacedIn(u) = {} /\ Begin(r, "restore", bare, None, n)
  <2>1. \A p \in Projects : parent[t].up = None => PlacedIn(t) # {p} BY <1>4, <1>6
  <2>2. Decided(Request("restore", bare, None, n)) BY <1>1, <1>2, <2>1, RestoreDecided
  <2>. QED BY <1>6, <2>2
<1>7. ASSUME NEW p \in PlacedIn(u), Lit(p), Begin(r, "restore", bare, None, n)
      PROVE  \E op, w, undo, e : Begin(r, op, w, undo, e) /\ Decided(Request(op, w, undo, e))
  <2>1. \A v \in Projects : parent[t].up = None /\ PlacedIn(t) = {v} => slife[place[t][v].sec] = "live"
      BY <1>4, <1>7
  <2>2. Decided(Request("restore", bare, None, n)) BY <1>1, <1>2, <2>1, RestoreDecided
  <2>. QED BY <1>7, <2>2
<1>8. ASSUME NEW p \in PlacedIn(u), ~Lit(p), NEW s \in LiveIn(p), Begin(r, "restore", W(s), None, n)
      PROVE  \E op, w, undo, e : Begin(r, op, w, undo, e) /\ Decided(Request(op, w, undo, e))
  <2>1. Fresh \in Keys BY <1>1, <1>8, FreshIs DEF Begin
  <2>2. s \in Sections /\ ProjectOf[s] = p /\ slife[s] = "live" BY DEF LiveIn
  <2>. DEFINE line == Row(u, s, Fresh)
  <2>3. /\ line.t = u /\ line.p = p /\ line.spot \in Spots /\ line.spot.sec = s
        /\ line.stays => place[u][p].sec = s
      BY <2>1, <2>2 DEF Row, Spots
  <2>4. W(s).upd = {line} /\ Revives(W(s), t) BY <1>3
  <2>. HIDE DEF line
  <2>5. ~line.stays BY <1>8, <2>2, <2>3
  <2>6. \A v \in Projects : parent[t].up = None /\ PlacedIn(t) = {v} => line.t = t /\ line.p = v
      BY <1>4, <2>3
  <2>7. Decided(Request("restore", W(s), None, n))
      BY <1>1, <1>8, <2>2, <2>3, <2>4, <2>5, <2>6, RestoreDecided
  <2>. QED BY <1>8, <2>7
<1>. QED BY <1>5, <1>6, <1>7, <1>8

LEMMA RestoreSectionSound ==
    ASSUME IInv, NEW r \in Sessions, NEW c, NEW n \in Nat \ {0}, c.op = "restore_section", PayloadOK(c),
           RestoreSection(r, c, n)
    PROVE  \E op, w, undo, e : Begin(r, op, w, undo, e) /\ Decided(Request(op, w, undo, e))
<1>. DEFINE s    == c.s
            rows == {Row(m.t, s, m.pos) : m \in {x \in c.moved : place[x.t][ProjectOf[s]] # None}}
            w    == [Nothing EXCEPT !.secs = All({s} \ LiveIn(ProjectOf[s]), "live"),
                                    !.upd = rows, !.tasks = Revived(c.killed)]
<1>1. Begin(r, "raise_section", w, None, n) BY DEF RestoreSection
<1>2. PICK q : q = Request("raise_section", w, None, n) OBVIOUS
<1>3. s \in Sections /\ c.killed \subseteq TaskIds /\ \A m \in c.moved : m.t \in TaskIds /\ m.pos \in Keys
    BY DEF PayloadOK
<1>4. /\ w.ins = {} /\ w.upd = rows /\ w.par = {} /\ w.del = {}
      /\ DOMAIN w.secs \subseteq {s} /\ (\A x \in DOMAIN w.secs : w.secs[x] = "live")
      /\ slife[s] = "live" \/ s \in DOMAIN w.secs
      /\ \A t \in DOMAIN w.tasks : t \in c.killed /\ life[t] = "dead" /\ w.tasks[t] = "live"
    BY NothingIs DEF All, Revived, LiveIn
<1>5. ASSUME NEW x \in rows PROVE x.p = ProjectOf[s] /\ x.spot \in Spots /\ x.spot.sec = s
  <2>1. PICK m \in c.moved : x = Row(m.t, s, m.pos) OBVIOUS
  <2>. HIDE DEF s
  <2>. QED BY <1>3, <2>1, RowIs
<1>. HIDE DEF s, rows, w
<1>6. q.w = w /\ q.undoes = n /\ q.op = "raise_section" /\ q.saw.slife = slife BY <1>2, SawIs
<1>7. TypedWrites(q) BY <1>3, <1>4, <1>5, <1>6 DEF TypedWrites
<1>8. Grounded(q) BY <1>3, <1>4, <1>6, OlderBorn DEF Grounded, Makes, Born
<1>9. RowsLit(q) BY <1>4, <1>5, <1>6 DEF RowsLit
<1>10. SecsEmptied(q) BY <1>4, <1>6 DEF SecsEmptied
<1>11. Repairs(q) BY <1>6 DEF Repairs
<1>. QED BY <1>1, <1>2, <1>4, <1>6, <1>7, <1>8, <1>9, <1>10, <1>11, NothingOpen DEF Decided

LEMMA UnmakeSectionSound ==
    ASSUME IInv, NEW r \in Sessions, NEW c, NEW n \in Nat \ {0}, c.op = "unmake_section", PayloadOK(c),
           UnmakeSection(r, c, n)
    PROVE  \E op, w, undo, e : Begin(r, op, w, undo, e) /\ Decided(Request(op, w, undo, e))
<1>. DEFINE w == [Nothing EXCEPT !.secs = All({c.s}, "dead")]
<1>1. Begin(r, "unmake_section", w, None, n) BY DEF UnmakeSection
<1>2. PICK q : q = Request("unmake_section", w, None, n) OBVIOUS
<1>3. /\ w.ins = {} /\ w.upd = {} /\ w.par = {} /\ w.del = {} /\ w.tasks = Nothing.tasks
      /\ DOMAIN w.secs = {c.s} /\ w.secs[c.s] = "dead"
    BY NothingIs DEF All
<1>4. c.s \in Sections BY DEF PayloadOK
<1>. HIDE DEF w
<1>5. q.w = w /\ q.undoes = n /\ q.op = "unmake_section" BY <1>2, SawIs
<1>6. TypedWrites(q) BY <1>3, <1>4, <1>5, NothingIs DEF TypedWrites
<1>7. Grounded(q) BY <1>3, <1>5, NothingIs DEF Grounded
<1>8. SecsEmptied(q) BY <1>5 DEF SecsEmptied
<1>. QED BY <1>1, <1>2, <1>3, <1>5, <1>6, <1>7, <1>8, NothingIs, NothingOpen DEF Decided

LEMMA AskSound ==
    ASSUME IInv, NEW r \in Sessions, ServiceCall(r)
    PROVE  \E op, w, undo, e : Begin(r, op, w, undo, e) /\ Decided(Request(op, w, undo, e))
<1>1. ASSUME NEW t \in TaskIds, DeleteTask(r, t)
      PROVE  \E op, w, undo, e : Begin(r, op, w, undo, e) /\ Decided(Request(op, w, undo, e))
  <2>. DEFINE c == [op |-> "restore_task", t |-> t]
  <2>1. PayloadOK(c) BY DEF PayloadOK
  <2>2. Visible(t) /\ Begin(r, "delete", [Nothing EXCEPT !.tasks = All({t}, "dead")], c, 0)
      BY <1>1 DEF DeleteTask
  <2>. HIDE DEF c
  <2>. QED BY <2>1, <2>2, DeleteSound
<1>2. 0 \in Nat OBVIOUS
<1>. QED BY <1>1, <1>2, CreateTaskSound, MoveSound, AddToProjectSound, CreateSubtaskSound, RemoveSound,
        MoveSubtaskSound, OutdentSound, CreateSectionSound, DeleteSectionSound DEF ServiceCall

LEMMA TakeBackSound ==
    ASSUME IInv, NEW r \in Sessions, TakeBack(r)
    PROVE  \E op, w, undo, e : Begin(r, op, w, undo, e) /\ Decided(Request(op, w, undo, e))
<1>. DEFINE c(n) == trail[n].undo
<1>1. PICK n \in 1 .. Len(trail) :
         \/ c(n).op = "move_back" /\ MoveBack(r, c(n), n)
         \/ c(n).op = "parent_back" /\ ParentBack(r, c(n), n)
         \/ c(n).op = "remove" /\ Remove(r, c(n).t, c(n).p, n)
         \/ c(n).op = "add_back" /\ AddBack(r, c(n), n)
         \/ c(n).op = "restore_task" /\ RestoreTask(r, c(n), n)
         \/ c(n).op = "restore_section" /\ RestoreSection(r, c(n), n)
         \/ c(n).op = "unmake_section" /\ UnmakeSection(r, c(n), n)
         \/ c(n).op = "unmake_task" /\ UnmakeTask(r, c(n), n)
    BY DEF TakeBack
<1>2. n \in Nat \ {0} /\ PayloadOK(c(n))
  <2>1. n \in DOMAIN trail BY DEF IInv, LogInv
  <2>. QED BY <2>1 DEF IInv, LogInv
<1>. DEFINE d == c(n)
<1>. HIDE DEF c
<1>3. CASE d.op = "unmake_task" /\ UnmakeTask(r, d, n)
  <2>1. d.t \in TaskIds BY <1>2, <1>3 DEF PayloadOK
  <2>2. Visible(d.t) /\ Begin(r, "delete", [Nothing EXCEPT !.tasks = All({d.t}, "dead")], None, n)
      BY <1>3 DEF UnmakeTask
  <2>3. Decided(Request("delete", [Nothing EXCEPT !.tasks = All({d.t}, "dead")], None, n))
      BY <1>2, <2>1, <2>2, DeleteSound
  <2>. QED BY <2>2, <2>3
<1>4. CASE d.op = "remove" /\ Remove(r, d.t, d.p, n)
  <2>1. d.t \in TaskIds /\ d.p \in Projects BY <1>2, <1>4 DEF PayloadOK
  <2>. QED BY <1>2, <1>4, <2>1, RemoveSound
<1>. QED BY <1>1, <1>2, <1>3, <1>4, MoveBackSound, ParentBackSound, AddBackSound, RestoreTaskSound,
        RestoreSectionSound, UnmakeSectionSound

-----------------------------------------------------------------------------
(* What a step keeps.                                                         *)

\* Histories grow and what is born stays.
Grows ==
    /\ \A t \in TaskIds : Born(t) => Born(t)'
    /\ clashed \subseteq clashed' /\ strays \subseteq strays' /\ Gone \subseteq Gone'

\* So what an open request has decided stays sound, whatever others commit.
LEMMA StaysDecided ==
    ASSUME NEW q, Decided(q), Grows
    PROVE  Decided(q)'
<1>1. TypedWrites(q) BY DEF Decided
<1>2. TypedWrites(q)' BY <1>1 DEF TypedWrites, PayloadOK, Spots, Ups, Keys, TaskIds
<1>3. Grounded(q)'
  <2>1. /\ \A x \in q.w.ins \cup q.w.par : x.t \in TaskIds
        /\ \A t \in DOMAIN q.w.tasks : t \in TaskIds /\ \A u \in 1 .. t - 1 : u \in TaskIds
      BY <1>1, PlacementAssumption DEF TypedWrites, TaskIds
  <2>. QED BY <2>1 DEF Decided, Grounded, Grows, Rehomed
<1>4. HomeSound(q)' BY DEF Decided, HomeSound, Grows, NewUp, NewPlaced, SawPlaced, Replaces, Rehomed
<1>5. RowsLit(q)' BY DEF Decided, RowsLit, Grows
<1>6. SecsEmptied(q)' BY DEF Decided, SecsEmptied, Emptied, Moves, SawMember
<1>7. Repairs(q)' BY DEF Decided, Repairs, Repaired, Moves, SawPlaced
<1>. QED BY <1>2, <1>3, <1>4, <1>5, <1>6, <1>7 DEF Decided

LEMMA BeginStep ==
    ASSUME IInv, NEW r \in Sessions, NEW op, NEW w, NEW undo, NEW e, Begin(r, op, w, undo, e),
           Decided(Request(op, w, undo, e))
    PROVE  IInv'
<1>1. PICK q : q = Request(op, w, undo, e) OBVIOUS
<1>2. /\ sess' = [sess EXCEPT ![r] = q] /\ count' = count + 1 /\ count < MaxRequests
      /\ UNCHANGED <<life, slife, place, parent, trail, histories>>
    BY <1>1 DEF Begin, Request, Now
<1>3. Grows BY <1>2 DEF Grows, Born, Gone, histories
<1>4. PlaceTypeOK' BY <1>2, PlacementAssumption DEF IInv, PlaceTypeOK, histories, Keys
<1>5. LogInv' BY <1>2 DEF IInv, LogInv
<1>6. ReqInv'
  <2>1. DOMAIN sess = Sessions BY DEF IInv, ReqInv
  <2>2. DOMAIN sess' = Sessions BY <1>2, <2>1
  <2>3. ASSUME NEW d \in {sess[x] : x \in Sessions}' \ {None} PROVE Decided(d)'
    <3>1. d = q \/ d \in {sess[x] : x \in Sessions} \ {None} BY <1>2, <2>1
    <3>2. Decided(d) BY <1>1, <3>1 DEF IInv, ReqInv
    <3>. QED BY <1>3, <3>2, StaysDecided
  <2>. QED BY <2>2, <2>3 DEF ReqInv
<1>7. BirthInv' /\ Homes' /\ InSight'
    BY <1>2 DEF IInv, BirthInv, Homes, InSight, Born, PlacedIn, Gone, histories
<1>. QED BY <1>4, <1>5, <1>6, <1>7 DEF IInv

LEMMA AbortStep ==
    ASSUME IInv, NEW r \in Sessions, RollBack(r)
    PROVE  IInv'
<1>1. sess' = [sess EXCEPT ![r] = None] /\ UNCHANGED <<life, slife, place, parent, trail, count, histories>>
    BY DEF RollBack
<1>2. Grows BY <1>1 DEF Grows, Born, Gone, histories
<1>3. ReqInv'
  <2>1. DOMAIN sess = Sessions BY DEF IInv, ReqInv
  <2>2. DOMAIN sess' = Sessions BY <1>1, <2>1
  <2>3. ASSUME NEW d \in {sess[x] : x \in Sessions}' \ {None} PROVE Decided(d)'
    <3>1. d \in {sess[x] : x \in Sessions} \ {None} BY <1>1, <2>1
    <3>2. Decided(d) BY <3>1 DEF IInv, ReqInv
    <3>. QED BY <1>2, <3>2, StaysDecided
  <2>. QED BY <2>2, <2>3 DEF ReqInv
<1>. QED BY <1>1, <1>3
       DEF IInv, PlaceTypeOK, LogInv, BirthInv, Homes, InSight, Born, PlacedIn, Gone, histories

LEMMA IdleStep == ASSUME IInv, UNCHANGED placeVars PROVE IInv'
<1>1. UNCHANGED <<life, slife, place, parent, trail, sess, count, histories>> BY DEF placeVars
<1>2. Grows BY <1>1 DEF Grows, Born, Gone, histories
<1>3. ReqInv'
  <2>1. ASSUME NEW d \in {sess[x] : x \in Sessions}' \ {None} PROVE Decided(d)'
    <3>1. Decided(d) BY <1>1 DEF IInv, ReqInv
    <3>. QED BY <1>2, <3>1, StaysDecided
  <2>. QED BY <1>1, <2>1 DEF IInv, ReqInv
<1>. QED BY <1>1, <1>3
       DEF IInv, PlaceTypeOK, LogInv, BirthInv, Homes, InSight, Born, PlacedIn, Gone, histories

-----------------------------------------------------------------------------
(* Commit.                                                                    *)

LEMMA PlacedIs ==
    ASSUME PlaceTypeOK, NEW q, TypedWrites(q), NEW t \in TaskIds, NEW p \in Projects
    PROVE  \/ <<t, p>> \in q.w.del /\ Placed(q.w, t, p) = None
           \/ /\ <<t, p>> \notin q.w.del
              /\ \A x \in q.w.ins \cup q.w.upd : ~(x.t = t /\ x.p = p)
              /\ Placed(q.w, t, p) = place[t][p]
           \/ /\ <<t, p>> \notin q.w.del
              /\ \E x \in q.w.ins \cup q.w.upd :
                    /\ x.t = t /\ x.p = p
                    /\ \/ Placed(q.w, t, p) = x.spot
                       \/ /\ x.stays /\ place[t][p] # None
                          /\ Placed(q.w, t, p) \in Spots /\ Placed(q.w, t, p).sec = place[t][p].sec
<1>. DEFINE rows == q.w.ins \cup q.w.upd
            W    == {x \in rows : x.t = t /\ x.p = p}
<1>1. CASE <<t, p>> \in q.w.del BY <1>1 DEF Placed
<1>2. CASE <<t, p>> \notin q.w.del /\ W = {} BY <1>2 DEF Placed
<1>3. CASE <<t, p>> \notin q.w.del /\ W # {}
  <2>. DEFINE x == CHOOSE x \in W : TRUE
              kept == [place[t][p] EXCEPT !.pos = x.spot.pos]
  <2>1. Placed(q.w, t, p) = IF x.stays /\ place[t][p] # None THEN kept ELSE x.spot BY <1>3 DEF Placed
  <2>2. x \in W BY <1>3
  <2>. HIDE DEF x
  <2>3. x \in rows /\ x.t = t /\ x.p = p /\ x.spot \in Spots BY <2>2 DEF TypedWrites
  <2>4. CASE x.stays /\ place[t][p] # None
    <3>1. place[t][p] \in Spots BY <2>4 DEF PlaceTypeOK
    <3>2. kept \in Spots /\ kept.sec = place[t][p].sec BY <2>3, <3>1 DEF Spots
    <3>. QED BY <1>3, <2>1, <2>3, <2>4, <3>2
  <2>5. CASE ~(x.stays /\ place[t][p] # None) BY <1>3, <2>1, <2>3, <2>5
  <2>. QED BY <2>4, <2>5
<1>. QED BY <1>1, <1>2, <1>3

LEMMA ParentedIs ==
    ASSUME PlaceTypeOK, NEW q, TypedWrites(q), NEW t \in TaskIds
    PROVE  /\ Parented(q.w, t) \in Ups
           /\ Parented(q.w, t).up # None => Parented(q.w, t).up < t
           /\ \/ (\A x \in q.w.par : x.t # t) /\ Parented(q.w, t) = parent[t]
              \/ \E x \in q.w.par :
                    x.t = t /\ Parented(q.w, t).up = IF x.stays THEN parent[t].up ELSE x.at.up
<1>. DEFINE W == {x \in q.w.par : x.t = t}
<1>1. parent[t] \in Ups /\ (parent[t].up # None => parent[t].up < t) BY DEF PlaceTypeOK
<1>2. CASE W = {} BY <1>1, <1>2 DEF Parented
<1>3. CASE W # {}
  <2>. DEFINE x == CHOOSE x \in W : TRUE
  <2>1. Parented(q.w, t) = IF x.stays THEN [parent[t] EXCEPT !.pos = x.at.pos] ELSE x.at
      BY <1>3 DEF Parented
  <2>2. x \in W BY <1>3
  <2>. HIDE DEF x
  <2>3. x \in q.w.par /\ x.t = t /\ x.at \in Ups /\ (x.at.up # None => x.at.up < t)
      BY <2>2 DEF TypedWrites
  <2>4. CASE x.stays BY <1>1, <2>1, <2>3, <2>4 DEF Ups
  <2>5. CASE ~x.stays BY <2>1, <2>3, <2>5
  <2>. QED BY <2>4, <2>5
<1>. QED BY <1>2, <1>3

\* What a commit of q does, when it may be done.
Commits(r, q) ==
    LET w == q.w IN
    /\ \A x \in w.ins : place[x.t][x.p] = None
    /\ \A x \in w.upd : place[x.t][x.p] # None
    /\ q.op \in Makes => \A t \in DOMAIN w.tasks : life[t] = "unborn"
    /\ place' = [t \in TaskIds |-> [p \in Projects |-> Placed(w, t, p)]]
    /\ parent' = [t \in TaskIds |-> Parented(w, t)]
    /\ life' = [t \in TaskIds |-> IF t \in DOMAIN w.tasks THEN w.tasks[t] ELSE life[t]]
    /\ slife' = [s \in Sections |-> IF s \in DOMAIN w.secs THEN w.secs[s] ELSE slife[s]]
    /\ trail' = IF q.undoes # 0 THEN [trail EXCEPT ![q.undoes].undone = TRUE]
                ELSE Append(trail, [undo |-> q.undo, undone |-> FALSE])
    /\ unmade' = IF q.op = "unmake_section" THEN unmade \cup DOMAIN w.secs ELSE unmade
    /\ collided' = collided \cup {s \in Sections : \E t \in TaskIds : Collides(q, t, s)}
    /\ left' = left \cup {s \in Sections : \E t \in TaskIds : Leaves(q, t, s)}
    /\ clashed' = clashed \cup {t \in TaskIds : t \in Rehomed(w) /\ Home(t) # SawHome(q, t)}
    /\ strays' = strays \cup {t \in TaskIds : q.undoes # 0 /\ t \in {x.t : x \in w.ins} /\ parent[t].up # None}
    /\ sess' = [sess EXCEPT ![r] = None]
    /\ count' = count

LEMMA StoredIs ==
    ASSUME IInv, NEW r \in Sessions, CommitSession(r)
    PROVE  \E q : Decided(q) /\ Commits(r, q)
<1>1. PICK q : q = sess[r] OBVIOUS
<1>2. Commits(r, q) BY <1>1 DEF CommitSession, Commits, Makes
<1>3. Decided(q) BY <1>1 DEF IInv, ReqInv, CommitSession
<1>. QED BY <1>2, <1>3

\* What it does to one task and one of its placements.
LEMMA CommitTask ==
    ASSUME PlaceTypeOK, NEW r \in Sessions, NEW q, TypedWrites(q), Commits(r, q), NEW t \in TaskIds
    PROVE  /\ parent'[t] = Parented(q.w, t)
           /\ life'[t] = IF t \in DOMAIN q.w.tasks THEN q.w.tasks[t] ELSE life[t]
           /\ \A p \in Projects : place'[t][p] = Placed(q.w, t, p)
BY DEF Commits

LEMMA CommitGrows ==
    ASSUME PlaceTypeOK, NEW r \in Sessions, NEW q, TypedWrites(q), Commits(r, q)
    PROVE  Grows
<1>1. \A t \in TaskIds : Born(t) => Born(t)' BY CommitTask DEF Born, TypedWrites
<1>. QED BY <1>1 DEF Grows, Gone, Commits

LEMMA CommitTypes ==
    ASSUME PlaceTypeOK, NEW r \in Sessions, NEW q, TypedWrites(q), Commits(r, q)
    PROVE  PlaceTypeOK'
<1>1. life' \in [TaskIds -> Lives] BY DEF Commits, TypedWrites, PlaceTypeOK, Lives
<1>2. slife' \in [Sections -> Lives] BY DEF Commits, TypedWrites, PlaceTypeOK, Lives
<1>3. ASSUME NEW t \in TaskIds, NEW p \in Projects
      PROVE  /\ Placed(q.w, t, p) \in Spots \cup {None}
             /\ Placed(q.w, t, p) # None => ProjectOf[Placed(q.w, t, p).sec] = p
  <2>1. /\ place[t][p] \in Spots \cup {None}
        /\ place[t][p] # None => ProjectOf[place[t][p].sec] = p
      BY DEF PlaceTypeOK
  <2>2. \A x \in q.w.ins \cup q.w.upd : x.spot \in Spots /\ x.p = ProjectOf[x.spot.sec]
      BY DEF TypedWrites
  <2>3. CASE Placed(q.w, t, p) = None BY <2>3
  <2>4. CASE Placed(q.w, t, p) = place[t][p] BY <2>1, <2>4
  <2>5. ASSUME NEW x \in q.w.ins \cup q.w.upd, x.p = p, Placed(q.w, t, p) = x.spot
        PROVE  Placed(q.w, t, p) \in Spots /\ ProjectOf[Placed(q.w, t, p).sec] = p
      BY <2>2, <2>5
  <2>6. CASE place[t][p] # None /\ Placed(q.w, t, p) \in Spots /\ Placed(q.w, t, p).sec = place[t][p].sec
      BY <2>1, <2>6
  <2>7. \/ Placed(q.w, t, p) = None \/ Placed(q.w, t, p) = place[t][p]
        \/ \E x \in q.w.ins \cup q.w.upd : x.p = p /\ Placed(q.w, t, p) = x.spot
        \/ place[t][p] # None /\ Placed(q.w, t, p) \in Spots /\ Placed(q.w, t, p).sec = place[t][p].sec
    <3>1. \/ <<t, p>> \in q.w.del /\ Placed(q.w, t, p) = None
          \/ /\ <<t, p>> \notin q.w.del
             /\ \A x \in q.w.ins \cup q.w.upd : ~(x.t = t /\ x.p = p)
             /\ Placed(q.w, t, p) = place[t][p]
          \/ /\ <<t, p>> \notin q.w.del
             /\ \E x \in q.w.ins \cup q.w.upd :
                    /\ x.t = t /\ x.p = p
                    /\ \/ Placed(q.w, t, p) = x.spot
                       \/ /\ x.stays /\ place[t][p] # None
                          /\ Placed(q.w, t, p) \in Spots /\ Placed(q.w, t, p).sec = place[t][p].sec
      BY PlacedIs
    <3>. QED BY <3>1
  <2>. QED BY <2>3, <2>4, <2>5, <2>6, <2>7
<1>4. place' \in [TaskIds -> [Projects -> Spots \cup {None}]] BY <1>3 DEF Commits
<1>5. \A t \in TaskIds, p \in Projects : place'[t][p] # None => ProjectOf[place'[t][p].sec] = p
    BY <1>3, CommitTask
<1>6. parent' \in [TaskIds -> Ups] BY ParentedIs DEF Commits
<1>7. \A t \in TaskIds : parent'[t].up # None => parent'[t].up < t BY ParentedIs, CommitTask
<1>8. count' \in Keys BY DEF Commits, PlaceTypeOK
<1>9. unmade' \subseteq Sections BY DEF Commits, PlaceTypeOK, TypedWrites
<1>10. collided' \subseteq Sections /\ left' \subseteq Sections BY DEF Commits, PlaceTypeOK
<1>11. clashed' \subseteq TaskIds /\ strays' \subseteq TaskIds BY DEF Commits, PlaceTypeOK
<1>. QED BY <1>1, <1>2, <1>4, <1>5, <1>6, <1>7, <1>8, <1>9, <1>10, <1>11 DEF PlaceTypeOK

LEMMA StoredLog ==
    ASSUME LogInv, NEW r \in Sessions, NEW q, TypedWrites(q), Commits(r, q)
    PROVE  LogInv'
<1>. DEFINE S == {trail[i] : i \in DOMAIN trail}
<1>1. trail \in Seq(S) BY DEF LogInv
<1>2. DOMAIN trail = 1 .. Len(trail) /\ Len(trail) \in Nat BY <1>1
<1>3. CASE q.undoes = 0
  <2>. DEFINE v == [undo |-> q.undo, undone |-> FALSE]
  <2>1. trail' = Append(trail, v) /\ PayloadOK(q.undo) BY <1>3 DEF Commits, TypedWrites
  <2>2. v.undo = q.undo /\ v = [undo |-> v.undo, undone |-> v.undone] OBVIOUS
  <2>. HIDE DEF v, S
  <2>3. /\ Len(trail') = Len(trail) + 1 /\ DOMAIN trail' = 1 .. Len(trail) + 1
        /\ \A i \in DOMAIN trail : trail'[i] = trail[i]
        /\ trail'[Len(trail) + 1] = v
      BY <1>1, <1>2, <2>1
  <2>4. ASSUME NEW i \in DOMAIN trail'
        PROVE  trail'[i] = [undo |-> trail'[i].undo, undone |-> trail'[i].undone] /\ PayloadOK(trail'[i].undo)
    <3>1. i \in DOMAIN trail \/ i = Len(trail) + 1 BY <1>2, <2>3
    <3>. QED BY <2>1, <2>2, <2>3, <3>1 DEF LogInv
  <2>5. trail' \in Seq({trail'[i] : i \in DOMAIN trail'})
    <3>1. trail' \in Seq(S \cup {v}) BY <1>1, <2>1
    <3>2. trail' = [i \in 1 .. Len(trail) + 1 |-> trail'[i]] BY <2>3, <3>1
    <3>. QED BY <1>2, <2>3, <3>2
  <2>. QED BY <2>4, <2>5 DEF LogInv, PayloadOK
<1>4. CASE q.undoes # 0
  <2>. HIDE DEF S
  <2>1. trail' = [trail EXCEPT ![q.undoes].undone = TRUE] BY <1>4 DEF Commits
  <2>2. DOMAIN trail' = 1 .. Len(trail) BY <1>1, <1>2, <2>1
  <2>3. ASSUME NEW i \in DOMAIN trail'
        PROVE  trail'[i] = [undo |-> trail'[i].undo, undone |-> trail'[i].undone] /\ PayloadOK(trail'[i].undo)
    <3>1. trail'[i] = IF i = q.undoes THEN [trail[i] EXCEPT !.undone = TRUE] ELSE trail[i]
        BY <1>2, <2>1, <2>2
    <3>2. trail[i] = [undo |-> trail[i].undo, undone |-> trail[i].undone] /\ PayloadOK(trail[i].undo)
        BY <1>2, <2>2 DEF LogInv
    <3>3. trail'[i].undo = trail[i].undo BY <3>1, <3>2
    <3>4. trail'[i] = [undo |-> trail'[i].undo, undone |-> trail'[i].undone] BY <3>1, <3>2
    <3>. QED BY <3>2, <3>3, <3>4
  <2>4. trail' \in Seq({trail'[i] : i \in DOMAIN trail'})
    <3>1. trail' = [i \in 1 .. Len(trail) |-> trail'[i]] BY <1>1, <1>2, <2>1, <2>2
    <3>. QED BY <1>2, <2>2, <3>1
  <2>. QED BY <2>3, <2>4 DEF LogInv, PayloadOK
<1>. QED BY <1>3, <1>4

\* Only an insert gives a task a placement, only a delete takes one.
LEMMA CommitPlaced ==
    ASSUME PlaceTypeOK, NEW r \in Sessions, NEW q, TypedWrites(q), Commits(r, q), NEW t \in TaskIds, NEW p \in Projects
    PROVE  place'[t][p] # None <=> /\ <<t, p>> \notin q.w.del
                                   /\ place[t][p] # None \/ \E x \in q.w.ins : x.t = t /\ x.p = p
<1>1. place'[t][p] = Placed(q.w, t, p) BY CommitTask
<1>2. \A x \in q.w.ins \cup q.w.upd : x.spot # None BY PlacementAssumption DEF TypedWrites, Spots, Keys
<1>3. \A x \in q.w.upd : place[x.t][x.p] # None BY DEF Commits
<1>4. None \notin Spots BY PlacementAssumption DEF Spots, Keys
<1>. QED BY <1>1, <1>2, <1>3, <1>4, PlacedIs

\* A commit that neither inserts nor deletes placements of a task.
LEMMA CommitKeeps ==
    ASSUME PlaceTypeOK, NEW r \in Sessions, NEW q, TypedWrites(q), Commits(r, q), NEW t \in TaskIds,
           \A x \in q.w.ins : x.t # t, \A p \in Projects : <<t, p>> \notin q.w.del
    PROVE  PlacedIn(t)' = PlacedIn(t)
<1>1. ASSUME NEW p \in Projects PROVE place'[t][p] # None <=> place[t][p] # None
  <2>1. place'[t][p] # None <=> /\ <<t, p>> \notin q.w.del
                                /\ place[t][p] # None \/ \E x \in q.w.ins : x.t = t /\ x.p = p
      BY CommitPlaced
  <2>. QED BY <2>1
<1>. QED BY <1>1 DEF PlacedIn

LEMMA CommitBirth ==
    ASSUME PlaceTypeOK, BirthInv, NEW r \in Sessions, NEW q, TypedWrites(q), Grounded(q), Commits(r, q)
    PROVE  BirthInv'
<1>1. ASSUME NEW t \in TaskIds, ~Born(t)' PROVE parent'[t].up = None /\ PlacedIn(t)' = {}
  <2>1. t \notin DOMAIN q.w.tasks /\ ~Born(t) BY <1>1, CommitTask DEF Born, TypedWrites
  <2>2. \A x \in q.w.ins \cup q.w.par : x.t # t BY <2>1 DEF Grounded
  <2>3. parent[t].up = None /\ PlacedIn(t) = {} BY <2>1 DEF BirthInv
  <2>4. parent'[t] = parent[t] BY <2>2, CommitTask, ParentedIs
  <2>5. PlacedIn(t)' = {}
    <3>1. \A p \in Projects : place[t][p] = None BY <2>3 DEF PlacedIn
    <3>2. ASSUME NEW p \in Projects PROVE place'[t][p] = None
      <4>1. place'[t][p] # None <=> /\ <<t, p>> \notin q.w.del
                                    /\ place[t][p] # None \/ \E x \in q.w.ins : x.t = t /\ x.p = p
          BY CommitPlaced
      <4>. QED BY <2>2, <3>1, <4>1
    <3>. QED BY <3>2 DEF PlacedIn
  <2>. QED BY <2>3, <2>4, <2>5
<1>2. ASSUME NEW t \in TaskIds, NEW u \in TaskIds, u < t, Born(t)' PROVE Born(u)'
  <2>1. Born(u) => Born(u)' BY CommitGrows DEF Grows
  <2>2. CASE Born(t) BY <1>2, <2>1, <2>2 DEF BirthInv
  <2>3. CASE ~Born(t)
    <3>1. t \in DOMAIN q.w.tasks BY <1>2, <2>3, CommitTask DEF Born
    <3>2. u \in 1 .. t - 1 BY <1>2, PlacementAssumption DEF TaskIds
    <3>. QED BY <2>1, <3>1, <3>2 DEF Grounded
  <2>. QED BY <2>2, <2>3
<1>. QED BY <1>1, <1>2 DEF BirthInv

LEMMA CommitHomes ==
    ASSUME PlaceTypeOK, Homes, NEW r \in Sessions, NEW q, TypedWrites(q), Grounded(q), HomeSound(q), Commits(r, q)
    PROVE  Homes'
<1>. SUFFICES ASSUME NEW t \in TaskIds, t \notin clashed', Born(t)'
              PROVE  /\ parent'[t].up = None => PlacedIn(t)' # {}
                     /\ PlacedIn(t)' # {} => parent'[t].up = None \/ t \in strays'
    BY DEF Homes, Born
<1>1. /\ parent'[t] = Parented(q.w, t) /\ t \notin clashed /\ strays \subseteq strays'
      /\ t \in Rehomed(q.w) => Home(t) = SawHome(q, t)
      /\ q.undoes # 0 /\ t \in {x.t : x \in q.w.ins} /\ parent[t].up # None => t \in strays'
    BY CommitTask DEF Commits
<1>2. CASE t \in Rehomed(q.w)
  <2>1. parent[t].up = q.saw.parent[t].up /\ PlacedIn(t) = SawPlaced(q, t)
      BY <1>1, <1>2 DEF Home, SawHome
  <2>2. PlacedIn(t)' = NewPlaced(q, t)
    <3>1. \A p \in Projects : place[t][p] # None <=> p \in SawPlaced(q, t) BY <2>1 DEF PlacedIn
    <3>2. \A p \in Projects : place'[t][p] # None <=> p \in NewPlaced(q, t)
        BY <3>1, CommitPlaced DEF NewPlaced
    <3>3. NewPlaced(q, t) \subseteq Projects
        BY PlacementAssumption DEF NewPlaced, SawPlaced, TypedWrites, Spots
    <3>. QED BY <3>2, <3>3 DEF PlacedIn
  <2>3. NewUp(q, t, parent'[t].up) BY <1>1, <2>1, ParentedIs DEF NewUp
  <2>4. parent'[t].up \in TaskIds \cup {None} BY <1>1, ParentedIs DEF Ups
  <2>5. Replaces(q, t) => t \in strays' BY <1>1, <2>1 DEF Replaces
  <2>. QED BY <1>1, <1>2, <2>2, <2>3, <2>4, <2>5 DEF HomeSound
<1>3. CASE t \notin Rehomed(q.w)
  <2>1. (\A x \in q.w.ins \cup q.w.par : x.t # t) /\ \A x \in q.w.del : x[1] # t BY <1>3 DEF Rehomed
  <2>2. parent'[t] = parent[t] BY <1>1, <2>1, ParentedIs
  <2>3. PlacedIn(t)' = PlacedIn(t)
    <3>1. \A p \in Projects : <<t, p>> \notin q.w.del BY <2>1
    <3>. QED BY <2>1, <3>1, CommitKeeps
  <2>4. Born(t) BY <1>3, CommitTask DEF Grounded, Born
  <2>. QED BY <1>1, <2>2, <2>3, <2>4 DEF Homes, Born
<1>. QED BY <1>2, <1>3

LEMMA CommitInSight ==
    ASSUME PlaceTypeOK, BirthInv, InSight, NEW r \in Sessions, NEW q, Decided(q), Commits(r, q)
    PROVE  InSight'
<1>. SUFFICES ASSUME NEW t \in TaskIds, life'[t] = "live", NEW p \in PlacedIn(t)',
                     slife'[place'[t][p].sec] # "live", place'[t][p].sec \notin Gone'
              PROVE  FALSE
    BY DEF InSight, Gone
<1>1. PICK s : s = place'[t][p].sec OBVIOUS
<1>2. TypedWrites(q) BY DEF Decided
<1>3. p \in Projects /\ place'[t][p] # None /\ s \in Sections /\ ProjectOf[s] = p
    BY <1>1, <1>2, CommitTypes DEF PlacedIn, PlaceTypeOK, Spots
<1>4. /\ slife'[s] = IF s \in DOMAIN q.w.secs THEN q.w.secs[s] ELSE slife[s]
      /\ life'[t] = IF t \in DOMAIN q.w.tasks THEN q.w.tasks[t] ELSE life[t]
      /\ place'[t][p] = Placed(q.w, t, p)
    BY <1>2, <1>3, CommitTask DEF Commits
<1>5. slife'[s] # "live" /\ s \notin unmade' /\ s \notin collided' /\ s \notin left' /\ s \notin Gone
    BY <1>1, <1>2, CommitGrows DEF Gone, Grows
<1>6. InSection(t, s)' BY <1>1, <1>3 DEF InSection
<1>7. ~Collides(q, t, s) /\ ~Leaves(q, t, s) BY <1>3, <1>5 DEF Commits
<1>8. q.saw.slife[s] = "live" => t \notin Touched(q.w) BY <1>5, <1>6, <1>7 DEF Collides
\* It does not put the task there.
<1>9. ASSUME NEW x \in q.w.ins \cup q.w.upd, x.t = t, x.spot.sec = s PROVE FALSE
  <2>1. t \in Touched(q.w) BY <1>9 DEF Touched
  <2>2. q.saw.slife[s] = "live" \/ (s \in DOMAIN q.w.secs /\ q.w.secs[s] = "live")
      BY <1>5, <1>9 DEF Decided, RowsLit
  <2>. QED BY <1>4, <1>5, <1>8, <2>1, <2>2
<1>10. /\ place[t][p] # None /\ place[t][p].sec = s
       /\ ~Moves(q, t, p, s)
  <2>1. place'[t][p] # None BY <1>3
  <2>2. \A x \in q.w.ins \cup q.w.upd : x.t = t => x.spot.sec # s BY <1>9
  <2>3. CASE /\ \A x \in q.w.ins \cup q.w.upd : ~(x.t = t /\ x.p = p)
             /\ place'[t][p] = place[t][p]
      BY <1>1, <1>3, <2>3 DEF Moves
  <2>4. CASE \E x \in q.w.ins \cup q.w.upd :
                /\ x.t = t /\ x.p = p /\ x.stays
                /\ place[t][p] # None /\ place'[t][p].sec = place[t][p].sec
      BY <1>1, <2>4 DEF Moves
  <2>5. \/ <<t, p>> \in q.w.del /\ Placed(q.w, t, p) = None
        \/ /\ \A x \in q.w.ins \cup q.w.upd : ~(x.t = t /\ x.p = p)
           /\ Placed(q.w, t, p) = place[t][p]
        \/ \E x \in q.w.ins \cup q.w.upd :
              /\ x.t = t /\ x.p = p
              /\ \/ Placed(q.w, t, p) = x.spot
                 \/ /\ x.stays /\ place[t][p] # None
                    /\ Placed(q.w, t, p).sec = place[t][p].sec
      BY <1>2, <1>3, PlacedIs
  <2>. QED BY <1>1, <1>4, <2>1, <2>2, <2>3, <2>4, <2>5
<1>11. Born(t) BY <1>10, <1>3 DEF BirthInv, PlacedIn
<1>12. CASE life[t] = "live"
  <2>1. slife[s] = "live" BY <1>3, <1>5, <1>10, <1>12 DEF InSight, PlacedIn, Gone
  <2>2. s \in DOMAIN q.w.secs /\ q.w.secs[s] # "live" BY <1>4, <1>5, <2>1
  <2>3. q.op # "unmake_section" BY <1>5, <2>2 DEF Commits
  <2>4. q.op = "drop_section" /\ Emptied(q, s) BY <2>2, <2>3 DEF Decided, SecsEmptied
  <2>5. SawMember(q, t, s) BY <1>5, <1>6, <1>7, <2>2, <2>4 DEF Collides
  <2>6. ~(t \in DOMAIN q.w.tasks /\ q.w.tasks[t] = "dead") BY <1>4
  <2>. QED BY <1>3, <1>10, <2>4, <2>5, <2>6 DEF Emptied
<1>13. CASE life[t] # "live"
  <2>1. t \in DOMAIN q.w.tasks /\ q.w.tasks[t] = "live" /\ life[t] = "dead"
      BY <1>4, <1>11, <1>13 DEF Born, PlaceTypeOK, Lives
  <2>2. q.op \notin Makes BY <1>11, <2>1 DEF Commits, Born
  <2>3. /\ q.op # "raise_section" /\ q.saw.parent[t].up = None
        /\ q.saw.place[t] = place[t] /\ PlacedIn(t) = {p}
      BY <1>3, <1>5, <1>6, <1>7, <2>1 DEF Leaves
  <2>4. Repaired(q, t) BY <2>1, <2>2, <2>3 DEF Decided, Repairs
  <2>5. SawPlaced(q, t) = {p} BY <2>3 DEF SawPlaced, PlacedIn
  <2>6. q.saw.slife[s] = "live" BY <1>3, <1>10, <2>3, <2>4, <2>5 DEF Repaired
  <2>7. t \in Touched(q.w) BY <2>1 DEF Touched
  <2>. QED BY <1>8, <2>6, <2>7
<1>. QED BY <1>12, <1>13

LEMMA CommitStep ==
    ASSUME IInv, NEW r \in Sessions, CommitSession(r)
    PROVE  IInv'
<1>1. PICK q : Decided(q) /\ Commits(r, q) BY StoredIs
<1>2. TypedWrites(q) /\ Grounded(q) /\ HomeSound(q) BY <1>1 DEF Decided
<1>3. PlaceTypeOK /\ LogInv /\ BirthInv /\ Homes /\ InSight BY DEF IInv
<1>4. PlaceTypeOK' BY <1>1, <1>2, <1>3, CommitTypes
<1>5. LogInv' BY <1>1, <1>2, <1>3, StoredLog
<1>6. BirthInv' BY <1>1, <1>2, <1>3, CommitBirth
<1>7. Homes' BY <1>1, <1>2, <1>3, CommitHomes
<1>8. InSight' BY <1>1, <1>3, CommitInSight
<1>9. ReqInv'
  <2>1. DOMAIN sess = Sessions /\ sess' = [sess EXCEPT ![r] = None] BY <1>1 DEF IInv, ReqInv, Commits
  <2>2. DOMAIN sess' = Sessions BY <2>1
  <2>3. Grows BY <1>1, <1>2, <1>3, CommitGrows
  <2>4. ASSUME NEW d \in {sess[x] : x \in Sessions}' \ {None} PROVE Decided(d)'
    <3>1. d \in {sess[x] : x \in Sessions} \ {None} BY <2>1
    <3>2. Decided(d) BY <3>1 DEF IInv, ReqInv
    <3>. QED BY <2>3, <3>2, StaysDecided
  <2>. QED BY <2>2, <2>4 DEF ReqInv
<1>. QED BY <1>4, <1>5, <1>6, <1>7, <1>8, <1>9 DEF IInv

-----------------------------------------------------------------------------

LEMMA PlaceStart == ASSUME PlaceInit PROVE IInv
<1>1. PICK s \in Existing :
         place = [t \in TaskIds |-> [p \in Projects |->
                    IF t = 1 /\ p = ProjectOf[s] THEN [sec |-> s, pos |-> 0] ELSE None]]
    BY DEF PlaceInit
<1>2. s \in Sections /\ ProjectOf[s] \in Projects /\ slife[s] = "live" /\ 0 \in Keys
    BY PlacementAssumption DEF PlaceInit, Keys
<1>3. [sec |-> s, pos |-> 0] \in Spots /\ [sec |-> s, pos |-> 0] # None
    BY <1>2, PlacementAssumption DEF Spots
<1>4. PlaceTypeOK
  <2>1. life \in [TaskIds -> Lives] /\ slife \in [Sections -> Lives] BY DEF PlaceInit, Lives
  <2>2. place \in [TaskIds -> [Projects -> Spots \cup {None}]] BY <1>1, <1>3
  <2>3. \A t \in TaskIds, p \in Projects : place[t][p] # None => ProjectOf[place[t][p].sec] = p
      BY <1>1, <1>2
  <2>4. parent \in [TaskIds -> Ups] /\ \A t \in TaskIds : parent[t].up = None BY <1>2 DEF PlaceInit, Ups
  <2>. QED BY <1>2, <2>1, <2>2, <2>3, <2>4 DEF PlaceTypeOK, PlaceInit
<1>5. LogInv
  <2>1. trail = <<>> BY DEF PlaceInit
  <2>. QED BY <2>1 DEF LogInv
<1>6. ReqInv BY DEF PlaceInit, ReqInv
<1>7. \A t \in TaskIds : /\ parent[t].up = None
                         /\ life[t] = IF t = 1 THEN "live" ELSE "unborn"
    BY DEF PlaceInit
<1>8. \A t \in TaskIds : PlacedIn(t) = IF t = 1 THEN {ProjectOf[s]} ELSE {}
    BY <1>1, <1>2, <1>3 DEF PlacedIn
<1>9. BirthInv
  <2>1. ASSUME NEW t \in TaskIds, NEW u \in TaskIds, u < t, Born(t) PROVE Born(u)
    <3>1. t = 1 BY <2>1, <1>7 DEF Born
    <3>. QED BY <2>1, <3>1, PlacementAssumption DEF TaskIds
  <2>. QED BY <1>7, <1>8, <2>1 DEF BirthInv, Born
<1>10. Homes BY <1>7, <1>8 DEF Homes
<1>11. InSight
  <2>1. ASSUME NEW t \in TaskIds, life[t] = "live", NEW p \in PlacedIn(t) PROVE slife[place[t][p].sec] = "live"
    <3>1. t = 1 /\ p = ProjectOf[s] BY <2>1, <1>7, <1>8
    <3>. QED BY <1>1, <1>2, <3>1
  <2>. QED BY <2>1 DEF InSight, Gone
<1>. QED BY <1>4, <1>5, <1>6, <1>9, <1>10, <1>11 DEF IInv

LEMMA Step == ASSUME IInv, [PlaceNext]_placeVars PROVE IInv'
<1>1. CASE UNCHANGED placeVars BY <1>1, IdleStep
<1>2. ASSUME NEW r \in Sessions, ServiceCall(r) PROVE IInv' BY <1>2, AskSound, BeginStep
<1>3. ASSUME NEW r \in Sessions, TakeBack(r) PROVE IInv' BY <1>3, TakeBackSound, BeginStep
<1>. QED BY <1>1, <1>2, <1>3, CommitStep, AbortStep DEF PlaceNext

LEMMA Always == PlaceSpec => []IInv
<1>1. PlaceInit => IInv BY PlaceStart
<1>2. IInv /\ [PlaceNext]_placeVars => IInv' BY Step
<1>. QED BY <1>1, <1>2, PTL DEF PlaceSpec

\* The variables have their types; a parent is older than its child, and a task's
\* placement in a project is in one of that project's sections.
THEOREM PlaceTypeCorrect == PlaceSpec => []PlaceTypeOK
<1>1. IInv => PlaceTypeOK BY DEF IInv
<1>. QED BY <1>1, Always, PTL

\* A top-level task is in a project and a subtask in none of its own, whatever is
\* moved, outdented, added, removed, deleted and undone, but for a task whose home
\* two overlapping requests change, and one that the undo of a removal places.
THEOREM HomesHold == PlaceSpec => []Homes
<1>1. IInv => Homes BY DEF IInv
<1>. QED BY <1>1, Always, PTL

\* Every placement of a live task is in a section that people see, but for the
\* three ways out that InSight names.
THEOREM StaysInSight == PlaceSpec => []InSight
<1>1. IInv => InSight BY DEF IInv
<1>. QED BY <1>1, Always, PTL
=============================================================================
