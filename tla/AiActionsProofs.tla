-------------------------- MODULE AiActionsProofs ---------------------------
(* Proofs about AiActions, for any actions, tasks and requests.               *)
EXTENDS AiActions, TLAPS, FiniteSetTheorems

-----------------------------------------------------------------------------
(* Types.                                                                     *)

Saws    == {<<>>} \cup UNION {[Of(a) -> Nat] : a \in Actions}
Opens   == [stage: {"asked", "preview", "read", "ready"}, a: Actions, new: BOOLEAN, auto: BOOLEAN,
            sure: BOOLEAN, preview: Nat, saw: Saws, raced: BOOLEAN]
Stored  == [state: States, watch: Saws, risk: {"low", "high"}, preview: Nat]
Reports == [after: Nat, undone: BOOLEAN]
Hows    == [times: Nat, changed: BOOLEAN, doubled: BOOLEAN, raced: BOOLEAN, knew: BOOLEAN, sure: BOOLEAN]
Sinces  == [changed: BOOLEAN, doubled: BOOLEAN]
Done    == {"applied", "undone"}

TypeInv ==
    /\ version \in [Tasks -> Nat] /\ deleted \in [Tasks -> BOOLEAN]
    /\ DOMAIN marks = Tasks
    /\ \A t \in Tasks : \A m \in marks[t] :
        m[1] \in Actions /\ m[2] \in Ops(m[1]) /\ Does[m[1]][m[2]] = t
    /\ act \in [Actions -> Stored]
    /\ DOMAIN rows = Actions
    /\ \A a \in Actions : IF act[a].state \in Done THEN rows[a] \in [Ops(a) -> Reports]
                          ELSE rows[a] = <<>>
    /\ req \in [Requests -> {Idle} \cup Opens]
    /\ \A r \in Requests : req[r].stage = "ready" => req[r].saw \in [Of(req[r].a) -> Nat]
    /\ edits \in 0 .. MaxEdits /\ touched \subseteq Actions
    /\ how \in [Actions -> Hows] /\ since \in [Actions -> Sinces]

LEMMA OpsOf ==
    ASSUME NEW a \in Actions
    PROVE  /\ Does[a] \in Seq(Tasks) /\ Ops(a) = 1 .. Len(Does[a]) /\ Len(Does[a]) \in Nat
           /\ Ops(a) # {} /\ Of(a) \subseteq Tasks /\ \A k \in Ops(a) : Does[a][k] \in Of(a)
<1>1. Does[a] \in Seq(Tasks) /\ Does[a] # <<>>
  BY ActionsAssumption
<1>2. Ops(a) = 1 .. Len(Does[a]) /\ Len(Does[a]) \in Nat
  BY <1>1 DEF Ops
<1>3. Ops(a) # {}
  BY <1>1, <1>2
<1>4. Of(a) \subseteq Tasks /\ \A k \in Ops(a) : Does[a][k] \in Of(a)
  BY <1>1 DEF Of, Ops, Range
<1> QED
  BY <1>1, <1>2, <1>3, <1>4

\* How many of the operations of an action edit a task is a number.
LEMMA Counts ==
    ASSUME NEW a \in Actions, NEW t
    PROVE  /\ \A k \in 0 .. Len(Does[a]) : EditsOf(a, k, t) \in Nat
           /\ \A K \in SUBSET Ops(a) : Cardinality({k \in K : Does[a][k] = t}) \in Nat
<1>1. ASSUME NEW k \in Nat PROVE EditsOf(a, k, t) \in Nat
  <2>1. IsFiniteSet(1 .. k)
    BY FS_Interval
  <2>2. IsFiniteSet({j \in 1 .. k : Does[a][j] = t})
    BY <2>1, FS_Subset
  <2> QED
    BY <2>2, FS_CardinalityType DEF EditsOf
<1>2. ASSUME NEW K \in SUBSET Ops(a) PROVE Cardinality({k \in K : Does[a][k] = t}) \in Nat
  <2>1. IsFiniteSet(Ops(a))
    BY OpsOf, FS_Interval
  <2>2. {k \in K : Does[a][k] = t} \subseteq Ops(a)
    OBVIOUS
  <2>3. IsFiniteSet({k \in K : Does[a][k] = t})
    BY <2>1, <2>2, FS_Subset
  <2> QED
    BY <2>3, FS_CardinalityType
<1>3. \A k \in 0 .. Len(Does[a]) : k \in Nat
  BY OpsOf
<1> QED
  BY <1>1, <1>2, <1>3

LEMMA VersionsOf ==
    ASSUME TypeInv, NEW a \in Actions
    PROVE  Versions(a) \in [Of(a) -> Nat] /\ Versions(a) \in Saws
BY OpsOf DEF Versions, TypeInv, Saws

LEMMA BusyIsOpen ==
    ASSUME TypeInv, NEW r \in Requests
    PROVE  /\ Busy(r) <=> req[r] \in Opens
           /\ ~Busy(r) <=> req[r] = Idle
           /\ Holds(r) => Busy(r)
<1>1. Idle.stage = "idle" /\ \A q \in Opens : q.stage # "idle"
  BY DEF Idle, Opens
<1>2. req[r] \in {Idle} \cup Opens
  BY DEF TypeInv
<1> QED
  BY <1>1, <1>2 DEF Busy, Holds

\* A change to the tasks in T marks the requests about to write to one of them,
\* and leaves all else of the requests as it is.
LEMMA OvertakenIs ==
    ASSUME NEW rs \in [Requests -> {Idle} \cup Opens], NEW T
    PROVE  LET o == Overtaken(rs, T) IN
           /\ o \in [Requests -> {Idle} \cup Opens]
           /\ \A r \in Requests :
                /\ rs[r] = Idle => o[r] = Idle
                /\ rs[r] \in Opens =>
                    /\ o[r] \in Opens
                    /\ \A x \in {"stage", "a", "new", "auto", "sure", "preview", "saw"} :
                          o[r][x] = rs[r][x]
                    /\ o[r].raced = (rs[r].raced
                                      \/ (rs[r].stage = "ready" /\ Of(rs[r].a) \cap T # {}))
<1> DEFINE o == Overtaken(rs, T)
<1>1. ASSUME NEW r \in Requests
      PROVE  /\ rs[r] = Idle => o[r] = Idle
             /\ rs[r] \in Opens =>
                    /\ o[r] \in Opens
                    /\ \A x \in {"stage", "a", "new", "auto", "sure", "preview", "saw"} :
                          o[r][x] = rs[r][x]
                    /\ o[r].raced = (rs[r].raced
                                      \/ (rs[r].stage = "ready" /\ Of(rs[r].a) \cap T # {}))
  <2>1. CASE rs[r] = Idle
    <3>1. o[r] = rs[r] /\ Idle \notin Opens
      BY <2>1 DEF Overtaken, Idle, Opens
    <3> QED
      BY <2>1, <3>1
  <2>2. CASE rs[r] \in Opens
    <3> DEFINE hit == rs[r].stage = "ready" /\ Of(rs[r].a) \cap T # {}
    <3>1. CASE hit
      <4>1. o[r] = [rs[r] EXCEPT !.raced = TRUE]
        BY <3>1 DEF Overtaken
      <4>2. (rs[r].raced \/ hit) = TRUE
        BY <3>1
      <4> QED
        BY <2>2, <4>1, <4>2 DEF Opens, Idle
    <3>2. CASE ~hit
      <4>1. o[r] = rs[r]
        BY <3>2 DEF Overtaken
      <4>2. rs[r].raced \in BOOLEAN
        BY <2>2 DEF Opens
      <4> QED
        BY <2>2, <3>2, <4>1, <4>2 DEF Opens, Idle
    <3> QED
      BY <3>1, <3>2
  <2> QED
    BY <2>1, <2>2
<1>2. o \in [Requests -> {Idle} \cup Opens]
  <2>1. o = [r \in Requests |-> o[r]]
    BY DEF Overtaken
  <2>2. \A r \in Requests : o[r] \in {Idle} \cup Opens
    BY <1>1
  <2> QED
    BY <2>1, <2>2
<1> QED
  BY <1>1, <1>2

-----------------------------------------------------------------------------
(* What each step does, in the terms the invariants use.                      *)

\* The tasks in T have changed, the others have their versions.
Moved(T) == /\ version' \in [Tasks -> Nat]
            /\ \A t \in Tasks \ T : version'[t] = version[t]

\* What the open requests are after a change to the tasks in T, made by the
\* request in R (nobody's if R is empty), which it ends.
Spread(R, T) ==
    /\ req' \in [Requests -> {Idle} \cup Opens]
    /\ \A s \in Requests :
        /\ s \in R \/ req[s] = Idle => req'[s] = Idle
        /\ s \notin R /\ req[s] \in Opens =>
            /\ req'[s] \in Opens
            /\ \A x \in {"stage", "a", "new", "auto", "sure", "preview", "saw"} :
                  req'[s][x] = req[s][x]
            /\ req'[s].raced = (req[s].raced \/ (req[s].stage = "ready" /\ Of(req[s].a) \cap T # {}))

LEMMA SpreadIs ==
    ASSUME TypeInv, NEW R \in SUBSET Requests, NEW T,
           \/ R = {} /\ req' = Overtaken(req, T)
           \/ \E r \in Requests : R = {r} /\ req' = Overtaken([req EXCEPT ![r] = Idle], T)
    PROVE  Spread(R, T)
<1>1. CASE R = {} /\ req' = Overtaken(req, T)
  <2>1. req \in [Requests -> {Idle} \cup Opens]
    BY DEF TypeInv
  <2> QED
    BY <1>1, <2>1, OvertakenIs DEF Spread
<1>2. ASSUME NEW r \in Requests, R = {r}, req' = Overtaken([req EXCEPT ![r] = Idle], T)
      PROVE  Spread(R, T)
  <2> DEFINE rs == [req EXCEPT ![r] = Idle]
  <2>1. rs \in [Requests -> {Idle} \cup Opens]
    BY DEF TypeInv
  <2>2. \A s \in Requests : rs[s] = IF s = r THEN Idle ELSE req[s]
    BY DEF TypeInv
  <2>3. req' = Overtaken(rs, T)
    BY <1>2
  <2> HIDE DEF rs
  <2>4. req' \in [Requests -> {Idle} \cup Opens]
    BY <2>1, <2>3, OvertakenIs
  <2>5. ASSUME NEW s \in Requests
        PROVE  /\ s = r \/ req[s] = Idle => req'[s] = Idle
               /\ s # r /\ req[s] \in Opens =>
                    /\ req'[s] \in Opens
                    /\ \A x \in {"stage", "a", "new", "auto", "sure", "preview", "saw"} :
                          req'[s][x] = req[s][x]
                    /\ req'[s].raced =
                          (req[s].raced \/ (req[s].stage = "ready" /\ Of(req[s].a) \cap T # {}))
    <3>1. CASE s = r
      BY <2>1, <2>2, <2>3, <3>1, OvertakenIs
    <3>2. CASE s # r
      BY <2>1, <2>2, <2>3, <3>2, OvertakenIs
    <3> QED
      BY <3>1, <3>2
  <2> QED
    BY <1>2, <2>4, <2>5 DEF Spread
<1> QED
  BY <1>1, <1>2

\* The action a is now st, and all else about the actions is as it was.
Becomes(a, st) ==
    /\ act' \in [Actions -> Stored] /\ act'[a].state = st
    /\ \A x \in {"watch", "risk", "preview"} : act'[a][x] = act[a][x]
    /\ \A b \in Actions \ {a} : act'[b] = act[b]

LEMMA BecomesIs ==
    ASSUME TypeInv, NEW a \in Actions, NEW st \in States, act' = [act EXCEPT ![a].state = st]
    PROVE  Becomes(a, st)
<1> DEFINE z == [act[a] EXCEPT !.state = st]
<1>1. z \in Stored /\ z.state = st /\ \A x \in {"watch", "risk", "preview"} : z[x] = act[a][x]
  <2>1. act[a] \in Stored
    BY DEF TypeInv
  <2> QED
    BY <2>1 DEF Stored
<1>2. act' = [act EXCEPT ![a] = z]
  OBVIOUS
<1> HIDE DEF z
<1>t. act \in [Actions -> Stored]
  BY DEF TypeInv
<1>3. act' \in [Actions -> Stored] /\ act'[a] = z /\ \A b \in Actions \ {a} : act'[b] = act[b]
  BY <1>t, <1>1, <1>2
<1> QED
  BY <1>1, <1>3 DEF Becomes

Reopened(r, z) == /\ req' \in [Requests -> {Idle} \cup Opens] /\ req'[r] = z
                  /\ \A s \in Requests \ {r} : req'[s] = req[s]

LEMMA CloseIs ==
    ASSUME TypeInv, NEW r \in Requests, Close(r) PROVE Reopened(r, Idle)
BY DEF Close, TypeInv, Reopened

\* A request that goes on keeps what it is about.
LEMMA GoesIs ==
    ASSUME TypeInv, NEW r \in Requests, req[r] \in Opens
    PROVE  /\ \A stage \in {"asked", "preview", "read", "ready"} : Goes(r, stage) =>
                \E z \in Opens : /\ Reopened(r, z) /\ z.stage = stage
                                 /\ \A x \in {"a", "new", "auto", "sure", "preview", "saw", "raced"} :
                                        z[x] = req[r][x]
           /\ Write(r) =>
                \E z \in Opens : /\ Reopened(r, z) /\ z.stage = "ready" /\ z.saw = Versions(req[r].a)
                                 /\ \A x \in {"a", "new", "auto", "sure", "preview", "raced"} :
                                        z[x] = req[r][x]
<1>1. ASSUME NEW stage \in {"asked", "preview", "read", "ready"}, Goes(r, stage)
      PROVE  \E z \in Opens : /\ Reopened(r, z) /\ z.stage = stage
                              /\ \A x \in {"a", "new", "auto", "sure", "preview", "saw", "raced"} :
                                     z[x] = req[r][x]
  <2> DEFINE z == [req[r] EXCEPT !.stage = stage]
  <2>1. z \in Opens /\ z.stage = stage
        /\ \A x \in {"a", "new", "auto", "sure", "preview", "saw", "raced"} : z[x] = req[r][x]
    BY DEF Opens
  <2>2. req' = [req EXCEPT ![r] = z]
    BY <1>1 DEF Goes
  <2> HIDE DEF z
  <2>3. Reopened(r, z)
    BY <2>1, <2>2 DEF TypeInv, Reopened
  <2> QED
    BY <2>1, <2>3
<1>2. ASSUME Write(r)
      PROVE  \E z \in Opens : /\ Reopened(r, z) /\ z.stage = "ready" /\ z.saw = Versions(req[r].a)
                              /\ \A x \in {"a", "new", "auto", "sure", "preview", "raced"} :
                                     z[x] = req[r][x]
  <2> DEFINE v == Versions(req[r].a)
             z == [req[r] EXCEPT !.stage = "ready", !.saw = v]
  <2>1. v \in Saws
    BY VersionsOf DEF Opens
  <2>2. req' = [req EXCEPT ![r] = z]
    BY <1>2 DEF Write, TypeInv
  <2> HIDE DEF v
  <2>3. z \in Opens /\ z.stage = "ready" /\ z.saw = v
        /\ \A x \in {"a", "new", "auto", "sure", "preview", "raced"} : z[x] = req[r][x]
    BY <2>1 DEF Opens
  <2> HIDE DEF z
  <2>4. Reopened(r, z)
    BY <2>2, <2>3 DEF TypeInv, Reopened
  <2> QED
    BY <2>3, <2>4 DEF v
<1> QED
  BY <1>1, <1>2

\* What is remembered of a change to the tasks in T.
Noted(T) ==
    /\ touched' \subseteq Actions /\ since' \in [Actions -> Sinces]
    /\ \A a \in Actions :
        IF act[a].state = "proposed" /\ Of(a) \cap T # {}
        THEN \A t \in Of(a) \cap T : version'[t] <= version[t] => since'[a].doubled
        ELSE since'[a] = since[a]
    /\ \A a \in Actions : since[a].doubled => since'[a].doubled

LEMMA TouchIs ==
    ASSUME TypeInv, NEW T, NEW but, Touch(T, but)
    PROVE  Noted(T)
<1>1. touched' \subseteq Actions
  BY DEF Touch, TypeInv
<1>2. ASSUME NEW a \in Actions
      PROVE  /\ since'[a] \in Sinces
             /\ IF act[a].state = "proposed" /\ Of(a) \cap T # {}
                THEN \A t \in Of(a) \cap T : version'[t] <= version[t] => since'[a].doubled
                ELSE since'[a] = since[a]
             /\ since[a].doubled => since'[a].doubled
  <2> DEFINE D == since[a].doubled \/ \E t \in Of(a) \cap T : version'[t] <= version[t]
  <2>1. since[a] \in Sinces
    BY DEF TypeInv
  <2>2. CASE act[a].state = "proposed" /\ Of(a) \cap T # {}
    <3>1. since'[a] = [changed |-> TRUE, doubled |-> D]
      BY <2>2 DEF Touch
    <3>2. D \in BOOLEAN
      BY <2>1, Zenon DEF Sinces
    <3>3. D <=> (since[a].doubled \/ \E t \in Of(a) \cap T : version'[t] <= version[t])
      OBVIOUS
    <3> HIDE DEF D
    <3>4. since'[a] \in Sinces /\ since'[a].doubled = D
      BY <3>1, <3>2 DEF Sinces
    <3> QED
      BY <2>2, <3>3, <3>4
  <2>3. CASE ~(act[a].state = "proposed" /\ Of(a) \cap T # {})
    BY <2>1, <2>3 DEF Touch
  <2> QED
    BY <2>2, <2>3
<1>3. since' \in [Actions -> Sinces]
  <2>1. since' = [a \in Actions |-> since'[a]]
    BY DEF Touch
  <2> QED
    BY <1>2, <2>1
<1> QED
  BY <1>1, <1>2, <1>3 DEF Noted

LEMMA ChangeIs ==
    ASSUME TypeInv, NEW t \in Tasks, Change(t)
    PROVE  /\ Moved({t}) /\ Spread({}, {t})
           /\ deleted' \in [Tasks -> BOOLEAN] /\ edits' \in 0 .. MaxEdits /\ Noted({t})
           /\ UNCHANGED <<marks, act, rows, how>>
<1>1. Moved({t})
  <2>1. PICK v \in 2 .. version[t] + 1 : version' = [version EXCEPT ![t] = v]
    BY DEF Change
  <2>2. v \in Nat
    OBVIOUS
  <2> QED
    BY <2>1, <2>2 DEF Moved, TypeInv
<1>2. Spread({}, {t})
  <2>1. req' = Overtaken(req, {t})
    BY DEF Change
  <2> QED
    BY <2>1, SpreadIs
<1>3. deleted' \in [Tasks -> BOOLEAN]
  BY DEF Change, TypeInv
<1>4. edits' \in 0 .. MaxEdits
  BY ActionsAssumption DEF Change, TypeInv
<1>5. Noted({t})
  BY TouchIs DEF Change
<1> QED
  BY <1>1, <1>2, <1>3, <1>4, <1>5 DEF Change

\* The effects of an action that is applied, and what it reports.
Applies(a) ==
    /\ Becomes(a, "applied")
    /\ DOMAIN marks' = Tasks
    /\ \A t \in Tasks : marks'[t] = marks[t] \cup {<<a, k>> : k \in {j \in Ops(a) : Does[a][j] = t}}
    /\ DOMAIN rows' = Actions /\ rows'[a] \in [Ops(a) -> Reports]
    /\ \A k \in Ops(a) : ~rows'[a][k].undone
    /\ \A b \in Actions \ {a} : rows'[b] = rows[b]

LEMMA ExecuteIs ==
    ASSUME TypeInv, NEW r \in Requests, Execute(r)
    PROVE  LET a == req[r].a IN
           /\ a \in Actions /\ req[r] \in Opens /\ req[r].stage = "ready"
           /\ UNCHANGED <<deleted, edits>>
           /\ \/ /\ Applies(a) /\ Moved(Of(a)) /\ Spread({r}, Of(a)) /\ Noted(Of(a))
                 /\ how' = [how EXCEPT ![a] =
                        [times |-> how[a].times + 1, changed |-> since[a].changed, doubled |-> since[a].doubled,
                         raced |-> req[r].raced, knew |-> req[r].preview = act[a].preview,
                         sure |-> req[r].sure \/ act[a].risk = "low"]]
              \/ /\ Becomes(a, "failed") /\ Reopened(r, Idle)
                 /\ UNCHANGED <<version, marks, rows, hist>>
<1> DEFINE a == req[r].a
<1>1. req[r].stage = "ready" /\ UNCHANGED <<deleted, edits>>
  BY DEF Execute
<1>2. req[r] \in Opens
  BY <1>1, BusyIsOpen DEF Busy
<1>3. a \in Actions /\ req[r].saw \in [Of(a) -> Nat]
  BY <1>1, <1>2 DEF Opens, TypeInv
<1>4. CASE /\ act' = [act EXCEPT ![a].state = "failed"] /\ Close(r)
           /\ UNCHANGED <<version, marks, rows, hist>>
  <2>1. Becomes(a, "failed") /\ Reopened(r, Idle)
    BY <1>3, <1>4, BecomesIs, CloseIs DEF States
  <2> QED
    BY <1>1, <1>2, <1>3, <1>4, <2>1
<1>5. CASE ~(/\ act' = [act EXCEPT ![a].state = "failed"] /\ Close(r)
             /\ UNCHANGED <<version, marks, rows, hist>>)
  <2>1. /\ marks' = [t \in Tasks |->
                        marks[t] \cup {<<a, k>> : k \in {j \in Ops(a) : Does[a][j] = t}}]
        /\ act' = [act EXCEPT ![a].state = "applied"]
        /\ req' = Overtaken([req EXCEPT ![r] = Idle], Of(a))
        /\ Touch(Of(a), {a})
    BY <1>5 DEF Execute
  <2>2. how' = [how EXCEPT ![a] =
            [times |-> how[a].times + 1, changed |-> since[a].changed, doubled |-> since[a].doubled,
             raced |-> req[r].raced, knew |-> req[r].preview = act[a].preview,
             sure |-> req[r].sure \/ act[a].risk = "low"]]
    BY <1>5 DEF Execute
  <2>3. PICK base \in {Versions(a), req[r].saw} :
          /\ version' = [t \in Tasks |->
                            IF t \in Of(a) THEN base[t] + EditsOf(a, Len(Does[a]), t) ELSE version[t]]
          /\ rows' = [rows EXCEPT ![a] =
                [k \in Ops(a) |-> [after |-> base[Does[a][k]] + EditsOf(a, k, Does[a][k]),
                                   undone |-> FALSE]]]
    BY <1>5 DEF Execute
  <2> HIDE DEF a
  <2>4. base \in [Of(a) -> Nat]
    BY <1>3, <2>3, VersionsOf DEF a
  <2>5. /\ Does[a] \in Seq(Tasks) /\ Ops(a) = 1 .. Len(Does[a]) /\ Len(Does[a]) \in Nat
        /\ Of(a) \subseteq Tasks /\ \A k \in Ops(a) : Does[a][k] \in Of(a)
    BY <1>3, OpsOf
  <2>6. Moved(Of(a))
    <3>1. \A t \in Tasks : EditsOf(a, Len(Does[a]), t) \in Nat
      <4>1. Len(Does[a]) \in 0 .. Len(Does[a])
        BY <2>5
      <4> QED
        BY <1>3, <4>1, Counts
    <3>2. \A t \in Of(a) : base[t] \in Nat
      BY <2>4
    <3> QED
      BY <2>3, <3>1, <3>2 DEF Moved, TypeInv
  <2>7. Spread({r}, Of(a))
    BY <2>1, SpreadIs
  <2>8. Becomes(a, "applied")
    BY <1>3, <2>1, BecomesIs DEF States
  <2>9. DOMAIN rows' = Actions /\ rows'[a] \in [Ops(a) -> Reports]
        /\ (\A k \in Ops(a) : ~rows'[a][k].undone) /\ \A b \in Actions \ {a} : rows'[b] = rows[b]
    <3> DEFINE z == [k \in Ops(a) |-> [after |-> base[Does[a][k]] + EditsOf(a, k, Does[a][k]),
                                       undone |-> FALSE]]
    <3>1. ASSUME NEW k \in Ops(a) PROVE base[Does[a][k]] + EditsOf(a, k, Does[a][k]) \in Nat
      <4>1. base[Does[a][k]] \in Nat
        BY <2>4, <2>5
      <4>2. k \in 0 .. Len(Does[a])
        BY <2>5
      <4>3. EditsOf(a, k, Does[a][k]) \in Nat
        BY <1>3, <4>2, Counts
      <4> QED
        BY <4>1, <4>3
    <3>2. z \in [Ops(a) -> Reports] /\ \A k \in Ops(a) : ~z[k].undone
      BY <3>1 DEF Reports
    <3>3. rows' = [rows EXCEPT ![a] = z]
      BY <2>3
    <3> HIDE DEF z
    <3> QED
      BY <1>3, <3>2, <3>3 DEF TypeInv
  <2>10. Noted(Of(a))
    BY <2>1, TouchIs
  <2> QED
    BY <1>1, <1>2, <1>3, <2>1, <2>2, <2>6, <2>7, <2>8, <2>9, <2>10 DEF a, Applies
<1> QED
  BY <1>4, <1>5

\* Taking back the operations K of an applied action.
LEMMA TakeBackIs ==
    ASSUME TypeInv, NEW a \in Actions, act[a].state = "applied", NEW K \in SUBSET Ops(a),
           TakeBack(a, K)
    PROVE  /\ Moved({Does[a][k] : k \in K}) /\ Spread({}, {Does[a][k] : k \in K})
           /\ Noted({Does[a][k] : k \in K}) /\ UNCHANGED <<deleted, edits, how>>
           /\ DOMAIN marks' = Tasks
           /\ \A t \in Tasks : marks'[t] = marks[t] \ {<<a, k>> : k \in K}
           /\ DOMAIN rows' = Actions /\ rows'[a] \in [Ops(a) -> Reports]
           /\ \A k \in Ops(a) : rows'[a][k].undone = (k \in K \/ rows[a][k].undone)
           /\ \A b \in Actions \ {a} : rows'[b] = rows[b]
<1> DEFINE T == {Does[a][k] : k \in K}
<1>1. Moved(T)
  <2>1. \A t \in Tasks : Cardinality({k \in K : Does[a][k] = t}) \in Nat
    BY Counts
  <2>2. version' = [t \in Tasks |-> version[t] + Cardinality({k \in K : Does[a][k] = t})]
    BY DEF TakeBack
  <2>3. version' \in [Tasks -> Nat]
    BY <2>1, <2>2 DEF TypeInv
  <2>4. ASSUME NEW t \in Tasks \ T PROVE version'[t] = version[t]
    <3>1. {k \in K : Does[a][k] = t} = {}
      BY <2>4
    <3>2. Cardinality({k \in K : Does[a][k] = t}) = 0
      BY <3>1, FS_EmptySet
    <3> QED
      BY <2>2, <3>2 DEF TypeInv
  <2> QED
    BY <2>3, <2>4 DEF Moved
<1>2. Spread({}, T)
  <2>1. req' = Overtaken(req, T)
    BY DEF TakeBack
  <2> HIDE DEF T
  <2> QED
    BY <2>1, SpreadIs
<1>3. rows[a] \in [Ops(a) -> Reports]
  BY DEF TypeInv, Done
<1>4. DOMAIN rows' = Actions /\ rows'[a] \in [Ops(a) -> Reports]
      /\ (\A k \in Ops(a) : rows'[a][k].undone = (k \in K \/ rows[a][k].undone))
      /\ \A b \in Actions \ {a} : rows'[b] = rows[b]
  <2> DEFINE z == [k \in Ops(a) |->
                    IF k \in K THEN [rows[a][k] EXCEPT !.undone = TRUE] ELSE rows[a][k]]
  <2>1. ASSUME NEW k \in Ops(a)
        PROVE  z[k] \in Reports /\ z[k].undone = (k \in K \/ rows[a][k].undone)
    <3>1. rows[a][k] \in Reports
      BY <1>3
    <3>2. CASE k \in K
      BY <3>1, <3>2 DEF Reports
    <3>3. CASE k \notin K
      <4>1. rows[a][k].undone \in BOOLEAN
        BY <3>1 DEF Reports
      <4> QED
        BY <3>1, <3>3, <4>1
    <3> QED
      BY <3>2, <3>3
  <2>2. rows' = [rows EXCEPT ![a] = z]
    BY DEF TakeBack
  <2>3. z = [k \in Ops(a) |-> z[k]]
    OBVIOUS
  <2> HIDE DEF z
  <2> QED
    BY <2>1, <2>2, <2>3 DEF TypeInv
<1>5. Noted(T)
  BY TouchIs DEF TakeBack
<1> QED
  BY <1>1, <1>2, <1>4, <1>5 DEF TakeBack

LEMMA ProposeIs ==
    ASSUME TypeInv, NEW r \in Requests, NEW a \in Actions, NEW auto \in BOOLEAN, Propose(r, a, auto)
    PROVE  /\ \E z \in Opens : /\ Reopened(r, z) /\ z.stage = "preview" /\ z.a = a /\ z.new
                               /\ z.saw = <<>> /\ ~z.raced
           /\ act[a].state = "none" /\ Free(a) /\ ~Busy(r)
           /\ UNCHANGED <<tasks, act, rows, edits, hist>>
<1> DEFINE z == [stage |-> "preview", a |-> a, new |-> TRUE, auto |-> auto,
                 sure |-> FALSE, preview |-> 1, saw |-> <<>>, raced |-> FALSE]
<1>1. z \in Opens
  BY DEF Opens, Saws
<1>2. req' = [req EXCEPT ![r] = z]
  BY DEF Propose
<1>3. z.stage = "preview" /\ z.a = a /\ z.new /\ z.saw = <<>> /\ ~z.raced
  OBVIOUS
<1> HIDE DEF z
<1>4. Reopened(r, z)
  BY <1>1, <1>2 DEF TypeInv, Reopened
<1> QED
  BY <1>1, <1>3, <1>4 DEF Propose

LEMMA PressIs ==
    ASSUME TypeInv, NEW r \in Requests, NEW a \in Actions, Press(r, a)
    PROVE  /\ \E z \in Opens : /\ Reopened(r, z) /\ z.stage = "asked" /\ z.a = a /\ ~z.new
                               /\ z.saw = <<>> /\ ~z.raced
           /\ ~Busy(r)
           /\ UNCHANGED <<tasks, act, rows, edits, hist>>
<1> DEFINE z == [stage |-> "asked", a |-> a, new |-> FALSE, auto |-> FALSE,
                 sure |-> act[a].risk = "high", preview |-> act[a].preview,
                 saw |-> <<>>, raced |-> FALSE]
<1>1. z \in Opens
  <2>1. act[a].preview \in Nat
    BY DEF TypeInv, Stored
  <2> QED
    BY <2>1 DEF Opens, Saws
<1>2. req' = [req EXCEPT ![r] = z]
  BY DEF Press
<1>3. z.stage = "asked" /\ z.a = a /\ ~z.new /\ z.saw = <<>> /\ ~z.raced
  OBVIOUS
<1> HIDE DEF z
<1>4. Reopened(r, z)
  BY <1>1, <1>2 DEF TypeInv, Reopened
<1> QED
  BY <1>1, <1>3, <1>4 DEF Press

LEMMA PreviewIs ==
    ASSUME TypeInv, NEW r \in Requests, Preview(r)
    PROVE  LET a == req[r].a IN
           /\ a \in Actions /\ req[r] \in Opens /\ req[r].stage = "preview"
           /\ UNCHANGED <<tasks, rows, edits, hist>>
           /\ \/ /\ act' = act
                 /\ \E z \in Opens :
                        /\ Reopened(r, z) /\ z.stage = "read"
                        /\ \A x \in {"a", "new", "auto", "sure", "preview", "raced"} : z[x] = req[r][x]
              \/ /\ IF req[r].new THEN act' = act ELSE Becomes(a, "failed")
                 /\ Reopened(r, Idle)
<1> DEFINE a == req[r].a
<1>1. req[r].stage = "preview"
  BY DEF Preview
<1>2. req[r] \in Opens
  BY <1>1, BusyIsOpen DEF Busy
<1>3. a \in Actions
  BY <1>2 DEF Opens
<1>4. CASE act' = act /\ Goes(r, "read")
  <2>1. \E z \in Opens : /\ Reopened(r, z) /\ z.stage = "read"
                         /\ \A x \in {"a", "new", "auto", "sure", "preview", "saw", "raced"} :
                                z[x] = req[r][x]
    BY <1>2, <1>4, GoesIs
  <2> QED
    BY <1>1, <1>2, <1>3, <1>4, <2>1 DEF Preview
<1>5. CASE /\ act' = IF req[r].new THEN act ELSE [act EXCEPT ![a].state = "failed"]
           /\ Close(r)
  <2>1. IF req[r].new THEN act' = act ELSE Becomes(a, "failed")
    BY <1>3, <1>5, BecomesIs DEF States
  <2>2. Reopened(r, Idle)
    BY <1>5, CloseIs
  <2> QED
    BY <1>1, <1>2, <1>3, <2>1, <2>2 DEF Preview
<1> QED
  BY <1>4, <1>5 DEF Preview

LEMMA StoreIs ==
    ASSUME TypeInv, NEW r \in Requests, Store(r)
    PROVE  LET a == req[r].a IN
           /\ a \in Actions /\ req[r] \in Opens /\ req[r].stage = "read"
           /\ UNCHANGED <<tasks, rows, edits, how, touched>> /\ since' = [since EXCEPT ![a] = Clean]
           /\ act' \in [Actions -> Stored] /\ \A b \in Actions \ {a} : act'[b] = act[b]
           /\ act'[a].state = "proposed" /\ act'[a].watch = Versions(a)
           /\ \/ Reopened(r, Idle)
              \/ /\ act'[a].risk = "low"
                 /\ \E z \in Opens :
                        /\ Reopened(r, z) /\ z.stage = "ready" /\ z.saw = Versions(a)
                        /\ \A x \in {"a", "new", "auto", "sure", "preview", "raced"} : z[x] = req[r][x]
<1> DEFINE a == req[r].a
<1>1. req[r].stage = "read"
  BY DEF Store
<1>2. req[r] \in Opens
  BY <1>1, BusyIsOpen DEF Busy
<1>3. a \in Actions /\ Versions(a) \in Saws /\ act[a].preview + 1 \in Nat
  <2>1. a \in Actions
    BY <1>2 DEF Opens
  <2>2. act[a].preview \in Nat
    BY <2>1 DEF TypeInv, Stored
  <2> QED
    BY <2>1, <2>2, VersionsOf
<1>4. PICK risk \in {"low", "high"} :
        /\ act' = [act EXCEPT ![a] =
                [state |-> "proposed", watch |-> Versions(a), risk |-> risk,
                 preview |-> act[a].preview + 1]]
        /\ IF req[r].auto /\ risk = "low" THEN Write(r) ELSE Close(r)
  BY DEF Store
<1> DEFINE z == [state |-> "proposed", watch |-> Versions(a), risk |-> risk,
                 preview |-> act[a].preview + 1]
<1>5. /\ z \in Stored /\ z.state = "proposed" /\ z.watch = Versions(a)
      /\ z.risk = risk
  BY <1>3 DEF Stored, States
<1>6. act' = [act EXCEPT ![a] = z]
  BY <1>4
<1> HIDE DEF z, a
<1>7. act' \in [Actions -> Stored] /\ act'[a] = z /\ \A b \in Actions \ {a} : act'[b] = act[b]
  BY <1>3, <1>5, <1>6 DEF TypeInv
<1>8. \/ Reopened(r, Idle)
      \/ /\ risk = "low"
         /\ \E w \in Opens :
                /\ Reopened(r, w) /\ w.stage = "ready" /\ w.saw = Versions(a)
                /\ \A x \in {"a", "new", "auto", "sure", "preview", "raced"} : w[x] = req[r][x]
  <2>1. CASE Close(r)
    BY <2>1, CloseIs
  <2>2. CASE risk = "low" /\ Write(r)
    BY <1>2, <2>2, GoesIs DEF a
  <2> QED
    BY <1>4, <2>1, <2>2
<1> QED
  BY <1>1, <1>2, <1>3, <1>5, <1>7, <1>8 DEF Store, a

LEMMA OpenIs ==
    ASSUME TypeInv, NEW r \in Requests, Open(r)
    PROVE  LET a == req[r].a IN
           /\ a \in Actions /\ req[r] \in Opens /\ req[r].stage = "asked" /\ Free(a)
           /\ act[a].state = "proposed" /\ (act[a].risk = "high" => req[r].sure)
           /\ UNCHANGED <<tasks, act, rows, edits, hist>>
           /\ \E z \in Opens :
                /\ Reopened(r, z)
                /\ \A x \in {"a", "new", "auto", "sure", "preview", "raced"} : z[x] = req[r][x]
                /\ \/ z.stage = "preview" /\ z.saw = req[r].saw
                   \/ z.stage = "ready" /\ z.saw = Versions(a) /\ ~Stale(a)
<1> DEFINE a == req[r].a
<1>1. /\ req[r].stage = "asked" /\ Free(a) /\ act[a].state = "proposed"
      /\ (act[a].risk = "high" => req[r].sure)
      /\ IF Stale(a) THEN Goes(r, "preview") ELSE Write(r)
      /\ UNCHANGED <<tasks, act, rows, edits, hist>>
  BY DEF Open
<1>2. req[r] \in Opens
  BY <1>1, BusyIsOpen DEF Busy
<1>3. a \in Actions
  BY <1>2 DEF Opens
<1>4. CASE Stale(a)
  <2>1. Goes(r, "preview")
    BY <1>1, <1>4
  <2>2. \E z \in Opens : /\ Reopened(r, z) /\ z.stage = "preview"
                         /\ \A x \in {"a", "new", "auto", "sure", "preview", "saw", "raced"} :
                                z[x] = req[r][x]
    BY <1>2, <2>1, GoesIs
  <2> QED
    BY <1>1, <1>2, <1>3, <2>2
<1>5. CASE ~Stale(a)
  <2>1. Write(r)
    BY <1>1, <1>5
  <2>2. \E z \in Opens : /\ Reopened(r, z) /\ z.stage = "ready" /\ z.saw = Versions(a)
                         /\ \A x \in {"a", "new", "auto", "sure", "preview", "raced"} :
                                z[x] = req[r][x]
    BY <1>2, <2>1, GoesIs
  <2> QED
    BY <1>1, <1>2, <1>3, <1>5, <2>2
<1> QED
  BY <1>4, <1>5

LEMMA AbortIs ==
    ASSUME TypeInv, NEW r \in Requests, Abort(r)
    PROVE  LET a == req[r].a IN
           /\ a \in Actions /\ req[r] \in Opens /\ Reopened(r, Idle)
           /\ UNCHANGED <<tasks, rows, edits, hist>>
           /\ \/ act' = act
              \/ /\ Holds(r) /\ req[r].new /\ act' \in [Actions -> Stored]
                 /\ act'[a] = Unmade /\ \A b \in Actions \ {a} : act'[b] = act[b]
<1> DEFINE a == req[r].a
<1>1. req[r] \in Opens /\ a \in Actions
  <2>1. req[r] \in Opens
    BY BusyIsOpen DEF Abort
  <2> QED
    BY <2>1 DEF Opens
<1>2. Reopened(r, Idle)
  BY CloseIs DEF Abort
<1>3. CASE Holds(r) /\ req[r].new
  <2>1. act' = [act EXCEPT ![a] = Unmade]
    BY <1>3 DEF Abort
  <2>2. Unmade \in Stored
    BY DEF Unmade, Stored, States, Saws
  <2> HIDE DEF a
  <2>3. act' \in [Actions -> Stored] /\ act'[a] = Unmade /\ \A b \in Actions \ {a} : act'[b] = act[b]
    BY <1>1, <2>1, <2>2 DEF TypeInv
  <2> QED
    BY <1>1, <1>2, <1>3, <2>3 DEF a, Abort
<1>4. CASE ~(Holds(r) /\ req[r].new)
  BY <1>1, <1>2, <1>4 DEF Abort
<1> QED
  BY <1>3, <1>4

LEMMA RefuseIs ==
    ASSUME TypeInv, NEW r \in Requests, Refuse(r)
    PROVE  req[r].stage = "asked" /\ Reopened(r, Idle) /\ UNCHANGED <<tasks, act, rows, edits, hist>>
BY CloseIs DEF Refuse

LEMMA CalledOff ==
    ASSUME TypeInv, NEW a \in Actions, Reject(a) \/ Expire(a)
    PROVE  /\ Becomes(a, "rejected") \/ Becomes(a, "expired")
           /\ act[a].state = "proposed" /\ Free(a)
           /\ UNCHANGED <<tasks, rows, req, edits, hist>>
<1>1. \E st \in {"rejected", "expired"} : act' = [act EXCEPT ![a].state = st]
  BY DEF Reject, Expire
<1>2. Becomes(a, "rejected") \/ Becomes(a, "expired")
  BY <1>1, BecomesIs DEF States
<1> QED
  BY <1>2 DEF Reject, Expire

LEMMA UndoActionIs ==
    ASSUME TypeInv, NEW a \in Actions, UndoAction(a)
    PROVE  /\ act[a].state = "applied" /\ Free(a) /\ Becomes(a, "undone")
           /\ TakeBack(a, Ops(a)) /\ Ops(a) \in SUBSET Ops(a)
BY BecomesIs DEF UndoAction, States

LEMMA UndoRowsIs ==
    ASSUME TypeInv, NEW a \in Actions, NEW K \in {{k} : k \in Ops(a)} \cup {Ops(a)}, UndoRows(a, K)
    PROVE  /\ act[a].state = "applied" /\ act' = act
           /\ TakeBack(a, K) /\ K \in SUBSET Ops(a)
BY DEF UndoRows

-----------------------------------------------------------------------------
(* The row of an action is held by one request, which decides.                *)

LockInv ==
    /\ \A r, s \in Requests : Holds(r) /\ Holds(s) /\ req[r].a = req[s].a => r = s
    /\ \A r \in Requests : req[r].stage = "asked" => ~req[r].new
    /\ \A r \in Requests : Holds(r) =>
        act[req[r].a].state = IF req[r].new /\ req[r].stage # "ready" THEN "none" ELSE "proposed"

\* A request that another's change has overtaken is where it was.
LEMMA SpreadKeeps ==
    ASSUME TypeInv, NEW R \in SUBSET Requests, NEW T, Spread(R, T)
    PROVE  \A s \in Requests :
             /\ Busy(s)' => s \notin R /\ Busy(s)
             /\ Busy(s)' => \A x \in {"stage", "a", "new", "auto", "sure", "preview", "saw"} :
                                req'[s][x] = req[s][x]
             /\ Holds(s)' => Holds(s)
<1> SUFFICES ASSUME NEW s \in Requests
             PROVE  /\ Busy(s)' => s \notin R /\ Busy(s)
                    /\ Busy(s)' => \A x \in {"stage", "a", "new", "auto", "sure", "preview", "saw"} :
                                        req'[s][x] = req[s][x]
                    /\ Holds(s)' => Holds(s)
  OBVIOUS
<1>i. Idle.stage = "idle"
  BY DEF Idle
<1>h. Holds(s)' => Busy(s)'
  BY DEF Holds, Busy
<1>1. CASE s \in R \/ req[s] = Idle
  <2>1. req'[s] = Idle
    BY <1>1 DEF Spread
  <2> QED
    BY <1>i, <1>h, <2>1 DEF Busy
<1>2. CASE s \notin R /\ req[s] # Idle
  <2>1. req[s] \in Opens
    BY <1>2 DEF TypeInv
  <2>2. \A x \in {"stage", "a", "new", "auto", "sure", "preview", "saw"} : req'[s][x] = req[s][x]
    BY <1>2, <2>1 DEF Spread
  <2>3. req'[s].stage = req[s].stage
    BY <2>2
  <2> QED
    BY <1>2, <2>2, <2>3 DEF Busy, Holds
<1> QED
  BY <1>1, <1>2

\* Each case of LockNext changes one request, or none but to mark it overtaken.
LEMMA LockOf ==
    ASSUME TypeInv, LockInv, NEW r \in Requests, NEW z \in {Idle} \cup Opens, Reopened(r, z),
           \A a \in Actions : act'[a].state # act[a].state =>
                (\A s \in Requests \ {r} : Holds(s) => req[s].a # a),
           z.stage = "asked" => ~z.new,
           z \in Opens /\ z.stage # "asked" =>
                /\ \A s \in Requests \ {r} : Holds(s) => req[s].a # z.a
                /\ act'[z.a].state = IF z.new /\ z.stage # "ready" THEN "none" ELSE "proposed"
    PROVE  LockInv'
<1>i. Idle.stage = "idle" /\ \A q \in Opens : q.stage \in {"asked", "preview", "read", "ready"}
                                              /\ q.a \in Actions
  BY DEF Idle, Opens
<1>1. req'[r] = z /\ \A s \in Requests \ {r} : req'[s] = req[s]
  BY DEF Reopened
<1>2. \A s \in Requests \ {r} : Holds(s)' <=> Holds(s)
  BY <1>1 DEF Holds
<1>3. Holds(r)' => z \in Opens /\ z.stage # "asked"
  BY <1>1, <1>i DEF Holds
<1>4. \A s \in Requests \ {r} : Holds(s) => act'[req[s].a].state = act[req[s].a].state
  <2>1. \A s \in Requests : Holds(s) => req[s].a \in Actions
    BY <1>i, BusyIsOpen
  <2> QED
    BY <2>1
<1>5. ASSUME NEW s \in Requests, Holds(s)'
      PROVE  act'[req'[s].a].state = IF req'[s].new /\ req'[s].stage # "ready" THEN "none"
                                     ELSE "proposed"
  <2>1. CASE s = r
    BY <1>1, <1>3, <1>5, <2>1
  <2>2. CASE s # r
    BY <1>1, <1>2, <1>4, <1>5, <2>2 DEF LockInv
  <2> QED
    BY <2>1, <2>2
<1>6. ASSUME NEW s \in Requests, NEW x \in Requests, Holds(s)', Holds(x)', req'[s].a = req'[x].a
      PROVE  s = x
  <2>1. CASE s = r /\ x # r
    BY <1>1, <1>2, <1>3, <1>6, <2>1
  <2>2. CASE s # r /\ x = r
    BY <1>1, <1>2, <1>3, <1>6, <2>2
  <2>3. CASE s # r /\ x # r
    BY <1>1, <1>2, <1>6, <2>3 DEF LockInv
  <2> QED
    BY <2>1, <2>2, <2>3
<1>7. \A s \in Requests : req'[s].stage = "asked" => ~req'[s].new
  BY <1>1 DEF LockInv
<1> QED
  BY <1>5, <1>6, <1>7 DEF LockInv

LEMMA LockOfSpread ==
    ASSUME TypeInv, LockInv, NEW R \in SUBSET Requests, NEW T, Spread(R, T),
           \A a \in Actions : act'[a].state # act[a].state =>
                (\A s \in Requests \ R : Holds(s) => req[s].a # a)
    PROVE  LockInv'
<1>1. ASSUME NEW s \in Requests, Holds(s)'
      PROVE  /\ s \notin R /\ Holds(s) /\ req'[s].a = req[s].a /\ req'[s].new = req[s].new
             /\ req'[s].stage = req[s].stage
             /\ act'[req[s].a].state = act[req[s].a].state
  <2>1. Busy(s)'
    BY <1>1 DEF Holds, Busy
  <2>2. s \notin R /\ Holds(s) /\ \A x \in {"stage", "a", "new"} : req'[s][x] = req[s][x]
    BY <1>1, <2>1, SpreadKeeps
  <2>3. req[s].a \in Actions
    BY <2>2, BusyIsOpen DEF Opens
  <2> QED
    BY <2>2, <2>3
<1>2. ASSUME NEW s \in Requests, req'[s].stage = "asked" PROVE ~req'[s].new
  <2>1. Busy(s)'
    BY <1>2 DEF Busy
  <2>2. \A x \in {"stage", "new"} : req'[s][x] = req[s][x]
    BY <2>1, SpreadKeeps
  <2> QED
    BY <1>2, <2>2 DEF LockInv
<1> QED
  BY <1>1, <1>2 DEF LockInv

LEMMA LockNext == TypeInv /\ LockInv /\ [Next]_vars => LockInv'
<1> SUFFICES ASSUME TypeInv, LockInv, [Next]_vars PROVE LockInv'
  OBVIOUS
<1>i. Idle.stage = "idle" /\ Unmade.state = "none" /\ Idle \notin Opens
  BY DEF Idle, Unmade, Opens
<1>1. ASSUME NEW t \in Tasks, Change(t) PROVE LockInv'
  <2>1. Spread({}, {t}) /\ act' = act
    BY <1>1, ChangeIs
  <2> QED
    BY <2>1, LockOfSpread
<1>2. ASSUME NEW r \in Requests, NEW a \in Actions, NEW auto \in BOOLEAN, Propose(r, a, auto)
      PROVE  LockInv'
  <2>1. PICK z \in Opens : Reopened(r, z) /\ z.stage = "preview" /\ z.a = a /\ z.new
    BY <1>2, ProposeIs
  <2>2. act' = act /\ act[a].state = "none" /\ \A s \in Requests : Holds(s) => req[s].a # a
    BY <1>2, ProposeIs DEF Free
  <2> QED
    BY <2>1, <2>2, LockOf
<1>3. ASSUME NEW r \in Requests, NEW a \in Actions, Press(r, a) PROVE LockInv'
  <2>1. PICK z \in Opens : Reopened(r, z) /\ z.stage = "asked" /\ ~z.new
    BY <1>3, PressIs
  <2>2. act' = act
    BY <1>3, PressIs
  <2> QED
    BY <2>1, <2>2, LockOf
<1>4. ASSUME NEW r \in Requests, Preview(r) PROVE LockInv'
  <2> DEFINE a == req[r].a
  <2>1. a \in Actions /\ req[r] \in Opens /\ req[r].stage = "preview" /\ Holds(r)
    BY <1>4, PreviewIs DEF Holds
  <2>2. \A s \in Requests \ {r} : Holds(s) => req[s].a # a
    BY <2>1 DEF LockInv
  <2>3. ASSUME act' = act, NEW z \in Opens, Reopened(r, z), z.stage = "read",
               z.a = a, z.new = req[r].new
        PROVE  LockInv'
    <3>1. act'[z.a].state = IF z.new THEN "none" ELSE "proposed"
      BY <2>1, <2>3 DEF LockInv
    <3> QED
      BY <2>2, <2>3, <3>1, LockOf
  <2>4. ASSUME act' = act \/ Becomes(a, "failed"), Reopened(r, Idle) PROVE LockInv'
    <3>1. \A b \in Actions : act'[b].state # act[b].state => b = a
      BY <2>4 DEF Becomes
    <3> QED
      BY <1>i, <2>2, <2>4, <3>1, LockOf
  <2>5. \/ /\ act' = act
           /\ \E z \in Opens : /\ Reopened(r, z) /\ z.stage = "read"
                               /\ z.a = a /\ z.new = req[r].new
        \/ (act' = act \/ Becomes(a, "failed")) /\ Reopened(r, Idle)
    BY <1>4, PreviewIs
  <2> QED
    BY <2>3, <2>4, <2>5
<1>5. ASSUME NEW r \in Requests, Store(r) PROVE LockInv'
  <2> DEFINE a == req[r].a
  <2>1. /\ a \in Actions /\ req[r] \in Opens /\ req[r].stage = "read" /\ Holds(r)
        /\ act'[a].state = "proposed" /\ \A b \in Actions \ {a} : act'[b] = act[b]
    BY <1>5, StoreIs DEF Holds
  <2>2. \A s \in Requests \ {r} : Holds(s) => req[s].a # a
    BY <2>1 DEF LockInv
  <2>3. ASSUME NEW z \in Opens, Reopened(r, z), z.stage = "ready", z.a = a PROVE LockInv'
    BY <2>1, <2>2, <2>3, LockOf
  <2>4. ASSUME Reopened(r, Idle) PROVE LockInv'
    BY <1>i, <2>1, <2>2, <2>4, LockOf
  <2>5. \/ Reopened(r, Idle)
        \/ \E z \in Opens : Reopened(r, z) /\ z.stage = "ready" /\ z.a = a
    BY <1>5, StoreIs
  <2> QED
    BY <2>3, <2>4, <2>5
<1>6. ASSUME NEW r \in Requests, Open(r) PROVE LockInv'
  <2> DEFINE a == req[r].a
  <2>1. /\ req[r].stage = "asked" /\ Free(a) /\ act[a].state = "proposed" /\ act' = act
    BY <1>6, OpenIs
  <2>2. PICK z \in Opens : Reopened(r, z) /\ z.a = a /\ z.new = req[r].new
                           /\ z.stage \in {"preview", "ready"}
    BY <1>6, OpenIs
  <2>3. ~z.new
    BY <2>1, <2>2 DEF LockInv
  <2> QED
    BY <2>1, <2>2, <2>3, LockOf DEF Free
<1>7. ASSUME NEW r \in Requests, Refuse(r) PROVE LockInv'
  BY <1>7, <1>i, RefuseIs, LockOf
<1>8. ASSUME NEW r \in Requests, Execute(r) PROVE LockInv'
  <2> DEFINE a == req[r].a
  <2>1. a \in Actions /\ req[r].stage = "ready" /\ Holds(r)
    BY <1>8, ExecuteIs DEF Holds
  <2>2. \A s \in Requests \ {r} : Holds(s) => req[s].a # a
    BY <2>1 DEF LockInv
  <2>3. \/ Becomes(a, "applied") /\ Spread({r}, Of(a))
        \/ Becomes(a, "failed") /\ Reopened(r, Idle)
    BY <1>8, ExecuteIs DEF Applies
  <2>4. \A b \in Actions : act'[b].state # act[b].state => b = a
    BY <2>3 DEF Becomes
  <2>5. CASE Spread({r}, Of(a))
    BY <2>2, <2>4, <2>5, LockOfSpread
  <2>6. CASE Reopened(r, Idle)
    BY <1>i, <2>2, <2>4, <2>6, LockOf
  <2> QED
    BY <2>3, <2>5, <2>6
<1>9. ASSUME NEW r \in Requests, Abort(r) PROVE LockInv'
  <2> DEFINE a == req[r].a
  <2>1. /\ a \in Actions /\ Reopened(r, Idle)
        /\ \/ act' = act
           \/ Holds(r) /\ \A b \in Actions \ {a} : act'[b] = act[b]
    BY <1>9, AbortIs
  <2>2. Holds(r) => \A s \in Requests \ {r} : Holds(s) => req[s].a # a
    BY DEF LockInv
  <2> QED
    BY <1>i, <2>1, <2>2, LockOf
<1>10. ASSUME NEW a \in Actions, Reject(a) \/ Expire(a) PROVE LockInv'
  <2>1. (\A b \in Actions \ {a} : act'[b] = act[b]) /\ req' = req
    BY <1>10, CalledOff DEF Becomes
  <2>2. \A s \in Requests : Holds(s) => req[s].a # a /\ req[s].a \in Actions
    BY <1>10, CalledOff, BusyIsOpen DEF Free, Opens
  <2> QED
    BY <2>1, <2>2 DEF LockInv, Holds
<1>11. ASSUME NEW a \in Actions, UndoAction(a) PROVE LockInv'
  <2>1. /\ (\A b \in Actions \ {a} : act'[b] = act[b])
        /\ \A s \in Requests : Holds(s) => req[s].a # a
    BY <1>11, UndoActionIs DEF Becomes, Free
  <2>2. Spread({}, {Does[a][k] : k \in Ops(a)})
    BY <1>11, UndoActionIs, TakeBackIs
  <2> QED
    BY <2>1, <2>2, LockOfSpread
<1>12. ASSUME NEW a \in Actions, NEW K \in {{k} : k \in Ops(a)} \cup {Ops(a)}, UndoRows(a, K)
       PROVE  LockInv'
  <2>1. act' = act
    BY <1>12, UndoRowsIs
  <2>2. Spread({}, {Does[a][k] : k \in K})
    BY <1>12, UndoRowsIs, TakeBackIs
  <2> QED
    BY <2>1, <2>2, LockOfSpread
<1>13. CASE UNCHANGED vars
  BY <1>13 DEF vars, LockInv, Holds
<1> QED
  BY <1>1, <1>2, <1>3, <1>4, <1>5, <1>6, <1>7, <1>8, <1>9, <1>10, <1>11, <1>12, <1>13 DEF Next

-----------------------------------------------------------------------------
(* What a step does to the actions, their effects and their reports: nothing   *)
(* that was done or becomes done, or it applies one, or it takes some back.    *)

Quiet == /\ UNCHANGED <<marks, rows, how>> /\ act' \in [Actions -> Stored]
         /\ \A a \in Actions : act'[a] # act[a] => act[a].state \notin Done /\ act'[a].state \notin Done

Applied(r) ==
    LET a == req[r].a IN
    /\ a \in Actions /\ req[r].stage = "ready" /\ act[a].state = "proposed"
    /\ Applies(a)
    /\ how' = [how EXCEPT ![a] =
            [times |-> how[a].times + 1, changed |-> since[a].changed, doubled |-> since[a].doubled,
             raced |-> req[r].raced, knew |-> req[r].preview = act[a].preview,
             sure |-> req[r].sure \/ act[a].risk = "low"]]

TakenBack(a, K) ==
    /\ act[a].state = "applied" /\ K \in SUBSET Ops(a) /\ TakeBack(a, K)
    /\ act' = act \/ (K = Ops(a) /\ Becomes(a, "undone"))

\* Requests decide about a proposal only, which LockInv says.
LEMMA StepIs ==
    ASSUME TypeInv, LockInv, [Next]_vars
    PROVE  \/ Quiet
           \/ \E r \in Requests : Applied(r)
           \/ \E a \in Actions, K \in UNION {SUBSET Ops(b) : b \in Actions} : TakenBack(a, K)
<1> DEFINE Goal == \/ Quiet
                   \/ \E r \in Requests : Applied(r)
                   \/ \E a \in Actions, K \in UNION {SUBSET Ops(b) : b \in Actions} : TakenBack(a, K)
<1>s. Done = {"applied", "undone"} /\ Unmade.state = "none"
  BY DEF Done, Unmade
<1>h. \A r \in Requests : Holds(r) => act[req[r].a].state \in {"none", "proposed"}
  BY DEF LockInv
<1>k. ASSUME act' = act, UNCHANGED <<marks, rows, how>> PROVE Goal
  BY <1>k DEF Quiet, TypeInv
<1>q. ASSUME NEW a \in Actions, act[a].state \in {"none", "proposed"}, act' \in [Actions -> Stored],
             act'[a].state \in {"none", "proposed", "failed", "rejected", "expired"},
             \A b \in Actions \ {a} : act'[b] = act[b], UNCHANGED <<marks, rows, how>>
      PROVE  Goal
  BY <1>q, <1>s DEF Quiet
<1> HIDE DEF Goal
<1>1. ASSUME NEW t \in Tasks, Change(t) PROVE Goal
  BY <1>1, <1>k, ChangeIs
<1>2. ASSUME NEW r \in Requests, NEW a \in Actions, NEW auto \in BOOLEAN, Propose(r, a, auto)
      PROVE  Goal
  BY <1>2, <1>k, ProposeIs DEF tasks, hist
<1>3. ASSUME NEW r \in Requests, NEW a \in Actions, Press(r, a) PROVE Goal
  BY <1>3, <1>k, PressIs DEF tasks, hist
<1>4. ASSUME NEW r \in Requests, Preview(r) PROVE Goal
  <2> DEFINE a == req[r].a
  <2>1. a \in Actions /\ Holds(r) /\ UNCHANGED <<marks, rows, how>>
    BY <1>4, PreviewIs DEF Holds, tasks, hist
  <2>2. act' = act \/ Becomes(a, "failed")
    BY <1>4, PreviewIs
  <2> HIDE DEF a
  <2>3. CASE Becomes(a, "failed")
    BY <1>h, <1>q, <2>1, <2>3 DEF Becomes, a
  <2> QED
    BY <1>k, <2>1, <2>2, <2>3
<1>5. ASSUME NEW r \in Requests, Store(r) PROVE Goal
  BY <1>5, <1>h, <1>q, StoreIs DEF Holds, tasks, hist
<1>6. ASSUME NEW r \in Requests, Open(r) PROVE Goal
  BY <1>6, <1>k, OpenIs DEF tasks, hist
<1>7. ASSUME NEW r \in Requests, Refuse(r) PROVE Goal
  BY <1>7, <1>k, RefuseIs DEF tasks, hist
<1>8. ASSUME NEW r \in Requests, Execute(r) PROVE Goal
  <2> DEFINE a == req[r].a
  <2>1. a \in Actions /\ req[r].stage = "ready" /\ Holds(r)
    BY <1>8, ExecuteIs DEF Holds
  <2>2. act[a].state = "proposed"
    BY <2>1 DEF LockInv
  <2>3. \/ Applied(r)
        \/ Becomes(a, "failed") /\ UNCHANGED <<marks, rows, how>>
    BY <1>8, <2>1, <2>2, ExecuteIs DEF Applied, hist
  <2>4. CASE Becomes(a, "failed") /\ UNCHANGED <<marks, rows, how>>
    BY <1>q, <2>1, <2>2, <2>4 DEF Becomes
  <2> QED
    BY <2>3, <2>4 DEF Goal
<1>9. ASSUME NEW r \in Requests, Abort(r) PROVE Goal
  <2> DEFINE a == req[r].a
  <2>1. a \in Actions /\ UNCHANGED <<marks, rows, how>>
    BY <1>9, AbortIs DEF tasks, hist
  <2>2. \/ act' = act
        \/ /\ Holds(r) /\ act' \in [Actions -> Stored]
           /\ act'[a] = Unmade /\ \A b \in Actions \ {a} : act'[b] = act[b]
    BY <1>9, AbortIs
  <2> QED
    BY <1>h, <1>k, <1>q, <1>s, <2>1, <2>2
<1>10. ASSUME NEW a \in Actions, Reject(a) \/ Expire(a) PROVE Goal
  <2>1. /\ act[a].state = "proposed" /\ UNCHANGED <<marks, rows, how>>
        /\ Becomes(a, "rejected") \/ Becomes(a, "expired")
    BY <1>10, CalledOff DEF tasks, hist
  <2> QED
    BY <1>q, <2>1 DEF Becomes
<1>11. ASSUME NEW a \in Actions, UndoAction(a) PROVE Goal
  <2>1. TakenBack(a, Ops(a))
    BY <1>11, UndoActionIs DEF TakenBack
  <2>2. Ops(a) \in UNION {SUBSET Ops(b) : b \in Actions}
    OBVIOUS
  <2> QED
    BY <2>1, <2>2 DEF Goal
<1>12. ASSUME NEW a \in Actions, NEW K \in {{k} : k \in Ops(a)} \cup {Ops(a)}, UndoRows(a, K)
       PROVE  Goal
  <2>1. TakenBack(a, K) /\ K \in SUBSET Ops(a)
    BY <1>12, UndoRowsIs DEF TakenBack
  <2>2. K \in UNION {SUBSET Ops(b) : b \in Actions}
    BY <2>1
  <2> QED
    BY <2>1, <2>2 DEF Goal
<1>13. ASSUME UNCHANGED vars PROVE Goal
  <2>1. act' = act /\ UNCHANGED <<marks, rows, how>>
    BY <1>13 DEF vars, tasks, hist
  <2> QED
    BY <1>k, <2>1
<1> QED
  BY <1>1, <1>2, <1>3, <1>4, <1>5, <1>6, <1>7, <1>8, <1>9, <1>10, <1>11, <1>12, <1>13 DEF Next, Goal

-----------------------------------------------------------------------------
(* Types.                                                                      *)

ReqTyped ==
    /\ req \in [Requests -> {Idle} \cup Opens]
    /\ \A r \in Requests : req[r].stage = "ready" => req[r].saw \in [Of(req[r].a) -> Nat]

LEMMA ReqTypedOf ==
    ASSUME TypeInv, NEW r \in Requests, NEW z \in {Idle} \cup Opens, Reopened(r, z),
           z.stage = "ready" => z.saw \in [Of(z.a) -> Nat]
    PROVE  ReqTyped'
BY DEF Reopened, TypeInv, ReqTyped

LEMMA ReqTypedOfSpread ==
    ASSUME TypeInv, NEW R \in SUBSET Requests, NEW T, Spread(R, T)
    PROVE  ReqTyped'
<1>1. ASSUME NEW s \in Requests, req'[s].stage = "ready"
      PROVE  req'[s].saw \in [Of(req'[s].a) -> Nat]
  <2>1. Busy(s)'
    BY <1>1 DEF Busy
  <2>2. \A x \in {"stage", "a", "saw"} : req'[s][x] = req[s][x]
    BY <2>1, SpreadKeeps
  <2> QED
    BY <1>1, <2>2 DEF TypeInv
<1> QED
  BY <1>1 DEF Spread, ReqTyped

\* The part of the types that StepIs tells about.
ActTyped ==
    /\ DOMAIN marks = Tasks
    /\ \A t \in Tasks : \A m \in marks[t] :
        m[1] \in Actions /\ m[2] \in Ops(m[1]) /\ Does[m[1]][m[2]] = t
    /\ act \in [Actions -> Stored]
    /\ DOMAIN rows = Actions
    /\ \A a \in Actions : IF act[a].state \in Done THEN rows[a] \in [Ops(a) -> Reports]
                          ELSE rows[a] = <<>>
    /\ how \in [Actions -> Hows]

LEMMA ActTypedNext == TypeInv /\ LockInv /\ [Next]_vars => ActTyped'
<1> SUFFICES ASSUME TypeInv, LockInv, [Next]_vars PROVE ActTyped'
  OBVIOUS
<1>t. ActTyped
  BY DEF TypeInv, ActTyped
<1>1. CASE Quiet
  <2>1. \A a \in Actions : (act'[a].state \in Done) <=> (act[a].state \in Done)
    BY <1>1 DEF Quiet
  <2> QED
    BY <1>1, <1>t, <2>1 DEF Quiet, ActTyped
<1>2. ASSUME NEW r \in Requests, Applied(r) PROVE ActTyped'
  <2> DEFINE a == req[r].a
             w == [times |-> how[a].times + 1, changed |-> since[a].changed, doubled |-> since[a].doubled,
                   raced |-> req[r].raced, knew |-> req[r].preview = act[a].preview,
                   sure |-> req[r].sure \/ act[a].risk = "low"]
  <2>1. a \in Actions /\ Applies(a) /\ req[r] \in Opens
    BY <1>2, BusyIsOpen DEF Applied, Busy
  <2>2. w \in Hows
    <3>1. /\ how[a].times \in Nat /\ req[r].raced \in BOOLEAN
          /\ since[a].changed \in BOOLEAN /\ since[a].doubled \in BOOLEAN
      BY <1>t, <2>1 DEF ActTyped, Hows, Opens, TypeInv, Sinces
    <3> QED
      BY <3>1 DEF Hows
  <2>3. how' \in [Actions -> Hows]
    <3>1. how' = [how EXCEPT ![a] = w]
      BY <1>2 DEF Applied
    <3> HIDE DEF w, a
    <3> QED
      BY <1>t, <2>1, <2>2, <3>1 DEF ActTyped
  <2> HIDE DEF a
  <2>4. /\ act' \in [Actions -> Stored] /\ act'[a].state = "applied" /\ "applied" \in Done
        /\ \A b \in Actions \ {a} : act'[b] = act[b]
    BY <2>1 DEF Applies, Becomes, Done
  <2>5. DOMAIN marks' = Tasks /\ \A t \in Tasks : \A m \in marks'[t] :
            m[1] \in Actions /\ m[2] \in Ops(m[1]) /\ Does[m[1]][m[2]] = t
    BY <1>t, <2>1 DEF ActTyped, Applies
  <2>6. /\ DOMAIN rows' = Actions
        /\ \A b \in Actions : IF act'[b].state \in Done THEN rows'[b] \in [Ops(b) -> Reports]
                              ELSE rows'[b] = <<>>
    BY <1>t, <2>1, <2>4 DEF ActTyped, Applies
  <2> QED
    BY <2>3, <2>4, <2>5, <2>6 DEF ActTyped
<1>3. ASSUME NEW a \in Actions, NEW K, TakenBack(a, K) PROVE ActTyped'
  <2>1. /\ act[a].state = "applied" /\ K \in SUBSET Ops(a) /\ TakeBack(a, K)
        /\ act' = act \/ Becomes(a, "undone")
    BY <1>3 DEF TakenBack
  <2>2. /\ how' = how /\ DOMAIN marks' = Tasks
        /\ \A t \in Tasks : marks'[t] = marks[t] \ {<<a, k>> : k \in K}
        /\ DOMAIN rows' = Actions /\ rows'[a] \in [Ops(a) -> Reports]
        /\ \A b \in Actions \ {a} : rows'[b] = rows[b]
    BY <2>1, TakeBackIs
  <2>3. /\ act' \in [Actions -> Stored] /\ act'[a].state \in Done
        /\ \A b \in Actions \ {a} : act'[b] = act[b]
    BY <1>t, <2>1 DEF Becomes, ActTyped, Done
  <2> QED
    BY <1>t, <2>2, <2>3 DEF ActTyped
<1> QED
  BY <1>1, <1>2, <1>3, StepIs

\* The versions and what goes with them.
RestTyped == /\ version \in [Tasks -> Nat] /\ deleted \in [Tasks -> BOOLEAN]
             /\ edits \in 0 .. MaxEdits /\ touched \subseteq Actions /\ since \in [Actions -> Sinces]

LEMMA RestTypedNext == TypeInv /\ LockInv /\ [Next]_vars => RestTyped' /\ ReqTyped'
<1> SUFFICES ASSUME TypeInv, LockInv, [Next]_vars PROVE RestTyped' /\ ReqTyped'
  OBVIOUS
<1>i. Idle.stage = "idle"
  BY DEF Idle
<1>t. RestTyped /\ ReqTyped
  BY DEF TypeInv, RestTyped, ReqTyped
<1>u. ASSUME UNCHANGED <<tasks, edits, hist>> PROVE RestTyped'
  BY <1>u, <1>t DEF RestTyped, tasks, hist
<1>c. ASSUME NEW r \in Requests, Reopened(r, Idle) PROVE ReqTyped'
  BY <1>c, <1>i, ReqTypedOf
<1>v. \A a \in Actions : Versions(a) \in [Of(a) -> Nat]
  BY VersionsOf
<1>1. ASSUME NEW t \in Tasks, Change(t) PROVE RestTyped' /\ ReqTyped'
  BY <1>1, ChangeIs, ReqTypedOfSpread DEF RestTyped, Moved, Noted
<1>2. ASSUME NEW r \in Requests, NEW a \in Actions, NEW auto \in BOOLEAN, Propose(r, a, auto)
      PROVE  RestTyped' /\ ReqTyped'
  <2>1. PICK z \in Opens : Reopened(r, z) /\ z.stage = "preview"
    BY <1>2, ProposeIs
  <2> QED
    BY <1>2, <1>u, <2>1, ProposeIs, ReqTypedOf
<1>3. ASSUME NEW r \in Requests, NEW a \in Actions, Press(r, a) PROVE RestTyped' /\ ReqTyped'
  <2>1. PICK z \in Opens : Reopened(r, z) /\ z.stage = "asked"
    BY <1>3, PressIs
  <2> QED
    BY <1>3, <1>u, <2>1, PressIs, ReqTypedOf
<1>4. ASSUME NEW r \in Requests, Preview(r) PROVE RestTyped' /\ ReqTyped'
  <2>1. /\ UNCHANGED <<tasks, edits, hist>>
        /\ (\E z \in Opens : Reopened(r, z) /\ z.stage = "read") \/ Reopened(r, Idle)
    BY <1>4, PreviewIs
  <2>2. ASSUME NEW z \in Opens, Reopened(r, z), z.stage = "read" PROVE ReqTyped'
    BY <2>2, ReqTypedOf
  <2> QED
    BY <1>c, <1>u, <2>1, <2>2
<1>5. ASSUME NEW r \in Requests, Store(r) PROVE RestTyped' /\ ReqTyped'
  <2> DEFINE a == req[r].a
  <2>1. a \in Actions /\ UNCHANGED <<tasks, edits, touched>> /\ since' = [since EXCEPT ![a] = Clean]
        /\ \/ \E z \in Opens : Reopened(r, z) /\ z.a = a /\ z.saw = Versions(a)
           \/ Reopened(r, Idle)
    BY <1>5, StoreIs
  <2>2. ASSUME NEW z \in Opens, Reopened(r, z), z.a = a, z.saw = Versions(a) PROVE ReqTyped'
    BY <1>v, <2>1, <2>2, ReqTypedOf
  <2>3. ReqTyped'
    BY <1>c, <2>1, <2>2
  <2> HIDE DEF a
  <2>4. RestTyped'
    <3>1. Clean \in Sinces
      BY DEF Clean, Sinces
    <3> QED
      BY <1>t, <2>1, <3>1 DEF RestTyped, tasks
  <2> QED
    BY <2>3, <2>4
<1>6. ASSUME NEW r \in Requests, Open(r) PROVE RestTyped' /\ ReqTyped'
  <2> DEFINE a == req[r].a
  <2>1. a \in Actions /\ UNCHANGED <<tasks, edits, hist>>
    BY <1>6, OpenIs
  <2>2. PICK z \in Opens : /\ Reopened(r, z) /\ z.a = a
                           /\ z.stage = "preview" \/ (z.stage = "ready" /\ z.saw = Versions(a))
    BY <1>6, OpenIs
  <2>3. z.stage = "ready" => z.saw \in [Of(z.a) -> Nat]
    BY <1>v, <2>1, <2>2
  <2> QED
    BY <1>u, <2>1, <2>2, <2>3, ReqTypedOf
<1>7. ASSUME NEW r \in Requests, Refuse(r) PROVE RestTyped' /\ ReqTyped'
  BY <1>7, <1>c, <1>u, RefuseIs
<1>8. ASSUME NEW r \in Requests, Execute(r) PROVE RestTyped' /\ ReqTyped'
  <2> DEFINE a == req[r].a
  <2>1. UNCHANGED <<deleted, edits>>
        /\ \/ Moved(Of(a)) /\ Spread({r}, Of(a)) /\ Noted(Of(a))
           \/ Reopened(r, Idle) /\ UNCHANGED <<version, hist>>
    BY <1>8, ExecuteIs
  <2> HIDE DEF a
  <2>2. RestTyped'
    BY <1>t, <2>1 DEF RestTyped, Moved, Noted, hist
  <2>3. ReqTyped'
    <3>1. CASE Spread({r}, Of(a))
      BY <3>1, ReqTypedOfSpread
    <3> QED
      BY <1>c, <2>1, <3>1
  <2> QED
    BY <2>2, <2>3
<1>9. ASSUME NEW r \in Requests, Abort(r) PROVE RestTyped' /\ ReqTyped'
  BY <1>9, <1>c, <1>u, AbortIs
<1>10. ASSUME NEW a \in Actions, Reject(a) \/ Expire(a) PROVE RestTyped' /\ ReqTyped'
  BY <1>10, <1>t, <1>u, CalledOff DEF ReqTyped
<1>11. ASSUME NEW a \in Actions, NEW K \in SUBSET Ops(a), act[a].state = "applied", TakeBack(a, K)
       PROVE  RestTyped' /\ ReqTyped'
  <2> DEFINE T == {Does[a][k] : k \in K}
  <2>1. /\ Moved(T) /\ Spread({}, T)
        /\ Noted(T) /\ UNCHANGED <<deleted, edits, how>>
    BY <1>11, TakeBackIs
  <2> HIDE DEF T
  <2> QED
    BY <1>t, <2>1, ReqTypedOfSpread DEF RestTyped, Moved, Noted
<1>12. ASSUME NEW a \in Actions, UndoAction(a) PROVE RestTyped' /\ ReqTyped'
  BY <1>11, <1>12, UndoActionIs
<1>13. ASSUME NEW a \in Actions, NEW K \in {{k} : k \in Ops(a)} \cup {Ops(a)}, UndoRows(a, K)
       PROVE  RestTyped' /\ ReqTyped'
  BY <1>11, <1>13, UndoRowsIs
<1>14. CASE UNCHANGED vars
  BY <1>14, <1>t DEF vars, tasks, hist, RestTyped, ReqTyped
<1> QED
  BY <1>1, <1>2, <1>3, <1>4, <1>5, <1>6, <1>7, <1>8, <1>9, <1>10, <1>12, <1>13, <1>14 DEF Next

LEMMA Begins == Init => TypeInv /\ LockInv
<1> SUFFICES ASSUME Init PROVE TypeInv /\ LockInv
  OBVIOUS
<1>1. Idle.stage = "idle" /\ Unmade \in Stored /\ Unmade.state \notin Done /\ Never \in Hows /\ Clean \in Sinces
  BY DEF Idle, Unmade, Done, Stored, States, Saws, Never, Hows, Clean, Sinces
<1> QED
  BY <1>1, ActionsAssumption DEF Init, TypeInv, LockInv, Holds

LEMMA Kept == TypeInv /\ LockInv /\ [Next]_vars => TypeInv' /\ LockInv'
<1> SUFFICES ASSUME TypeInv, LockInv, [Next]_vars PROVE TypeInv' /\ LockInv'
  OBVIOUS
<1>1. ActTyped' /\ RestTyped' /\ ReqTyped'
  BY ActTypedNext, RestTypedNext
<1> QED
  BY <1>1, LockNext DEF TypeInv, ActTyped, RestTyped, ReqTyped

LEMMA Types == Spec => [](TypeInv /\ LockInv)
BY Begins, Kept, PTL DEF Spec

\* Every variable has values of its type, and reports exist of what was applied.
THEOREM TypeCorrect == Spec => []TypeOK
<1>1. TypeInv => TypeOK
  <2> SUFFICES ASSUME TypeInv PROVE TypeOK
    OBVIOUS
  <2>1. \A t \in Tasks : \A m \in marks[t] : m[2] \in Ops(m[1]) /\ Does[m[1]][m[2]] = t
    BY DEF TypeInv
  <2>2. ASSUME NEW a \in Actions
        PROVE  /\ act[a].state \in States /\ act[a].risk \in {"low", "high"} /\ act[a].preview \in Nat
               /\ rows[a] # <<>> <=> act[a].state \in {"applied", "undone"}
    <3>1. act[a] \in Stored
      BY DEF TypeInv
    <3>2. rows[a] \in [Ops(a) -> Reports] => rows[a] # <<>>
      <4>1. DOMAIN <<>> = {}
        OBVIOUS
      <4>2. Ops(a) # {}
        BY OpsOf
      <4> QED
        BY <4>1, <4>2
    <3> QED
      BY <3>1, <3>2 DEF Stored, TypeInv, Done
  <2>3. ASSUME NEW r \in Requests
        PROVE  req[r].stage \in {"idle", "asked", "preview", "read", "ready"}
    BY DEF TypeInv, Opens, Idle
  <2> QED
    BY <2>1, <2>2, <2>3 DEF TypeInv, TypeOK
<1> QED
  BY <1>1, Types, PTL

-----------------------------------------------------------------------------
(* An action is applied at most once, and whole.                               *)

EffectInv == \A a \in Actions :
    /\ how[a].times = IF act[a].state \in Done THEN 1 ELSE 0
    /\ \A k \in Ops(a) :
        (<<a, k>> \in marks[Does[a][k]]) <=> (act[a].state \in Done /\ ~rows[a][k].undone)
    /\ act[a].state = "undone" => \A k \in Ops(a) : rows[a][k].undone

LEMMA EffectInit == Init => EffectInv
<1> SUFFICES ASSUME Init PROVE EffectInv
  OBVIOUS
<1>1. Unmade.state = "none" /\ "none" \notin Done /\ Never.times = 0
  BY DEF Unmade, Done, Never
<1>2. \A a \in Actions : \A k \in Ops(a) : Does[a][k] \in Tasks
  BY OpsOf
<1> QED
  BY <1>1, <1>2 DEF Init, EffectInv

LEMMA EffectNext == TypeInv /\ LockInv /\ EffectInv /\ [Next]_vars => EffectInv'
<1> SUFFICES ASSUME TypeInv, LockInv, EffectInv, [Next]_vars, NEW b \in Actions
             PROVE  /\ how'[b].times = IF act'[b].state \in Done THEN 1 ELSE 0
                    /\ \A k \in Ops(b) : (<<b, k>> \in marks'[Does[b][k]])
                                            <=> (act'[b].state \in Done /\ ~rows'[b][k].undone)
                    /\ act'[b].state = "undone" => \A k \in Ops(b) : rows'[b][k].undone
  BY DEF EffectInv
<1>d. Done = {"applied", "undone"}
  BY DEF Done
<1>e. /\ how[b].times = IF act[b].state \in Done THEN 1 ELSE 0
      /\ \A k \in Ops(b) :
            (<<b, k>> \in marks[Does[b][k]]) <=> (act[b].state \in Done /\ ~rows[b][k].undone)
      /\ act[b].state = "undone" => \A k \in Ops(b) : rows[b][k].undone
  BY DEF EffectInv
<1>o. \A k \in Ops(b) : Does[b][k] \in Tasks
  BY OpsOf
<1>1. CASE Quiet
  <2>1. UNCHANGED <<marks, rows, how>>
        /\ (act'[b] = act[b] \/ (act[b].state \notin Done /\ act'[b].state \notin Done))
    BY <1>1 DEF Quiet
  <2>2. CASE act'[b] = act[b]
    BY <1>e, <2>1, <2>2
  <2>3. CASE act[b].state \notin Done /\ act'[b].state \notin Done
    BY <1>d, <1>e, <2>1, <2>3
  <2> QED
    BY <2>1, <2>2, <2>3
<1>2. ASSUME NEW r \in Requests, Applied(r)
      PROVE  /\ how'[b].times = IF act'[b].state \in Done THEN 1 ELSE 0
             /\ \A k \in Ops(b) : (<<b, k>> \in marks'[Does[b][k]])
                                      <=> (act'[b].state \in Done /\ ~rows'[b][k].undone)
             /\ act'[b].state = "undone" => \A k \in Ops(b) : rows'[b][k].undone
  <2> DEFINE a == req[r].a
             w == [times |-> how[a].times + 1, changed |-> since[a].changed, doubled |-> since[a].doubled,
                   raced |-> req[r].raced, knew |-> req[r].preview = act[a].preview,
                   sure |-> req[r].sure \/ act[a].risk = "low"]
  <2>1. a \in Actions /\ Applies(a) /\ act[a].state = "proposed"
    BY <1>2 DEF Applied
  <2>2. how' = [how EXCEPT ![a] = w] /\ w.times = how[a].times + 1
    BY <1>2 DEF Applied
  <2>h. DOMAIN how = Actions
    BY DEF TypeInv
  <2> HIDE DEF w, a
  <2>3. \A t \in Tasks : marks'[t] = marks[t] \cup {<<a, k>> : k \in {j \in Ops(a) : Does[a][j] = t}}
    BY <2>1 DEF Applies
  <2>4. CASE b = a
    <3>1. how'[b].times = 1
      BY <1>d, <1>e, <2>1, <2>2, <2>4, <2>h
    <3>2. act'[b].state = "applied" /\ \A k \in Ops(b) : ~rows'[b][k].undone
      BY <2>1, <2>4 DEF Applies, Becomes
    <3>3. \A k \in Ops(b) : <<b, k>> \in marks'[Does[b][k]]
      BY <1>o, <2>3, <2>4
    <3> QED
      BY <1>d, <3>1, <3>2, <3>3
  <2>5. CASE b # a
    <3>1. how'[b] = how[b] /\ act'[b] = act[b] /\ rows'[b] = rows[b]
      BY <2>1, <2>2, <2>5, <2>h DEF Applies, Becomes
    <3>2. \A k \in Ops(b) : (<<b, k>> \in marks'[Does[b][k]]) <=> (<<b, k>> \in marks[Does[b][k]])
      BY <1>o, <2>3, <2>5
    <3> QED
      BY <1>e, <3>1, <3>2
  <2> QED
    BY <2>4, <2>5
<1>3. ASSUME NEW a \in Actions, NEW K, TakenBack(a, K)
      PROVE  /\ how'[b].times = IF act'[b].state \in Done THEN 1 ELSE 0
             /\ \A k \in Ops(b) : (<<b, k>> \in marks'[Does[b][k]])
                                      <=> (act'[b].state \in Done /\ ~rows'[b][k].undone)
             /\ act'[b].state = "undone" => \A k \in Ops(b) : rows'[b][k].undone
  <2>1. act[a].state = "applied" /\ K \in SUBSET Ops(a) /\ TakeBack(a, K)
    BY <1>3 DEF TakenBack
  <2>2. /\ how' = how
        /\ \A t \in Tasks : marks'[t] = marks[t] \ {<<a, k>> : k \in K}
        /\ \A k \in Ops(a) : rows'[a][k].undone = (k \in K \/ rows[a][k].undone)
        /\ \A c \in Actions \ {a} : rows'[c] = rows[c]
    BY <2>1, TakeBackIs
  <2>3. /\ \A c \in Actions \ {a} : act'[c] = act[c]
        /\ act'[a].state = "applied" \/ (act'[a].state = "undone" /\ K = Ops(a))
    BY <1>3, <2>1 DEF TakenBack, Becomes
  <2>4. CASE b = a
    <3>1. \A k \in Ops(b) : (<<b, k>> \in marks'[Does[b][k]])
                                <=> (<<b, k>> \in marks[Does[b][k]] /\ k \notin K)
      BY <1>o, <2>2, <2>4
    <3>2. \A k \in Ops(b) : rows'[b][k].undone <=> (k \in K \/ rows[b][k].undone)
      BY <2>2, <2>4
    <3>3. act'[b].state \in Done /\ act[b].state \in Done
          /\ (act'[b].state = "undone" => K = Ops(b))
      BY <1>d, <2>1, <2>3, <2>4
    <3>4. \A k \in Ops(b) : (<<b, k>> \in marks'[Does[b][k]])
                                <=> (act'[b].state \in Done /\ ~rows'[b][k].undone)
      BY <1>e, <3>1, <3>2, <3>3
    <3>5. act'[b].state = "undone" => \A k \in Ops(b) : rows'[b][k].undone
      BY <3>2, <3>3
    <3>6. how'[b].times = IF act'[b].state \in Done THEN 1 ELSE 0
      BY <1>e, <2>2, <3>3
    <3> QED
      BY <3>4, <3>5, <3>6
  <2>5. CASE b # a
    <3>1. how'[b] = how[b] /\ act'[b] = act[b] /\ rows'[b] = rows[b]
      BY <2>2, <2>3, <2>5
    <3>2. \A k \in Ops(b) : (<<b, k>> \in marks'[Does[b][k]]) <=> (<<b, k>> \in marks[Does[b][k]])
      BY <1>o, <2>2, <2>5
    <3> QED
      BY <1>e, <3>1, <3>2
  <2> QED
    BY <2>4, <2>5
<1> QED
  BY <1>1, <1>2, <1>3, StepIs

\* Whoever decides at the same time, an action takes effect once and as a
\* whole, and what of it is in the tasks is what has not been undone.
THEOREM OnceOnly == Spec => []OnceAndWhole
<1>1. EffectInv => OnceAndWhole
  <2> SUFFICES ASSUME EffectInv, NEW a \in Actions
               PROVE  LET there == {k \in Ops(a) : <<a, k>> \in marks[Does[a][k]]}
                      IN  /\ how[a].times <= 1
                          /\ act[a].state \in States \ {"applied", "undone"} => there = {}
                          /\ act[a].state = "applied" => there = {k \in Ops(a) : ~rows[a][k].undone}
                          /\ act[a].state = "undone"
                                => there = {} /\ \A k \in Ops(a) : rows[a][k].undone
    BY DEF OnceAndWhole
  <2>1. how[a].times \in {0, 1}
    BY DEF EffectInv
  <2>2. /\ \A k \in Ops(a) :
            (<<a, k>> \in marks[Does[a][k]]) <=> (act[a].state \in Done /\ ~rows[a][k].undone)
        /\ act[a].state = "undone" => \A k \in Ops(a) : rows[a][k].undone
    BY DEF EffectInv
  <2> QED
    BY <2>1, <2>2 DEF Done
<1>2. Spec => []EffectInv
  BY EffectInit, EffectNext, Types, PTL DEF Spec
<1> QED
  BY <1>1, <1>2, PTL

-----------------------------------------------------------------------------
(* What is applied is what was previewed, but for the two windows.             *)

\* The versions noted with a preview are those of the tasks of the action.
WatchInv == \A a \in Actions : act[a].state # "none" => act[a].watch \in [Of(a) -> Nat]

LEMMA WatchNext == TypeInv /\ LockInv /\ WatchInv /\ [Next]_vars => WatchInv'
<1> SUFFICES ASSUME TypeInv, LockInv, WatchInv, [Next]_vars PROVE WatchInv'
  OBVIOUS
<1>b. ASSUME NEW a \in Actions, NEW st, Becomes(a, st), act[a].state # "none"
      PROVE  WatchInv'
  <2>1. act'[a].watch = act[a].watch /\ \A c \in Actions \ {a} : act'[c] = act[c]
    BY <1>b DEF Becomes
  <2> QED
    BY <1>b, <2>1 DEF WatchInv
<1>n. ASSUME act' = act PROVE WatchInv'
  BY <1>n DEF WatchInv
<1>1. ASSUME NEW t \in Tasks, Change(t) PROVE WatchInv'
  BY <1>1, <1>n, ChangeIs
<1>2. ASSUME NEW r \in Requests, NEW a \in Actions, NEW auto \in BOOLEAN, Propose(r, a, auto)
      PROVE  WatchInv'
  BY <1>2, <1>n, ProposeIs
<1>3. ASSUME NEW r \in Requests, NEW a \in Actions, Press(r, a) PROVE WatchInv'
  BY <1>3, <1>n, PressIs
<1>4. ASSUME NEW r \in Requests, Preview(r) PROVE WatchInv'
  <2> DEFINE a == req[r].a
  <2>1. a \in Actions /\ (act' = act \/ (~req[r].new /\ Becomes(a, "failed")))
    BY <1>4, PreviewIs
  <2>2. Holds(r)
    BY <1>4 DEF Preview, Holds
  <2>3. ~req[r].new => act[a].state = "proposed"
    BY <2>2 DEF LockInv
  <2> HIDE DEF a
  <2>4. CASE ~req[r].new /\ Becomes(a, "failed")
    BY <1>b, <2>1, <2>3, <2>4
  <2> QED
    BY <1>n, <2>1, <2>4
<1>5. ASSUME NEW r \in Requests, Store(r) PROVE WatchInv'
  <2> DEFINE a == req[r].a
  <2>1. a \in Actions /\ act'[a].watch = Versions(a) /\ \A b \in Actions \ {a} : act'[b] = act[b]
    BY <1>5, StoreIs
  <2>2. Versions(a) \in [Of(a) -> Nat]
    BY <2>1, VersionsOf
  <2> HIDE DEF a
  <2> QED
    BY <2>1, <2>2 DEF WatchInv
<1>6. ASSUME NEW r \in Requests, Open(r) PROVE WatchInv'
  BY <1>6, <1>n, OpenIs
<1>7. ASSUME NEW r \in Requests, Refuse(r) PROVE WatchInv'
  BY <1>7, <1>n, RefuseIs
<1>8. ASSUME NEW r \in Requests, Execute(r) PROVE WatchInv'
  <2> DEFINE a == req[r].a
  <2>1. a \in Actions /\ (Becomes(a, "applied") \/ Becomes(a, "failed"))
    BY <1>8, ExecuteIs DEF Applies
  <2>2. Holds(r) /\ req[r].stage = "ready"
    BY <1>8, ExecuteIs DEF Holds
  <2>3. act[a].state = "proposed"
    BY <2>2 DEF LockInv
  <2> HIDE DEF a
  <2> QED
    BY <1>b, <2>1, <2>3
<1>9. ASSUME NEW r \in Requests, Abort(r) PROVE WatchInv'
  <2> DEFINE a == req[r].a
  <2>1. \/ act' = act
        \/ act'[a] = Unmade /\ \A b \in Actions \ {a} : act'[b] = act[b]
    BY <1>9, AbortIs
  <2>2. Unmade.state = "none"
    BY DEF Unmade
  <2> HIDE DEF a
  <2> QED
    BY <1>n, <2>1, <2>2 DEF WatchInv
<1>10. ASSUME NEW a \in Actions, Reject(a) \/ Expire(a) PROVE WatchInv'
  <2>1. act[a].state = "proposed" /\ (Becomes(a, "rejected") \/ Becomes(a, "expired"))
    BY <1>10, CalledOff
  <2> QED
    BY <1>b, <2>1
<1>11. ASSUME NEW a \in Actions, UndoAction(a) PROVE WatchInv'
  <2>1. act[a].state = "applied" /\ Becomes(a, "undone")
    BY <1>11, UndoActionIs
  <2> QED
    BY <1>b, <2>1
<1>12. ASSUME NEW a \in Actions, NEW K \in {{k} : k \in Ops(a)} \cup {Ops(a)}, UndoRows(a, K)
       PROVE  WatchInv'
  BY <1>12, <1>n, UndoRowsIs
<1>13. ASSUME UNCHANGED vars PROVE WatchInv'
  BY <1>13, <1>n DEF vars
<1> QED
  BY <1>1, <1>2, <1>3, <1>4, <1>5, <1>6, <1>7, <1>8, <1>9, <1>10, <1>11, <1>12, <1>13 DEF Next

\* A request about to write has the confirmation it needs, and the versions are
\* those noted with the preview, unless another's change has overtaken it.
Ready(q) ==
    /\ q.sure \/ act[q.a].risk = "low"
    /\ ~q.raced => Versions(q.a) = act[q.a].watch

ReadyInv == \A r \in Requests : req[r].stage = "ready" => Ready(req[r])

\* The one request that changes leaves the versions alone, and the others hold
\* other actions.
LEMMA ReadyOf ==
    ASSUME TypeInv, LockInv, ReadyInv, NEW r \in Requests, NEW z, Reopened(r, z), version' = version,
           \A a \in Actions : act'[a].watch # act[a].watch \/ act'[a].risk # act[a].risk =>
                \A s \in Requests \ {r} : Holds(s) => req[s].a # a,
           z.stage = "ready" =>
                /\ z.sure \/ act'[z.a].risk = "low"
                /\ ~z.raced => Versions(z.a) = act'[z.a].watch
    PROVE  ReadyInv'
<1>1. \A a : Versions(a)' = Versions(a)
  BY DEF Versions
<1>2. ASSUME NEW s \in Requests, req'[s].stage = "ready" PROVE Ready(req[s])'
  <2>1. CASE s = r
    BY <1>1, <1>2, <2>1 DEF Ready, Reopened
  <2>2. CASE s # r
    <3>1. req'[s] = req[s] /\ req[s].stage = "ready" /\ Holds(s)
      BY <1>2, <2>2 DEF Reopened, Holds
    <3>2. Ready(req[s])
      BY <3>1 DEF ReadyInv
    <3>3. req[s].a \in Actions
      BY <3>1, BusyIsOpen DEF Opens
    <3>4. act'[req[s].a].watch = act[req[s].a].watch /\ act'[req[s].a].risk = act[req[s].a].risk
      BY <2>2, <3>1, <3>3
    <3> QED
      BY <1>1, <3>1, <3>2, <3>4 DEF Ready
  <2> QED
    BY <2>1, <2>2
<1> QED
  BY <1>2 DEF ReadyInv

\* A change to the tasks of a request about to write is noticed.
LEMMA ReadyOfSpread ==
    ASSUME TypeInv, LockInv, ReadyInv, NEW R \in SUBSET Requests, NEW T, Spread(R, T), Moved(T),
           \A a \in Actions : act'[a].watch = act[a].watch /\ act'[a].risk = act[a].risk
    PROVE  ReadyInv'
<1> SUFFICES ASSUME NEW s \in Requests, req'[s].stage = "ready" PROVE Ready(req[s])'
  BY DEF ReadyInv
<1>1. s \notin R /\ Busy(s) /\ \A x \in {"stage", "a", "sure"} : req'[s][x] = req[s][x]
  <2>1. Busy(s)'
    BY DEF Busy
  <2> QED
    BY <2>1, SpreadKeeps
<1> DEFINE a == req[s].a
<1>2. req[s] \in Opens /\ req[s].stage = "ready" /\ req'[s].a = a /\ req'[s].sure = req[s].sure
  BY <1>1, BusyIsOpen
<1>3. a \in Actions /\ Ready(req[s])
  BY <1>2 DEF ReadyInv, Opens
<1>4. req'[s].raced = (req[s].raced \/ (req[s].stage = "ready" /\ Of(a) \cap T # {}))
  BY <1>1, <1>2 DEF Spread
<1>5. ASSUME ~req'[s].raced PROVE Versions(a)' = act'[a].watch
  <2>1. ~req[s].raced /\ Of(a) \cap T = {}
    BY <1>2, <1>4, <1>5
  <2>2. \A t \in Of(a) : version'[t] = version[t]
    BY <1>3, <2>1, OpsOf DEF Moved
  <2>3. Versions(a)' = Versions(a)
    BY <1>2, <2>2 DEF Versions
  <2> QED
    BY <1>3, <2>1, <2>3 DEF Ready
<1> QED
  BY <1>2, <1>3, <1>5 DEF Ready

LEMMA ReadyNext == TypeInv /\ LockInv /\ WatchInv /\ ReadyInv /\ [Next]_vars => ReadyInv'
<1> SUFFICES ASSUME TypeInv, LockInv, WatchInv, ReadyInv, [Next]_vars PROVE ReadyInv'
  OBVIOUS
<1>i. Idle.stage = "idle"
  BY DEF Idle
<1>a. \A r \in Requests : Holds(r) => \A s \in Requests \ {r} : Holds(s) => req[s].a # req[r].a
  BY DEF LockInv
<1>b. ASSUME NEW a \in Actions, NEW st, Becomes(a, st)
      PROVE  \A c \in Actions : act'[c].watch = act[c].watch /\ act'[c].risk = act[c].risk
  BY <1>b DEF Becomes
<1>1. ASSUME NEW t \in Tasks, Change(t) PROVE ReadyInv'
  BY <1>1, ChangeIs, ReadyOfSpread
<1>2. ASSUME NEW r \in Requests, NEW a \in Actions, NEW auto \in BOOLEAN, Propose(r, a, auto)
      PROVE  ReadyInv'
  <2>1. \E z \in Opens : Reopened(r, z) /\ z.stage = "preview"
    BY <1>2, ProposeIs
  <2>2. act' = act /\ version' = version
    BY <1>2, ProposeIs DEF tasks
  <2> QED
    BY <2>1, <2>2, ReadyOf
<1>3. ASSUME NEW r \in Requests, NEW a \in Actions, Press(r, a) PROVE ReadyInv'
  <2>1. \E z \in Opens : Reopened(r, z) /\ z.stage = "asked"
    BY <1>3, PressIs
  <2>2. act' = act /\ version' = version
    BY <1>3, PressIs DEF tasks
  <2> QED
    BY <2>1, <2>2, ReadyOf
<1>4. ASSUME NEW r \in Requests, Preview(r) PROVE ReadyInv'
  <2> DEFINE a == req[r].a
  <2>1. a \in Actions /\ version' = version /\ (act' = act \/ Becomes(a, "failed"))
    BY <1>4, PreviewIs DEF tasks
  <2>2. \A c \in Actions : act'[c].watch = act[c].watch /\ act'[c].risk = act[c].risk
    BY <1>b, <2>1
  <2>3. \E z \in Opens \cup {Idle} : Reopened(r, z) /\ z.stage \in {"read", "idle"}
    <3>1. \/ \E z \in Opens : Reopened(r, z) /\ z.stage = "read"
          \/ Reopened(r, Idle)
      BY <1>4, PreviewIs
    <3> QED
      BY <1>i, <3>1
  <2> QED
    BY <2>1, <2>2, <2>3, ReadyOf
<1>5. ASSUME NEW r \in Requests, Store(r) PROVE ReadyInv'
  <2> DEFINE a == req[r].a
  <2>1. /\ a \in Actions /\ Holds(r) /\ version' = version
        /\ \A c \in Actions \ {a} : act'[c] = act[c]
        /\ act'[a].watch = Versions(a)
    BY <1>5, StoreIs DEF Holds, tasks
  <2>2. \A c \in Actions : act'[c].watch # act[c].watch \/ act'[c].risk # act[c].risk =>
            \A s \in Requests \ {r} : Holds(s) => req[s].a # c
    BY <1>a, <2>1
  <2>3. ASSUME Reopened(r, Idle) PROVE ReadyInv'
    BY <1>i, <2>1, <2>2, <2>3, ReadyOf
  <2>4. ASSUME NEW z \in Opens, Reopened(r, z), z.a = a, act'[a].risk = "low" PROVE ReadyInv'
    BY <2>1, <2>2, <2>4, ReadyOf
  <2>5. \/ Reopened(r, Idle)
        \/ act'[a].risk = "low" /\ \E z \in Opens : Reopened(r, z) /\ z.a = a
    BY <1>5, StoreIs
  <2> QED
    BY <2>3, <2>4, <2>5
<1>6. ASSUME NEW r \in Requests, Open(r) PROVE ReadyInv'
  <2> DEFINE a == req[r].a
  <2>1. /\ a \in Actions /\ version' = version /\ act' = act
        /\ act[a].state = "proposed" /\ (act[a].risk = "high" => req[r].sure)
    BY <1>6, OpenIs DEF tasks
  <2>2. PICK z \in Opens : /\ Reopened(r, z) /\ z.a = a /\ z.sure = req[r].sure
                           /\ z.stage = "preview" \/ (z.stage = "ready" /\ ~Stale(a))
    BY <1>6, OpenIs
  <2>3. ~Stale(a) => Versions(a) = act[a].watch
    <3>1. act[a].watch \in [Of(a) -> Nat]
      BY <2>1 DEF WatchInv
    <3>2. ~Stale(a) => \A t \in Of(a) : version[t] = act[a].watch[t]
      BY DEF Stale
    <3> QED
      BY <3>1, <3>2 DEF Versions
  <2>4. act[a].risk \in {"low", "high"}
    BY <2>1 DEF TypeInv, Stored
  <2> HIDE DEF a
  <2> QED
    BY <2>1, <2>2, <2>3, <2>4, ReadyOf
<1>7. ASSUME NEW r \in Requests, Refuse(r) PROVE ReadyInv'
  <2>1. Reopened(r, Idle) /\ act' = act /\ version' = version
    BY <1>7, RefuseIs DEF tasks
  <2> QED
    BY <1>i, <2>1, ReadyOf
<1>8. ASSUME NEW r \in Requests, Execute(r) PROVE ReadyInv'
  <2> DEFINE a == req[r].a
  <2>1. /\ a \in Actions
        /\ \/ Becomes(a, "applied") /\ Moved(Of(a)) /\ Spread({r}, Of(a))
           \/ Becomes(a, "failed") /\ Reopened(r, Idle) /\ version' = version
    BY <1>8, ExecuteIs DEF Applies
  <2>2. \A c \in Actions : act'[c].watch = act[c].watch /\ act'[c].risk = act[c].risk
    BY <1>b, <2>1
  <2> HIDE DEF a
  <2>3. CASE Moved(Of(a)) /\ Spread({r}, Of(a))
    BY <2>2, <2>3, ReadyOfSpread
  <2>4. CASE Reopened(r, Idle) /\ version' = version
    BY <1>i, <2>2, <2>4, ReadyOf
  <2> QED
    BY <2>1, <2>3, <2>4
<1>9. ASSUME NEW r \in Requests, Abort(r) PROVE ReadyInv'
  <2> DEFINE a == req[r].a
  <2>1. /\ a \in Actions /\ Reopened(r, Idle) /\ version' = version
        /\ \/ act' = act
           \/ Holds(r) /\ \A c \in Actions \ {a} : act'[c] = act[c]
    BY <1>9, AbortIs DEF tasks
  <2>2. \A c \in Actions : act'[c].watch # act[c].watch \/ act'[c].risk # act[c].risk =>
            \A s \in Requests \ {r} : Holds(s) => req[s].a # c
    BY <1>a, <2>1
  <2> QED
    BY <1>i, <2>1, <2>2, ReadyOf
<1>10. ASSUME NEW a \in Actions, Reject(a) \/ Expire(a) PROVE ReadyInv'
  <2>1. UNCHANGED <<version, req>> /\ (Becomes(a, "rejected") \/ Becomes(a, "expired"))
    BY <1>10, CalledOff DEF tasks
  <2>2. \A c \in Actions : act'[c].watch = act[c].watch /\ act'[c].risk = act[c].risk
    BY <1>b, <2>1
  <2>3. \A r \in Requests : req[r].stage = "ready" => req[r].a \in Actions
    BY BusyIsOpen DEF Busy, Opens
  <2> QED
    BY <2>1, <2>2, <2>3 DEF ReadyInv, Ready, Versions
<1>11. ASSUME NEW a \in Actions, UndoAction(a) PROVE ReadyInv'
  <2> DEFINE T == {Does[a][k] : k \in Ops(a)}
  <2>1. Becomes(a, "undone") /\ Moved(T) /\ Spread({}, T)
    BY <1>11, UndoActionIs, TakeBackIs
  <2>2. \A c \in Actions : act'[c].watch = act[c].watch /\ act'[c].risk = act[c].risk
    BY <1>b, <2>1
  <2> HIDE DEF T
  <2> QED
    BY <2>1, <2>2, ReadyOfSpread
<1>12. ASSUME NEW a \in Actions, NEW K \in {{k} : k \in Ops(a)} \cup {Ops(a)}, UndoRows(a, K)
       PROVE  ReadyInv'
  <2> DEFINE T == {Does[a][k] : k \in K}
  <2>1. act' = act /\ Moved(T) /\ Spread({}, T)
    BY <1>12, UndoRowsIs, TakeBackIs
  <2> HIDE DEF T
  <2> QED
    BY <2>1, ReadyOfSpread
<1>13. ASSUME UNCHANGED vars PROVE ReadyInv'
  BY <1>13 DEF vars, tasks, ReadyInv, Ready, Versions
<1> QED
  BY <1>1, <1>2, <1>3, <1>4, <1>5, <1>6, <1>7, <1>8, <1>9, <1>10, <1>11, <1>12, <1>13 DEF Next

-----------------------------------------------------------------------------
(* The versions tell of a change, unless one gave a number the task had had.   *)

\* Since they were noted the versions have not fallen, and one has risen if
\* anything has changed.
Tells(a) == /\ \A t \in Of(a) : version[t] >= act[a].watch[t]
            /\ since[a].changed => \E t \in Of(a) : version[t] > act[a].watch[t]

SinceInv == \A a \in Actions : act[a].state = "proposed" /\ ~since[a].doubled => Tells(a)

\* Nothing changes in the tasks, and no action is proposed anew.
LEMMA SinceOfStill ==
    ASSUME SinceInv, UNCHANGED <<version, since>>,
           \A a \in Actions : act'[a].state = "proposed" => act'[a] = act[a]
    PROVE  SinceInv'
<1> SUFFICES ASSUME NEW a \in Actions, act'[a].state = "proposed", ~since'[a].doubled PROVE Tells(a)'
  BY DEF SinceInv
<1>1. act'[a] = act[a] /\ Tells(a)
  BY DEF SinceInv
<1> QED
  BY <1>1 DEF Tells

\* The tasks in T change.
LEMMA SinceOfMove ==
    ASSUME TypeInv, WatchInv, SinceInv, NEW T, Moved(T), Noted(T),
           \A a \in Actions : act'[a].state = "proposed" => act'[a] = act[a]
    PROVE  SinceInv'
<1> SUFFICES ASSUME NEW a \in Actions, act'[a].state = "proposed", ~since'[a].doubled PROVE Tells(a)'
  BY DEF SinceInv
<1>1. act'[a] = act[a] /\ act[a].state = "proposed"
  OBVIOUS
<1>2. ~since[a].doubled /\ Tells(a)
  BY <1>1 DEF Noted, SinceInv
<1>3. Of(a) \subseteq Tasks /\ act[a].watch \in [Of(a) -> Nat]
  BY <1>1, OpsOf DEF WatchInv
<1>4. \A t \in Of(a) : version[t] \in Nat /\ version'[t] \in Nat /\ act[a].watch[t] \in Nat
  BY <1>3 DEF TypeInv, Moved
<1>5. CASE Of(a) \cap T = {}
  <2>1. since'[a] = since[a] /\ \A t \in Of(a) : version'[t] = version[t]
    BY <1>3, <1>5 DEF Noted, Moved
  <2> QED
    BY <1>1, <1>2, <2>1 DEF Tells
<1>6. CASE Of(a) \cap T # {}
  <2>1. \A t \in Of(a) \cap T : ~(version'[t] <= version[t])
    BY <1>1, <1>6 DEF Noted
  <2>2. \A t \in Of(a) \cap T : version'[t] > version[t]
    BY <1>4, <2>1
  <2>3. \A t \in Of(a) : version'[t] >= version[t]
    BY <1>3, <1>4, <2>2 DEF Moved
  <2>4. \A t \in Of(a) : version[t] >= act[a].watch[t]
    BY <1>2 DEF Tells
  <2>5. \A t \in Of(a) : version'[t] >= act[a].watch[t]
    BY <1>4, <2>3, <2>4
  <2>6. \E t \in Of(a) : version'[t] > act[a].watch[t]
    BY <1>4, <1>6, <2>2, <2>4
  <2> QED
    BY <1>1, <2>5, <2>6 DEF Tells
<1> QED
  BY <1>5, <1>6

LEMMA SinceNext == TypeInv /\ LockInv /\ WatchInv /\ SinceInv /\ [Next]_vars => SinceInv'
<1> SUFFICES ASSUME TypeInv, LockInv, WatchInv, SinceInv, [Next]_vars PROVE SinceInv'
  OBVIOUS
<1>b. ASSUME NEW a \in Actions, NEW st, st # "proposed", Becomes(a, st)
      PROVE  \A c \in Actions : act'[c].state = "proposed" => act'[c] = act[c]
  BY <1>b DEF Becomes
<1>n. ASSUME act' = act, UNCHANGED <<tasks, hist>> PROVE SinceInv'
  BY <1>n, SinceOfStill DEF tasks, hist
<1>1. ASSUME NEW t \in Tasks, Change(t) PROVE SinceInv'
  BY <1>1, ChangeIs, SinceOfMove
<1>2. ASSUME NEW r \in Requests, NEW a \in Actions, NEW auto \in BOOLEAN, Propose(r, a, auto)
      PROVE  SinceInv'
  BY <1>2, <1>n, ProposeIs
<1>3. ASSUME NEW r \in Requests, NEW a \in Actions, Press(r, a) PROVE SinceInv'
  BY <1>3, <1>n, PressIs
<1>4. ASSUME NEW r \in Requests, Preview(r) PROVE SinceInv'
  <2> DEFINE a == req[r].a
  <2>1. /\ a \in Actions /\ UNCHANGED <<version, since>> /\ (act' = act \/ Becomes(a, "failed"))
    BY <1>4, PreviewIs DEF tasks, hist
  <2> HIDE DEF a
  <2>2. \A c \in Actions : act'[c].state = "proposed" => act'[c] = act[c]
    BY <1>b, <2>1
  <2> QED
    BY <2>1, <2>2, SinceOfStill
<1>5. ASSUME NEW r \in Requests, Store(r) PROVE SinceInv'
  <2> DEFINE a == req[r].a
  <2>1. /\ a \in Actions /\ version' = version /\ since' = [since EXCEPT ![a] = Clean]
        /\ act'[a].watch = Versions(a) /\ \A b \in Actions \ {a} : act'[b] = act[b]
    BY <1>5, StoreIs DEF tasks
  <2> HIDE DEF a
  <2> SUFFICES ASSUME NEW b \in Actions, act'[b].state = "proposed", ~since'[b].doubled
               PROVE  Tells(b)'
    BY DEF SinceInv
  <2>2. CASE b = a
    <3>1. since'[a] = Clean /\ ~Clean.changed
      BY <2>1 DEF TypeInv, Clean
    <3>2. \A t \in Of(a) : act'[a].watch[t] = version[t] /\ version[t] \in Nat
      BY <2>1, OpsOf DEF Versions, TypeInv
    <3> QED
      BY <2>1, <2>2, <3>1, <3>2 DEF Tells
  <2>3. CASE b # a
    <3>1. since'[b] = since[b] /\ act'[b] = act[b]
      BY <2>1, <2>3 DEF TypeInv
    <3> QED
      BY <2>1, <3>1 DEF SinceInv, Tells
  <2> QED
    BY <2>2, <2>3
<1>6. ASSUME NEW r \in Requests, Open(r) PROVE SinceInv'
  BY <1>6, <1>n, OpenIs
<1>7. ASSUME NEW r \in Requests, Refuse(r) PROVE SinceInv'
  BY <1>7, <1>n, RefuseIs
<1>8. ASSUME NEW r \in Requests, Execute(r) PROVE SinceInv'
  <2> DEFINE a == req[r].a
  <2>1. /\ a \in Actions
        /\ \/ Becomes(a, "applied") /\ Moved(Of(a)) /\ Noted(Of(a))
           \/ Becomes(a, "failed") /\ UNCHANGED <<version, since>>
    BY <1>8, ExecuteIs DEF Applies, hist
  <2> HIDE DEF a
  <2>2. \A c \in Actions : act'[c].state = "proposed" => act'[c] = act[c]
    BY <1>b, <2>1
  <2>3. CASE Moved(Of(a)) /\ Noted(Of(a))
    BY <2>2, <2>3, SinceOfMove
  <2>4. CASE UNCHANGED <<version, since>>
    BY <2>2, <2>4, SinceOfStill
  <2> QED
    BY <2>1, <2>3, <2>4
<1>9. ASSUME NEW r \in Requests, Abort(r) PROVE SinceInv'
  <2> DEFINE a == req[r].a
  <2>1. /\ a \in Actions /\ UNCHANGED <<version, since>>
        /\ \/ act' = act
           \/ act'[a] = Unmade /\ \A c \in Actions \ {a} : act'[c] = act[c]
    BY <1>9, AbortIs DEF tasks, hist
  <2> HIDE DEF a
  <2>2. \A c \in Actions : act'[c].state = "proposed" => act'[c] = act[c]
    BY <2>1 DEF Unmade
  <2> QED
    BY <2>1, <2>2, SinceOfStill
<1>10. ASSUME NEW a \in Actions, Reject(a) \/ Expire(a) PROVE SinceInv'
  <2>1. UNCHANGED <<version, since>> /\ (Becomes(a, "rejected") \/ Becomes(a, "expired"))
    BY <1>10, CalledOff DEF tasks, hist
  <2>2. \A c \in Actions : act'[c].state = "proposed" => act'[c] = act[c]
    BY <1>b, <2>1
  <2> QED
    BY <2>1, <2>2, SinceOfStill
<1>11. ASSUME NEW a \in Actions, UndoAction(a) PROVE SinceInv'
  <2> DEFINE T == {Does[a][k] : k \in Ops(a)}
  <2>1. Becomes(a, "undone") /\ Moved(T) /\ Noted(T)
    BY <1>11, UndoActionIs, TakeBackIs
  <2>2. \A c \in Actions : act'[c].state = "proposed" => act'[c] = act[c]
    BY <1>b, <2>1
  <2> HIDE DEF T
  <2> QED
    BY <2>1, <2>2, SinceOfMove
<1>12. ASSUME NEW a \in Actions, NEW K \in {{k} : k \in Ops(a)} \cup {Ops(a)}, UndoRows(a, K)
       PROVE  SinceInv'
  <2> DEFINE T == {Does[a][k] : k \in K}
  <2>1. act' = act /\ Moved(T) /\ Noted(T)
    BY <1>12, UndoRowsIs, TakeBackIs
  <2> HIDE DEF T
  <2> QED
    BY <2>1, SinceOfMove
<1>13. ASSUME UNCHANGED vars PROVE SinceInv'
  BY <1>13, <1>n DEF vars
<1> QED
  BY <1>1, <1>2, <1>3, <1>4, <1>5, <1>6, <1>7, <1>8, <1>9, <1>10, <1>11, <1>12, <1>13 DEF Next

-----------------------------------------------------------------------------
(* What is applied is applied on the tasks as they were noted.                 *)

AsDecidedOf(b) == how[b].times > 0 =>
    /\ how[b].sure
    /\ how[b].changed => how[b].raced \/ how[b].doubled

\* What has been applied stays as it was applied.
LEMMA AsDecidedNext ==
    TypeInv /\ LockInv /\ ReadyInv /\ SinceInv /\ AppliedAsDecided /\ [Next]_vars => AppliedAsDecided'
<1> SUFFICES ASSUME TypeInv, LockInv, ReadyInv, SinceInv, AppliedAsDecided, [Next]_vars,
                    NEW b \in Actions
             PROVE  AsDecidedOf(b)'
  BY DEF AppliedAsDecided, AsDecidedOf
<1>1. AsDecidedOf(b)
  BY DEF AppliedAsDecided, AsDecidedOf
<1>2. ASSUME how'[b] = how[b] PROVE AsDecidedOf(b)'
  BY <1>1, <1>2 DEF AsDecidedOf
<1>3. CASE Quiet
  BY <1>2, <1>3 DEF Quiet
<1>4. ASSUME NEW r \in Requests, Applied(r) PROVE AsDecidedOf(b)'
  <2> DEFINE a == req[r].a
             sure == req[r].sure \/ act[a].risk = "low"
             w == [times |-> how[a].times + 1, changed |-> since[a].changed, doubled |-> since[a].doubled,
                   raced |-> req[r].raced, knew |-> req[r].preview = act[a].preview, sure |-> sure]
  <2>1. a \in Actions /\ act[a].state = "proposed" /\ Ready(req[r])
    BY <1>4 DEF Applied, ReadyInv
  <2>2. how' = [how EXCEPT ![a] = w]
    BY <1>4 DEF Applied
  <2>3. /\ w.changed = since[a].changed /\ w.doubled = since[a].doubled
        /\ w.raced = req[r].raced /\ w.sure = sure
    OBVIOUS
  <2>h. DOMAIN how = Actions
    BY DEF TypeInv
  <2>4. sure
    BY <2>1 DEF Ready
  <2>5. since[a].changed => req[r].raced \/ since[a].doubled
    <3> SUFFICES ASSUME since[a].changed, ~req[r].raced, ~since[a].doubled PROVE FALSE
      OBVIOUS
    <3>1. PICK t \in Of(a) : version[t] > act[a].watch[t]
      BY <2>1 DEF SinceInv, Tells
    <3>2. act[a].watch = Versions(a)
      BY <2>1 DEF Ready
    <3>3. act[a].watch[t] = version[t] /\ version[t] \in Nat
      BY <2>1, <3>2, OpsOf DEF Versions, TypeInv
    <3> QED
      BY <3>1, <3>3
  <2> HIDE DEF w, a, sure
  <2>6. CASE b = a
    <3>1. how'[b] = w
      BY <2>1, <2>2, <2>6, <2>h
    <3> QED
      BY <2>3, <2>4, <2>5, <3>1 DEF AsDecidedOf
  <2>7. CASE b # a
    BY <1>2, <2>2, <2>7, <2>h
  <2> QED
    BY <2>6, <2>7
<1>5. ASSUME NEW a \in Actions, NEW K, TakenBack(a, K) PROVE AsDecidedOf(b)'
  BY <1>2, <1>5 DEF TakenBack, TakeBack
<1> QED
  BY <1>3, <1>4, <1>5, StepIs

\* What an applied action writes is written on the tasks as they were when their
\* versions were noted, unless a change came between the check of the versions
\* and the write, or gave a task a number it had had before.
THEOREM AsDecided == Spec => []AppliedAsDecided
<1>1. Init => WatchInv /\ ReadyInv /\ SinceInv /\ AppliedAsDecided
  <2>1. Idle.stage = "idle" /\ Unmade.state = "none" /\ ~(Never.times > 0)
    BY DEF Idle, Unmade, Never
  <2> QED
    BY <2>1 DEF Init, WatchInv, ReadyInv, SinceInv, AppliedAsDecided
<1>2. Spec => [](WatchInv /\ ReadyInv)
  BY <1>1, WatchNext, ReadyNext, Types, PTL DEF Spec
<1>3. Spec => []SinceInv
  BY <1>1, <1>2, SinceNext, Types, PTL DEF Spec
<1> QED
  BY <1>1, <1>2, <1>3, AsDecidedNext, Types, PTL DEF Spec
=============================================================================
