----------------------------- MODULE RulesProofs ------------------------------
(* Proofs about Rules, for any rules, kinds, workers and limits.              *)
EXTENDS Rules, TLAPS, FiniteSetTheorems

-----------------------------------------------------------------------------
(* Types.                                                                     *)

\* Who caused an event: a person, the run of a rule for an event, or a step.
Bys       == {Person} \cup (RuleIds \X Nat) \cup {<<i>> : i \in Nat}
Events    == [kind: Kinds, depth: 0 .. MaxDepth, by: Bys, state: {"mine", "seen", "gone"}]
RunRows   == [rule: RuleIds, ev: Nat, status: {"success", "skipped", "failed"}]
Statuses  == {"mine", "queued", "running", "done", "failed", "gone"}
StepRows  == [kind: Kinds, depth: 1 .. MaxDepth, by: RuleIds \X Nat, status: Statuses]
Opens     == [open: {TRUE}, cursor: Nat, todo: SUBSET Nat, rules: SUBSET RuleIds,
              runs: Seq(RunRows), used: 0 .. MaxActions]

TypeInv ==
    /\ events \in Seq(Events) /\ cursor \in 0 .. Len(events)
    /\ runs \in Seq(RunRows) /\ used \in 0 .. MaxActions
    /\ steps \in Seq(StepRows) /\ applied \in Seq(Nat) /\ Len(applied) = Len(steps)
    /\ rule \in [RuleIds -> {"absent", "on", "off"}] /\ since \in [RuleIds -> Nat]
    /\ on \in BOOLEAN /\ work \in {None} \cup Opens
    /\ claimed \in [Workers -> SUBSET Nat] /\ doing \in [Workers -> Nat]
    /\ people \in 0 .. MaxPeople /\ faults \in 0 .. MaxFaults

-----------------------------------------------------------------------------
(* The invariants.                                                            *)

\* A claimed step is being done, or has been given up; one worker has it.
At == {i \in DOMAIN steps : steps[i].status \in {"running", "failed"}}
ClaimInv ==
    /\ \A w \in Workers : claimed[w] \subseteq At /\ (doing[w] # 0 => doing[w] \in At)
    /\ \A v, w \in Workers :
        /\ doing[w] # 0 => doing[w] \notin claimed[v]
        /\ v # w => claimed[v] \cap claimed[w] = {} /\ (doing[w] # 0 => doing[v] # doing[w])

\* The runs recorded and not committed.
Mine == IF work.open THEN work.runs ELSE <<>>

Ran(S, r, i)  == \E j \in DOMAIN S : S[j].rule = r /\ S[j].ev = i
Won(S, r, i)  == \E j \in DOMAIN S : S[j].rule = r /\ S[j].ev = i /\ S[j].status = "success"
Caused(r, i, s) == \E j \in Ids : events[j].by = <<r, i>> /\ events[j].state = s
Queued(r, i, m) == \E j \in DOMAIN steps : /\ steps[j].by = <<r, i>> /\ steps[j].status # "gone"
                                           /\ (steps[j].status = "mine") = m
Distinct(S)   == \A j, k \in DOMAIN S : S[j].rule = S[k].rule /\ S[j].ev = S[k].ev => j = k

\* Each run is of an event it may be of, and there is one.
RunInv ==
    /\ Distinct(runs) /\ Distinct(Mine)
    /\ passed \subseteq 1 .. cursor
    /\ \A j \in DOMAIN runs : /\ runs[j].ev \in 1 .. cursor /\ runs[j].ev \notin passed
                              /\ since[runs[j].rule] < runs[j].ev /\ rule[runs[j].rule] # "absent"
    /\ \A j \in DOMAIN Mine : /\ Mine[j].ev > cursor
                              /\ Mine[j].ev <= work.cursor \/ Mine[j].ev \in work.todo
                              /\ since[Mine[j].rule] < Mine[j].ev /\ rule[Mine[j].rule] # "absent"

\* Where the open run is, and what it has in hand.
ScanInv == work.open =>
    /\ cursor <= work.cursor /\ work.cursor <= Len(events)
    /\ \A i \in work.todo : i \in Ids /\ i > work.cursor
    /\ \A k \in Ids, i \in work.todo :
        k > work.cursor /\ k < i /\ events[k].state # "gone" => k \in work.todo
    /\ \A r \in work.rules : rule[r] # "absent"
    /\ \A r \in RuleIds, i \in work.todo : rule[r] = "on" => r \in work.rules \/ since[r] >= i

\* A rule that is due has run for every event behind the cursor.
DueInv ==
    \A i \in Ids, r \in RuleIds :
        (events[i].state # "gone" /\ rule[r] = "on" /\ since[r] < i /\ On[r] = events[i].kind
            /\ i \notin passed) =>
        /\ i <= cursor => Ran(runs, r, i)
        /\ work.open /\ cursor < i /\ i <= work.cursor => Ran(work.runs, r, i)

\* What a run caused shows exactly if it succeeded and is committed, and the
\* executor sees what the runs it has not committed caused.
CauseInv ==
    /\ \A j, k \in Ids : (/\ events[j].by = events[k].by /\ events[j].by \in RuleIds \X Nat
                          /\ events[j].state # "gone" /\ events[k].state # "gone") => j = k
    /\ \A j, k \in DOMAIN steps : (/\ steps[j].by = steps[k].by
                                   /\ steps[j].status # "gone" /\ steps[k].status # "gone") => j = k
    /\ \A r \in RuleIds, i \in Nat :
        /\ Caused(r, i, "seen") <=> Won(runs, r, i)
        /\ Caused(r, i, "mine") <=> Won(Mine, r, i)
        /\ Queued(r, i, FALSE) <=> Won(runs, r, i) /\ r \in AiStep
        /\ Queued(r, i, TRUE) <=> Won(Mine, r, i) /\ r \in AiStep

-----------------------------------------------------------------------------
(* Sequences.                                                                 *)

LEMMA AppendIs ==
    ASSUME NEW S, NEW s \in Seq(S), NEW x \in S
    PROVE  LET z == Append(s, x) IN
           /\ z \in Seq(S) /\ Len(s) \in Nat /\ Len(z) = Len(s) + 1
           /\ DOMAIN s = 1 .. Len(s) /\ DOMAIN z = DOMAIN s \cup {Len(s) + 1}
           /\ Len(s) + 1 \notin DOMAIN s
           /\ \A i \in DOMAIN s : z[i] = s[i]
           /\ z[Len(s) + 1] = x
<1>1. Len(s) \in Nat /\ DOMAIN s = 1 .. Len(s)
  OBVIOUS
<1>2. Append(s, x) \in Seq(S) /\ Len(Append(s, x)) = Len(s) + 1
  OBVIOUS
<1>3. (\A i \in 1 .. Len(s) : Append(s, x)[i] = s[i]) /\ Append(s, x)[Len(s) + 1] = x
  OBVIOUS
<1>4. DOMAIN Append(s, x) = 1 .. Len(s) + 1
  BY <1>1, <1>2
<1> QED
  BY <1>1, <1>2, <1>3, <1>4

LEMMA SeqIs ==
    ASSUME NEW S, NEW n \in Nat, NEW f, f = [i \in 1 .. n |-> f[i]], \A i \in 1 .. n : f[i] \in S
    PROVE  f \in Seq(S) /\ Len(f) = n /\ DOMAIN f = 1 .. n
OBVIOUS

LEMMA ConcatIs ==
    ASSUME NEW S, NEW s \in Seq(S), NEW t \in Seq(S)
    PROVE  LET z == s \o t IN
           /\ z \in Seq(S) /\ DOMAIN s = 1 .. Len(s) /\ DOMAIN t = 1 .. Len(t)
           /\ Len(s) \in Nat /\ Len(t) \in Nat
           /\ DOMAIN z = 1 .. Len(s) + Len(t)
           /\ \A i \in DOMAIN s : z[i] = s[i]
           /\ \A i \in DOMAIN t : z[Len(s) + i] = t[i]
<1>1. /\ DOMAIN s = 1 .. Len(s) /\ DOMAIN t = 1 .. Len(t) /\ Len(s) \in Nat /\ Len(t) \in Nat
      /\ s \o t \in Seq(S) /\ Len(s \o t) = Len(s) + Len(t)
  OBVIOUS
<1>2. DOMAIN (s \o t) = 1 .. Len(s) + Len(t)
  BY <1>1
<1>3. \A i \in 1 .. Len(s) + Len(t) : (s \o t)[i] = IF i <= Len(s) THEN s[i] ELSE t[i - Len(s)]
  OBVIOUS
<1>4. \A i \in DOMAIN s : (s \o t)[i] = s[i]
  BY <1>1, <1>3
<1>5. ASSUME NEW i \in DOMAIN t PROVE (s \o t)[Len(s) + i] = t[i]
  <2>1. Len(s) + i \in 1 .. Len(s) + Len(t) /\ ~(Len(s) + i <= Len(s)) /\ (Len(s) + i) - Len(s) = i
    BY <1>1
  <2> QED
    BY <1>3, <2>1
<1> QED
  BY <1>1, <1>2, <1>4, <1>5

\* Rows of the run's own become s, the others stay.
LEMMA SettledEvents ==
    ASSUME NEW S \in Seq(Events), NEW s \in {"seen", "gone"}
    PROVE  LET z == Settle(S, "state", s) IN
           /\ z \in Seq(Events) /\ DOMAIN z = DOMAIN S /\ Len(z) = Len(S)
           /\ \A i \in DOMAIN S : /\ \A x \in {"kind", "depth", "by"} : z[i][x] = S[i][x]
                                  /\ z[i].state = IF S[i].state = "mine" THEN s ELSE S[i].state
<1> DEFINE z == Settle(S, "state", s)
<1>1. ASSUME NEW i \in DOMAIN S
      PROVE  /\ z[i] \in Events
             /\ \A x \in {"kind", "depth", "by"} : z[i][x] = S[i][x]
             /\ z[i].state = IF S[i].state = "mine" THEN s ELSE S[i].state
  <2>1. S[i] \in Events
    OBVIOUS
  <2>2. z[i] = IF S[i].state = "mine" THEN [S[i] EXCEPT !.state = s] ELSE S[i]
    BY DEF Settle
  <2> HIDE DEF z
  <2> QED
    BY <2>1, <2>2 DEF Events
<1>2. DOMAIN z = DOMAIN S
  BY DEF Settle
<1>3. Len(S) \in Nat /\ DOMAIN S = 1 .. Len(S) /\ z = [i \in 1 .. Len(S) |-> z[i]]
  BY DEF Settle
<1> HIDE DEF z
<1>4. z \in Seq(Events) /\ Len(z) = Len(S)
  BY <1>1, <1>3
<1> QED
  BY <1>1, <1>2, <1>4 DEF z

LEMMA SettledSteps ==
    ASSUME NEW S \in Seq(StepRows), NEW s \in {"queued", "gone"}
    PROVE  LET z == Settle(S, "status", s) IN
           /\ z \in Seq(StepRows) /\ DOMAIN z = DOMAIN S /\ Len(z) = Len(S)
           /\ \A i \in DOMAIN S : /\ \A x \in {"kind", "depth", "by"} : z[i][x] = S[i][x]
                                  /\ z[i].status = IF S[i].status = "mine" THEN s ELSE S[i].status
<1> DEFINE z == Settle(S, "status", s)
<1>1. ASSUME NEW i \in DOMAIN S
      PROVE  /\ z[i] \in StepRows
             /\ \A x \in {"kind", "depth", "by"} : z[i][x] = S[i][x]
             /\ z[i].status = IF S[i].status = "mine" THEN s ELSE S[i].status
  <2>1. S[i] \in StepRows
    OBVIOUS
  <2>2. z[i] = IF S[i].status = "mine" THEN [S[i] EXCEPT !.status = s] ELSE S[i]
    BY DEF Settle
  <2> HIDE DEF z
  <2> QED
    BY <2>1, <2>2 DEF StepRows, Statuses
<1>2. DOMAIN z = DOMAIN S
  BY DEF Settle
<1>3. Len(S) \in Nat /\ DOMAIN S = 1 .. Len(S) /\ z = [i \in 1 .. Len(S) |-> z[i]]
  BY DEF Settle
<1> HIDE DEF z
<1>4. z \in Seq(StepRows) /\ Len(z) = Len(S)
  BY <1>1, <1>3
<1> QED
  BY <1>1, <1>2, <1>4 DEF z

-----------------------------------------------------------------------------
(* What each step does, in the terms the invariants use.                      *)

LEMMA Typed ==
    ASSUME TypeInv
    PROVE  /\ Ids = 1 .. Len(events) /\ Len(events) \in Nat
           /\ \A i \in Ids : events[i] \in Events
           /\ DOMAIN steps = 1 .. Len(steps) /\ Len(steps) \in Nat
           /\ \A i \in DOMAIN steps : steps[i] \in StepRows
           /\ DOMAIN applied = DOMAIN steps /\ \A i \in DOMAIN steps : applied[i] \in Nat
           /\ \A j \in DOMAIN runs : runs[j] \in RunRows
           /\ cursor \in Nat /\ used \in Nat
<1>1. events \in Seq(Events) /\ steps \in Seq(StepRows) /\ applied \in Seq(Nat) /\ runs \in Seq(RunRows)
      /\ Len(applied) = Len(steps) /\ cursor \in 0 .. Len(events) /\ used \in 0 .. MaxActions
  BY DEF TypeInv
<1>2. Len(events) \in Nat /\ MaxActions \in Nat
  BY <1>1, RulesAssumption
<1> QED
  BY <1>1, <1>2 DEF Ids

\* The open run is a record of its type; None is not open.
LEMMA OpenIs ==
    ASSUME TypeInv
    PROVE  /\ work.open <=> work \in Opens
           /\ ~work.open <=> work = None
           /\ Mine \in Seq(RunRows) /\ \A j \in DOMAIN Mine : Mine[j] \in RunRows
<1>1. None.open = FALSE /\ \A q \in Opens : q.open = TRUE
  BY DEF None, Opens
<1>2. work \in {None} \cup Opens
  BY DEF TypeInv
<1>3. (work.open <=> work \in Opens) /\ (~work.open <=> work = None)
  BY <1>1, <1>2
<1>4. Mine \in Seq(RunRows)
  <2>1. CASE work.open
    BY <1>3, <2>1 DEF Mine, Opens
  <2>2. CASE ~work.open
    BY <2>2 DEF Mine
  <2> QED
    BY <2>1, <2>2
<1> QED
  BY <1>3, <1>4

\* An event that no rule of the open run has caused comes to the outbox.
Arrives(e) ==
    /\ e \in Events /\ e.state = "seen" /\ e.by \notin RuleIds \X Nat
    /\ events' = Append(events, e)

\* What the executor and the rules see is as it was.
Same == UNCHANGED <<cursor, runs, rule, since, work, passed>>

\* Steps that were committed get other statuses.
Queueing ==
    /\ steps' \in Seq(StepRows) /\ DOMAIN steps' = DOMAIN steps /\ Len(steps') = Len(steps)
    /\ \A i \in DOMAIN steps :
        /\ \A x \in {"kind", "depth", "by"} : steps'[i][x] = steps[i][x]
        /\ steps[i].status \in {"mine", "gone"} \/ steps'[i].status \in {"mine", "gone"} =>
              steps'[i].status = steps[i].status

\* A run is told from a person and from a step.
LEMMA Tags == \A p \in RuleIds \X Nat : p # <<>> /\ \A i : p # <<i>>
<1> SUFFICES ASSUME NEW p \in RuleIds \X Nat, NEW i PROVE p # <<>> /\ p # <<i>>
  OBVIOUS
<1>1. PICK r \in RuleIds, j \in Nat : p = <<r, j>>
  OBVIOUS
<1>2. Len(<<i>>) = 1 /\ Len(<<r, j>>) = 2 /\ Len(<<>>) = 0
  OBVIOUS
<1> QED
  BY <1>1, <1>2

LEMMA ChangeIs ==
    ASSUME TypeInv, NEW k \in Kinds, Change(k)
    PROVE  /\ \E e : Arrives(e)
           /\ Same /\ UNCHANGED <<used, stepVars, on, faults>> /\ people' \in 0 .. MaxPeople
<1> DEFINE e == Event(k, 0, Person, "seen")
<1>1. e \in Events /\ e.state = "seen" /\ e.by = <<>>
  BY RulesAssumption DEF Event, Events, Bys, Person
<1>3. events' = Append(events, e)
  BY DEF Change
<1> HIDE DEF e
<1>2. e.by \notin RuleIds \X Nat
  BY <1>1, Tags
<1>4. Arrives(e)
  BY <1>1, <1>2, <1>3 DEF Arrives
<1>5. people' \in 0 .. MaxPeople
  BY RulesAssumption DEF Change, TypeInv
<1> QED
  BY <1>4, <1>5 DEF Change, Same

\* Steps are claimed, run, given up; what one writes is an event of its own.
LEMMA QueueIs ==
    ASSUME TypeInv, ClaimInv,
           \/ \E w \in Workers : Worker(w) \/ CrashWorker(w)
           \/ \E i \in DOMAIN steps : TimeOut(i)
    PROVE  /\ Queueing /\ Same /\ UNCHANGED <<used, on, people>> /\ faults' \in 0 .. MaxFaults
           /\ events' = events \/ \E e : Arrives(e)
           /\ applied' \in Seq(Nat) /\ Len(applied') = Len(applied)
           /\ claimed' \in [Workers -> SUBSET Nat] /\ doing' \in [Workers -> Nat]
<1> DEFINE Goal == /\ Queueing /\ Same /\ UNCHANGED <<used, on, people>> /\ faults' \in 0 .. MaxFaults
                   /\ events' = events \/ \E e : Arrives(e)
                   /\ applied' \in Seq(Nat) /\ Len(applied') = Len(applied)
                   /\ claimed' \in [Workers -> SUBSET Nat] /\ doing' \in [Workers -> Nat]
<1>t. /\ steps \in Seq(StepRows) /\ DOMAIN steps = 1 .. Len(steps) /\ Len(steps) \in Nat
      /\ \A i \in DOMAIN steps : steps[i] \in StepRows
      /\ applied \in Seq(Nat) /\ faults \in 0 .. MaxFaults
      /\ claimed \in [Workers -> SUBSET Nat] /\ doing \in [Workers -> Nat]
  BY Typed DEF TypeInv
<1>k. steps' = steps => Queueing
  BY <1>t DEF Queueing
\* A new status for some steps that were committed.
<1>s. ASSUME NEW Q \in SUBSET DOMAIN steps, NEW st \in Statuses \ {"mine", "gone"},
             \A i \in Q : steps[i].status \notin {"mine", "gone"},
             steps' = [i \in DOMAIN steps |->
                          IF i \in Q THEN [steps[i] EXCEPT !.status = st] ELSE steps[i]]
      PROVE  Queueing
  <2>1. ASSUME NEW i \in DOMAIN steps
        PROVE  /\ steps'[i] \in StepRows
               /\ \A x \in {"kind", "depth", "by"} : steps'[i][x] = steps[i][x]
               /\ steps'[i].status = IF i \in Q THEN st ELSE steps[i].status
    <3>1. steps[i] \in StepRows
      BY <1>t
    <3>2. steps'[i] = IF i \in Q THEN [steps[i] EXCEPT !.status = st] ELSE steps[i]
      BY <1>s
    <3> QED
      BY <3>1, <3>2 DEF StepRows
  <2>2. DOMAIN steps' = DOMAIN steps /\ steps' = [i \in 1 .. Len(steps) |-> steps'[i]]
    <3> DEFINE z == [i \in DOMAIN steps |->
                        IF i \in Q THEN [steps[i] EXCEPT !.status = st] ELSE steps[i]]
    <3>1. DOMAIN z = 1 .. Len(steps) /\ z = [i \in 1 .. Len(steps) |-> z[i]]
      BY <1>t
    <3> QED
      BY <1>s, <1>t, <3>1
  <2>3. steps' \in Seq(StepRows) /\ Len(steps') = Len(steps)
    BY <1>t, <2>1, <2>2, SeqIs
  <2> QED
    BY <1>s, <2>1, <2>2, <2>3 DEF Queueing
<1>1. ASSUME NEW w \in Workers, Claim(w) PROVE Goal
  <2> DEFINE Q == {i \in DOMAIN steps : steps[i].status = "queued"}
  <2>1. /\ steps' = [i \in DOMAIN steps |->
                        IF i \in Q THEN [steps[i] EXCEPT !.status = "running"] ELSE steps[i]]
        /\ claimed' = [claimed EXCEPT ![w] = Q]
    BY <1>1 DEF Claim
  <2>2. Q \subseteq DOMAIN steps /\ \A i \in Q : steps[i].status = "queued"
    OBVIOUS
  <2> HIDE DEF Q
  <2>3. Queueing
    BY <1>s, <2>1, <2>2 DEF Statuses
  <2>4. claimed' \in [Workers -> SUBSET Nat]
    <3>1. Q \in SUBSET Nat
      BY <1>t, <2>2
    <3> QED
      BY <1>t, <2>1, <3>1
  <2> QED
    BY <1>1, <1>t, <2>3, <2>4 DEF Claim, Same
<1>2. ASSUME NEW w \in Workers, Take(w) PROVE Goal
  <2>1. PICK i \in claimed[w] :
            /\ claimed' = [claimed EXCEPT ![w] = @ \ {i}]
            /\ doing' = [doing EXCEPT ![w] = IF steps[i].status = "running" THEN i ELSE 0]
    BY <1>2 DEF Take
  <2>2. i \in Nat
    BY <1>t
  <2>3. doing' \in [Workers -> Nat] /\ claimed' \in [Workers -> SUBSET Nat]
    BY <1>t, <2>1, <2>2
  <2> QED
    BY <1>2, <1>k, <1>t, <2>3 DEF Take, Same
<1>3. ASSUME NEW w \in Workers, Finish(w) PROVE Goal
  <2> DEFINE i == doing[w]
  <2>1. i # 0 /\ doing' = [doing EXCEPT ![w] = 0]
    BY <1>3 DEF Finish
  <2>2. i \in DOMAIN steps /\ steps[i].status \in {"running", "failed"} /\ steps[i] \in StepRows
    BY <1>t, <2>1 DEF ClaimInv, At
  <2>3. doing' \in [Workers -> Nat]
    BY <1>t, <2>1
  <2>4. UNCHANGED <<cursor, runs, used, rule, since, on, work, claimed, people, faults, passed>>
    BY <1>3 DEF Finish
  <2>5. ASSUME NEW st \in {"done", "failed"}, steps' = [steps EXCEPT ![i].status = st] PROVE Queueing
    <3> HIDE DEF i
    <3>1. steps' = [j \in DOMAIN steps |->
                        IF j \in {i} THEN [steps[j] EXCEPT !.status = st] ELSE steps[j]]
      BY <2>2, <2>5
    <3>2. {i} \in SUBSET DOMAIN steps /\ st \in Statuses \ {"mine", "gone"}
      BY <2>2 DEF Statuses
    <3>3. \A j \in {i} : steps[j].status \notin {"mine", "gone"}
      BY <2>2
    <3> QED
      BY <1>s, <3>1, <3>2, <3>3
  <2>6. CASE /\ steps' = [steps EXCEPT ![i].status = "done"]
             /\ events' = Append(events, Event(steps[i].kind, steps[i].depth, <<i>>, "seen"))
             /\ applied' = [applied EXCEPT ![i] = @ + 1]
    <3> DEFINE e == Event(steps[i].kind, steps[i].depth, <<i>>, "seen")
    <3>0. i \in Nat
      BY <1>t
    <3>1. e \in Events /\ e.state = "seen" /\ e.by = <<i>>
      <4>1. <<i>> \in Bys
        BY <3>0 DEF Bys
      <4>2. steps[i].kind \in Kinds /\ steps[i].depth \in 0 .. MaxDepth
        BY <2>2, RulesAssumption DEF StepRows
      <4> QED
        BY <4>1, <4>2 DEF Event, Events
    <3>2. events' = Append(events, e)
      BY <2>6
    <3> HIDE DEF e
    <3>3. e.by \notin RuleIds \X Nat
      BY <3>1, Tags
    <3>4. Arrives(e)
      BY <3>1, <3>2, <3>3 DEF Arrives
    <3>5. Queueing
      BY <2>5, <2>6
    <3>6. applied' \in Seq(Nat) /\ Len(applied') = Len(applied)
      <4>1. applied[i] \in Nat /\ i \in DOMAIN applied
        BY <2>2, Typed
      <4> QED
        BY <1>t, <2>6, <4>1
    <3> QED
      BY <1>t, <2>3, <2>4, <3>4, <3>5, <3>6 DEF Same
  <2>7. CASE steps' = [steps EXCEPT ![i].status = "failed"] /\ UNCHANGED <<events, applied>>
    <3>1. Queueing
      BY <2>5, <2>7
    <3> QED
      BY <1>t, <2>3, <2>4, <2>7, <3>1 DEF Same
  <2> QED
    BY <1>3, <2>6, <2>7 DEF Finish
<1>4. ASSUME NEW w \in Workers, CrashWorker(w) PROVE Goal
  <2>1. faults' \in 0 .. MaxFaults
    BY <1>4, <1>t, RulesAssumption DEF CrashWorker
  <2> QED
    BY <1>4, <1>k, <1>t, <2>1 DEF CrashWorker, Same
<1>5. ASSUME NEW i \in DOMAIN steps, TimeOut(i) PROVE Goal
  <2>1. steps[i].status = "running" /\ steps' = [steps EXCEPT ![i].status = "failed"]
    BY <1>5 DEF TimeOut
  <2>2. steps' = [j \in DOMAIN steps |->
                        IF j \in {i} THEN [steps[j] EXCEPT !.status = "failed"] ELSE steps[j]]
    BY <2>1
  <2>3. Queueing
    BY <1>s, <2>1, <2>2 DEF Statuses
  <2> QED
    BY <1>5, <1>t, <2>3 DEF TimeOut, Same
<1> HIDE DEF Goal
<1>6. Goal
  BY <1>1, <1>2, <1>3, <1>4, <1>5 DEF Worker
<1> QED
  BY <1>6 DEF Goal

\* A run of r for i is recorded, which has not run for it.
Recorded(r, i, status) ==
    /\ work \in Opens /\ i \in work.todo /\ i \in Ids /\ \A j \in work.todo : i <= j
    /\ r \in work.rules /\ r \in RuleIds /\ since[r] < i /\ On[r] = events[i].kind
    /\ ~Ran(runs, r, i) /\ ~Ran(work.runs, r, i)
    /\ work' \in Opens /\ \A x \in {"cursor", "todo", "rules"} : work'[x] = work[x]
    /\ work'.runs = Append(work.runs, [rule |-> r, ev |-> i, status |-> status])
    /\ UNCHANGED <<cursor, runs, used, rule, since, on, claimed, doing, people, faults, passed>>

\* What a run that succeeds leaves, for the executor to see.
Made(r, i) ==
    /\ \E e \in Events : e.by = <<r, i>> /\ e.state = "mine" /\ events' = Append(events, e)
    /\ IF r \in AiStep
       THEN /\ \E z \in StepRows : z.by = <<r, i>> /\ z.status = "mine" /\ steps' = Append(steps, z)
            /\ applied' = Append(applied, 0)
       ELSE UNCHANGED <<steps, applied>>

LEMMA RecordIs ==
    ASSUME TypeInv, NEW r \in RuleIds, NEW i \in Ids, AtHand(i), r \in Matching(i),
           NEW status \in {"success", "skipped", "failed"}, NEW cost \in Nat,
           work.used + cost <= MaxActions, Record(r, i, status, cost),
           UNCHANGED <<cursor, runs, used, rule, since, on, claimed, doing, people, faults, passed>>
    PROVE  Recorded(r, i, status)
<1> DEFINE row == [rule |-> r, ev |-> i, status |-> status]
<1>1. work \in Opens /\ i \in Nat
  BY OpenIs, Typed DEF AtHand
<1>2. work.runs \in Seq(RunRows) /\ row \in RunRows /\ work.used \in Nat /\ MaxActions \in Nat
  BY <1>1, RulesAssumption DEF Opens, RunRows
<1>3. Append(work.runs, row) \in Seq(RunRows)
  BY <1>2
<1>4. work' = [work EXCEPT !.runs = Append(work.runs, row), !.used = work.used + cost]
  BY <1>1 DEF Record, Opens
<1> HIDE DEF row
<1>5. /\ work' \in Opens /\ \A x \in {"cursor", "todo", "rules"} : work'[x] = work[x]
      /\ work'.runs = Append(work.runs, row)
  <2>1. work.used + cost \in 0 .. MaxActions
    BY <1>2
  <2>2. work.cursor \in Nat /\ work.todo \in SUBSET Nat /\ work.rules \in SUBSET RuleIds
    BY <1>1 DEF Opens
  <2> DEFINE u == work.used + cost
             q == Append(work.runs, row)
  <2>3. work' = [work EXCEPT !.runs = q, !.used = u] /\ u \in 0 .. MaxActions /\ q \in Seq(RunRows)
    BY <1>3, <1>4, <2>1
  <2> HIDE DEF u, q
  <2>4. work' \in Opens /\ (\A x \in {"cursor", "todo", "rules"} : work'[x] = work[x]) /\ work'.runs = q
    BY <1>1, <2>2, <2>3 DEF Opens
  <2> QED
    BY <2>4 DEF q
<1>6. /\ r \in work.rules /\ since[r] < i /\ On[r] = events[i].kind
      /\ ~Ran(runs, r, i) /\ ~Ran(work.runs, r, i)
  BY DEF Matching, Ran
<1>7. i \in work.todo /\ \A j \in work.todo : i <= j
  BY DEF AtHand
<1> QED
  BY <1>1, <1>5, <1>6, <1>7 DEF Recorded, row

LEMMA SkippedIs ==
    ASSUME TypeInv, NEW r \in RuleIds, NEW i \in Ids, Skipped(r, i)
    PROVE  Recorded(r, i, "skipped") /\ UNCHANGED <<events, steps, applied>>
<1>1. work.used \in 0 .. MaxActions /\ MaxActions \in Nat
  BY OpenIs, RulesAssumption DEF Skipped, AtHand, Opens
<1>2. work.used + 0 <= MaxActions
  BY <1>1
<1>3. /\ AtHand(i) /\ r \in Matching(i) /\ Record(r, i, "skipped", 0)
      /\ UNCHANGED <<cursor, runs, used, rule, since, on, claimed, doing, people, faults, passed>>
      /\ UNCHANGED <<events, steps, applied>>
  BY DEF Skipped, stepVars
<1> QED
  BY <1>2, <1>3, RecordIs

LEMMA FireIs ==
    ASSUME TypeInv, NEW r \in RuleIds, NEW i \in Ids, Fire(r, i)
    PROVE  \/ Recorded(r, i, "success") /\ Made(r, i)
           \/ Recorded(r, i, "failed") /\ UNCHANGED <<events, steps, applied>>
<1>1. /\ AtHand(i) /\ r \in Matching(i) /\ events[i].depth < MaxDepth
      /\ work.used + Cost(r) <= MaxActions
      /\ UNCHANGED <<cursor, runs, used, rule, since, on, claimed, doing, people, faults, passed>>
  BY DEF Fire
<1>2. work.used \in 0 .. MaxActions /\ MaxActions \in Nat /\ Cost(r) \in {1, 2} /\ work.used + 0 <= MaxActions
  BY <1>1, OpenIs, RulesAssumption DEF AtHand, Opens, Cost
<1>3. CASE Record(r, i, "failed", 0) /\ UNCHANGED <<events, steps, applied>>
  BY <1>1, <1>2, <1>3, RecordIs
<1>4. CASE ~(Record(r, i, "failed", 0) /\ UNCHANGED <<events, steps, applied>>)
  <2>1. /\ Record(r, i, "success", Cost(r))
        /\ events' = Append(events, Event(Does[r], events[i].depth + 1, <<r, i>>, "mine"))
        /\ IF r \in AiStep
           THEN /\ steps' = Append(steps, [kind |-> Does[r], depth |-> events[i].depth + 1,
                                           by |-> <<r, i>>, status |-> "mine"])
                /\ applied' = Append(applied, 0)
           ELSE UNCHANGED <<steps, applied>>
    BY <1>4 DEF Fire
  <2>2. Recorded(r, i, "success")
    BY <1>1, <1>2, <2>1, RecordIs
  <2>3. events[i].depth + 1 \in 1 .. MaxDepth /\ events[i].depth + 1 \in 0 .. MaxDepth
        /\ Does[r] \in Kinds /\ i \in Nat
    <3>1. events[i].depth \in 0 .. MaxDepth /\ MaxDepth \in Nat /\ i \in Nat
      BY Typed, RulesAssumption DEF Events
    <3> QED
      BY <1>1, <3>1, RulesAssumption
  <2>4. \E e \in Events : e.by = <<r, i>> /\ e.state = "mine" /\ events' = Append(events, e)
    <3> DEFINE e == Event(Does[r], events[i].depth + 1, <<r, i>>, "mine")
    <3>1. e \in Events /\ e.by = <<r, i>> /\ e.state = "mine"
      BY <2>3 DEF Event, Events, Bys
    <3> QED
      BY <2>1, <3>1
  <2>5. r \in AiStep => \E z \in StepRows : /\ z.by = <<r, i>> /\ z.status = "mine"
                                            /\ steps' = Append(steps, z)
    <3> DEFINE z == [kind |-> Does[r], depth |-> events[i].depth + 1, by |-> <<r, i>>,
                     status |-> "mine"]
    <3>1. z \in StepRows /\ z.by = <<r, i>> /\ z.status = "mine"
      BY <2>3 DEF StepRows, Statuses
    <3> QED
      BY <2>1, <3>1
  <2> QED
    BY <2>1, <2>2, <2>4, <2>5 DEF Made
<1> QED
  BY <1>3, <1>4

\* What the executor has done so far stays as it is.
Quiet == UNCHANGED <<events, runs, used, stepVars, rule, since, on, people, faults>>

Starts ==
    /\ work = None /\ work' \in Opens
    /\ work'.cursor = cursor /\ work'.todo = {} /\ work'.rules = {} /\ work'.runs = <<>>
    /\ Quiet /\ UNCHANGED <<cursor, passed>>

\* The kill switch: all there is has been passed.
Drops ==
    /\ work = None /\ work' = None /\ Quiet
    /\ cursor' = Len(events) /\ passed' = passed \cup {i \in Ids : i > cursor}

LEMMA StartRunIs == ASSUME TypeInv, StartRun PROVE Starts \/ Drops
<1>1. work = None /\ UNCHANGED <<events, runs, used, stepVars, rule, since, on, people, faults>>
  BY DEF StartRun
<1>2. CASE on
  <2> DEFINE z == [open |-> TRUE, cursor |-> cursor, todo |-> {}, rules |-> {},
                   runs |-> <<>>, used |-> used]
  <2>1. work' = z /\ UNCHANGED <<cursor, passed>>
    BY <1>2 DEF StartRun
  <2>2. z \in Opens
    <3>1. cursor \in Nat /\ used \in 0 .. MaxActions /\ <<>> \in Seq(RunRows)
      BY Typed DEF TypeInv
    <3> QED
      BY <3>1 DEF Opens
  <2> QED
    BY <1>1, <2>1, <2>2 DEF Starts, Quiet
<1>3. CASE ~on
  BY <1>1, <1>3 DEF StartRun, Drops, Quiet
<1> QED
  BY <1>2, <1>3

LEMMA ReadBatchIs ==
    ASSUME TypeInv, ReadBatch
    PROVE  /\ work \in Opens /\ work.todo = {} /\ work' \in Opens
           /\ \A x \in {"cursor", "runs"} : work'[x] = work[x]
           /\ work'.rules = {r \in RuleIds : rule[r] = "on"}
           /\ \A i \in work'.todo : i \in Ids /\ i > work.cursor
           /\ \A i \in work'.todo, k \in Ids :
                k > work.cursor /\ events[k].state # "gone" /\ k < i => k \in work'.todo
           /\ Quiet /\ UNCHANGED <<cursor, passed>>
<1> DEFINE next == {i \in Ids : i > work.cursor /\ events[i].state # "gone"}
           rs == {r \in RuleIds : rule[r] = "on"}
<1>1. work \in Opens /\ work.todo = {}
  BY OpenIs DEF ReadBatch
<1>2. PICK B \in SUBSET next :
        /\ \A i \in B, j \in next : j < i => j \in B
        /\ work' = [work EXCEPT !.todo = B, !.rules = rs]
  BY DEF ReadBatch
<1>3. B \in SUBSET Nat /\ rs \in SUBSET RuleIds
  BY Typed
<1>4. /\ work' \in Opens /\ \A x \in {"cursor", "runs"} : work'[x] = work[x]
      /\ work'.todo = B /\ work'.rules = rs
  <2> HIDE DEF rs
  <2> QED
    BY <1>1, <1>2, <1>3 DEF Opens
<1>5. Quiet /\ UNCHANGED <<cursor, passed>>
  BY DEF ReadBatch, Quiet
<1> QED
  BY <1>1, <1>2, <1>4, <1>5

LEMMA AdvanceIs ==
    ASSUME TypeInv, NEW i \in Ids, Advance(i)
    PROVE  /\ work \in Opens /\ work' \in Opens /\ i \in work.todo /\ \A j \in work.todo : i <= j
           /\ \A x \in {"rules", "runs"} : work'[x] = work[x]
           /\ work'.todo = work.todo \ {i} /\ work'.cursor = i
           /\ \A r \in work.rules :
                since[r] < i /\ On[r] = events[i].kind => Ran(work.runs, r, i) \/ Ran(runs, r, i)
           /\ Quiet /\ UNCHANGED <<cursor, passed>>
<1>1. work \in Opens /\ i \in work.todo /\ \A j \in work.todo : i <= j
  BY OpenIs DEF Advance, AtHand
<1>2. /\ work' \in Opens /\ \A x \in {"rules", "runs"} : work'[x] = work[x]
      /\ work'.todo = work.todo \ {i} /\ work'.cursor = i
  <2>1. work' = [work EXCEPT !.todo = work.todo \ {i}, !.cursor = i]
    BY <1>1 DEF Advance, Opens
  <2>2. i \in Nat
    BY Typed
  <2> QED
    BY <1>1, <2>1, <2>2 DEF Opens
<1>3. \A r \in work.rules :
        since[r] < i /\ On[r] = events[i].kind => Ran(work.runs, r, i) \/ Ran(runs, r, i)
  BY DEF Advance, Matching, Ran
<1>4. Quiet /\ UNCHANGED <<cursor, passed>>
  BY DEF Advance, Quiet
<1> QED
  BY <1>1, <1>2, <1>3, <1>4

\* The open run ends, and its rows become es and ss.
Ends(es, ss) ==
    /\ work \in Opens /\ work' = None
    /\ events' \in Seq(Events) /\ DOMAIN events' = DOMAIN events /\ Len(events') = Len(events)
    /\ \A i \in Ids : /\ \A x \in {"kind", "depth", "by"} : events'[i][x] = events[i][x]
                      /\ events'[i].state = IF events[i].state = "mine" THEN es ELSE events[i].state
    /\ steps' \in Seq(StepRows) /\ DOMAIN steps' = DOMAIN steps /\ Len(steps') = Len(steps)
    /\ \A i \in DOMAIN steps :
        /\ \A x \in {"kind", "depth", "by"} : steps'[i][x] = steps[i][x]
        /\ steps'[i].status = IF steps[i].status = "mine" THEN ss ELSE steps[i].status
    /\ UNCHANGED <<applied, rule, since, on, claimed, doing, people, passed>>

LEMMA EndIs ==
    ASSUME TypeInv
    PROVE  /\ CommitRun => /\ Ends("seen", "queued") /\ work.todo = {} /\ work.cursor > cursor
                           /\ cursor' = work.cursor /\ runs' = runs \o work.runs
                           /\ used' \in 0 .. MaxActions /\ UNCHANGED faults
           /\ CrashRun => Ends("gone", "gone") /\ UNCHANGED <<cursor, runs, used>>
                          /\ faults' \in 0 .. MaxFaults
<1>t. events \in Seq(Events) /\ steps \in Seq(StepRows)
  BY DEF TypeInv
<1>1. ASSUME CommitRun
      PROVE  /\ Ends("seen", "queued") /\ work.todo = {} /\ work.cursor > cursor
             /\ cursor' = work.cursor /\ runs' = runs \o work.runs
             /\ used' \in 0 .. MaxActions /\ UNCHANGED faults
  <2>1. work \in Opens
    BY <1>1, OpenIs DEF CommitRun
  <2>2. used' \in 0 .. MaxActions
    BY <1>1, <2>1 DEF CommitRun, TypeInv, Opens
  <2>3. events' = Settle(events, "state", "seen") /\ steps' = Settle(steps, "status", "queued")
    BY <1>1 DEF CommitRun
  <2>4. Ends("seen", "queued")
    BY <1>1, <1>t, <2>1, <2>3, SettledEvents, SettledSteps DEF CommitRun, Ends, Ids
  <2> QED
    BY <1>1, <2>2, <2>4 DEF CommitRun
<1>2. ASSUME CrashRun
      PROVE  Ends("gone", "gone") /\ UNCHANGED <<cursor, runs, used>> /\ faults' \in 0 .. MaxFaults
  <2>1. work \in Opens
    BY <1>2, OpenIs DEF CrashRun
  <2>2. faults' \in 0 .. MaxFaults
    BY <1>2, RulesAssumption DEF CrashRun, TypeInv
  <2>3. events' = Settle(events, "state", "gone") /\ steps' = Settle(steps, "status", "gone")
    BY <1>2 DEF CrashRun
  <2>4. Ends("gone", "gone")
    BY <1>2, <1>t, <2>1, <2>3, SettledEvents, SettledSteps DEF CrashRun, Ends, Ids
  <2> QED
    BY <1>2, <2>2, <2>4 DEF CrashRun
<1> QED
  BY <1>1, <1>2

\* Every step, in these terms.
Idles == Same /\ (events' = events \/ \E e : Arrives(e)) /\ Queueing
Rewrites == UNCHANGED <<events, cursor, runs, used, stepVars, on, work, people, passed>>
RuleMade(r) == /\ rule[r] = "absent" /\ rule' = [rule EXCEPT ![r] = "on"]
               /\ since' = [since EXCEPT ![r] = Len(events)] /\ faults' = faults /\ Rewrites
RuleOff(r)  == /\ rule[r] = "on" /\ rule' = [rule EXCEPT ![r] = "off"] /\ since' = since
               /\ faults' \in 0 .. MaxFaults /\ Rewrites
Records(r, i, status) ==
    /\ Recorded(r, i, status)
    /\ IF status = "success" THEN Made(r, i) ELSE UNCHANGED <<events, steps, applied>>

LEMMA StepIs ==
    ASSUME TypeInv, ClaimInv, [Next]_vars
    PROVE  \/ Idles
           \/ \E r \in RuleIds : RuleMade(r) \/ RuleOff(r)
           \/ Starts \/ Drops \/ ReadBatch \/ CommitRun \/ CrashRun
           \/ \E i \in Ids : Advance(i)
           \/ \E i \in Ids, r \in RuleIds, st \in {"success", "skipped", "failed"} : Records(r, i, st)
<1> DEFINE Goal ==
       \/ Idles
       \/ \E r \in RuleIds : RuleMade(r) \/ RuleOff(r)
       \/ Starts \/ Drops \/ ReadBatch \/ CommitRun \/ CrashRun
       \/ \E i \in Ids : Advance(i)
       \/ \E i \in Ids, r \in RuleIds, st \in {"success", "skipped", "failed"} : Records(r, i, st)
<1>q. steps' = steps => Queueing
  BY Typed DEF TypeInv, Queueing
<1>1. ASSUME NEW k \in Kinds, Change(k) PROVE Goal
  <2>1. Idles
    BY <1>1, <1>q, ChangeIs DEF Idles, stepVars
  <2> QED
    BY <2>1
<1>2. ASSUME NEW r \in RuleIds, CreateRule(r) PROVE Goal
  <2>1. RuleMade(r)
    BY <1>2 DEF CreateRule, RuleMade, Rewrites
  <2> QED
    BY <2>1
<1>3. ASSUME NEW r \in RuleIds, DisableRule(r) PROVE Goal
  <2>1. faults' \in 0 .. MaxFaults
    BY <1>3, RulesAssumption DEF DisableRule, TypeInv
  <2>2. RuleOff(r)
    BY <1>3, <2>1 DEF DisableRule, RuleOff, Rewrites
  <2> QED
    BY <2>2
<1>4. ASSUME KillSwitch \/ Minute \/ UNCHANGED vars PROVE Goal
  <2>1. Idles
    BY <1>4, <1>q DEF KillSwitch, Minute, vars, stepVars, Idles, Same
  <2> QED
    BY <2>1
<1>5. ASSUME StartRun PROVE Goal
  BY <1>5, StartRunIs
<1>6. ASSUME NEW i \in Ids, NEW r \in RuleIds, Skipped(r, i) \/ Fire(r, i) PROVE Goal
  <2>1. \E st \in {"success", "skipped", "failed"} : Records(r, i, st)
    BY <1>6, SkippedIs, FireIs DEF Records
  <2> QED
    BY <2>1
<1>7. ASSUME \/ \E w \in Workers : Worker(w) \/ CrashWorker(w)
             \/ \E i \in DOMAIN steps : TimeOut(i)
      PROVE  Goal
  <2>1. Idles
    BY <1>7, QueueIs DEF Idles
  <2> QED
    BY <2>1
<1>8. ASSUME ReadBatch \/ CommitRun \/ CrashRun \/ \E i \in Ids : Advance(i) PROVE Goal
  BY <1>8
<1> HIDE DEF Goal
<1>9. Goal
  BY <1>1, <1>2, <1>3, <1>4, <1>5, <1>6, <1>7, <1>8 DEF Next, Executor, Handle
<1> QED
  BY <1>9 DEF Goal

-----------------------------------------------------------------------------
(* Types.                                                                     *)

LEMMA TypeNext == TypeInv /\ ClaimInv /\ ScanInv /\ [Next]_vars => TypeInv'
<1> SUFFICES ASSUME TypeInv, ClaimInv, ScanInv, [Next]_vars PROVE TypeInv'
  OBVIOUS
<1> USE RulesAssumption
<1>t. /\ events \in Seq(Events) /\ Len(events) \in Nat /\ cursor \in 0 .. Len(events)
      /\ runs \in Seq(RunRows) /\ used \in 0 .. MaxActions
      /\ steps \in Seq(StepRows) /\ applied \in Seq(Nat) /\ Len(applied) = Len(steps)
      /\ rule \in [RuleIds -> {"absent", "on", "off"}] /\ since \in [RuleIds -> Nat]
      /\ on \in BOOLEAN /\ work \in {None} \cup Opens
      /\ claimed \in [Workers -> SUBSET Nat] /\ doing \in [Workers -> Nat]
      /\ people \in 0 .. MaxPeople /\ faults \in 0 .. MaxFaults
  BY DEF TypeInv
<1>a. ASSUME events' = events \/ \E e : Arrives(e)
      PROVE  events' \in Seq(Events) /\ cursor \in 0 .. Len(events')
  <2>1. ASSUME NEW e, Arrives(e) PROVE events' \in Seq(Events) /\ Len(events') = Len(events) + 1
    BY <1>t, <2>1, AppendIs DEF Arrives
  <2> QED
    BY <1>a, <1>t, <2>1
<1>1. ASSUME NEW k \in Kinds, Change(k) PROVE TypeInv'
  <2>1. /\ \E e : Arrives(e)
        /\ UNCHANGED <<cursor, runs, rule, since, work, used, steps, applied, claimed, doing, on, faults>>
        /\ people' \in 0 .. MaxPeople
    BY <1>1, ChangeIs DEF Same, stepVars
  <2> QED
    BY <1>a, <1>t, <2>1 DEF TypeInv
<1>2. ASSUME NEW r \in RuleIds, CreateRule(r) PROVE TypeInv'
  BY <1>2, <1>t DEF CreateRule, TypeInv, stepVars
<1>3. ASSUME NEW r \in RuleIds, DisableRule(r) PROVE TypeInv'
  BY <1>3, <1>t DEF DisableRule, TypeInv, stepVars
<1>4. ASSUME KillSwitch PROVE TypeInv'
  <2>1. on' \in BOOLEAN /\ faults' \in 0 .. MaxFaults
    BY <1>4, <1>t DEF KillSwitch
  <2> QED
    BY <1>4, <1>t, <2>1 DEF KillSwitch, TypeInv, stepVars
<1>5. ASSUME StartRun PROVE TypeInv'
  BY <1>5, <1>t, StartRunIs DEF TypeInv, Starts, Drops, Quiet, stepVars
<1>6. ASSUME ReadBatch PROVE TypeInv'
  BY <1>6, <1>t, ReadBatchIs DEF TypeInv, Quiet, stepVars
<1>7. ASSUME NEW i \in Ids, Advance(i) PROVE TypeInv'
  BY <1>7, <1>t, AdvanceIs DEF TypeInv, Quiet, stepVars
<1>8. ASSUME NEW i \in Ids, NEW r \in RuleIds, Skipped(r, i) \/ Fire(r, i) PROVE TypeInv'
  <2>1. PICK st \in {"success", "skipped", "failed"} : Records(r, i, st)
    BY <1>8, SkippedIs, FireIs DEF Records
  <2>2. work' \in Opens
        /\ UNCHANGED <<cursor, runs, used, rule, since, on, claimed, doing, people, faults, passed>>
    BY <2>1 DEF Records, Recorded
  <2>3. CASE Made(r, i)
    <3>1. PICK e \in Events : events' = Append(events, e)
      BY <2>3 DEF Made
    <3>2. events' \in Seq(Events) /\ cursor \in 0 .. Len(events')
      BY <1>t, <3>1, AppendIs
    <3>3. steps' \in Seq(StepRows) /\ applied' \in Seq(Nat) /\ Len(applied') = Len(steps')
      <4>1. ASSUME NEW z \in StepRows, steps' = Append(steps, z), applied' = Append(applied, 0)
            PROVE  steps' \in Seq(StepRows) /\ applied' \in Seq(Nat) /\ Len(applied') = Len(steps')
        BY <1>t, <4>1, AppendIs
      <4> QED
        BY <1>t, <2>3, <4>1 DEF Made
    <3> QED
      BY <1>t, <2>2, <3>2, <3>3 DEF TypeInv
  <2>4. CASE UNCHANGED <<events, steps, applied>>
    BY <1>t, <2>2, <2>4 DEF TypeInv
  <2> QED
    BY <2>1, <2>3, <2>4 DEF Records
<1>9. ASSUME CommitRun PROVE TypeInv'
  <2>1. Ends("seen", "queued") /\ cursor' = work.cursor /\ runs' = runs \o work.runs
        /\ used' \in 0 .. MaxActions /\ UNCHANGED faults /\ work.todo = {}
    BY <1>9, EndIs
  <2>2. work.runs \in Seq(RunRows) /\ work.cursor \in Nat
    BY <2>1 DEF Ends, Opens
  <2>3. runs' \in Seq(RunRows)
    BY <1>t, <2>1, <2>2, ConcatIs
  <2>4. work.cursor <= Len(events)
    BY <2>1, OpenIs DEF Ends, ScanInv
  <2> QED
    BY <1>t, <2>1, <2>2, <2>3, <2>4 DEF Ends, TypeInv
<1>10. ASSUME CrashRun PROVE TypeInv'
  BY <1>10, <1>t, EndIs DEF Ends, TypeInv
<1>11. ASSUME Minute PROVE TypeInv'
  BY <1>11, <1>t DEF Minute, TypeInv, stepVars
<1>12. ASSUME \/ \E w \in Workers : Worker(w) \/ CrashWorker(w)
              \/ \E i \in DOMAIN steps : TimeOut(i)
       PROVE  TypeInv'
  <2>1. /\ Queueing /\ Same /\ UNCHANGED <<used, on, people>> /\ faults' \in 0 .. MaxFaults
        /\ events' = events \/ \E e : Arrives(e)
        /\ applied' \in Seq(Nat) /\ Len(applied') = Len(applied)
        /\ claimed' \in [Workers -> SUBSET Nat] /\ doing' \in [Workers -> Nat]
    BY <1>12, QueueIs
  <2> QED
    BY <1>a, <1>t, <2>1 DEF TypeInv, Same, Queueing
<1>13. ASSUME UNCHANGED vars PROVE TypeInv'
  BY <1>13, <1>t DEF vars, stepVars, TypeInv
<1> QED
  BY <1>1, <1>2, <1>3, <1>4, <1>5, <1>6, <1>7, <1>8, <1>9, <1>10, <1>11, <1>12, <1>13
  DEF Next, Executor, Handle

-----------------------------------------------------------------------------
(* AI steps: one worker has a claimed step, and finishes it once.              *)

\* What every step but those of the queue does to the steps: rows of the open
\* run come, or get a status; committed ones stay.
Settles ==
    /\ \A i \in DOMAIN steps : /\ i \in DOMAIN steps' /\ applied'[i] = applied[i]
                               /\ steps[i].status = "mine" => steps'[i].status # "done"
                               /\ steps[i].status # "mine" => steps'[i].status = steps[i].status
    /\ \A i \in DOMAIN steps' \ DOMAIN steps : steps'[i].status = "mine" /\ applied'[i] = 0
    /\ UNCHANGED <<claimed, doing>>

LEMMA QueueOrSettle ==
    ASSUME TypeInv, ClaimInv, [Next]_vars
    PROVE  \/ Settles
           \/ \E w \in Workers : Claim(w) \/ Take(w) \/ Finish(w) \/ CrashWorker(w)
           \/ \E i \in DOMAIN steps : TimeOut(i)
<1>k. ASSUME UNCHANGED stepVars PROVE Settles
  BY <1>k DEF Settles, stepVars
<1>t. steps \in Seq(StepRows) /\ applied \in Seq(Nat) /\ Len(applied) = Len(steps) /\ 0 \in Nat
  BY DEF TypeInv
<1>1. ASSUME NEW k \in Kinds, Change(k) PROVE Settles
  BY <1>1, <1>k DEF Change
<1>2. ASSUME NEW r \in RuleIds, CreateRule(r) \/ DisableRule(r) PROVE Settles
  BY <1>2, <1>k DEF CreateRule, DisableRule
<1>3. ASSUME KillSwitch \/ StartRun \/ ReadBatch \/ Minute PROVE Settles
  BY <1>3, <1>k DEF KillSwitch, StartRun, ReadBatch, Minute
<1>4. ASSUME NEW i \in Ids, Advance(i) PROVE Settles
  BY <1>4, <1>k DEF Advance
<1>5. ASSUME NEW i \in Ids, NEW r \in RuleIds, Skipped(r, i) \/ Fire(r, i) PROVE Settles
  <2>1. PICK st \in {"success", "skipped", "failed"} : Records(r, i, st)
    BY <1>5, SkippedIs, FireIs DEF Records
  <2>2. UNCHANGED <<claimed, doing>>
    BY <2>1 DEF Records, Recorded
  <2>3. CASE UNCHANGED <<steps, applied>>
    BY <1>k, <2>2, <2>3 DEF stepVars
  <2>4. ASSUME NEW z \in StepRows, z.status = "mine", steps' = Append(steps, z),
               applied' = Append(applied, 0)
        PROVE  Settles
    <3>1. /\ DOMAIN steps' = DOMAIN steps \cup {Len(steps) + 1}
          /\ \A j \in DOMAIN steps : steps'[j] = steps[j]
          /\ steps'[Len(steps) + 1] = z
      BY <1>t, <2>4, AppendIs
    <3>2. /\ \A j \in DOMAIN steps : applied'[j] = applied[j]
          /\ applied'[Len(steps) + 1] = 0
      <4>1. DOMAIN applied = DOMAIN steps
        BY Typed
      <4> QED
        BY <1>t, <2>4, <4>1, AppendIs
    <3> QED
      BY <2>2, <2>4, <3>1, <3>2 DEF Settles
  <2> QED
    BY <2>1, <2>3, <2>4 DEF Records, Made
<1>6. ASSUME CommitRun \/ CrashRun PROVE Settles
  <2>1. \E es, ss \in {"seen", "queued", "gone"} : Ends(es, ss)
    BY <1>6, EndIs
  <2> QED
    BY <2>1 DEF Ends, Settles
<1>7. ASSUME UNCHANGED vars PROVE Settles
  <2>1. UNCHANGED stepVars
    BY <1>7 DEF vars, stepVars
  <2> QED
    BY <1>k, <2>1
<1> QED
  BY <1>1, <1>2, <1>3, <1>4, <1>5, <1>6, <1>7 DEF Next, Executor, Handle, Worker

LEMMA ClaimNext == TypeInv /\ ClaimInv /\ [Next]_vars => ClaimInv'
<1> SUFFICES ASSUME TypeInv, ClaimInv, [Next]_vars PROVE ClaimInv'
  OBVIOUS
<1>t. claimed \in [Workers -> SUBSET Nat] /\ doing \in [Workers -> Nat] /\ 0 \notin DOMAIN steps
      /\ At \subseteq DOMAIN steps
  BY Typed DEF TypeInv, At
<1>1. CASE Settles
  <2>1. At \subseteq At'
    BY <1>1 DEF Settles, At
  <2> QED
    BY <1>1, <2>1 DEF Settles, ClaimInv
<1>2. ASSUME NEW w \in Workers, Claim(w) PROVE ClaimInv'
  <2> DEFINE Q == {i \in DOMAIN steps : steps[i].status = "queued"}
  <2>1. /\ steps' = [i \in DOMAIN steps |->
                        IF i \in Q THEN [steps[i] EXCEPT !.status = "running"] ELSE steps[i]]
        /\ claimed' = [claimed EXCEPT ![w] = Q] /\ doing' = doing
        /\ claimed[w] = {} /\ doing[w] = 0
    BY <1>2 DEF Claim
  <2>2. Q \cap At = {} /\ Q \subseteq DOMAIN steps
    BY DEF At
  <2>3. At' = At \cup Q
    <3>1. \A i \in DOMAIN steps :
            steps'[i].status = IF i \in Q THEN "running" ELSE steps[i].status
      BY <2>1, Typed DEF StepRows
    <3>2. DOMAIN steps' = DOMAIN steps
      BY <2>1
    <3> QED
      BY <2>2, <3>1, <3>2 DEF At
  <2> HIDE DEF Q
  <2>4. \A v \in Workers : claimed'[v] = IF v = w THEN Q ELSE claimed[v]
    BY <1>t, <2>1
  <2> QED
    BY <2>1, <2>2, <2>3, <2>4 DEF ClaimInv
<1>3. ASSUME NEW w \in Workers, Take(w) PROVE ClaimInv'
  <2>1. PICK i \in claimed[w] :
            /\ claimed' = [claimed EXCEPT ![w] = claimed[w] \ {i}]
            /\ doing' = [doing EXCEPT ![w] = IF steps[i].status = "running" THEN i ELSE 0]
    BY <1>3, <1>t DEF Take
  <2>2. /\ \A v \in Workers : claimed'[v] = IF v = w THEN claimed[w] \ {i} ELSE claimed[v]
        /\ \A v \in Workers : v # w => doing'[v] = doing[v]
        /\ doing'[w] \in {i, 0}
    BY <1>t, <2>1
  <2>3. At' = At /\ doing[w] = 0 /\ i # 0 /\ i \in At
    BY <1>3, <1>t DEF Take, At, ClaimInv
  <2>4. ASSUME NEW v \in Workers PROVE claimed'[v] \subseteq At' /\ (doing'[v] # 0 => doing'[v] \in At')
    BY <2>2, <2>3 DEF ClaimInv
  <2>5. ASSUME NEW v \in Workers, NEW u \in Workers
        PROVE  /\ doing'[u] # 0 => doing'[u] \notin claimed'[v]
               /\ v # u => claimed'[v] \cap claimed'[u] = {} /\ (doing'[u] # 0 => doing'[v] # doing'[u])
    <3>1. /\ doing[u] # 0 => doing[u] \notin claimed[v]
          /\ v # u => claimed[v] \cap claimed[u] = {} /\ (doing[u] # 0 => doing[v] # doing[u])
      BY DEF ClaimInv
    <3>2. \A x \in Workers : /\ x # w => i \notin claimed[x]
                             /\ doing[x] # 0 => doing[x] # i
      BY DEF ClaimInv
    <3> QED
      BY <2>2, <2>3, <3>1, <3>2
  <2> QED
    BY <2>4, <2>5 DEF ClaimInv
<1>4. ASSUME NEW w \in Workers, Finish(w) PROVE ClaimInv'
  <2> DEFINE i == doing[w]
  <2>1. /\ i # 0 /\ doing' = [doing EXCEPT ![w] = 0] /\ claimed' = claimed
        /\ \E st \in {"done", "failed"} : steps' = [steps EXCEPT ![i].status = st]
    BY <1>4 DEF Finish
  <2>2. DOMAIN steps' = DOMAIN steps /\ \A j \in DOMAIN steps : j # i => steps'[j] = steps[j]
    BY <2>1
  <2>3. At \ {i} \subseteq At'
    BY <2>2 DEF At
  <2>4. \A v \in Workers : doing'[v] = IF v = w THEN 0 ELSE doing[v]
    BY <1>t, <2>1
  <2>5. \A v \in Workers : i \notin claimed[v] /\ (v # w => doing[v] # i)
    BY <2>1 DEF ClaimInv
  <2>6. ASSUME NEW v \in Workers PROVE claimed'[v] \subseteq At' /\ (doing'[v] # 0 => doing'[v] \in At')
    BY <2>1, <2>3, <2>4, <2>5 DEF ClaimInv
  <2>7. ASSUME NEW v \in Workers, NEW u \in Workers
        PROVE  /\ doing'[u] # 0 => doing'[u] \notin claimed'[v]
               /\ v # u => claimed'[v] \cap claimed'[u] = {} /\ (doing'[u] # 0 => doing'[v] # doing'[u])
    <3>1. /\ doing[u] # 0 => doing[u] \notin claimed[v]
          /\ v # u => claimed[v] \cap claimed[u] = {} /\ (doing[u] # 0 => doing[v] # doing[u])
      BY DEF ClaimInv
    <3> QED
      BY <2>1, <2>4, <3>1
  <2> QED
    BY <2>6, <2>7 DEF ClaimInv
<1>5. ASSUME NEW w \in Workers, CrashWorker(w) PROVE ClaimInv'
  <2>1. /\ \A v \in Workers : claimed'[v] = IF v = w THEN {} ELSE claimed[v]
        /\ \A v \in Workers : doing'[v] = IF v = w THEN 0 ELSE doing[v]
        /\ At' = At
    BY <1>5, <1>t DEF CrashWorker, At
  <2> QED
    BY <2>1 DEF ClaimInv
<1>6. ASSUME NEW i \in DOMAIN steps, TimeOut(i) PROVE ClaimInv'
  <2>1. UNCHANGED <<claimed, doing>> /\ steps' = [steps EXCEPT ![i].status = "failed"]
    BY <1>6 DEF TimeOut
  <2>2. At \subseteq At'
    <3>1. DOMAIN steps' = DOMAIN steps /\ \A j \in DOMAIN steps : j # i => steps'[j] = steps[j]
      BY <2>1
    <3>2. steps'[i].status = "failed"
      BY <2>1, Typed DEF StepRows
    <3> QED
      BY <3>1, <3>2 DEF At
  <2> QED
    BY <2>1, <2>2 DEF ClaimInv
<1> QED
  BY <1>1, <1>2, <1>3, <1>4, <1>5, <1>6, QueueOrSettle

LEMMA OnceNext == TypeInv /\ ClaimInv /\ StepOnce /\ [Next]_vars => StepOnce'
<1> SUFFICES ASSUME TypeInv, ClaimInv, StepOnce, [Next]_vars PROVE StepOnce'
  OBVIOUS
<1>o. \A i \in DOMAIN steps : applied[i] = IF steps[i].status = "done" THEN 1 ELSE 0
  BY DEF StepOnce
<1>d. DOMAIN applied = DOMAIN steps /\ applied \in Seq(Nat)
  BY Typed DEF TypeInv
\* A step that is neither done before nor after.
<1>n. ASSUME DOMAIN steps' = DOMAIN steps, applied' = applied,
             \A i \in DOMAIN steps : steps'[i].status = "done" <=> steps[i].status = "done"
      PROVE  StepOnce'
  BY <1>n, <1>o DEF StepOnce
<1>1. CASE Settles
  <2> SUFFICES ASSUME NEW i \in DOMAIN steps'
               PROVE  applied'[i] = IF steps'[i].status = "done" THEN 1 ELSE 0
    BY DEF StepOnce
  <2>1. CASE i \in DOMAIN steps
    BY <1>1, <1>o, <2>1 DEF Settles
  <2>2. CASE i \notin DOMAIN steps
    BY <1>1, <2>2 DEF Settles
  <2> QED
    BY <2>1, <2>2
<1>2. ASSUME NEW w \in Workers, Claim(w) PROVE StepOnce'
  <2> DEFINE Q == {i \in DOMAIN steps : steps[i].status = "queued"}
  <2>1. /\ steps' = [i \in DOMAIN steps |->
                        IF i \in Q THEN [steps[i] EXCEPT !.status = "running"] ELSE steps[i]]
        /\ applied' = applied
    BY <1>2 DEF Claim
  <2>2. \A i \in DOMAIN steps : steps'[i].status = IF i \in Q THEN "running" ELSE steps[i].status
    BY <2>1, Typed DEF StepRows
  <2> QED
    BY <1>n, <2>1, <2>2
<1>3. ASSUME NEW w \in Workers, Take(w) \/ CrashWorker(w) PROVE StepOnce'
  BY <1>3, <1>n DEF Take, CrashWorker
<1>4. ASSUME NEW w \in Workers, Finish(w) PROVE StepOnce'
  <2> DEFINE i == doing[w]
  <2>1. i \in DOMAIN steps /\ steps[i].status \in {"running", "failed"} /\ steps[i] \in StepRows
    BY <1>4, Typed DEF Finish, ClaimInv, At
  <2>2. applied[i] = 0
    BY <1>o, <2>1
  <2>3. \/ steps' = [steps EXCEPT ![i].status = "done"] /\ applied' = [applied EXCEPT ![i] = @ + 1]
        \/ steps' = [steps EXCEPT ![i].status = "failed"] /\ applied' = applied
    BY <1>4 DEF Finish
  <2> HIDE DEF i
  <2>4. DOMAIN steps' = DOMAIN steps /\ \A j \in DOMAIN steps : j # i => steps'[j] = steps[j]
                                                                  /\ applied'[j] = applied[j]
    BY <1>d, <2>1, <2>3
  <2>5. applied'[i] = IF steps'[i].status = "done" THEN 1 ELSE 0
    <3>1. CASE steps' = [steps EXCEPT ![i].status = "done"] /\ applied' = [applied EXCEPT ![i] = @ + 1]
      <4>1. steps'[i].status = "done" /\ applied'[i] = applied[i] + 1
        BY <1>d, <2>1, <3>1 DEF StepRows
      <4> QED
        BY <2>2, <4>1
    <3>2. CASE steps' = [steps EXCEPT ![i].status = "failed"] /\ applied' = applied
      <4>1. steps'[i].status = "failed" /\ applied'[i] = applied[i]
        BY <2>1, <3>2 DEF StepRows
      <4> QED
        BY <2>2, <4>1
    <3> QED
      BY <2>3, <3>1, <3>2
  <2> QED
    BY <1>o, <2>4, <2>5 DEF StepOnce
<1>5. ASSUME NEW i \in DOMAIN steps, TimeOut(i) PROVE StepOnce'
  <2>1. steps[i].status = "running" /\ steps' = [steps EXCEPT ![i].status = "failed"] /\ applied' = applied
    BY <1>5 DEF TimeOut
  <2>2. DOMAIN steps' = DOMAIN steps /\ \A j \in DOMAIN steps : j # i => steps'[j] = steps[j]
    BY <2>1
  <2>3. steps'[i].status = "failed"
    BY <2>1, Typed DEF StepRows
  <2> QED
    BY <1>n, <2>1, <2>2, <2>3
<1> QED
  BY <1>1, <1>2, <1>3, <1>4, <1>5, QueueOrSettle

-----------------------------------------------------------------------------
(* Where the executor is.                                                     *)

\* Events are added behind the others, and those that are gone stay so.
Grows == /\ Ids \subseteq Ids' /\ Len(events') >= Len(events)
         /\ \A i \in Ids : /\ events'[i].kind = events[i].kind
                           /\ events'[i].state # "gone" => events[i].state # "gone"
         /\ \A i \in Ids' \ Ids : i > Len(events)

LEMMA GrowsBy ==
    ASSUME TypeInv, NEW e \in Events, events' = Append(events, e)
    PROVE  /\ Grows /\ Ids' = Ids \cup {Len(events) + 1} /\ Len(events) + 1 \notin Ids
           /\ \A i \in Ids : events'[i] = events[i]
           /\ events'[Len(events) + 1] = e
<1>1. events \in Seq(Events)
  BY DEF TypeInv
<1>2. /\ Len(events) \in Nat /\ Len(events') = Len(events) + 1
      /\ Ids = 1 .. Len(events) /\ Ids' = Ids \cup {Len(events) + 1} /\ Len(events) + 1 \notin Ids
      /\ \A i \in Ids : events'[i] = events[i]
      /\ events'[Len(events) + 1] = e
  BY <1>1, AppendIs DEF Ids
<1> QED
  BY <1>2 DEF Grows

LEMMA GrowsNext == TypeInv /\ ClaimInv /\ [Next]_vars => Grows
<1> SUFFICES ASSUME TypeInv, ClaimInv, [Next]_vars PROVE Grows
  OBVIOUS
<1>t. Ids = 1 .. Len(events) /\ Len(events) \in Nat
  BY Typed
<1>k. ASSUME events' = events PROVE Grows
  BY <1>k, <1>t DEF Grows, Ids
<1>1. CASE Idles
  <2>1. ASSUME NEW e, Arrives(e) PROVE Grows
    BY <2>1, GrowsBy DEF Arrives
  <2> QED
    BY <1>1, <1>k, <2>1 DEF Idles
<1>2. ASSUME NEW r \in RuleIds, RuleMade(r) \/ RuleOff(r) PROVE Grows
  BY <1>2, <1>k DEF RuleMade, RuleOff, Rewrites
<1>3. CASE Starts \/ Drops \/ ReadBatch
  BY <1>3, <1>k DEF Starts, Drops, ReadBatch, Quiet
<1>4. CASE CommitRun \/ CrashRun
  <2>1. \E es, ss \in {"seen", "queued", "gone"} : Ends(es, ss)
    BY <1>4, EndIs
  <2> QED
    BY <1>t, <2>1 DEF Ends, Grows, Ids
<1>5. ASSUME NEW i \in Ids, Advance(i) PROVE Grows
  BY <1>5, <1>k DEF Advance
<1>6. ASSUME NEW i \in Ids, NEW r \in RuleIds, NEW st, Records(r, i, st) PROVE Grows
  BY <1>6, <1>k, GrowsBy DEF Records, Made
<1> QED
  BY <1>1, <1>2, <1>3, <1>4, <1>5, <1>6, StepIs

LEMMA ScanNext == TypeInv /\ ClaimInv /\ ScanInv /\ [Next]_vars => ScanInv'
<1> SUFFICES ASSUME TypeInv, ClaimInv, ScanInv, [Next]_vars PROVE ScanInv'
  OBVIOUS
<1>g. Grows
  BY GrowsNext
<1>t. Ids = 1 .. Len(events) /\ Len(events) \in Nat /\ cursor \in Nat /\ cursor <= Len(events)
      /\ rule \in [RuleIds -> {"absent", "on", "off"}] /\ since \in [RuleIds -> Nat]
  BY Typed DEF TypeInv
<1>n. None.open = FALSE /\ \A q \in Opens : /\ q.open = TRUE /\ q.rules \subseteq RuleIds
                                            /\ q.todo \subseteq Nat /\ q.cursor \in Nat
  BY DEF None, Opens
<1>l. Ids' \subseteq Nat /\ Len(events') \in Nat
  <2>1. TypeInv'
    BY TypeNext
  <2>2. events' \in Seq(Events)
    BY <2>1 DEF TypeInv
  <2> QED
    BY <2>2 DEF Ids
\* The open run is where it was, and no rule comes but a new one.
<1>k. ASSUME UNCHANGED <<cursor, work>>,
             \A r \in RuleIds : /\ rule'[r] = "absent" => rule[r] = "absent"
                                /\ rule'[r] = "on" => \/ rule[r] = "on" /\ since'[r] = since[r]
                                                      \/ since'[r] = Len(events)
      PROVE  ScanInv'
  <2> SUFFICES ASSUME work.open
               PROVE  /\ cursor <= work.cursor /\ work.cursor <= Len(events')
                      /\ \A i \in work.todo : i \in Ids' /\ i > work.cursor
                      /\ \A k \in Ids', i \in work.todo :
                            k > work.cursor /\ k < i /\ events'[k].state # "gone" => k \in work.todo
                      /\ \A r \in work.rules : rule'[r] # "absent"
                      /\ \A r \in RuleIds, i \in work.todo :
                            rule'[r] = "on" => r \in work.rules \/ since'[r] >= i
    BY <1>k DEF ScanInv
  <2>1. work \in Opens
    BY OpenIs
  <2>2. /\ cursor <= work.cursor /\ work.cursor <= Len(events)
        /\ \A i \in work.todo : i \in Ids /\ i > work.cursor
        /\ \A k \in Ids, i \in work.todo :
            k > work.cursor /\ k < i /\ events[k].state # "gone" => k \in work.todo
        /\ \A r \in work.rules : rule[r] # "absent"
        /\ \A r \in RuleIds, i \in work.todo : rule[r] = "on" => r \in work.rules \/ since[r] >= i
    BY DEF ScanInv
  <2>3. \A i \in work.todo : i \in Ids' /\ i > work.cursor /\ i <= Len(events)
    BY <1>g, <1>t, <2>2 DEF Grows
  <2>4. ASSUME NEW k \in Ids', NEW i \in work.todo, k > work.cursor, k < i, events'[k].state # "gone"
        PROVE  k \in work.todo
    <3>1. k \in Ids
      <4>1. k \in Nat /\ i \in Nat /\ i <= Len(events)
        BY <1>l, <2>3, <2>4
      <4>2. ~(k > Len(events))
        BY <1>t, <2>4, <4>1
      <4> QED
        BY <1>g, <2>4, <4>2 DEF Grows
    <3> QED
      BY <1>g, <2>2, <2>4, <3>1 DEF Grows
  <2>5. \A r \in work.rules : rule'[r] # "absent"
    BY <1>k, <1>n, <2>1, <2>2
  <2>6. ASSUME NEW r \in RuleIds, NEW i \in work.todo, rule'[r] = "on"
        PROVE  r \in work.rules \/ since'[r] >= i
    BY <1>k, <1>t, <2>2, <2>3, <2>6
  <2>7. cursor <= work.cursor /\ work.cursor <= Len(events')
    BY <1>g, <1>l, <1>n, <1>t, <2>1, <2>2 DEF Grows
  <2> QED
    BY <2>3, <2>4, <2>5, <2>6, <2>7
<1>1. CASE Idles
  BY <1>1, <1>k DEF Idles, Same
<1>2. ASSUME NEW r \in RuleIds, RuleMade(r) PROVE ScanInv'
  <2>1. /\ \A s \in RuleIds : /\ rule'[s] = IF s = r THEN "on" ELSE rule[s]
                              /\ since'[s] = IF s = r THEN Len(events) ELSE since[s]
        /\ UNCHANGED <<cursor, work>>
    BY <1>2, <1>t DEF RuleMade, Rewrites
  <2> QED
    BY <1>k, <2>1
<1>3. ASSUME NEW r \in RuleIds, RuleOff(r) PROVE ScanInv'
  <2>1. /\ \A s \in RuleIds : rule'[s] = IF s = r THEN "off" ELSE rule[s]
        /\ UNCHANGED <<cursor, work, since>>
    BY <1>3, <1>t DEF RuleOff, Rewrites
  <2> QED
    BY <1>k, <2>1
<1>4. CASE Starts
  <2>1. /\ work' \in Opens /\ work'.cursor = cursor /\ work'.todo = {} /\ work'.rules = {}
        /\ cursor' = cursor /\ events' = events
    BY <1>4 DEF Starts, Quiet
  <2> QED
    BY <1>t, <2>1 DEF ScanInv
<1>5. CASE Drops \/ CommitRun \/ CrashRun
  <2>1. work' = None
    BY <1>5, EndIs DEF Drops, Ends
  <2> QED
    BY <1>n, <2>1 DEF ScanInv
<1>6. CASE ReadBatch
  <2>1. /\ work \in Opens /\ work' \in Opens
        /\ work'.cursor = work.cursor
        /\ work'.rules = {r \in RuleIds : rule[r] = "on"}
        /\ \A i \in work'.todo : i \in Ids /\ i > work.cursor
        /\ \A i \in work'.todo, k \in Ids :
                k > work.cursor /\ events[k].state # "gone" /\ k < i => k \in work'.todo
        /\ UNCHANGED <<events, cursor, rule, since>>
    BY <1>6, ReadBatchIs DEF Quiet
  <2>2. cursor <= work.cursor /\ work.cursor <= Len(events)
    BY <1>n, <2>1 DEF ScanInv
  <2>3. Ids' = Ids
    BY <2>1 DEF Ids
  <2> QED
    BY <2>1, <2>2, <2>3 DEF ScanInv
<1>7. ASSUME NEW i \in Ids, Advance(i) PROVE ScanInv'
  <2>1. /\ work \in Opens /\ work' \in Opens /\ i \in work.todo /\ \A j \in work.todo : i <= j
        /\ work'.rules = work.rules /\ work'.todo = work.todo \ {i} /\ work'.cursor = i
        /\ UNCHANGED <<events, cursor, rule, since>>
    BY <1>7, AdvanceIs DEF Quiet
  <2>2. /\ cursor <= work.cursor /\ work.cursor <= Len(events)
        /\ \A j \in work.todo : j \in Ids /\ j > work.cursor
        /\ \A k \in Ids, j \in work.todo :
            k > work.cursor /\ k < j /\ events[k].state # "gone" => k \in work.todo
        /\ \A r \in work.rules : rule[r] # "absent"
        /\ \A r \in RuleIds, j \in work.todo : rule[r] = "on" => r \in work.rules \/ since[r] >= j
    BY <1>n, <2>1 DEF ScanInv
  <2>3. Ids' = Ids /\ i <= Len(events) /\ cursor <= i
    BY <1>n, <1>t, <2>1, <2>2 DEF Ids
  <2>4. \A j \in work'.todo : j \in Ids /\ j > i
    BY <1>t, <2>1, <2>2
  <2>5. \A k \in Ids, j \in work'.todo :
            k > i /\ k < j /\ events[k].state # "gone" => k \in work'.todo
    BY <1>n, <1>t, <2>1, <2>2
  <2> QED
    BY <2>1, <2>2, <2>3, <2>4, <2>5 DEF ScanInv
<1>8. ASSUME NEW i \in Ids, NEW r \in RuleIds, NEW st, Records(r, i, st) PROVE ScanInv'
  <2>1. /\ work \in Opens /\ work' \in Opens
        /\ work'.cursor = work.cursor /\ work'.todo = work.todo /\ work'.rules = work.rules
        /\ UNCHANGED <<cursor, rule, since>>
    BY <1>8 DEF Records, Recorded
  <2>2. /\ cursor <= work.cursor /\ work.cursor <= Len(events)
        /\ \A j \in work.todo : j \in Ids /\ j > work.cursor
        /\ \A k \in Ids, j \in work.todo :
            k > work.cursor /\ k < j /\ events[k].state # "gone" => k \in work.todo
        /\ \A s \in work.rules : rule[s] # "absent"
        /\ \A s \in RuleIds, j \in work.todo : rule[s] = "on" => s \in work.rules \/ since[s] >= j
    BY <1>n, <2>1 DEF ScanInv
  <2>3. ASSUME NEW k \in Ids', NEW j \in work.todo, k > work.cursor, k < j, events'[k].state # "gone"
        PROVE  k \in work.todo
    <3>1. k \in Ids
      BY <1>g, <1>l, <1>t, <2>2, <2>3 DEF Grows
    <3> QED
      BY <1>g, <2>2, <2>3, <3>1 DEF Grows
  <2>4. work.cursor <= Len(events') /\ \A j \in work.todo : j \in Ids'
    BY <1>g, <1>l, <1>n, <1>t, <2>1, <2>2 DEF Grows
  <2> QED
    BY <2>1, <2>2, <2>3, <2>4 DEF ScanInv
<1> QED
  BY <1>1, <1>2, <1>3, <1>4, <1>5, <1>6, <1>7, <1>8, StepIs

-----------------------------------------------------------------------------
(* Runs, and the rules they are of.                                            *)

LEMMA RanMore ==
    ASSUME NEW S \in Seq(RunRows), NEW x \in RunRows
    PROVE  /\ \A r, i : Ran(Append(S, x), r, i) <=> Ran(S, r, i) \/ (x.rule = r /\ x.ev = i)
           /\ \A r, i : Won(Append(S, x), r, i)
                            <=> Won(S, r, i) \/ (x.rule = r /\ x.ev = i /\ x.status = "success")
           /\ Distinct(S) /\ ~Ran(S, x.rule, x.ev) => Distinct(Append(S, x))
<1> DEFINE z == Append(S, x)
           n == Len(S) + 1
<1>1. /\ DOMAIN z = DOMAIN S \cup {n} /\ n \notin DOMAIN S
      /\ (\A i \in DOMAIN S : z[i] = S[i]) /\ z[n] = x
  BY AppendIs
<1> HIDE DEF z, n
<1>2. \A r, i : Ran(z, r, i) <=> Ran(S, r, i) \/ (x.rule = r /\ x.ev = i)
  BY <1>1 DEF Ran
<1>3. \A r, i : Won(z, r, i) <=> Won(S, r, i) \/ (x.rule = r /\ x.ev = i /\ x.status = "success")
  BY <1>1 DEF Won
<1>4. Distinct(S) /\ ~Ran(S, x.rule, x.ev) => Distinct(z)
  BY <1>1 DEF Distinct, Ran
<1> QED
  BY <1>2, <1>3, <1>4 DEF z

LEMMA RanBoth ==
    ASSUME NEW S \in Seq(RunRows), NEW T \in Seq(RunRows)
    PROVE  /\ \A r, i : Ran(S \o T, r, i) <=> Ran(S, r, i) \/ Ran(T, r, i)
           /\ \A r, i : Won(S \o T, r, i) <=> Won(S, r, i) \/ Won(T, r, i)
           /\ (Distinct(S) /\ Distinct(T) /\ \A r, i : ~(Ran(S, r, i) /\ Ran(T, r, i)))
                => Distinct(S \o T)
           /\ \A k \in DOMAIN (S \o T) : \/ \E j \in DOMAIN S : (S \o T)[k] = S[j]
                                         \/ \E j \in DOMAIN T : (S \o T)[k] = T[j]
<1> DEFINE z == S \o T
           n == Len(S)
<1>1. /\ DOMAIN S = 1 .. n /\ DOMAIN T = 1 .. Len(T) /\ n \in Nat /\ Len(T) \in Nat
      /\ DOMAIN z = 1 .. n + Len(T)
      /\ (\A i \in DOMAIN S : z[i] = S[i]) /\ \A i \in DOMAIN T : z[n + i] = T[i]
  BY ConcatIs
<1> HIDE DEF z, n
<1>2. \A k \in DOMAIN z : k \in DOMAIN S \/ \E j \in DOMAIN T : k = n + j
  <2> SUFFICES ASSUME NEW k \in DOMAIN z, k \notin DOMAIN S PROVE \E j \in DOMAIN T : k = n + j
    OBVIOUS
  <2>1. k - n \in DOMAIN T /\ k = n + (k - n)
    BY <1>1
  <2> QED
    BY <2>1
<1>3. (\A i \in DOMAIN S : i \in DOMAIN z) /\ \A i \in DOMAIN T : n + i \in DOMAIN z
  BY <1>1
<1>4. \A r, i : Ran(z, r, i) <=> Ran(S, r, i) \/ Ran(T, r, i)
  BY <1>1, <1>2, <1>3 DEF Ran
<1>5. \A r, i : Won(z, r, i) <=> Won(S, r, i) \/ Won(T, r, i)
  BY <1>1, <1>2, <1>3 DEF Won
<1>6. ASSUME Distinct(S), Distinct(T), \A r, i : ~(Ran(S, r, i) /\ Ran(T, r, i)),
             NEW j \in DOMAIN z, NEW k \in DOMAIN z, z[j].rule = z[k].rule, z[j].ev = z[k].ev
      PROVE  j = k
  <2>1. CASE j \in DOMAIN S /\ k \in DOMAIN S
    BY <1>1, <1>6, <2>1 DEF Distinct
  <2>5. ASSUME NEW x \in DOMAIN S, NEW y \in DOMAIN T, S[x].rule = T[y].rule, S[x].ev = T[y].ev
        PROVE  FALSE
    <3>1. Ran(S, S[x].rule, S[x].ev) /\ Ran(T, S[x].rule, S[x].ev)
      BY <2>5 DEF Ran
    <3> QED
      BY <1>6, <3>1
  <2>2. CASE j \in DOMAIN S /\ k \notin DOMAIN S
    BY <1>1, <1>2, <1>6, <2>2, <2>5
  <2>3. CASE j \notin DOMAIN S /\ k \in DOMAIN S
    BY <1>1, <1>2, <1>6, <2>3, <2>5
  <2>4. CASE j \notin DOMAIN S /\ k \notin DOMAIN S
    <3>1. PICK x \in DOMAIN T, y \in DOMAIN T : j = n + x /\ k = n + y
      BY <1>2, <2>4
    <3>2. x = y
      BY <1>1, <1>6, <3>1 DEF Distinct
    <3> QED
      BY <3>1, <3>2
  <2> QED
    BY <2>1, <2>2, <2>3, <2>4
<1>7. \A k \in DOMAIN z : (\E j \in DOMAIN S : z[k] = S[j]) \/ (\E j \in DOMAIN T : z[k] = T[j])
  BY <1>1, <1>2
<1> QED
  BY <1>4, <1>5, <1>6, <1>7 DEF z, Distinct

\* A run that is not open has recorded nothing; what the open one records.
LEMMA MineIs ==
    /\ work = None => Mine = <<>> /\ DOMAIN Mine = {}
    /\ work \in Opens => Mine = work.runs
    /\ work' = None => Mine' = <<>> /\ DOMAIN Mine' = {}
    /\ work' \in Opens => Mine' = work'.runs
<1>1. None.open = FALSE /\ (\A q \in Opens : q.open = TRUE)
  BY DEF None, Opens
<1>2. DOMAIN <<>> = {}
  OBVIOUS
<1> QED
  BY <1>1, <1>2 DEF Mine

LEMMA RunNext == TypeInv /\ ClaimInv /\ ScanInv /\ RunInv /\ [Next]_vars => RunInv'
<1> SUFFICES ASSUME TypeInv, ClaimInv, ScanInv, RunInv, [Next]_vars PROVE RunInv'
  OBVIOUS
<1>t. /\ Ids = 1 .. Len(events) /\ Len(events) \in Nat /\ cursor \in Nat /\ cursor <= Len(events)
      /\ rule \in [RuleIds -> {"absent", "on", "off"}] /\ since \in [RuleIds -> Nat]
      /\ \A j \in DOMAIN runs : runs[j] \in RunRows /\ runs[j].rule \in RuleIds /\ runs[j].ev \in Nat
      /\ \A j \in DOMAIN Mine : Mine[j] \in RunRows /\ Mine[j].rule \in RuleIds /\ Mine[j].ev \in Nat
      /\ runs \in Seq(RunRows) /\ Mine \in Seq(RunRows)
  <2>1. \A q \in RunRows : q.rule \in RuleIds /\ q.ev \in Nat
    BY DEF RunRows
  <2> QED
    BY <2>1, Typed, OpenIs DEF TypeInv
<1>r. /\ Distinct(runs) /\ Distinct(Mine)
      /\ passed \subseteq 1 .. cursor
      /\ \A j \in DOMAIN runs : /\ runs[j].ev \in 1 .. cursor /\ runs[j].ev \notin passed
                                /\ since[runs[j].rule] < runs[j].ev /\ rule[runs[j].rule] # "absent"
      /\ \A j \in DOMAIN Mine : /\ Mine[j].ev > cursor
                                /\ Mine[j].ev <= work.cursor \/ Mine[j].ev \in work.todo
                                /\ since[Mine[j].rule] < Mine[j].ev /\ rule[Mine[j].rule] # "absent"
  BY DEF RunInv
<1>n. \A q \in Opens : q.open = TRUE /\ q.cursor \in Nat /\ q.todo \subseteq Nat
  BY DEF Opens
\* Nothing is recorded or committed, and no rule changes that has run.
<1>k. ASSUME UNCHANGED <<cursor, runs, passed>>, Mine' = Mine,
             \A j \in DOMAIN Mine : Mine[j].ev <= work'.cursor \/ Mine[j].ev \in work'.todo,
             \A r \in RuleIds : rule[r] # "absent" => rule'[r] # "absent" /\ since'[r] = since[r]
      PROVE  RunInv'
  BY <1>k, <1>r, <1>t DEF RunInv
<1>1. CASE Idles
  <2>1. UNCHANGED <<cursor, runs, passed, rule, since, work>>
    BY <1>1 DEF Idles, Same
  <2>2. Mine' = Mine
    BY <2>1 DEF Mine
  <2> QED
    BY <1>k, <1>r, <2>1, <2>2
<1>2. ASSUME NEW r \in RuleIds, RuleMade(r) \/ RuleOff(r) PROVE RunInv'
  <2>1. /\ \A s \in RuleIds : rule[s] # "absent" => rule'[s] # "absent" /\ since'[s] = since[s]
        /\ UNCHANGED <<cursor, runs, passed, work>>
    BY <1>2, <1>t DEF RuleMade, RuleOff, Rewrites
  <2>2. Mine' = Mine
    BY <2>1 DEF Mine
  <2> QED
    BY <1>k, <1>r, <2>1, <2>2
<1>3. CASE Starts
  <2>1. UNCHANGED <<cursor, runs, passed, rule, since>> /\ Mine' = Mine /\ DOMAIN Mine = {}
    BY <1>3, MineIs DEF Starts, Quiet
  <2> QED
    BY <1>k, <2>1
<1>4. CASE Drops
  <2>1. /\ cursor' = Len(events) /\ passed' = passed \cup {i \in Ids : i > cursor}
        /\ UNCHANGED <<runs, rule, since>> /\ Mine' = Mine /\ DOMAIN Mine = {}
    BY <1>4, MineIs DEF Drops, Quiet
  <2>2. passed' \subseteq 1 .. cursor'
    <3> SUFFICES ASSUME NEW p \in passed' PROVE p \in 1 .. Len(events)
      BY <2>1
    <3>1. CASE p \in passed
      <4>1. p \in 1 .. cursor
        BY <1>r, <3>1
      <4> QED
        BY <1>t, <4>1
    <3>2. CASE p \in Ids
      BY <1>t, <3>2
    <3> QED
      BY <2>1, <3>1, <3>2
  <2>3. \A j \in DOMAIN runs : runs[j].ev \in 1 .. cursor' /\ runs[j].ev \notin passed'
    BY <1>r, <1>t, <2>1
  <2> QED
    BY <1>r, <2>1, <2>2, <2>3 DEF RunInv
<1>5. CASE ReadBatch
  <2>1. /\ work \in Opens /\ work' \in Opens /\ work.todo = {}
        /\ work'.cursor = work.cursor /\ work'.runs = work.runs
        /\ UNCHANGED <<cursor, runs, passed, rule, since>>
    BY <1>5, ReadBatchIs DEF Quiet
  <2>2. Mine' = Mine
    BY <2>1, MineIs
  <2> QED
    BY <1>k, <1>r, <2>1, <2>2
<1>6. ASSUME NEW i \in Ids, Advance(i) PROVE RunInv'
  <2>1. /\ work \in Opens /\ work' \in Opens /\ i \in work.todo
        /\ work'.todo = work.todo \ {i} /\ work'.cursor = i /\ work'.runs = work.runs
        /\ UNCHANGED <<cursor, runs, passed, rule, since>>
    BY <1>6, AdvanceIs DEF Quiet
  <2>2. Mine' = Mine
    BY <2>1, MineIs
  <2>3. i > work.cursor
    BY <1>n, <2>1 DEF ScanInv
  <2>4. \A j \in DOMAIN Mine : Mine[j].ev <= work'.cursor \/ Mine[j].ev \in work'.todo
    <3> SUFFICES ASSUME NEW j \in DOMAIN Mine, Mine[j].ev \notin work'.todo
                 PROVE  Mine[j].ev <= work'.cursor
      OBVIOUS
    <3>1. CASE Mine[j].ev <= work.cursor
      BY <1>n, <1>t, <2>1, <2>3, <3>1
    <3>2. CASE Mine[j].ev \in work.todo
      BY <1>t, <2>1, <3>2
    <3> QED
      BY <1>r, <3>1, <3>2
  <2> QED
    BY <1>k, <2>1, <2>2, <2>4
<1>7. CASE CommitRun
  <2>1. /\ work \in Opens /\ work' = None /\ work.todo = {} /\ work.cursor > cursor
        /\ cursor' = work.cursor /\ runs' = runs \o work.runs
        /\ UNCHANGED <<rule, since, passed>>
    BY <1>7, EndIs DEF Ends
  <2>2. Mine = work.runs /\ DOMAIN Mine' = {}
    BY <2>1, MineIs
  <2>3. \A r, i : ~(Ran(runs, r, i) /\ Ran(Mine, r, i))
    BY <1>r, <1>t DEF Ran
  <2>4. Distinct(runs')
    BY <1>r, <1>t, <2>1, <2>2, <2>3, RanBoth
  <2>5. \A k \in DOMAIN runs' : \/ \E j \in DOMAIN runs : runs'[k] = runs[j]
                                \/ \E j \in DOMAIN Mine : runs'[k] = Mine[j]
    <3>1. runs' = runs \o Mine
      BY <2>1, <2>2
    <3>2. \A k \in DOMAIN (runs \o Mine) : \/ \E j \in DOMAIN runs : (runs \o Mine)[k] = runs[j]
                                           \/ \E j \in DOMAIN Mine : (runs \o Mine)[k] = Mine[j]
      BY <1>t, RanBoth
    <3> QED
      BY <3>1, <3>2
  <2>6. \A j \in DOMAIN runs : /\ runs[j].ev \in 1 .. cursor' /\ runs[j].ev \notin passed
                               /\ since[runs[j].rule] < runs[j].ev /\ rule[runs[j].rule] # "absent"
    BY <1>n, <1>r, <1>t, <2>1
  <2>7. \A j \in DOMAIN Mine : /\ Mine[j].ev \in 1 .. cursor' /\ Mine[j].ev \notin passed
                               /\ since[Mine[j].rule] < Mine[j].ev /\ rule[Mine[j].rule] # "absent"
    BY <1>n, <1>r, <1>t, <2>1
  <2>8. \A k \in DOMAIN runs' : /\ runs'[k].ev \in 1 .. cursor' /\ runs'[k].ev \notin passed'
                                /\ since'[runs'[k].rule] < runs'[k].ev /\ rule'[runs'[k].rule] # "absent"
    BY <2>1, <2>5, <2>6, <2>7
  <2>9. passed' \subseteq 1 .. cursor'
    BY <1>n, <1>r, <1>t, <2>1
  <2>10. Distinct(Mine')
    BY <2>2 DEF Distinct
  <2> QED
    BY <2>2, <2>4, <2>8, <2>9, <2>10 DEF RunInv
<1>8. CASE CrashRun
  <2>1. work' = None /\ UNCHANGED <<cursor, runs, passed, rule, since>>
    BY <1>8, EndIs DEF Ends
  <2>2. DOMAIN Mine' = {}
    BY <2>1, MineIs
  <2>3. Distinct(Mine')
    BY <2>2 DEF Distinct
  <2> QED
    BY <1>r, <2>1, <2>2, <2>3 DEF RunInv
<1>9. ASSUME NEW i \in Ids, NEW r \in RuleIds, NEW st \in {"success", "skipped", "failed"},
             Records(r, i, st)
      PROVE  RunInv'
  <2> DEFINE row == [rule |-> r, ev |-> i, status |-> st]
  <2>1. /\ work \in Opens /\ work' \in Opens /\ i \in work.todo
        /\ since[r] < i /\ r \in work.rules
        /\ ~Ran(work.runs, r, i)
        /\ work'.cursor = work.cursor /\ work'.todo = work.todo
        /\ work'.runs = Append(work.runs, row)
        /\ UNCHANGED <<cursor, runs, passed, rule, since>>
    BY <1>9 DEF Records, Recorded
  <2>2. Mine = work.runs /\ Mine' = Append(Mine, row)
    BY <2>1, MineIs
  <2>3. row \in RunRows /\ row.rule = r /\ row.ev = i
    BY <1>t DEF RunRows
  <2>4. i > work.cursor /\ work.cursor >= cursor /\ rule[r] # "absent"
    BY <1>n, <1>t, <2>1 DEF ScanInv
  <2>5. i > cursor
    BY <1>n, <1>t, <2>1, <2>4
  <2> HIDE DEF row
  <2>6. Distinct(Mine')
    BY <1>r, <1>t, <2>1, <2>2, <2>3, RanMore
  <2>7. \A k \in DOMAIN Mine' : Mine'[k] = row \/ \E j \in DOMAIN Mine : Mine'[k] = Mine[j]
    BY <1>t, <2>2, <2>3, AppendIs
  <2>8. \A k \in DOMAIN Mine' : /\ Mine'[k].ev > cursor'
                                /\ Mine'[k].ev <= work'.cursor \/ Mine'[k].ev \in work'.todo
                                /\ since'[Mine'[k].rule] < Mine'[k].ev /\ rule'[Mine'[k].rule] # "absent"
    BY <1>r, <2>1, <2>3, <2>4, <2>5, <2>7
  <2> QED
    BY <1>r, <2>1, <2>6, <2>8 DEF RunInv
<1> QED
  BY <1>1, <1>2, <1>3, <1>4, <1>5, <1>6, <1>7, <1>8, <1>9, StepIs

-----------------------------------------------------------------------------
(* No event behind the cursor lacks the run of a rule that is due.             *)

LEMMA DueNext == TypeInv /\ ClaimInv /\ ScanInv /\ RunInv /\ DueInv /\ [Next]_vars => DueInv'
<1> SUFFICES ASSUME TypeInv, ClaimInv, ScanInv, RunInv, DueInv, [Next]_vars,
                    NEW i \in Ids', NEW r \in RuleIds,
                    events'[i].state # "gone", rule'[r] = "on", since'[r] < i,
                    On[r] = events'[i].kind, i \notin passed'
             PROVE  /\ i <= cursor' => Ran(runs', r, i)
                    /\ work'.open /\ cursor' < i /\ i <= work'.cursor => Ran(work'.runs, r, i)
  BY DEF DueInv
<1>g. Grows
  BY GrowsNext
<1>t. /\ Ids = 1 .. Len(events) /\ Len(events) \in Nat /\ cursor \in Nat /\ cursor <= Len(events)
      /\ rule \in [RuleIds -> {"absent", "on", "off"}] /\ since \in [RuleIds -> Nat]
      /\ runs \in Seq(RunRows)
  BY Typed DEF TypeInv
<1>n. None.open = FALSE /\ \A q \in Opens : /\ q.open = TRUE /\ q.cursor \in Nat /\ q.todo \subseteq Nat
                                            /\ q.runs \in Seq(RunRows)
  BY DEF None, Opens
<1>l. i \in Nat
  <2>1. TypeInv'
    BY TypeNext
  <2>2. events' \in Seq(Events)
    BY <2>1 DEF TypeInv
  <2> QED
    BY <2>2 DEF Ids
<1>d. ASSUME i \in Ids, rule[r] = "on", since[r] < i, i \notin passed
      PROVE  /\ i <= cursor => Ran(runs, r, i)
             /\ work.open /\ cursor < i /\ i <= work.cursor => Ran(work.runs, r, i)
  <2>1. events[i].state # "gone" /\ On[r] = events[i].kind
    BY <1>d, <1>g DEF Grows
  <2> QED
    BY <1>d, <2>1 DEF DueInv
<1>e. i \in Ids \/ i > Len(events)
  BY <1>g DEF Grows
\* Neither the executor nor the rule has changed.
<1>k. ASSUME UNCHANGED <<cursor, runs, work, passed>>, rule[r] = "on", since'[r] = since[r]
      PROVE  /\ i <= cursor' => Ran(runs', r, i)
             /\ work'.open /\ cursor' < i /\ i <= work'.cursor => Ran(work'.runs, r, i)
  <2>1. CASE i \in Ids
    BY <1>d, <1>k, <2>1
  <2>2. CASE i > Len(events)
    <3>1. work.open => work.cursor \in Nat /\ work.cursor <= Len(events)
      BY <1>n, OpenIs DEF ScanInv
    <3> QED
      BY <1>k, <1>l, <1>t, <2>2, <3>1
  <2> QED
    BY <1>e, <2>1, <2>2
<1>1. CASE Idles
  BY <1>1, <1>k DEF Idles, Same
<1>2. ASSUME NEW s \in RuleIds, RuleMade(s) \/ RuleOff(s)
      PROVE  /\ i <= cursor' => Ran(runs', r, i)
             /\ work'.open /\ cursor' < i /\ i <= work'.cursor => Ran(work'.runs, r, i)
  <2>1. UNCHANGED <<cursor, runs, work, passed, events>>
    BY <1>2 DEF RuleMade, RuleOff, Rewrites
  <2>2. i \in Ids
    BY <2>1 DEF Ids
  <2>3. rule[r] = "on" /\ since'[r] = since[r]
    <3>1. CASE RuleMade(s) /\ s = r
      BY <1>t, <2>2, <3>1 DEF RuleMade
    <3>2. CASE RuleMade(s) /\ s # r
      BY <1>t, <3>2 DEF RuleMade
    <3>3. CASE RuleOff(s)
      BY <1>t, <3>3 DEF RuleOff
    <3> QED
      BY <1>2, <3>1, <3>2, <3>3
  <2> QED
    BY <1>k, <2>1, <2>3
<1>3. CASE Starts
  <2>1. /\ work' \in Opens /\ work'.cursor = cursor
        /\ UNCHANGED <<cursor, runs, passed, events, rule, since>>
    BY <1>3 DEF Starts, Quiet
  <2>2. i \in Ids
    BY <2>1 DEF Ids
  <2> QED
    BY <1>d, <1>l, <1>t, <2>1, <2>2
<1>4. CASE Drops
  <2>1. /\ work' = None /\ cursor' = Len(events) /\ passed' = passed \cup {j \in Ids : j > cursor}
        /\ UNCHANGED <<runs, events, rule, since>>
    BY <1>4 DEF Drops, Quiet
  <2>2. i \in Ids /\ i \notin passed /\ ~(i > cursor)
    BY <2>1 DEF Ids
  <2> QED
    BY <1>d, <1>l, <1>n, <1>t, <2>1, <2>2
<1>5. CASE ReadBatch
  <2>1. /\ work \in Opens /\ work' \in Opens /\ work'.cursor = work.cursor /\ work'.runs = work.runs
        /\ UNCHANGED <<cursor, runs, passed, events, rule, since>>
    BY <1>5, ReadBatchIs DEF Quiet
  <2>2. i \in Ids
    BY <2>1 DEF Ids
  <2> QED
    BY <1>d, <1>n, <2>1, <2>2
<1>6. ASSUME NEW h \in Ids, Advance(h)
      PROVE  /\ i <= cursor' => Ran(runs', r, i)
             /\ work'.open /\ cursor' < i /\ i <= work'.cursor => Ran(work'.runs, r, i)
  <2>1. /\ work \in Opens /\ work' \in Opens /\ h \in work.todo /\ \A j \in work.todo : h <= j
        /\ work'.runs = work.runs /\ work'.cursor = h
        /\ \A s \in work.rules :
                since[s] < h /\ On[s] = events[h].kind => Ran(work.runs, s, h) \/ Ran(runs, s, h)
        /\ UNCHANGED <<cursor, runs, passed, events, rule, since>>
    BY <1>6, AdvanceIs DEF Quiet
  <2>2. i \in Ids /\ rule[r] = "on" /\ since[r] < i /\ i \notin passed
        /\ events[i].state # "gone" /\ On[r] = events[i].kind
    BY <2>1 DEF Ids
  <2>3. CASE i <= cursor \/ i <= work.cursor
    BY <1>d, <1>l, <1>n, <1>t, <2>1, <2>2, <2>3
  <2>4. CASE i > cursor /\ i > work.cursor /\ i <= h
    <3>1. /\ \A k \in Ids, j \in work.todo :
                k > work.cursor /\ k < j /\ events[k].state # "gone" => k \in work.todo
          /\ \A s \in RuleIds, j \in work.todo : rule[s] = "on" => s \in work.rules \/ since[s] >= j
      BY <1>n, <2>1 DEF ScanInv
    <3>2. i = h
      <4>1. ASSUME i < h PROVE FALSE
        <5>1. i \in work.todo
          BY <2>1, <2>2, <2>4, <3>1, <4>1
        <5> QED
          BY <1>l, <1>t, <2>1, <4>1, <5>1
      <4> QED
        BY <1>l, <1>t, <2>4, <4>1
    <3>3. r \in work.rules
      BY <1>l, <1>t, <2>1, <2>2, <3>1, <3>2
    <3>4. Ran(work.runs, r, i) \/ Ran(runs, r, i)
      BY <2>1, <2>2, <3>2, <3>3
    <3>5. ~Ran(runs, r, i)
      <4>1. \A j \in DOMAIN runs : runs[j].ev \in 1 .. cursor
        BY DEF RunInv
      <4> QED
        BY <1>t, <2>4, <4>1 DEF Ran
    <3> QED
      BY <1>l, <1>t, <2>1, <2>4, <3>4, <3>5
  <2> QED
    BY <1>l, <1>n, <1>t, <2>1, <2>3, <2>4
<1>7. CASE CommitRun
  <2>1. /\ work \in Opens /\ work' = None /\ cursor' = work.cursor /\ runs' = runs \o work.runs
        /\ UNCHANGED <<rule, since, passed>> /\ DOMAIN events' = DOMAIN events
    BY <1>7, EndIs DEF Ends
  <2>2. i \in Ids
    BY <2>1 DEF Ids
  <2>3. i <= work.cursor => Ran(runs, r, i) \/ Ran(work.runs, r, i)
    BY <1>d, <1>l, <1>n, <1>t, <2>1, <2>2
  <2> QED
    BY <1>n, <1>t, <2>1, <2>3, RanBoth
<1>8. CASE CrashRun
  <2>1. /\ work' = None /\ UNCHANGED <<cursor, runs, rule, since, passed>>
        /\ DOMAIN events' = DOMAIN events
    BY <1>8, EndIs DEF Ends
  <2>2. i \in Ids
    BY <2>1 DEF Ids
  <2> QED
    BY <1>d, <1>n, <2>1, <2>2
<1>9. ASSUME NEW h \in Ids, NEW s \in RuleIds, NEW st \in {"success", "skipped", "failed"},
             Records(s, h, st)
      PROVE  /\ i <= cursor' => Ran(runs', r, i)
             /\ work'.open /\ cursor' < i /\ i <= work'.cursor => Ran(work'.runs, r, i)
  <2> DEFINE row == [rule |-> s, ev |-> h, status |-> st]
  <2>1. /\ work \in Opens /\ work' \in Opens /\ work'.cursor = work.cursor
        /\ work'.runs = Append(work.runs, row)
        /\ UNCHANGED <<cursor, runs, passed, rule, since>>
    BY <1>9 DEF Records, Recorded
  <2>2. row \in RunRows
    BY <1>t DEF RunRows
  <2> HIDE DEF row
  <2>3. CASE i \in Ids
    BY <1>d, <1>n, <2>1, <2>2, <2>3, RanMore
  <2>4. CASE i > Len(events)
    <3>1. work.cursor \in Nat /\ work.cursor <= Len(events)
      BY <1>n, <2>1 DEF ScanInv
    <3> QED
      BY <1>l, <1>t, <2>1, <2>4, <3>1
  <2> QED
    BY <1>e, <2>3, <2>4
<1> QED
  BY <1>1, <1>2, <1>3, <1>4, <1>5, <1>6, <1>7, <1>8, <1>9, StepIs

-----------------------------------------------------------------------------
(* What a run caused: once, and all of it or nothing.                          *)

EventsOnce == \A j, k \in Ids :
    (/\ events[j].by = events[k].by /\ events[j].by \in RuleIds \X Nat
     /\ events[j].state # "gone" /\ events[k].state # "gone") => j = k
StepsOnce == \A j, k \in DOMAIN steps :
    (/\ steps[j].by = steps[k].by
     /\ steps[j].status # "gone" /\ steps[k].status # "gone") => j = k
EventsOf == \A r \in RuleIds, i \in Nat :
    (Caused(r, i, "seen") <=> Won(runs, r, i)) /\ (Caused(r, i, "mine") <=> Won(Mine, r, i))
QueuedOf == \A r \in RuleIds, i \in Nat :
    /\ Queued(r, i, FALSE) <=> Won(runs, r, i) /\ r \in AiStep
    /\ Queued(r, i, TRUE) <=> Won(Mine, r, i) /\ r \in AiStep

LEMMA CauseIs == CauseInv <=> EventsOnce /\ StepsOnce /\ EventsOf /\ QueuedOf
BY DEF CauseInv, EventsOnce, StepsOnce, EventsOf, QueuedOf

LEMMA EventCauseNext ==
    TypeInv /\ ClaimInv /\ EventsOnce /\ EventsOf /\ [Next]_vars => EventsOnce' /\ EventsOf'
<1> SUFFICES ASSUME TypeInv, ClaimInv, EventsOnce, EventsOf, [Next]_vars
             PROVE  EventsOnce' /\ EventsOf'
  OBVIOUS
<1>t. /\ Ids = 1 .. Len(events) /\ Len(events) \in Nat
      /\ \A j \in Ids : events[j].state \in {"mine", "seen", "gone"}
      /\ runs \in Seq(RunRows) /\ Mine \in Seq(RunRows)
  BY Typed, OpenIs DEF TypeInv, Events
<1>w. ~\E r, i : Won(<<>>, r, i)
  BY DEF Won
\* Nothing that a run caused comes or goes.
<1>k. ASSUME events' = events \/ (\E e : Arrives(e)), runs' = runs, Mine' = Mine
      PROVE  EventsOnce' /\ EventsOf'
  <2>1. CASE events' = events
    <3>1. EventsOnce'
      BY <2>1 DEF EventsOnce, Ids
    <3>2. ASSUME NEW r \in RuleIds, NEW i \in Nat, NEW s PROVE Caused(r, i, s)' <=> Caused(r, i, s)
      BY <2>1 DEF Caused, Ids
    <3>3. ASSUME NEW r \in RuleIds, NEW i \in Nat
          PROVE  (Caused(r, i, "seen")' <=> Won(runs', r, i)) /\ (Caused(r, i, "mine")' <=> Won(Mine', r, i))
      BY <1>k, <3>2 DEF EventsOf
    <3>4. EventsOf'
      BY <3>3 DEF EventsOf, Won
    <3> QED
      BY <3>1, <3>4
  <2>2. ASSUME NEW e, Arrives(e) PROVE EventsOnce' /\ EventsOf'
    <3> DEFINE n == Len(events) + 1
    <3>1. /\ Ids' = Ids \cup {n} /\ n \notin Ids
          /\ \A i \in Ids : events'[i] = events[i]
          /\ events'[n] = e /\ e.by \notin RuleIds \X Nat
      BY <2>2, GrowsBy DEF Arrives
    <3> HIDE DEF n
    <3>2. EventsOnce'
      BY <3>1 DEF EventsOnce
    <3>3. ASSUME NEW r \in RuleIds, NEW i \in Nat, NEW s PROVE Caused(r, i, s)' <=> Caused(r, i, s)
      <4>1. e.by # <<r, i>>
        BY <3>1
      <4> QED
        BY <3>1, <4>1 DEF Caused
    <3>4. ASSUME NEW r \in RuleIds, NEW i \in Nat
          PROVE  (Caused(r, i, "seen")' <=> Won(runs', r, i)) /\ (Caused(r, i, "mine")' <=> Won(Mine', r, i))
      BY <1>k, <3>3 DEF EventsOf
    <3>5. EventsOf'
      BY <3>4 DEF EventsOf, Won
    <3> QED
      BY <3>2, <3>5
  <2> QED
    BY <1>k, <2>1, <2>2
<1>1. CASE Idles
  <2>1. Mine' = Mine
    BY <1>1 DEF Idles, Same, Mine
  <2> QED
    BY <1>1, <1>k, <2>1 DEF Idles, Same
<1>2. ASSUME NEW r \in RuleIds, RuleMade(r) \/ RuleOff(r) PROVE EventsOnce' /\ EventsOf'
  <2>1. UNCHANGED <<events, runs, work>>
    BY <1>2 DEF RuleMade, RuleOff, Rewrites
  <2> QED
    BY <1>k, <2>1 DEF Mine
<1>3. CASE Starts \/ Drops
  BY <1>3, <1>k, MineIs DEF Starts, Drops, Quiet
<1>4. CASE ReadBatch
  BY <1>4, <1>k, MineIs, ReadBatchIs DEF Quiet
<1>5. ASSUME NEW i \in Ids, Advance(i) PROVE EventsOnce' /\ EventsOf'
  BY <1>5, <1>k, MineIs, AdvanceIs DEF Quiet
<1>6. ASSUME NEW es \in {"seen", "gone"}, NEW ss, Ends(es, ss),
             es = "seen" => runs' = runs \o work.runs, es = "gone" => runs' = runs
      PROVE  EventsOnce' /\ EventsOf'
  <2>1. /\ Ids' = Ids
        /\ \A i \in Ids : /\ events'[i].by = events[i].by
                          /\ events'[i].state = IF events[i].state = "mine" THEN es ELSE events[i].state
        /\ Mine = work.runs /\ Mine' = <<>>
    BY <1>6, MineIs DEF Ends, Ids
  <2>2. EventsOnce'
    BY <1>t, <2>1 DEF EventsOnce
  <2>3. ASSUME NEW r \in RuleIds, NEW i \in Nat
        PROVE  (Caused(r, i, "seen")' <=> Won(runs', r, i)) /\ (Caused(r, i, "mine")' <=> Won(Mine', r, i))
    <3>1. ~Caused(r, i, "mine")' /\ ~Won(Mine', r, i)
      BY <1>6, <1>w, <2>1 DEF Caused
    <3>2. (Caused(r, i, "seen") <=> Won(runs, r, i)) /\ (Caused(r, i, "mine") <=> Won(Mine, r, i))
      BY DEF EventsOf
    <3>3. CASE es = "seen"
      <4>1. Caused(r, i, "seen")' <=> Caused(r, i, "seen") \/ Caused(r, i, "mine")
        BY <1>t, <2>1, <3>3 DEF Caused
      <4>2. Won(runs', r, i) <=> Won(runs, r, i) \/ Won(Mine, r, i)
        <5>1. runs' = runs \o Mine
          BY <1>6, <2>1, <3>3
        <5> QED
          BY <1>t, <5>1, RanBoth
      <4> QED
        BY <3>1, <3>2, <4>1, <4>2
    <3>4. CASE es = "gone"
      <4>1. Caused(r, i, "seen")' <=> Caused(r, i, "seen")
        BY <1>t, <2>1, <3>4 DEF Caused
      <4> QED
        BY <1>6, <3>1, <3>2, <3>4, <4>1
    <3> QED
      BY <3>3, <3>4
  <2>4. EventsOf'
    BY <2>3 DEF EventsOf, Won
  <2> QED
    BY <2>2, <2>4
<1>7. CASE CommitRun \/ CrashRun
  BY <1>6, <1>7, EndIs
<1>8. ASSUME NEW h \in Ids, NEW q \in RuleIds, NEW st \in {"success", "skipped", "failed"},
             Records(q, h, st)
      PROVE  EventsOnce' /\ EventsOf'
  <2> DEFINE row == [rule |-> q, ev |-> h, status |-> st]
  <2>1. /\ work \in Opens /\ work' \in Opens /\ runs' = runs
        /\ work'.runs = Append(work.runs, row)
        /\ ~Ran(runs, q, h) /\ ~Ran(work.runs, q, h)
    BY <1>8 DEF Records, Recorded
  <2>2. Mine = work.runs /\ Mine' = Append(Mine, row)
    BY <2>1, MineIs
  <2>3. row \in RunRows /\ row.rule = q /\ row.ev = h /\ row.status = st /\ h \in Nat
    BY <1>t DEF RunRows
  <2> HIDE DEF row
  <2>4. \A r, i : Won(Mine', r, i) <=> Won(Mine, r, i) \/ (q = r /\ h = i /\ st = "success")
    BY <1>t, <2>2, <2>3, RanMore
  <2>5. CASE st = "success"
    <3> DEFINE n == Len(events) + 1
    <3>1. PICK e \in Events : e.by = <<q, h>> /\ e.state = "mine" /\ events' = Append(events, e)
      BY <1>8, <2>5 DEF Records, Made
    <3>2. /\ Ids' = Ids \cup {n} /\ n \notin Ids
          /\ \A i \in Ids : events'[i] = events[i]
          /\ events'[n] = e
      BY <3>1, GrowsBy
    <3> HIDE DEF n
    <3>3. ~Won(runs, q, h) /\ ~Won(Mine, q, h)
      BY <2>1, <2>2 DEF Ran, Won
    <3>4. \A j \in Ids : events[j].by = <<q, h>> => events[j].state = "gone"
      BY <1>t, <2>3, <3>3 DEF EventsOf, Caused
    <3>5. ASSUME NEW j \in Ids', NEW k \in Ids',
                 events'[j].by = events'[k].by, events'[j].by \in RuleIds \X Nat,
                 events'[j].state # "gone", events'[k].state # "gone"
          PROVE  j = k
      <4>1. CASE j \in Ids /\ k \in Ids
        BY <3>2, <3>5, <4>1 DEF EventsOnce
      <4>2. CASE j = n /\ k \in Ids
        <5>1. events[k].by = <<q, h>> /\ events[k].state # "gone"
          BY <3>1, <3>2, <3>5, <4>2
        <5> QED
          BY <3>4, <4>2, <5>1
      <4>3. CASE k = n /\ j \in Ids
        <5>1. events[j].by = <<q, h>> /\ events[j].state # "gone"
          BY <3>1, <3>2, <3>5, <4>3
        <5> QED
          BY <3>4, <4>3, <5>1
      <4> QED
        BY <3>2, <4>1, <4>2, <4>3
    <3>6. ASSUME NEW r \in RuleIds, NEW i \in Nat
          PROVE  /\ Caused(r, i, "seen")' <=> Caused(r, i, "seen")
                 /\ Caused(r, i, "mine")' <=> Caused(r, i, "mine") \/ (q = r /\ h = i)
      <4>1. <<q, h>> = <<r, i>> <=> q = r /\ h = i
        OBVIOUS
      <4>2. ASSUME NEW s
            PROVE  Caused(r, i, s)' <=> Caused(r, i, s) \/ (events'[n].by = <<r, i>> /\ events'[n].state = s)
        BY <3>2 DEF Caused
      <4> QED
        BY <3>1, <3>2, <4>1, <4>2
    <3>7. ASSUME NEW r \in RuleIds, NEW i \in Nat
          PROVE  (Caused(r, i, "seen")' <=> Won(runs', r, i)) /\ (Caused(r, i, "mine")' <=> Won(Mine', r, i))
      <4>1. (Caused(r, i, "seen") <=> Won(runs, r, i)) /\ (Caused(r, i, "mine") <=> Won(Mine, r, i))
        BY DEF EventsOf
      <4> QED
        BY <2>1, <2>4, <2>5, <3>6, <4>1
    <3>8. EventsOnce' /\ EventsOf'
      BY <3>5, <3>7 DEF EventsOnce, EventsOf, Won
    <3> QED
      BY <3>8
  <2>6. CASE st # "success"
    <3>1. events' = events
      BY <1>8, <2>6 DEF Records
    <3>2. EventsOnce'
      BY <3>1 DEF EventsOnce, Ids
    <3>3. \A r, i, s : Caused(r, i, s)' <=> Caused(r, i, s)
      BY <3>1 DEF Caused, Ids
    <3>4. ASSUME NEW r \in RuleIds, NEW i \in Nat
          PROVE  (Caused(r, i, "seen")' <=> Won(runs', r, i)) /\ (Caused(r, i, "mine")' <=> Won(Mine', r, i))
      BY <2>1, <2>4, <2>6, <3>3 DEF EventsOf
    <3>5. EventsOf'
      BY <3>4 DEF EventsOf, Won
    <3> QED
      BY <3>2, <3>5
  <2> QED
    BY <2>5, <2>6
<1> QED
  BY <1>1, <1>2, <1>3, <1>4, <1>5, <1>7, <1>8, StepIs

LEMMA StepCauseNext ==
    TypeInv /\ ClaimInv /\ StepsOnce /\ QueuedOf /\ [Next]_vars => StepsOnce' /\ QueuedOf'
<1> SUFFICES ASSUME TypeInv, ClaimInv, StepsOnce, QueuedOf, [Next]_vars
             PROVE  StepsOnce' /\ QueuedOf'
  OBVIOUS
<1>t. /\ steps \in Seq(StepRows) /\ runs \in Seq(RunRows) /\ Mine \in Seq(RunRows)
      /\ \A j \in Ids : j \in Nat
  BY Typed, OpenIs DEF TypeInv
<1>w. ~\E r, i : Won(<<>>, r, i)
  BY DEF Won
<1>q. steps' = steps => Queueing
  BY <1>t DEF Queueing
\* No step of a run comes or goes.
<1>k. ASSUME Queueing, runs' = runs, Mine' = Mine PROVE StepsOnce' /\ QueuedOf'
  <2>1. /\ DOMAIN steps' = DOMAIN steps
        /\ \A j \in DOMAIN steps : /\ steps'[j].by = steps[j].by
                                   /\ steps'[j].status = "gone" <=> steps[j].status = "gone"
                                   /\ steps'[j].status = "mine" <=> steps[j].status = "mine"
    BY <1>k DEF Queueing
  <2>2. StepsOnce'
    BY <2>1 DEF StepsOnce
  <2>3. ASSUME NEW r \in RuleIds, NEW i \in Nat
        PROVE  /\ Queued(r, i, FALSE)' <=> Won(runs', r, i) /\ r \in AiStep
               /\ Queued(r, i, TRUE)' <=> Won(Mine', r, i) /\ r \in AiStep
    <3>1. /\ Queued(r, i, FALSE)' <=> Queued(r, i, FALSE)
          /\ Queued(r, i, TRUE)' <=> Queued(r, i, TRUE)
      BY <2>1 DEF Queued
    <3> QED
      BY <1>k, <3>1 DEF QueuedOf
  <2>4. QueuedOf'
    BY <2>3 DEF QueuedOf, Won
  <2> QED
    BY <2>2, <2>4
<1>1. CASE Idles
  <2>1. Mine' = Mine
    BY <1>1 DEF Idles, Same, Mine
  <2> QED
    BY <1>1, <1>k, <2>1 DEF Idles, Same
<1>2. ASSUME NEW r \in RuleIds, RuleMade(r) \/ RuleOff(r) PROVE StepsOnce' /\ QueuedOf'
  <2>1. UNCHANGED <<steps, runs, work>>
    BY <1>2 DEF RuleMade, RuleOff, Rewrites, stepVars
  <2> QED
    BY <1>k, <1>q, <2>1 DEF Mine
<1>3. CASE Starts \/ Drops
  BY <1>3, <1>k, <1>q, MineIs DEF Starts, Drops, Quiet, stepVars
<1>4. CASE ReadBatch
  BY <1>4, <1>k, <1>q, MineIs, ReadBatchIs DEF Quiet, stepVars
<1>5. ASSUME NEW i \in Ids, Advance(i) PROVE StepsOnce' /\ QueuedOf'
  BY <1>5, <1>k, <1>q, MineIs, AdvanceIs DEF Quiet, stepVars
<1>6. ASSUME NEW es, NEW ss \in {"queued", "gone"}, Ends(es, ss),
             ss = "queued" => runs' = runs \o work.runs, ss = "gone" => runs' = runs
      PROVE  StepsOnce' /\ QueuedOf'
  <2>1. /\ DOMAIN steps' = DOMAIN steps
        /\ \A i \in DOMAIN steps :
              /\ steps'[i].by = steps[i].by
              /\ steps'[i].status = IF steps[i].status = "mine" THEN ss ELSE steps[i].status
        /\ Mine = work.runs /\ Mine' = <<>>
    BY <1>6, MineIs DEF Ends
  <2>2. StepsOnce'
    BY <2>1 DEF StepsOnce
  <2>3. ASSUME NEW r \in RuleIds, NEW i \in Nat
        PROVE  /\ Queued(r, i, FALSE)' <=> Won(runs', r, i) /\ r \in AiStep
               /\ Queued(r, i, TRUE)' <=> Won(Mine', r, i) /\ r \in AiStep
    <3>1. ~Queued(r, i, TRUE)' /\ ~Won(Mine', r, i)
      BY <1>6, <1>w, <2>1 DEF Queued
    <3>2. /\ Queued(r, i, FALSE) <=> Won(runs, r, i) /\ r \in AiStep
          /\ Queued(r, i, TRUE) <=> Won(Mine, r, i) /\ r \in AiStep
      BY DEF QueuedOf
    <3>3. CASE ss = "queued"
      <4>1. Queued(r, i, FALSE)' <=> Queued(r, i, FALSE) \/ Queued(r, i, TRUE)
        BY <2>1, <3>3 DEF Queued
      <4>2. Won(runs', r, i) <=> Won(runs, r, i) \/ Won(Mine, r, i)
        <5>1. runs' = runs \o Mine
          BY <1>6, <2>1, <3>3
        <5> QED
          BY <1>t, <5>1, RanBoth
      <4> QED
        BY <3>1, <3>2, <4>1, <4>2
    <3>4. CASE ss = "gone"
      <4>1. Queued(r, i, FALSE)' <=> Queued(r, i, FALSE)
        BY <2>1, <3>4 DEF Queued
      <4> QED
        BY <1>6, <3>1, <3>2, <3>4, <4>1
    <3> QED
      BY <3>3, <3>4
  <2>4. QueuedOf'
    BY <2>3 DEF QueuedOf, Won
  <2> QED
    BY <2>2, <2>4
<1>7. CASE CommitRun \/ CrashRun
  BY <1>6, <1>7, EndIs
<1>8. ASSUME NEW h \in Ids, NEW q \in RuleIds, NEW st \in {"success", "skipped", "failed"},
             Records(q, h, st)
      PROVE  StepsOnce' /\ QueuedOf'
  <2> DEFINE row == [rule |-> q, ev |-> h, status |-> st]
  <2>1. /\ work \in Opens /\ work' \in Opens /\ runs' = runs
        /\ work'.runs = Append(work.runs, row)
        /\ ~Ran(runs, q, h) /\ ~Ran(work.runs, q, h)
    BY <1>8 DEF Records, Recorded
  <2>2. Mine = work.runs /\ Mine' = Append(Mine, row)
    BY <2>1, MineIs
  <2>3. row \in RunRows /\ row.rule = q /\ row.ev = h /\ row.status = st /\ h \in Nat
    BY <1>t DEF RunRows
  <2> HIDE DEF row
  <2>4. \A r, i : Won(Mine', r, i) <=> Won(Mine, r, i) \/ (q = r /\ h = i /\ st = "success")
    BY <1>t, <2>2, <2>3, RanMore
  <2>5. CASE st = "success" /\ q \in AiStep
    <3> DEFINE n == Len(steps) + 1
    <3>1. PICK z \in StepRows : z.by = <<q, h>> /\ z.status = "mine" /\ steps' = Append(steps, z)
      BY <1>8, <2>5 DEF Records, Made
    <3>2. /\ DOMAIN steps' = DOMAIN steps \cup {n} /\ n \notin DOMAIN steps
          /\ \A i \in DOMAIN steps : steps'[i] = steps[i]
          /\ steps'[n] = z
      BY <1>t, <3>1, AppendIs
    <3> HIDE DEF n
    <3>3. ~Won(runs, q, h) /\ ~Won(Mine, q, h)
      BY <2>1, <2>2 DEF Ran, Won
    <3>4. \A j \in DOMAIN steps : steps[j].by = <<q, h>> => steps[j].status = "gone"
      <4>1. ~Queued(q, h, FALSE) /\ ~Queued(q, h, TRUE)
        BY <2>3, <3>3 DEF QueuedOf
      <4> QED
        BY <4>1 DEF Queued
    <3>5. ASSUME NEW j \in DOMAIN steps', NEW k \in DOMAIN steps', steps'[j].by = steps'[k].by,
                 steps'[j].status # "gone", steps'[k].status # "gone"
          PROVE  j = k
      <4>1. CASE j \in DOMAIN steps /\ k \in DOMAIN steps
        BY <3>2, <3>5, <4>1 DEF StepsOnce
      <4>2. CASE j = n /\ k \in DOMAIN steps
        <5>1. steps[k].by = <<q, h>> /\ steps[k].status # "gone"
          BY <3>1, <3>2, <3>5, <4>2
        <5> QED
          BY <3>4, <4>2, <5>1
      <4>3. CASE k = n /\ j \in DOMAIN steps
        <5>1. steps[j].by = <<q, h>> /\ steps[j].status # "gone"
          BY <3>1, <3>2, <3>5, <4>3
        <5> QED
          BY <3>4, <4>3, <5>1
      <4> QED
        BY <3>2, <4>1, <4>2, <4>3
    <3>6. ASSUME NEW r \in RuleIds, NEW i \in Nat
          PROVE  /\ Queued(r, i, FALSE)' <=> Queued(r, i, FALSE)
                 /\ Queued(r, i, TRUE)' <=> Queued(r, i, TRUE) \/ (q = r /\ h = i)
      <4>1. <<q, h>> = <<r, i>> <=> q = r /\ h = i
        OBVIOUS
      <4>2. Queued(r, i, FALSE)' <=> Queued(r, i, FALSE)
        BY <3>1, <3>2 DEF Queued
      <4>3. Queued(r, i, TRUE)' <=> Queued(r, i, TRUE) \/ z.by = <<r, i>>
        BY <3>1, <3>2 DEF Queued
      <4> QED
        BY <3>1, <4>1, <4>2, <4>3
    <3>7. ASSUME NEW r \in RuleIds, NEW i \in Nat
          PROVE  /\ Queued(r, i, FALSE)' <=> Won(runs', r, i) /\ r \in AiStep
                 /\ Queued(r, i, TRUE)' <=> Won(Mine', r, i) /\ r \in AiStep
      <4>1. /\ Queued(r, i, FALSE) <=> Won(runs, r, i) /\ r \in AiStep
            /\ Queued(r, i, TRUE) <=> Won(Mine, r, i) /\ r \in AiStep
        BY DEF QueuedOf
      <4>2. Won(Mine', r, i) <=> Won(Mine, r, i) \/ (q = r /\ h = i)
        BY <2>4, <2>5
      <4> QED
        BY <2>1, <2>5, <3>6, <4>1, <4>2
    <3>8. StepsOnce' /\ QueuedOf'
      BY <3>5, <3>7 DEF StepsOnce, QueuedOf, Won
    <3> QED
      BY <3>8
  <2>6. CASE ~(st = "success" /\ q \in AiStep)
    <3>1. steps' = steps
      BY <1>8, <2>6 DEF Records, Made
    <3>2. StepsOnce'
      BY <3>1 DEF StepsOnce
    <3>3. \A r, i, m : Queued(r, i, m)' <=> Queued(r, i, m)
      BY <3>1 DEF Queued
    <3>4. ASSUME NEW r \in RuleIds, NEW i \in Nat
          PROVE  /\ Queued(r, i, FALSE)' <=> Won(runs', r, i) /\ r \in AiStep
                 /\ Queued(r, i, TRUE)' <=> Won(Mine', r, i) /\ r \in AiStep
      BY <2>1, <2>4, <2>6, <3>3 DEF QueuedOf
    <3>5. QueuedOf'
      BY <3>4 DEF QueuedOf, Won
    <3> QED
      BY <3>2, <3>5
  <2> QED
    BY <2>5, <2>6
<1> QED
  BY <1>1, <1>2, <1>3, <1>4, <1>5, <1>7, <1>8, StepIs

-----------------------------------------------------------------------------
(* The invariant, and what it says.                                            *)

RulesInv == TypeInv /\ ClaimInv /\ ScanInv /\ RunInv /\ DueInv /\ CauseInv /\ StepOnce

LEMMA Begins == Init => RulesInv
<1> SUFFICES ASSUME Init PROVE RulesInv
  OBVIOUS
<1>1. /\ events = <<>> /\ cursor = 0 /\ runs = <<>> /\ used = 0 /\ steps = <<>> /\ applied = <<>>
      /\ rule = [r \in RuleIds |-> "absent"] /\ since = [r \in RuleIds |-> 0]
      /\ on = TRUE /\ work = None /\ ~work.open
      /\ claimed = [w \in Workers |-> {}] /\ doing = [w \in Workers |-> 0]
      /\ people = 0 /\ faults = 0 /\ passed = {}
  BY DEF Init, None
<1>2. /\ Ids = {} /\ DOMAIN runs = {} /\ DOMAIN steps = {} /\ Mine = <<>> /\ DOMAIN Mine = {}
      /\ Len(events) = 0 /\ Len(steps) = 0 /\ Len(applied) = 0
  BY <1>1 DEF Ids, Mine
<1>3. /\ events \in Seq(Events) /\ runs \in Seq(RunRows) /\ steps \in Seq(StepRows)
      /\ applied \in Seq(Nat)
  BY <1>1
<1>4. TypeInv
  BY <1>1, <1>2, <1>3, RulesAssumption DEF TypeInv
<1>5. ClaimInv
  BY <1>1 DEF ClaimInv
<1>6. ScanInv
  BY <1>1 DEF ScanInv
<1>7. RunInv
  BY <1>1, <1>2 DEF RunInv, Distinct
<1>8. DueInv
  BY <1>2 DEF DueInv
<1>9. CauseInv
  BY <1>2 DEF CauseInv, Caused, Queued, Won
<1>10. StepOnce
  BY <1>2 DEF StepOnce
<1> QED
  BY <1>4, <1>5, <1>6, <1>7, <1>8, <1>9, <1>10 DEF RulesInv

LEMMA Kept == RulesInv /\ [Next]_vars => RulesInv'
<1> SUFFICES ASSUME RulesInv, [Next]_vars PROVE RulesInv'
  OBVIOUS
<1>1. TypeInv /\ ClaimInv /\ ScanInv /\ RunInv /\ DueInv /\ CauseInv /\ StepOnce
  BY DEF RulesInv
<1>2. CauseInv'
  <2>1. (EventsOnce /\ StepsOnce /\ EventsOf /\ QueuedOf)'
    BY <1>1, CauseIs, EventCauseNext, StepCauseNext
  <2> QED
    BY <2>1 DEF CauseInv, EventsOnce, StepsOnce, EventsOf, QueuedOf
<1> QED
  BY <1>1, <1>2, TypeNext, ClaimNext, ScanNext, RunNext, DueNext, OnceNext DEF RulesInv

LEMMA Invariant == Spec => []RulesInv
BY Begins, Kept, PTL DEF Spec

\* TypeOK, for any rules, workers and limits: the depth of an event and the
\* actions of a minute stay within theirs (MAX_DEPTH, MAX_ACTIONS_PER_MINUTE),
\* and a recorded run is of an event there is.
THEOREM TypeCorrect == Spec => []TypeOK
<1>1. ASSUME RulesInv PROVE TypeOK
  <2>1. /\ TypeInv /\ cursor \in 0 .. Len(events) /\ rule \in [RuleIds -> {"absent", "on", "off"}]
        /\ used \in 0 .. MaxActions /\ on \in BOOLEAN
        /\ people \in 0 .. MaxPeople /\ faults \in 0 .. MaxFaults
    BY <1>1 DEF RulesInv, TypeInv
  <2>2. \A j \in DOMAIN runs : runs[j].ev \in 1 .. cursor
    BY <1>1 DEF RulesInv, RunInv
  <2>3. /\ Ids = 1 .. Len(events) /\ Len(events) \in Nat /\ cursor \in Nat
        /\ \A i \in Ids : events[i] \in Events
        /\ \A i \in DOMAIN steps : steps[i] \in StepRows
        /\ \A i \in DOMAIN runs : runs[i] \in RunRows
        /\ DOMAIN applied = DOMAIN steps
    BY <2>1, Typed
  <2>4. \A i \in Ids : /\ events[i].kind \in Kinds /\ events[i].depth \in 0 .. MaxDepth
                       /\ events[i].state \in {"mine", "seen", "gone"}
    BY <2>3 DEF Events
  <2>5. \A i \in DOMAIN steps :
            steps[i].depth \in 1 .. MaxDepth
            /\ steps[i].status \in {"mine", "queued", "running", "done", "failed", "gone"}
    BY <2>3 DEF StepRows, Statuses
  <2>6. \A i \in DOMAIN runs : /\ runs[i].rule \in RuleIds /\ runs[i].ev \in Ids
                               /\ runs[i].status \in {"success", "skipped", "failed"}
    BY <2>1, <2>2, <2>3 DEF RunRows
  <2> QED
    BY <2>1, <2>3, <2>4, <2>5, <2>6 DEF TypeOK
<1> QED
  BY <1>1, Invariant, PTL

\* StepOnce: however workers crash, time out and finish late, the writes of an
\* AI step are committed once if it is done, and never otherwise.
THEOREM StepsAreOnce == Spec => []StepOnce
<1>1. RulesInv => StepOnce
  BY DEF RulesInv
<1> QED
  BY <1>1, Invariant, PTL

\* A set with no two members has one, or none.
LEMMA OneOrNone ==
    ASSUME NEW S, \A x, y \in S : x = y
    PROVE  Cardinality(S) = IF S = {} THEN 0 ELSE 1
<1>1. CASE S = {}
  BY <1>1, FS_EmptySet
<1>2. ASSUME NEW x \in S PROVE Cardinality(S) = 1
  <2>1. S = {x}
    OBVIOUS
  <2> QED
    BY <2>1, FS_Singleton
<1> QED
  BY <1>1, <1>2

\* RunsExact, for any rules, batches, limits and crashes: every rule runs once
\* for each event it should and never for another, and what its run causes is
\* there once if it succeeded, and not at all otherwise.
THEOREM RunsAreExact == Spec => []RunsExact
<1>1. ASSUME RulesInv PROVE RunsExact
  <2> SUFFICES ASSUME NEW i \in Ids, NEW r \in RuleIds, events[i].state = "seen"
               PROVE  LET R == RunsOf(r, i)
                          due == rule[r] = "on" /\ since[r] < i /\ On[r] = events[i].kind /\ i \notin passed
                          won == \E j \in R : runs[j].status = "success"
                      IN  /\ Cardinality(R) <= 1
                          /\ (i <= cursor /\ due) => R # {}
                          /\ (since[r] >= i \/ i \in passed \/ i > cursor) => R = {}
                          /\ Cardinality(CausedBy(r, i)) = IF won THEN 1 ELSE 0
                          /\ Cardinality(StepsOf(r, i)) = IF won /\ r \in AiStep THEN 1 ELSE 0
    BY DEF RunsExact
  <2>i. TypeInv /\ RunInv /\ DueInv /\ CauseInv
    BY <1>1 DEF RulesInv
  <2>t. /\ i \in Nat /\ cursor \in Nat /\ since \in [RuleIds -> Nat]
        /\ \A j \in Ids : events[j] \in Events
    BY <2>i, Typed DEF TypeInv
  <2>w. (\E j \in RunsOf(r, i) : runs[j].status = "success") <=> Won(runs, r, i)
    BY DEF RunsOf, Won
  <2>1. Cardinality(RunsOf(r, i)) <= 1
    <3>1. \A x, y \in RunsOf(r, i) : x = y
      BY <2>i DEF RunInv, Distinct, RunsOf
    <3> QED
      BY <3>1, OneOrNone
  <2>2. i <= cursor /\ rule[r] = "on" /\ since[r] < i /\ On[r] = events[i].kind /\ i \notin passed
          => RunsOf(r, i) # {}
    BY <2>i DEF DueInv, Ran, RunsOf
  <2>3. ASSUME NEW j \in RunsOf(r, i) PROVE ~(since[r] >= i) /\ i \notin passed /\ ~(i > cursor)
    <3>1. /\ runs[j].rule = r /\ runs[j].ev = i /\ j \in DOMAIN runs
      BY DEF RunsOf
    <3>2. since[r] < i /\ i \notin passed /\ i \in 1 .. cursor
      BY <2>i, <3>1 DEF RunInv
    <3>3. since[r] \in Nat
      BY <2>t
    <3> QED
      BY <2>t, <3>2, <3>3
  <2>4. Cardinality(CausedBy(r, i)) = IF Won(runs, r, i) THEN 1 ELSE 0
    <3>1. <<r, i>> \in RuleIds \X Nat
      BY <2>t
    <3>2. \A x, y \in CausedBy(r, i) : x = y
      <4>1. EventsOnce
        BY <2>i, CauseIs
      <4> QED
        BY <3>1, <4>1 DEF EventsOnce, CausedBy
    <3>3. CausedBy(r, i) # {} <=> Won(runs, r, i)
      <4>1. Caused(r, i, "seen") <=> Won(runs, r, i)
        BY <2>i, <2>t DEF CauseInv
      <4> QED
        BY <4>1 DEF Caused, CausedBy
    <3> QED
      BY <3>2, <3>3, OneOrNone
  <2>5. Cardinality(StepsOf(r, i)) = IF Won(runs, r, i) /\ r \in AiStep THEN 1 ELSE 0
    <3>1. \A x, y \in StepsOf(r, i) : x = y
      <4>1. StepsOnce
        BY <2>i, CauseIs
      <4> QED
        BY <4>1 DEF StepsOnce, StepsOf
    <3>2. StepsOf(r, i) # {} <=> Won(runs, r, i) /\ r \in AiStep
      <4>1. Queued(r, i, FALSE) <=> Won(runs, r, i) /\ r \in AiStep
        BY <2>i, <2>t DEF CauseInv
      <4> QED
        BY <4>1 DEF Queued, StepsOf
    <3> QED
      BY <3>1, <3>2, OneOrNone
  <2> QED
    BY <2>w, <2>1, <2>2, <2>3, <2>4, <2>5
<1> QED
  BY <1>1, Invariant, PTL
=============================================================================
