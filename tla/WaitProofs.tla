----------------------------- MODULE WaitProofs -----------------------------
(* What holds of jobs that wait: for an event (EventWakeup), for any jobs and *)
(* bounds; and for the children they spawned (JobTree), for any number of     *)
(* children, any cap and any number of crashes and retries.                   *)
EXTENDS EventWakeup, JobTree, TLAPS, SequenceTheorems, FiniteSetTheorems, WellFoundedInduction

------------------------------------------------------------------------------
(* The least and the greatest of some ids, which WakeCommit chooses.          *)

LEMMA LeastExists ==
    ASSUME NEW S, S \subseteq Nat, S # {} PROVE \E m \in S : \A n \in S : m <= n
<1>1. PICK R : IsWellFoundedOn(R, Nat) /\ \A n, m \in Nat : n < m => <<n, m>> \in R
  <2>1. \A n, m \in Nat : n < m => <<n, m>> \in OpToRel(<, Nat)
      BY DEF OpToRel
  <2> QED
      BY <2>1, NatLessThanWellFounded, Zenon
<1>2. PICK m \in S : \A n \in S : ~(<<n, m>> \in R)
  <2>1. IsWellFoundedOn(R, Nat)
      BY <1>1
  <2> QED
      BY <2>1, WFMin, Zenon
<1>3. \A n \in S : ~(n < m)
    BY <1>1, <1>2
<1> QED
    BY <1>3

LEMMA GreatestExists ==
    ASSUME NEW b \in Nat, NEW S, S \subseteq 0 .. b, S # {}
    PROVE  \E m \in S : \A n \in S : n <= m
<1> DEFINE T == {b - n : n \in S}
<1>1. T \subseteq Nat /\ T # {}
  <2>1. \A n \in S : n \in 0 .. b /\ b - n \in Nat
      OBVIOUS
  <2> QED
      BY <2>1
<1>2. PICK t \in T : \A u \in T : t <= u
    BY <1>1, LeastExists
<1>3. PICK m \in S : t = b - m
    OBVIOUS
<1>4. \A n \in S : b - m <= b - n
    BY <1>2, <1>3
<1>5. \A n \in S : n <= m
    BY <1>4
<1> QED
    BY <1>5

------------------------------------------------------------------------------
(* Type correctness, with the shape of the open transaction.                  *)

Views == [open : BOOLEAN, jobs : SUBSET Jobs, held : SUBSET Jobs, events : SUBSET Nat,
          changed : SUBSET Jobs]

TypeInv ==
    /\ TypeOK
    /\ answer \in [Jobs -> Nat]
    /\ wake \in Views
    /\ ~wake.open => wake.events = {}

LEMMA TypeInit == Init => TypeInv
BY BoundsAssumption DEF Init, TypeInv, TypeOK, Asleep, Views, Waits, Phases, Statuses, Ids

LEMMA EventShape ==
    ASSUME TypeInv, NEW i \in Ids
    PROVE  /\ i \in 1 .. Len(events) /\ events[i] \in [about : Jobs, seen : BOOLEAN]
           /\ events[i].about \in Jobs /\ events[i].seen \in BOOLEAN
<1>1. events \in Seq([about : Jobs, seen : BOOLEAN])
    BY DEF TypeInv, TypeOK
<1>2. i \in 1 .. Len(events)
    BY <1>1, LenProperties DEF Ids
<1>3. events[i] \in [about : Jobs, seen : BOOLEAN]
    BY <1>1, <1>2, ElementOfSeq
<1> QED
    BY <1>2, <1>3

\* A write of another transaction changes the job's row and nothing else.
LEMMA WriteKeeps ==
    ASSUME TypeInv, NEW j \in Jobs, NEW s \in Statuses, NEW w \in Waits, Write(j, s, w)
    PROVE  /\ status' = [status EXCEPT ![j] = s] /\ status' \in [Jobs -> Statuses]
           /\ wait' = [wait EXCEPT ![j] = w] /\ wait' \in [Jobs -> Waits]
           /\ wake' \in Views /\ UNCHANGED <<answer, raced>>
           /\ wake'.open = wake.open /\ wake'.jobs = wake.jobs /\ wake'.held = wake.held
           /\ wake'.events = wake.events
           /\ wake'.changed = IF wake.open THEN wake.changed \cup {j} ELSE wake.changed
BY DEF Write, TypeInv, TypeOK, Views

\* What WakeCommit chooses is there: the first event for each job, and the last
\* of all for the cursor.
LEMMA Chosen ==
    ASSUME TypeInv, wake.events # {}
    PROVE  /\ \A j \in Woken : /\ (CHOOSE i \in For(j) : \A k \in For(j) : i <= k) \in For(j)
                               /\ j \in Jobs
           /\ (CHOOSE i \in wake.events : \A k \in wake.events : k <= i) \in wake.events
           /\ \A k \in wake.events : k <= (CHOOSE i \in wake.events : \A n \in wake.events : n <= i)
<1>1. wake.events \subseteq 0 .. Len(events) /\ wake.events \subseteq Nat /\ Len(events) \in Nat
    BY DEF TypeInv, TypeOK, Ids
<1>2. ASSUME NEW j \in Woken
      PROVE  (CHOOSE i \in For(j) : \A k \in For(j) : i <= k) \in For(j) /\ j \in Jobs
  <2>1. For(j) # {} /\ For(j) \subseteq Nat /\ j \in Jobs
      BY <1>1 DEF Woken, For, TypeInv, Views
  <2>2. \E i \in For(j) : \A k \in For(j) : i <= k
      BY <2>1, LeastExists
  <2> QED
      BY <2>1, <2>2
<1>3. \E i \in wake.events : \A k \in wake.events : k <= i
    BY <1>1, GreatestExists
<1> QED
    BY <1>2, <1>3

LEMMA TypeNext == TypeInv /\ [Next]_vars => TypeInv'
<1> SUFFICES ASSUME TypeInv, [Next]_vars PROVE TypeInv'
    OBVIOUS
<1> USE BoundsAssumption DEF TypeInv, TypeOK, Ids, ran, hist
<1>1. ASSUME NEW j \in Jobs, NEW s \in Statuses, NEW w \in Waits, Write(j, s, w),
             UNCHANGED <<events, cursor, hist>>, turns' \in 0 .. MaxTurns,
             asked' \in [Jobs -> BOOLEAN], known' \in [Jobs -> BOOLEAN], pass' \in [Jobs -> Phases]
      PROVE  TypeInv'
  <2>1. /\ status' \in [Jobs -> Statuses] /\ wait' \in [Jobs -> Waits] /\ wake' \in Views
        /\ UNCHANGED <<answer, raced>>
        /\ wake'.open = wake.open /\ wake'.jobs = wake.jobs /\ wake'.held = wake.held
        /\ wake'.events = wake.events
      BY <1>1, WriteKeeps
  <2>2. wake'.changed \subseteq Jobs
      BY <2>1 DEF Views
  <2> QED
      BY <1>1, <2>1, <2>2
<1>2. ASSUME UNCHANGED <<row, events, cursor, wake, hist, raced>>, turns' \in 0 .. MaxTurns,
             asked' \in [Jobs -> BOOLEAN], known' \in [Jobs -> BOOLEAN], pass' \in [Jobs -> Phases]
      PROVE  TypeInv'
    BY <1>2 DEF row, Views
<1>3. ASSUME NEW j \in Jobs, Claim(j) PROVE TypeInv'
    BY <1>1, <1>3 DEF Claim, Statuses, Waits, Phases
<1>4. ASSUME NEW j \in Jobs, Ask(j) \/ Wait(j) \/ Crash(j) PROVE TypeInv'
  <2>1. /\ UNCHANGED <<row, events, cursor, wake, hist, raced>> /\ turns' \in 0 .. MaxTurns
        /\ known' = known
      BY <1>4 DEF Ask, Wait, Crash
  <2>2. asked' \in [Jobs -> BOOLEAN] /\ pass' \in [Jobs -> Phases]
      BY <1>4 DEF Ask, Wait, Crash, Phases
  <2> QED
      BY <1>2, <2>1, <2>2
<1>5. ASSUME NEW j \in Jobs, Finish(j) PROVE TypeInv'
  <2>1. pass' \in [Jobs -> Phases] /\ UNCHANGED <<asked, known, events, cursor, turns, hist>>
      BY <1>5 DEF Finish, Phases
  <2>2. \/ UNCHANGED <<row, wake, raced>>
        \/ Write(j, "waiting", "event") \/ Write(j, "succeeded", "none")
      BY <1>5 DEF Finish
  <2> QED
      BY <1>1, <1>2, <2>1, <2>2 DEF Statuses, Waits
<1>6. ASSUME NEW j \in Jobs, Requeue(j) \/ Expire(j) \/ Pause(j) \/ Resume(j) \/ Cancel(j)
      PROVE  TypeInv'
  <2>1. \E s \in Statuses, w \in Waits : Write(j, s, w)
      BY <1>6 DEF Requeue, Expire, Pause, Resume, Cancel, Statuses, Waits
  <2>2. UNCHANGED <<ran, events, cursor, hist>> /\ turns' \in 0 .. MaxTurns
      BY <1>6 DEF Requeue, Expire, Pause, Resume, Cancel, Turn
  <2> QED
      BY <1>1, <2>1, <2>2
<1>7. ASSUME NEW j \in Jobs, Emit(j) PROVE TypeInv'
  <2>1. /\ events' \in Seq([about : Jobs, seen : BOOLEAN]) /\ Len(events') = Len(events) + 1
        /\ \A i \in 1 .. Len(events) : events'[i] = events[i]
        /\ Len(events') <= MaxEvents
      BY <1>7 DEF Emit
  <2> QED
      BY <1>7, <2>1 DEF Emit, row
<1>8. ASSUME NEW i \in Ids, Commit(i) PROVE TypeInv'
  <2>1. i \in 1 .. Len(events) /\ events[i] \in [about : Jobs, seen : BOOLEAN]
      BY EventShape
  <2>2. events' = [events EXCEPT ![i].seen = TRUE] /\ ~events[i].seen
      BY <1>8 DEF Commit
  <2>3. [events[i] EXCEPT !.seen = TRUE] \in [about : Jobs, seen : BOOLEAN]
      BY <2>1
  <2>4. /\ events' \in Seq([about : Jobs, seen : BOOLEAN]) /\ Len(events') = Len(events)
        /\ \A k \in 1 .. Len(events) : k # i => events'[k] = events[k]
        /\ events'[i].seen
    <3>1. events \in Seq([about : Jobs, seen : BOOLEAN])
        OBVIOUS
    <3> HIDE DEF TypeInv, TypeOK
    <3> QED
        BY <2>1, <2>2, <2>3, <3>1
  <2> QED
      BY <1>8, <2>2, <2>4 DEF Commit, row
<1>9. CASE WakeJobs
  <2>1. /\ wake' \in Views /\ wake'.open /\ wake'.events = {} /\ wake'.held \subseteq wake'.jobs
        /\ wake'.changed \subseteq Jobs /\ wake'.jobs \subseteq Jobs
      BY <1>9 DEF WakeJobs, Asleep, Views
  <2> QED
      BY <1>9, <2>1 DEF WakeJobs, row
<1>10. CASE WakeEvents
  <2>1. /\ UNCHANGED <<row, ran, events, cursor, turns, hist, raced>>
        /\ wake' = [wake EXCEPT !.events = Fresh] /\ wake.open
      BY <1>10 DEF WakeEvents
  <2>2. Fresh \subseteq Nat /\ Fresh \subseteq {i \in Ids : i > cursor /\ events[i].seen}
      BY DEF Fresh
  <2>3. /\ wake' \in Views /\ wake'.open /\ wake'.jobs = wake.jobs /\ wake'.held = wake.held
        /\ wake'.changed = wake.changed /\ wake'.events = Fresh
      BY <2>1, <2>2 DEF Views
  <2> QED
      BY <2>1, <2>2, <2>3 DEF row
<1>11. CASE WakeCommit
  <2>1. /\ cursor' \in wake.events /\ wake' = Asleep /\ UNCHANGED <<asked, pass, known, events, turns, heard, late>>
      BY <1>11, Chosen DEF WakeCommit, Passed
  <2>2. answer' \in [Jobs -> Nat]
        /\ \A j \in Jobs : answer'[j] = answer[j] \/ answer'[j] \in For(j)
    <3>1. answer' = [j \in Jobs |-> IF j \in Woken
                                   THEN CHOOSE i \in For(j) : \A k \in For(j) : i <= k
                                   ELSE answer[j]]
        BY <1>11 DEF WakeCommit, Record
    <3>2. \A j \in Woken : (CHOOSE i \in For(j) : \A k \in For(j) : i <= k) \in For(j)
        BY <1>11, Chosen DEF WakeCommit, Passed
    <3>3. \A j \in Jobs : For(j) \subseteq Nat
        BY DEF For, Views
    <3> HIDE DEF TypeOK
    <3> QED
        BY <3>1, <3>2, <3>3
  <2>3. \A j \in Jobs : answer'[j] # 0 =>
            answer'[j] \in 1 .. cursor' /\ events[answer'[j]] = [about |-> j, seen |-> TRUE]
    <3> SUFFICES ASSUME NEW j \in Jobs, answer'[j] # 0
                 PROVE  /\ answer'[j] \in 1 .. cursor'
                        /\ events[answer'[j]] = [about |-> j, seen |-> TRUE]
        OBVIOUS
    <3>1. cursor < cursor' /\ \A k \in wake.events : k <= cursor'
        BY <1>11, <2>1, Chosen DEF WakeCommit, Passed
    <3>2. CASE answer'[j] = answer[j]
        BY <3>1, <3>2, <2>1
    <3>3. CASE answer'[j] \in For(j)
      <4>1. answer'[j] \in wake.events /\ events[answer'[j]].about = j
          BY <3>3 DEF For
      <4>2. answer'[j] \in 1 .. cursor' /\ events[answer'[j]].seen
          BY <3>1, <4>1
      <4>3. events[answer'[j]] \in [about : Jobs, seen : BOOLEAN]
          BY <4>1, EventShape
      <4> QED
          BY <4>1, <4>2, <4>3
    <3> QED
        BY <2>2, <3>2, <3>3
  <2>4. status' \in [Jobs -> Statuses] /\ wait' \in [Jobs -> Waits] /\ raced' \subseteq Jobs
      BY <1>11 DEF WakeCommit, Passed, Statuses, Waits
  <2>5. wake' \in Views /\ ~wake'.open /\ wake'.events = {} /\ wake'.jobs = {} /\ wake'.held = {}
        /\ wake'.changed = {}
      BY <2>1 DEF Asleep, Views
  <2>6. cursor' \in 0 .. Len(events)
      BY <2>1
  <2>7. events' = events /\ DOMAIN events' = DOMAIN events /\ heard' \subseteq Ids /\ late' \subseteq Ids
      BY <2>1
  <2>8. TypeOK'
    <3>1. wake'.events \subseteq {i \in Ids' : i > cursor' /\ events'[i].seen}
        BY <2>5, Zenon
    <3>2. \A j \in Jobs : answer'[j] # 0 => /\ answer'[j] \in 1 .. cursor'
                                           /\ events'[answer'[j]] = [about |-> j, seen |-> TRUE]
        BY <2>3, <2>7
    <3>3. wake'.open \in BOOLEAN
        BY <2>5 DEF Views
    <3>6. wake'.held \subseteq wake'.jobs /\ wake'.jobs \subseteq Jobs /\ wake'.changed \subseteq Jobs
        BY <2>5, Zenon
    <3>4. events' \in Seq([about : Jobs, seen : BOOLEAN]) /\ Len(events') <= MaxEvents
          /\ cursor' \in 0 .. Len(events')
        BY <2>6, <2>7
    <3>5. /\ asked' \in [Jobs -> BOOLEAN] /\ known' \in [Jobs -> BOOLEAN]
          /\ pass' \in [Jobs -> Phases] /\ turns' \in 0 .. MaxTurns
        BY <2>1
    <3> QED
        BY <2>4, <2>7, <3>1, <3>2, <3>3, <3>4, <3>5, <3>6
  <2> QED
      BY <2>2, <2>5, <2>8
<1>12. CASE WakeCrash
    BY <1>12 DEF WakeCrash, Turn, Asleep, Views, row
<1>13. CASE UNCHANGED vars
    BY <1>2, <1>13 DEF vars
<1> QED
    BY <1>3, <1>4, <1>5, <1>6, <1>7, <1>8, <1>9, <1>10, <1>11, <1>12, <1>13
       DEF Next, Work, Wake

\* Every variable keeps its type, and an answer on record is a committed event
\* of its own job that the cursor has passed (wake_on_events).
THEOREM TypeCorrect == Spec => []TypeOK
<1>1. TypeInv => TypeOK
    BY DEF TypeInv
<1> QED
    BY <1>1, TypeInit, TypeNext, PTL DEF Spec

------------------------------------------------------------------------------
(* Being woken.  The argument: as long as nobody has written the row of a job *)
(* since wake_on_events read it, the transaction knows which jobs wait and    *)
(* which of them are paused (Stood), and when it has read the events it has   *)
(* every one up to its last that did not commit late (WholeView).  So an      *)
(* event that a waiting job has heard is either still ahead of the cursor,    *)
(* and the job still waits for it, or has been given to it (Pending); and a   *)
(* job with an answer never goes back to waiting, because its pass replays    *)
(* the wait (Lives).                                                          *)

Stood ==
    wake.open => \A j \in Jobs \ wake.changed :
        /\ j \in wake.jobs <=> StandsBy(j)
        /\ j \in wake.held <=> StandsBy(j) /\ status[j] = "paused"

WholeView ==
    wake.events # {} => \A i \in Ids : events[i].seen /\ i > cursor /\ i \notin late =>
                            i \in wake.events \/ \A k \in wake.events : k < i

LifeOf(j) ==
    /\ StandsBy(j) => pass[j] = "none" /\ answer[j] = 0
    /\ status[j] \in {"queued", "running"} => wait[j] = "none"
    /\ pass[j] = "parking" => ~known[j]
    /\ answer[j] # 0 /\ pass[j] # "none" => known[j]

Lives == \A j \in Jobs \ raced : LifeOf(j)

\* The event i is on its way to the job j that has heard it, or has got there.
Reaches(i, j) ==
    \/ answer[j] # 0
    \/ status[j] \in Terminal
    \/ i > cursor /\ StandsBy(j)

Pending ==
    \A i \in heard : /\ events[i].seen
                     /\ i \notin late /\ events[i].about \notin raced => Reaches(i, events[i].about)

WakeInv == TypeInv /\ Stood /\ WholeView /\ Lives /\ Pending

LEMMA WakeInit == Init => WakeInv
BY TypeInit DEF Init, WakeInv, Stood, WholeView, Lives, LifeOf, Pending, Asleep, Ids, StandsBy

LEMMA Standing ==
    ASSUME NEW j
    PROVE  StandsBy(j) <=> \/ status[j] = "waiting" /\ wait[j] = "event"
                           \/ status[j] = "paused" /\ wait[j] = "kept"
BY DEF StandsBy

\* What the steps of Next are to the invariant: a transaction writes the row of
\* a job that has not ended, a pass moves on, an event comes, or wake_on_events
\* itself goes on.
RowStep(j) ==
    /\ \E s \in Statuses, w \in Waits : Write(j, s, w)
    /\ status[j] \notin Terminal
    /\ UNCHANGED <<events, cursor, hist>>
    /\ StandsBy(j) => StandsBy(j)' \/ status'[j] \in Terminal
    /\ \A i \in Jobs \ {j} : pass'[i] = pass[i] /\ known'[i] = known[i]
    /\ j \notin raced => LifeOf(j)'

PassStep ==
    /\ UNCHANGED <<row, known, events, cursor, wake, hist, raced>>
    /\ \A i \in Jobs : /\ pass[i] = "none" => pass'[i] = "none"
                       /\ pass'[i] = "parking" => pass[i] = "parking" \/ ~known[i]

LEMMA RowSteps ==
    ASSUME WakeInv, NEW j \in Jobs,
           \/ Claim(j) \/ Requeue(j) \/ Expire(j) \/ Pause(j) \/ Resume(j) \/ Cancel(j)
           \/ Finish(j) /\ status[j] = "running"
    PROVE  RowStep(j)
<1> USE DEF ran, hist
<1>t. /\ TypeInv /\ status \in [Jobs -> Statuses] /\ wait \in [Jobs -> Waits]
      /\ pass \in [Jobs -> Phases] /\ known \in [Jobs -> BOOLEAN]
    BY DEF WakeInv, TypeInv, TypeOK
<1>l. j \notin raced => LifeOf(j)
    BY DEF WakeInv, Lives
<1>s. /\ StandsBy(j) <=> \/ status[j] = "waiting" /\ wait[j] = "event"
                         \/ status[j] = "paused" /\ wait[j] = "kept"
      /\ StandsBy(j)' <=> \/ status'[j] = "waiting" /\ wait'[j] = "event"
                          \/ status'[j] = "paused" /\ wait'[j] = "kept"
    BY DEF StandsBy
<1>1. CASE Claim(j)
  <2>1. /\ status[j] = "queued" /\ Write(j, "running", wait[j])
        /\ pass' = [pass EXCEPT ![j] = "handler"] /\ known' = [known EXCEPT ![j] = answer[j] # 0]
        /\ UNCHANGED <<events, cursor, hist>>
      BY <1>1 DEF Claim
  <2>2. "running" \in Statuses /\ wait[j] \in Waits
      BY <1>t DEF Statuses
  <2>3. status'[j] = "running" /\ wait'[j] = wait[j] /\ answer' = answer
      BY <1>t, <2>1, <2>2 DEF Write
  <2>4. j \notin raced => LifeOf(j)'
      BY <1>l, <1>s, <1>t, <2>1, <2>3 DEF LifeOf
  <2> QED
      BY <1>s, <1>t, <2>1, <2>2, <2>3, <2>4 DEF RowStep, Terminal
<1>2. CASE Requeue(j)
  <2>1. /\ status[j] = "running" /\ Write(j, "queued", wait[j]) /\ UNCHANGED <<pass, known, events, cursor, hist>>
      BY <1>2 DEF Requeue
  <2>2. "queued" \in Statuses /\ wait[j] \in Waits
      BY <1>t DEF Statuses
  <2>3. status'[j] = "queued" /\ wait'[j] = wait[j] /\ answer' = answer
      BY <1>t, <2>1, <2>2 DEF Write
  <2>4. j \notin raced => LifeOf(j)'
      BY <1>l, <1>s, <1>t, <2>1, <2>3 DEF LifeOf
  <2> QED
      BY <1>s, <1>t, <2>1, <2>2, <2>3, <2>4 DEF RowStep, Terminal
<1>3. CASE Expire(j) \/ Cancel(j)
  <2>1. PICK s \in {"expired", "cancelled"} :
            Write(j, s, "none") /\ status[j] \notin Terminal /\ UNCHANGED <<pass, known, events, cursor, hist>>
      BY <1>3 DEF Expire, Cancel, Open, Terminal
  <2>2. s \in Statuses /\ "none" \in Waits /\ s \in Terminal
      BY DEF Statuses, Waits, Terminal
  <2>3. status'[j] = s /\ wait'[j] = "none" /\ answer' = answer
      BY <1>t, <2>1, <2>2 DEF Write
  <2>4. j \notin raced => LifeOf(j)'
      BY <1>l, <1>s, <1>t, <2>1, <2>3 DEF LifeOf
  <2> QED
      BY <1>s, <1>t, <2>1, <2>2, <2>3, <2>4 DEF RowStep
<1>4. CASE Pause(j)
  <2>1. PICK w \in {"kept", "held"} :
            /\ w = (IF wait[j] = "event" THEN "kept" ELSE "held")
            /\ Write(j, "paused", w) /\ status[j] \in {"queued", "running", "waiting"}
            /\ UNCHANGED <<pass, known, events, cursor, hist>>
      BY <1>4 DEF Pause
  <2>2. "paused" \in Statuses /\ w \in Waits
      BY DEF Statuses, Waits
  <2>3. status'[j] = "paused" /\ wait'[j] = w /\ answer' = answer
      BY <1>t, <2>1, <2>2 DEF Write
  <2>5. StandsBy(j) => StandsBy(j)'
      BY <1>s, <1>t, <2>1, <2>3
  <2>6. j \notin raced /\ StandsBy(j)' => StandsBy(j)
      BY <1>l, <1>s, <1>t, <2>1, <2>3 DEF LifeOf
  <2>4. j \notin raced => LifeOf(j)'
      BY <1>l, <1>s, <1>t, <2>1, <2>3, <2>6 DEF LifeOf
  <2> QED
      BY <1>s, <1>t, <2>1, <2>2, <2>3, <2>4, <2>5 DEF RowStep, Terminal
<1>5. CASE Resume(j)
  <2>1. PICK s \in {"waiting", "queued"}, w \in {"event", "none"} :
            /\ s = (IF wait[j] = "kept" THEN "waiting" ELSE "queued")
            /\ w = (IF wait[j] = "kept" THEN "event" ELSE "none")
            /\ Write(j, s, w) /\ status[j] = "paused"
            /\ UNCHANGED <<pass, known, events, cursor, hist>>
      BY <1>5 DEF Resume
  <2>2. s \in Statuses /\ w \in Waits
      BY DEF Statuses, Waits
  <2>3. status'[j] = s /\ wait'[j] = w /\ answer' = answer
      BY <1>t, <2>1, <2>2 DEF Write
  <2>5. StandsBy(j) <=> StandsBy(j)'
      BY <1>s, <1>t, <2>1, <2>3
  <2>4. j \notin raced => LifeOf(j)'
      BY <1>l, <1>s, <1>t, <2>1, <2>3, <2>5 DEF LifeOf
  <2> QED
      BY <1>s, <1>t, <2>1, <2>2, <2>3, <2>4, <2>5 DEF RowStep, Terminal
<1>6. CASE Finish(j) /\ status[j] = "running"
  <2>1. PICK s \in {"waiting", "succeeded"}, w \in {"event", "none"} :
            /\ s = "waiting" => pass[j] = "parking"
            /\ s = "waiting" <=> w = "event"
            /\ Write(j, s, w) /\ pass' = [pass EXCEPT ![j] = "none"]
            /\ UNCHANGED <<known, events, cursor, hist>>
      BY <1>6 DEF Finish
  <2>2. s \in Statuses /\ w \in Waits
      BY DEF Statuses, Waits
  <2>3. status'[j] = s /\ wait'[j] = w /\ answer' = answer
      BY <1>t, <2>1, <2>2 DEF Write
  <2>4. j \notin raced => LifeOf(j)'
      BY <1>l, <1>s, <1>t, <2>1, <2>3 DEF LifeOf
  <2> QED
      BY <1>6, <1>s, <1>t, <2>1, <2>2, <2>3, <2>4 DEF RowStep, Terminal
<1> QED
    BY <1>1, <1>2, <1>3, <1>4, <1>5, <1>6

LEMMA Classified ==
    ASSUME WakeInv, [Next]_vars
    PROVE  \/ \E j \in Jobs : RowStep(j) \/ Emit(j)
           \/ PassStep
           \/ \E i \in Ids : Commit(i)
           \/ WakeJobs \/ WakeEvents \/ WakeCommit \/ WakeCrash
<1> USE DEF WakeInv, TypeInv, TypeOK, hist
<1>1. ASSUME NEW j \in Jobs, Ask(j) \/ Wait(j) \/ Crash(j) PROVE PassStep
    BY <1>1 DEF Ask, Wait, Crash, PassStep
<1>2. ASSUME NEW j \in Jobs, Finish(j), status[j] # "running" PROVE PassStep
    BY <1>2 DEF Finish, PassStep, row
<1>3. CASE UNCHANGED vars
    BY <1>3 DEF vars, ran, PassStep
<1> QED
    BY <1>1, <1>2, <1>3, RowSteps DEF Next, Work, Wake

LEMMA RowStepWrites ==
    ASSUME WakeInv, NEW j \in Jobs, RowStep(j)
    PROVE  /\ \A i \in Jobs \ {j} : status'[i] = status[i] /\ wait'[i] = wait[i]
           /\ UNCHANGED <<answer, raced, events, cursor, heard, late>>
           /\ wake'.open = wake.open /\ wake'.jobs = wake.jobs /\ wake'.held = wake.held
           /\ wake'.events = wake.events
           /\ wake.open => wake'.changed = wake.changed \cup {j}
<1>1. PICK s \in Statuses, w \in Waits : Write(j, s, w)
    BY DEF RowStep
<1>2. wake \in Views /\ status \in [Jobs -> Statuses] /\ wait \in [Jobs -> Waits]
    BY DEF WakeInv, TypeInv, TypeOK
<1>3. \A i \in Jobs \ {j} : status'[i] = status[i] /\ wait'[i] = wait[i]
    BY <1>1, <1>2 DEF Write
<1>4. UNCHANGED <<answer, raced, events, cursor, heard, late>>
    BY <1>1 DEF Write, RowStep, hist
<1>5. /\ wake'.open = wake.open /\ wake'.jobs = wake.jobs /\ wake'.held = wake.held
      /\ wake'.events = wake.events
      /\ wake.open => wake'.changed = wake.changed \cup {j}
    BY <1>1, <1>2 DEF Write, Views
<1> QED
    BY <1>3, <1>4, <1>5

LEMMA StoodNext == ASSUME WakeInv, [Next]_vars PROVE Stood'
<1>1. ASSUME NEW j \in Jobs, RowStep(j) PROVE Stood'
  <2>1. ASSUME wake'.open, NEW i \in Jobs \ wake'.changed
        PROVE  /\ i \in wake'.jobs <=> StandsBy(i)'
               /\ i \in wake'.held <=> StandsBy(i)' /\ status'[i] = "paused"
    <3>1. i # j /\ i \notin wake.changed /\ wake.open
        BY <1>1, <2>1, RowStepWrites
    <3>2. status'[i] = status[i] /\ wait'[i] = wait[i] /\ wake'.jobs = wake.jobs /\ wake'.held = wake.held
        BY <1>1, <3>1, RowStepWrites
    <3> QED
        BY <3>1, <3>2 DEF WakeInv, Stood, StandsBy
  <2> QED
      BY <2>1 DEF Stood
<1>2. ASSUME UNCHANGED <<status, wait, wake>> PROVE Stood'
    BY <1>2 DEF WakeInv, Stood, StandsBy
<1>3. CASE WakeJobs
  <2>1. /\ UNCHANGED <<status, wait>> /\ wake'.jobs = {j \in Jobs : StandsBy(j)}
        /\ wake'.held = {j \in Jobs : StandsBy(j) /\ status[j] = "paused"}
      BY <1>3 DEF WakeJobs, Asleep, row
  <2> QED
      BY <2>1 DEF Stood, StandsBy
<1>4. CASE WakeEvents
  <2>1. /\ UNCHANGED <<status, wait>> /\ wake.open /\ wake'.jobs = wake.jobs /\ wake'.held = wake.held
        /\ wake'.changed = wake.changed
      BY <1>4 DEF WakeEvents, row, WakeInv, TypeInv, Views
  <2> QED
      BY <2>1 DEF WakeInv, Stood, StandsBy
<1>5. CASE WakeCommit \/ WakeCrash
  <2>1. ~wake'.open
      BY <1>5 DEF WakeCommit, WakeCrash, Passed, Asleep
  <2> QED
      BY <2>1 DEF Stood
<1> QED
    BY <1>1, <1>2, <1>3, <1>4, <1>5, Classified DEF PassStep, Emit, Commit, row

LEMMA WholeViewNext == ASSUME WakeInv, [Next]_vars PROVE WholeView'
<1>t. /\ TypeInv /\ wake \in Views /\ events \in Seq([about : Jobs, seen : BOOLEAN])
      /\ wake.events \subseteq Ids /\ Ids = 1 .. Len(events) /\ cursor \in Nat /\ Len(events) \in Nat
  <2>1. /\ TypeInv /\ wake \in Views /\ events \in Seq([about : Jobs, seen : BOOLEAN])
        /\ wake.events \subseteq Ids /\ cursor \in 0 .. Len(events)
      BY DEF WakeInv, TypeInv, TypeOK
  <2>2. Ids = 1 .. Len(events) /\ Len(events) \in Nat
      BY <2>1, LenProperties DEF Ids
  <2> QED
      BY <2>1, <2>2
<1>1. ASSUME wake'.events = wake.events, UNCHANGED <<events, cursor, late>> PROVE WholeView'
    BY <1>1 DEF WakeInv, WholeView, Ids
<1>2. ASSUME NEW j \in Jobs, Emit(j) PROVE WholeView'
  <2>1. UNCHANGED <<cursor, late, wake>> \/ (UNCHANGED <<cursor, wake>> /\ late' = late)
      BY <1>2 DEF Emit, hist
  <2>2. /\ DOMAIN events' = 1 .. Len(events) + 1
        /\ \A i \in 1 .. Len(events) : events'[i] = events[i]
        /\ events'[Len(events) + 1] = [about |-> j, seen |-> FALSE]
      BY <1>2, <1>t DEF Emit
  <2>3. \A i \in DOMAIN events' : events'[i].seen => i \in Ids /\ events[i].seen
      BY <1>t, <2>2
  <2> QED
      BY <2>1, <2>3 DEF WakeInv, WholeView, Ids
<1>3. ASSUME NEW i \in Ids, Commit(i) PROVE WholeView'
  <2>1. /\ events' = [events EXCEPT ![i].seen = TRUE] /\ UNCHANGED <<cursor, wake>>
        /\ late' = IF i <= cursor \/ \E k \in wake.events : i <= k THEN late \cup {i} ELSE late
      BY <1>3 DEF Commit
  <2>2. DOMAIN events' = Ids /\ \A n \in Ids : n # i => events'[n] = events[n]
      BY <2>1, <1>t DEF Ids
  <2>3. i \notin late' => \A k \in wake.events : k < i
      BY <1>t, <2>1
  <2> QED
      BY <2>1, <2>2, <2>3 DEF WakeInv, WholeView, Ids
<1>4. CASE WakeJobs \/ WakeCommit \/ WakeCrash
  <2>1. wake'.events = {}
    <3>1. CASE WakeJobs
        BY <3>1 DEF WakeJobs, Asleep
    <3>2. CASE WakeCommit \/ WakeCrash
        BY <3>2 DEF WakeCommit, WakeCrash, Passed, Asleep
    <3> QED
        BY <1>4, <3>1, <3>2
  <2> QED
      BY <2>1 DEF WholeView
<1>5. CASE WakeEvents
  <2>1. wake'.events = Fresh /\ UNCHANGED <<events, cursor>>
      BY <1>5, <1>t DEF WakeEvents, Views
  <2> QED
      BY <2>1 DEF WholeView, Fresh, Ids
<1> QED
    BY <1>1, <1>2, <1>3, <1>4, <1>5, RowStepWrites, Classified DEF PassStep, hist

\* The jobs that WakeCommit wakes and that nobody has interfered with.
LEMMA Given ==
    ASSUME WakeInv, WakeCommit, NEW j \in Jobs \ raced'
    PROVE  /\ j \notin raced
           /\ j \in Woken => /\ StandsBy(j) /\ ~StandsBy(j)' /\ answer'[j] # 0
                             /\ pass'[j] = "none"
                             /\ \/ status[j] = "waiting" /\ status'[j] = "queued" /\ wait'[j] = "none"
                                \/ status[j] = "paused" /\ status'[j] = "paused" /\ wait'[j] = "held"
           /\ j \notin Woken => status'[j] = status[j] /\ wait'[j] = wait[j] /\ answer'[j] = answer[j]
<1>t. /\ TypeInv /\ wake \in Views /\ wake.events # {} /\ wake.open
      /\ status \in [Jobs -> Statuses] /\ wait \in [Jobs -> Waits]
    BY DEF WakeCommit, Passed, WakeInv, TypeInv, TypeOK
<1>z. \A i \in wake.events : i # 0
  <2>1. cursor \in Nat /\ \A i \in wake.events : i > cursor
      BY DEF WakeInv, TypeInv, TypeOK
  <2> QED
      BY <2>1
<1>1. /\ raced' = raced \cup {i \in wake.changed : For(i) # {}}
      /\ Record(Woken) /\ pass' = pass
      /\ status' = [i \in Jobs |-> IF i \in Woken \ wake.held THEN "queued" ELSE status[i]]
      /\ wait' = [i \in Jobs |-> IF i \notin Woken THEN wait[i]
                                 ELSE IF i \in wake.held THEN "held" ELSE "none"]
    BY DEF WakeCommit, Passed, ran
<1>2. ASSUME j \in Woken
      PROVE  /\ StandsBy(j) /\ ~StandsBy(j)' /\ answer'[j] # 0 /\ pass'[j] = "none"
             /\ \/ status[j] = "waiting" /\ status'[j] = "queued" /\ wait'[j] = "none"
                \/ status[j] = "paused" /\ status'[j] = "paused" /\ wait'[j] = "held"
  <2>1. j \in wake.jobs /\ For(j) # {}
      BY <1>2 DEF Woken
  <2>2. j \notin wake.changed
      BY <1>1, <2>1
  <2>3. StandsBy(j) /\ (j \in wake.held <=> status[j] = "paused")
      BY <1>t, <2>1, <2>2 DEF WakeInv, Stood
  <2>4. answer'[j] \in For(j)
      BY <1>1, <1>2, <1>t, Chosen DEF Record
  <2>5. answer'[j] # 0
      BY <1>z, <2>4 DEF For
  <2>6. pass[j] = "none"
      BY <1>1, <2>3 DEF WakeInv, Lives, LifeOf
  <2>7. \/ status[j] = "waiting" /\ status'[j] = "queued" /\ wait'[j] = "none"
        \/ status[j] = "paused" /\ status'[j] = "paused" /\ wait'[j] = "held"
      BY <1>1, <1>2, <2>3 DEF StandsBy
  <2>8. ~StandsBy(j)'
      BY <2>7 DEF StandsBy
  <2> QED
      BY <1>1, <2>3, <2>5, <2>6, <2>7, <2>8
<1>3. j \notin Woken => status'[j] = status[j] /\ wait'[j] = wait[j] /\ answer'[j] = answer[j]
    BY <1>1 DEF Record
<1> QED
    BY <1>1, <1>2, <1>3

LEMMA LivesNext == ASSUME WakeInv, [Next]_vars PROVE Lives'
<1>1. ASSUME NEW j \in Jobs, RowStep(j) PROVE Lives'
  <2> SUFFICES ASSUME NEW i \in Jobs \ raced' PROVE LifeOf(i)'
      BY DEF Lives
  <2>1. CASE i = j
      BY <1>1, <2>1, RowStepWrites DEF RowStep
  <2>2. CASE i # j
    <3>1. /\ status'[i] = status[i] /\ wait'[i] = wait[i] /\ answer' = answer /\ raced' = raced
          /\ pass'[i] = pass[i] /\ known'[i] = known[i]
        BY <1>1, <2>2, RowStepWrites DEF RowStep
    <3> QED
        BY <3>1 DEF WakeInv, Lives, LifeOf, StandsBy
  <2> QED
      BY <2>1, <2>2
<1>2. CASE PassStep
  <2> SUFFICES ASSUME NEW i \in Jobs \ raced' PROVE LifeOf(i)'
      BY DEF Lives
  <2>1. LifeOf(i) /\ UNCHANGED <<status, wait, answer, known>>
      BY <1>2 DEF PassStep, row, WakeInv, Lives
  <2>2. /\ pass[i] = "none" => pass'[i] = "none"
        /\ pass'[i] = "parking" => pass[i] = "parking" \/ ~known[i]
      BY <1>2 DEF PassStep
  <2> QED
      BY <2>1, <2>2 DEF LifeOf, StandsBy
<1>3. ASSUME UNCHANGED <<row, ran, raced>> PROVE Lives'
    BY <1>3 DEF WakeInv, Lives, LifeOf, StandsBy, row, ran
<1>4. CASE WakeCommit
  <2> SUFFICES ASSUME NEW i \in Jobs \ raced' PROVE LifeOf(i)'
      BY DEF Lives
  <2>1. LifeOf(i) /\ UNCHANGED <<pass, known>>
      BY <1>4, Given DEF WakeInv, Lives, WakeCommit, Passed, ran
  <2>2. CASE i \in Woken
      BY <1>4, <2>1, <2>2, Given DEF LifeOf
  <2>3. CASE i \notin Woken
      BY <1>4, <2>1, <2>3, Given DEF LifeOf, StandsBy
  <2> QED
      BY <2>2, <2>3
<1> QED
    BY <1>1, <1>2, <1>3, <1>4, Classified DEF Emit, Commit, WakeJobs, WakeEvents, WakeCrash

LEMMA PendingNext == ASSUME WakeInv, [Next]_vars PROVE Pending'
<1>t. /\ TypeInv /\ wake \in Views /\ events \in Seq([about : Jobs, seen : BOOLEAN])
      /\ Ids = 1 .. Len(events) /\ cursor \in Nat /\ Len(events) \in Nat /\ heard \subseteq Ids
      /\ wake.events \subseteq Ids
      /\ \A i \in Ids : events[i].about \in Jobs
  <2>1. /\ TypeInv /\ wake \in Views /\ events \in Seq([about : Jobs, seen : BOOLEAN])
        /\ heard \subseteq Ids /\ cursor \in 0 .. Len(events) /\ wake.events \subseteq Ids
      BY DEF WakeInv, TypeInv, TypeOK
  <2>2. Ids = 1 .. Len(events) /\ Len(events) \in Nat
      BY <2>1, LenProperties DEF Ids
  <2>3. \A i \in Ids : events[i].about \in Jobs
      BY <2>1, EventShape
  <2> QED
      BY <2>1, <2>2, <2>3
<1>1. ASSUME NEW j \in Jobs, RowStep(j) PROVE Pending'
  <2>1. /\ UNCHANGED <<answer, raced, events, cursor, heard, late>> /\ status[j] \notin Terminal
        /\ \A i \in Jobs \ {j} : status'[i] = status[i] /\ wait'[i] = wait[i]
        /\ StandsBy(j) => StandsBy(j)' \/ status'[j] \in Terminal
      BY <1>1, RowStepWrites DEF RowStep
  <2>2. ASSUME NEW i \in heard, NEW n \in Jobs, Reaches(i, n) PROVE Reaches(i, n)'
    <3>1. CASE n = j
        BY <2>1, <2>2, <3>1 DEF Reaches
    <3>2. CASE n # j
        BY <2>1, <2>2, <3>2 DEF Reaches, StandsBy
    <3> QED
        BY <3>1, <3>2
  <2> QED
      BY <1>t, <2>1, <2>2 DEF WakeInv, Pending
<1>2. ASSUME UNCHANGED <<row, events, cursor, heard, late, raced>> PROVE Pending'
    BY <1>2 DEF WakeInv, Pending, Reaches, StandsBy, row
<1>3. ASSUME NEW j \in Jobs, Emit(j) PROVE Pending'
  <2>1. /\ UNCHANGED <<row, cursor, heard, late, raced>>
        /\ \A i \in 1 .. Len(events) : events'[i] = events[i]
      BY <1>3, <1>t DEF Emit, hist
  <2>2. \A i \in heard : events'[i] = events[i]
      BY <1>t, <2>1
  <2> QED
      BY <2>1, <2>2 DEF WakeInv, Pending, Reaches, StandsBy, row
<1>4. ASSUME NEW i \in Ids, Commit(i) PROVE Pending'
  <2>1. /\ events' = [events EXCEPT ![i].seen = TRUE] /\ UNCHANGED <<row, cursor, raced>>
        /\ heard' = IF StandsBy(events[i].about) THEN heard \cup {i} ELSE heard
        /\ late' = IF i <= cursor \/ \E k \in wake.events : i <= k THEN late \cup {i} ELSE late
      BY <1>4 DEF Commit
  <2>2. /\ \A n \in Ids : n # i => events'[n] = events[n]
        /\ events'[i].about = events[i].about /\ events'[i].seen
      BY <2>1, <1>t, EventShape DEF Ids
  <2>3. \A n \in heard' : n = i \/ n \in heard
      BY <2>1
  <2>4. \A n, j : Reaches(n, j)' = Reaches(n, j)
      BY <2>1 DEF Reaches, StandsBy, row
  <2>5. ASSUME NEW n \in heard', n \notin late', NEW j, j = events'[n].about, j \notin raced'
        PROVE  Reaches(n, j)'
    <3>1. CASE n = i /\ n \notin heard
      <4>1. StandsBy(events[i].about) /\ i > cursor
          BY <1>t, <2>1, <2>5, <3>1
      <4>2. j = events[i].about
          BY <2>2, <2>5, <3>1
      <4>3. Reaches(i, j)
          BY <4>1, <4>2 DEF Reaches
      <4> QED
          BY <2>4, <3>1, <4>3
    <3>2. CASE n \in heard
      <4>1. n \notin late /\ events'[n].about = events[n].about
          BY <1>t, <2>1, <2>2, <2>5, <3>2
      <4> QED
          BY <2>1, <2>4, <2>5, <3>2, <4>1 DEF WakeInv, Pending
    <3> QED
        BY <2>3, <3>1, <3>2
  <2>6. \A n \in heard' : events'[n].seen
      BY <1>t, <2>2, <2>3 DEF WakeInv, Pending
  <2>7. \A n \in heard' : n \notin late' /\ events'[n].about \notin raced' => Reaches(n, events[n].about)'
      BY <2>5 DEF Reaches, StandsBy
  <2> QED
      BY <2>6, <2>7 DEF Pending
<1>5. CASE WakeCommit
  <2>1. /\ UNCHANGED <<events, heard, late>> /\ wake.events # {} /\ wake.open
        /\ \A k \in wake.events : k <= cursor'
        /\ cursor' \in wake.events /\ raced' = raced \cup {j \in wake.changed : For(j) # {}}
      BY <1>5, <1>t, Chosen DEF WakeCommit, Passed, hist, WakeInv, TypeInv
  <2>2. ASSUME NEW i \in heard, i \notin late, events[i].about \notin raced'
        PROVE  Reaches(i, events[i].about)'
    <3> DEFINE j == events[i].about
    <3>1. j \in Jobs /\ i \in Ids /\ events[i].seen /\ Reaches(i, j)
        BY <1>t, <2>1, <2>2 DEF WakeInv, Pending
    <3>2. CASE j \in Woken
        BY <1>5, <2>1, <2>2, <3>1, <3>2, Given DEF Reaches
    <3>3. CASE j \notin Woken /\ (answer[j] # 0 \/ status[j] \in Terminal)
        BY <1>5, <2>1, <2>2, <3>1, <3>3, Given DEF Reaches
    <3>4. CASE j \notin Woken /\ i > cursor /\ StandsBy(j)
      <4>1. status'[j] = status[j] /\ wait'[j] = wait[j]
          BY <1>5, <2>2, <3>1, <3>4, Given
      <4>2. i \notin wake.events
        <5>1. ASSUME i \in wake.events PROVE FALSE
          <6>1. i \in For(j)
              BY <5>1 DEF For
          <6>2. j \notin wake.changed
              BY <2>1, <2>2, <6>1
          <6>3. j \in wake.jobs
              BY <2>1, <3>1, <3>4, <6>2 DEF WakeInv, Stood
          <6> QED
              BY <3>4, <6>1, <6>3 DEF Woken
        <5> QED
            BY <5>1
      <4>3. i > cursor'
          BY <2>1, <2>2, <3>1, <3>4, <4>2 DEF WakeInv, WholeView
      <4> QED
          BY <2>1, <3>4, <4>1, <4>3 DEF Reaches, StandsBy
    <3> QED
        BY <3>1, <3>2, <3>3, <3>4 DEF Reaches
  <2> QED
      BY <2>1, <2>2 DEF WakeInv, Pending
<1> QED
    BY <1>1, <1>2, <1>3, <1>4, <1>5, Classified DEF PassStep, WakeJobs, WakeEvents, WakeCrash, hist

LEMMA WakeAlways == Spec => []WakeInv
<1>1. WakeInv /\ [Next]_vars => WakeInv'
    BY TypeNext, StoodNext, WholeViewNext, LivesNext, PendingNext DEF WakeInv
<1> QED
    BY <1>1, WakeInit, PTL DEF Spec

\* A job that was waiting, or paused while it waited, when its event committed
\* has it once the cursor has passed the event, unless its row was written under
\* the open transaction or the event committed late (wake_on_events).
THEOREM EventsReachJobs == Spec => []HeardWakes
<1>1. WakeInv => HeardWakes
  <2> SUFFICES ASSUME WakeInv, NEW j \in Jobs, j \notin raced
               PROVE  /\ \A i \in heard \ late :
                            events[i].about = j /\ i <= cursor => answer[j] # 0 \/ status[j] \in Terminal
                      /\ answer[j] # 0 => ~StandsBy(j)
      BY DEF HeardWakes
  <2>1. \A i \in heard : i \in Nat /\ cursor \in Nat
      BY DEF WakeInv, TypeInv, TypeOK, Ids
  <2>2. \A i \in heard \ late :
            events[i].about = j /\ i <= cursor => answer[j] # 0 \/ status[j] \in Terminal
      BY <2>1 DEF WakeInv, Pending, Reaches
  <2>3. answer[j] # 0 => ~StandsBy(j)
      BY DEF WakeInv, Lives, LifeOf
  <2> QED
      BY <2>2, <2>3
<1> QED
    BY <1>1, WakeAlways, PTL

\* An ended job stays ended, and a paused one stays paused until a person or the
\* tick says otherwise, but for a decision made under the open transaction of
\* wake_on_events after it had read the row, which that writes over.
THEOREM DecisionsHold == Spec => DecisionsStand
<1>1. ASSUME WakeInv, [Next]_vars, NEW j \in Jobs, ~WrittenOver(j), status'[j] # status[j]
      PROVE  /\ status[j] \notin Terminal
             /\ status[j] = "paused" => Resume(j) \/ Cancel(j) \/ Expire(j)
  <2>t. status \in [Jobs -> Statuses] /\ wait \in [Jobs -> Waits]
      BY <1>1 DEF WakeInv, TypeInv, TypeOK
  <2>1. CASE WakeCommit
    <3>1. /\ wake \in Views /\ wake.events # {} /\ wake.events \subseteq {i \in Ids : i > cursor}
          /\ cursor \in Nat /\ wake.open
          /\ status' = [i \in Jobs |-> IF i \in Woken \ wake.held THEN "queued" ELSE status[i]]
        BY <1>1, <2>1 DEF WakeCommit, Passed, WakeInv, TypeInv, TypeOK
    <3>2. cursor' \in wake.events
        BY <1>1, <2>1, Chosen DEF WakeCommit, Passed, WakeInv, TypeInv
    <3>3. j \notin wake.changed
        BY <1>1, <3>1, <3>2 DEF WrittenOver
    <3>4. j \in Woken \ wake.held
        BY <1>1, <2>t, <3>1
    <3>5. status[j] = "waiting"
        BY <1>1, <3>1, <3>3, <3>4 DEF WakeInv, Stood, Woken, StandsBy
    <3> QED
        BY <3>5 DEF Terminal
  <2>2. ASSUME NEW i \in Jobs, Claim(i) \/ Requeue(i) \/ Pause(i) \/ (Finish(i) /\ status[i] = "running")
        PROVE  status[j] \in {"queued", "running", "waiting"}
      BY <1>1, <2>2, <2>t DEF Claim, Requeue, Pause, Finish, Write
  <2>3. ASSUME NEW i \in Jobs, Resume(i) \/ Cancel(i) \/ Expire(i)
        PROVE  i = j /\ status[j] \in Open
      BY <1>1, <2>3, <2>t DEF Resume, Cancel, Expire, Write, Open
  <2>4. ASSUME NEW i \in Jobs,
               Ask(i) \/ Wait(i) \/ Crash(i) \/ Emit(i) \/ (Finish(i) /\ status[i] # "running")
        PROVE  FALSE
      BY <1>1, <2>4 DEF Ask, Wait, Crash, Emit, Finish, row
  <2>5. ~(\E i \in Ids : Commit(i)) /\ ~WakeJobs /\ ~WakeEvents /\ ~WakeCrash /\ ~UNCHANGED vars
      BY <1>1 DEF Commit, WakeJobs, WakeEvents, WakeCrash, vars, row
  <2>6. CASE \E i \in Jobs : Resume(i) \/ Cancel(i) \/ Expire(i)
      BY <2>3, <2>6 DEF Open, Terminal
  <2>7. CASE status[j] \in {"queued", "running", "waiting"}
      BY <2>7 DEF Terminal
  <2> QED
      BY <1>1, <2>1, <2>2, <2>4, <2>5, <2>6, <2>7 DEF Next, Work, Wake
<1>2. WakeInv /\ [Next]_vars =>
        \A j \in Jobs : status'[j] # status[j] =>
            \/ WrittenOver(j)
            \/ /\ status[j] \notin Terminal
               /\ status[j] = "paused" => Resume(j) \/ Cancel(j) \/ Expire(j)
    BY <1>1
<1> QED
    BY <1>2, WakeAlways, PTL DEF Spec, DecisionsStand
------------------------------------------------------------------------------
(* JobTree: a job and its children.                                           *)

\* Every variable keeps its type, and a pass that is about to write how its
\* handler ended knows it.
TreeTypeInv ==
    /\ TreeTypeOK
    /\ ppc \in {"closing", "locked"} => ending # "none"
    /\ ppc = "spawning" => spawning # NoChild

\* The parent's row has one holder, and what the holder has read of the
\* children is still so: nobody ends or bears a child without that lock.
LockInv ==
    /\ ~(ppc = "locked" /\ tree = "locking")
    /\ ppc = "locked" /\ ending = "waiting" /\ ~met => ~AllEnded(child)
    /\ tree = "locking" => parent \in Open /\ want = {c \in Children : child[c] # "none"}
    /\ \A c \in Children : child[c] \in Terminal => c \in ended
    /\ ppc = "got" => ended = Children

\* What a claim counted is still enough: no child starts to run but by a claim,
\* and there is one at a time.
CountInv == CapHolds /\ (claim = "looked" => Cardinality(Running) <= counted)

TreeInv == TreeTypeInv /\ LockInv /\ NoLostWake /\ CountInv /\ GatherSound /\ CancelTakesAll

LEMMA TreeInit == InitTree => TreeInv
<1> SUFFICES ASSUME InitTree PROVE TreeInv
    OBVIOUS
<1>1. TreeTypeInv /\ LockInv /\ NoLostWake /\ GatherSound /\ CancelTakesAll
    BY DEF InitTree, TreeTypeInv, TreeTypeOK, LockInv, NoLostWake, GatherSound, CancelTakesAll, Statuses, Terminal
<1>2. Running = {}
    BY DEF InitTree, Running
<1>3. CountInv
    BY <1>2, FS_EmptySet, TreeAssumption DEF CountInv, CapHolds, InitTree
<1> QED
    BY <1>1, <1>3 DEF TreeInv

LEMMA FiniteRunning == IsFiniteSet(Running) /\ Cardinality(Running) \in Nat
<1>1. Running \subseteq Children
    BY DEF Running
<1>2. IsFiniteSet(Running)
    BY <1>1, FS_Subset, TreeAssumption
<1> QED
    BY <1>2, FS_CardinalityType

LEMMA CapShrinks ==
    ASSUME CountInv, Running' \subseteq Running, UNCHANGED claimVars, counted \in Nat
    PROVE  CountInv'
<1>1. Cardinality(Running') <= Cardinality(Running) /\ IsFiniteSet(Running')
    BY FiniteRunning, FS_Subset
<1>2. Cardinality(Running') \in Nat
    BY <1>1, FS_CardinalityType
<1>3. claim' = claim /\ counted' = counted
    BY DEF claimVars
<1>4. CapHolds'
    BY <1>1, <1>2, FiniteRunning, TreeAssumption DEF CountInv, CapHolds
<1>5. claim' = "looked" => Cardinality(Running') <= counted'
    BY <1>1, <1>2, <1>3, FiniteRunning DEF CountInv
<1> QED
    BY <1>4, <1>5 DEF CountInv

\* What a transaction does that ends a child under both locks.
LEMMA EndKeeps ==
    ASSUME TreeInv, NEW c \in Children, NEW s \in Terminal, ParentFree, ChildEnds(c, s),
           UNCHANGED <<gathered, passVars, sideVars>>
    PROVE  /\ parent' \in Statuses /\ child' \in [Children -> Statuses \cup {"none"}]
           /\ ended' \subseteq Children
           /\ LockInv' /\ NoLostWake' /\ GatherSound' /\ CountInv' /\ CancelTakesAll'
<1> USE DEF TreeInv, TreeTypeInv, TreeTypeOK, LockInv, passVars, sideVars, treeVars, pastVars
<1>1. /\ child' = [child EXCEPT ![c] = s]
      /\ parent' = IF parent = "waiting" /\ AllEnded(child') THEN "queued" ELSE parent
      /\ ended' = ended \cup {c}
    BY DEF ChildEnds
<1>2. s \in Statuses /\ s # "running" /\ s # "none"
    BY DEF Terminal, Statuses
<1>3. parent' \in Statuses /\ child' \in [Children -> Statuses \cup {"none"}] /\ ended' \subseteq Children
    BY <1>1, <1>2 DEF Statuses
<1>4. LockInv'
    BY <1>1, <1>2 DEF ParentFree
<1>5. NoLostWake'
    BY <1>1 DEF NoLostWake
<1>6. GatherSound'
    BY <1>1 DEF GatherSound
<1>7. Running' \subseteq Running
    BY <1>1, <1>2 DEF Running
<1>8. CountInv'
    BY <1>7, CapShrinks
<1>9. CancelTakesAll'
    BY <1>1, <1>2 DEF CancelTakesAll, Open, Terminal
<1> QED
    BY <1>3, <1>4, <1>5, <1>6, <1>8, <1>9

\* A claim takes no more children than are left of the limit.
LEMMA TakeKeepsCap ==
    ASSUME CountInv, counted \in Nat, NEW B \in SUBSET Children, ClaimTake(B),
           child \in [Children -> Statuses \cup {"none"}]
    PROVE  CountInv'
<1>1. claim' = "idle" /\ claim = "looked"
    BY DEF ClaimTake, Taken
<1>2. Running' = Running \cup B
    BY DEF ClaimTake, Taken, Running
<1>3. CASE B = {}
  <2>1. Running' = Running
      BY <1>2, <1>3
  <2> QED
      BY <1>1, <2>1 DEF CountInv, CapHolds
<1>4. CASE B # {}
  <2>1. counted + Cardinality(B) <= Cap /\ Cardinality(Running) <= counted
      BY <1>1, <1>4 DEF ClaimTake, CountInv
  <2>2. IsFiniteSet(B) /\ Cardinality(B) \in Nat
      BY FS_Subset, FS_CardinalityType, TreeAssumption
  <2>3. /\ IsFiniteSet(Running \cup B) /\ IsFiniteSet(Running \cap B)
        /\ Cardinality(Running \cup B) = Cardinality(Running) + Cardinality(B) - Cardinality(Running \cap B)
      BY <2>2, FiniteRunning, FS_Union, FS_Intersection
  <2>4. Cardinality(Running \cap B) \in Nat
      BY <2>3, FS_CardinalityType
  <2>5. Cardinality(Running \cup B) <= Cap
      BY <2>1, <2>2, <2>3, <2>4, FiniteRunning, TreeAssumption
  <2> QED
      BY <1>1, <1>2, <2>5 DEF CountInv, CapHolds
<1> QED
    BY <1>3, <1>4

LEMMA TreeNext == TreeInv /\ [NextTree]_familyVars => TreeInv'
<1> SUFFICES ASSUME TreeInv, [NextTree]_familyVars PROVE TreeInv'
    OBVIOUS
<1> USE TreeAssumption DEF TreeInv, TreeTypeInv, TreeTypeOK, LockInv, NoLostWake, GatherSound, AllEnded,
        CancelTakesAll, passVars, sideVars, claimVars, treeVars, pastVars
<1>0. ASSUME Running' \subseteq Running, UNCHANGED claimVars PROVE CountInv'
    BY <1>0, CapShrinks
<1>1. CASE ParentPass
  <2>1. CASE ClaimParent
      BY <1>0, <2>1 DEF ClaimParent, Running, ParentFree, Statuses, Terminal
  <2>2. CASE Spawn
    <3>1. spawning \in Children
        BY <2>2 DEF Spawn
    <3>2. /\ child' = [child EXCEPT ![spawning] = "queued"] /\ ppc' = "run" /\ spawning' = NoChild
          /\ UNCHANGED <<parent, tries, gathered, ended, ending, met, cpc, claimVars, treeVars, quiet>>
          /\ outlived' = IF tree = "done" THEN outlived \cup {spawning} ELSE outlived
        BY <2>2 DEF Spawn, Born
    <3>3. TreeTypeInv'
        BY <3>1, <3>2 DEF Statuses
    <3>4. LockInv'
        BY <2>2, <3>1, <3>2 DEF Spawn, ParentFree, Terminal
    <3>5. NoLostWake' /\ GatherSound'
        BY <3>1, <3>2 DEF Terminal
    <3>6. CancelTakesAll'
        BY <3>1, <3>2
    <3>7. CountInv'
        BY <1>0, <3>1, <3>2 DEF Running
    <3> QED
        BY <3>3, <3>4, <3>5, <3>6, <3>7
  <2>3. CASE Interrupt
      BY <1>0, <2>3 DEF Interrupt, PassGone, Running, ParentFree, Statuses, Terminal
  <2>4. CASE Gather
      BY <1>0, <2>4 DEF Gather, Running, ParentFree, Statuses, Terminal
  <2>5. CASE RecordGather
      BY <1>0, <2>5 DEF RecordGather, Running, ParentFree, Statuses, Terminal
  <2>6. CASE Return
      BY <1>0, <2>6 DEF Return, Running, ParentFree, Statuses, Terminal
  <2>7. CASE FinishLook
      BY <1>0, <2>7 DEF FinishLook, PassGone, Running, ParentFree, Statuses, Terminal
  <2>8. CASE FinishWrite
      BY <1>0, <2>8 DEF FinishWrite, PassGone, Running, ParentFree, Statuses, Terminal
  <2>9. CASE Stale
      BY <1>0, <2>9 DEF Stale, Running, ParentFree, Statuses, Terminal
  <2>10. ASSUME NEW c \in Children, SpawnBegin(c) PROVE TreeInv'
      BY <1>0, <2>10 DEF SpawnBegin, Running
  <2> QED
      BY <1>1, <2>1, <2>2, <2>3, <2>4, <2>5, <2>6, <2>7, <2>8, <2>9, <2>10 DEF ParentPass
<1>2. CASE Fail \/ CrashParent \/ ExpireParent
  <2>1. CASE Fail
      BY <1>0, <2>1 DEF Fail, Running
  <2>2. CASE CrashParent
      BY <1>0, <2>2 DEF CrashParent, PassGone, Running
  <2>3. CASE ExpireParent
      BY <1>0, <2>3 DEF ExpireParent, ParentFree, Running, Statuses
  <2> QED
      BY <1>2, <2>1, <2>2, <2>3
<1>3. CASE CancelTree \/ CancelAbort \/ Retry \/ PauseParent \/ ResumeParent
    BY <1>0, <1>3 DEF CancelTree, CancelAbort, Retry, PauseParent, ResumeParent, ParentFree, Running, Statuses
<1>4. CASE CancelWrite
  <2>1. Running' \subseteq Running /\ UNCHANGED claimVars
      BY <1>4 DEF CancelWrite, Running
  <2>2. \A c \in Children : child'[c] \notin Open
      BY <1>4 DEF CancelWrite, Open
  <2>3. TreeTypeInv' /\ LockInv' /\ NoLostWake' /\ GatherSound'
      BY <1>4 DEF CancelWrite, Open, Statuses, Terminal
  <2> QED
      BY <1>0, <2>1, <2>2, <2>3
<1>5. ASSUME NEW c \in Children, CancelLock(c) PROVE TreeInv'
    BY <1>0, <1>5 DEF CancelLock, Running
<1>6. ASSUME NEW c \in Children, CancelChild(c) PROVE TreeInv'
  <2>1. "cancelled" \in Terminal /\ ParentFree /\ ChildEnds(c, "cancelled")
      BY <1>6 DEF CancelChild, Terminal
  <2>2. UNCHANGED <<tries, gathered, passVars, cpc, sideVars>>
      BY <1>6 DEF CancelChild
  <2> QED
      BY <2>1, <2>2, EndKeeps
<1>7. ASSUME NEW c \in Children, RetryChild(c) PROVE TreeInv'
  <2>1. /\ child' = [child EXCEPT ![c] = "queued"] /\ tries' = [tries EXCEPT ![c] = @ + 1]
        /\ quiet' = FALSE /\ outlived' = (IF tree = "done" THEN outlived \cup {c} ELSE outlived)
        /\ ChildFree(c) /\ UNCHANGED <<parent, gathered, ended, passVars, cpc, claimVars, treeVars>>
      BY <1>7 DEF RetryChild
  <2>2. CountInv'
      BY <1>0, <2>1 DEF Running
  <2>3. TreeTypeInv'
    <3>1. tries' \in [Children \cup {NoChild} -> Nat] /\ outlived' \subseteq Children
        BY <2>1
    <3>2. child' \in [Children -> Statuses \cup {"none"}]
        BY <2>1 DEF Statuses
    <3> QED
        BY <2>1, <3>1, <3>2
  <2>4. LockInv'
    <3>1. child[c] # "none"
        BY <1>7 DEF RetryChild, Retryable
    <3>2. \A d \in Children : child'[d] = (IF d = c THEN "queued" ELSE child[d])
        BY <2>1
    <3>3. {d \in Children : child'[d] # "none"} = {d \in Children : child[d] # "none"}
        BY <3>1, <3>2
    <3>4. ppc = "locked" /\ ending = "waiting" /\ ~met => ~(\A d \in Children : child'[d] \in Terminal)
        BY <3>2 DEF Terminal
    <3>5. \A d \in Children : child'[d] \in Terminal => d \in ended
        BY <3>2 DEF Terminal
    <3> QED
        BY <2>1, <3>3, <3>4, <3>5
  <2>5. NoLostWake' /\ GatherSound'
      BY <2>1 DEF Terminal
  <2>6. CancelTakesAll'
      BY <2>1
  <2> QED
      BY <2>2, <2>3, <2>4, <2>5, <2>6
<1>8. ASSUME NEW B \in SUBSET Children, ClaimTake(B) PROVE TreeInv'
  <2>1. CountInv'
      BY <1>8, TakeKeepsCap
  <2>2. Taken(B)
      BY <1>8 DEF ClaimTake
  <2>3. TreeTypeInv'
      BY <2>2 DEF Taken, Statuses
  <2>4. LockInv' /\ NoLostWake' /\ GatherSound' /\ CancelTakesAll'
      BY <2>2 DEF Taken, Terminal, Open
  <2> QED
      BY <2>1, <2>3, <2>4
<1>9. CASE ClaimLook
  <2>1. Cardinality(Running) \in Nat /\ Running' = Running
      BY <1>9, FiniteRunning DEF ClaimLook, Running
  <2>2. CountInv'
      BY <1>9, <2>1 DEF ClaimLook, CountInv, CapHolds
  <2> QED
      BY <1>9, <2>1, <2>2 DEF ClaimLook
<1>10. ASSUME NEW c \in Children, ChildAsks(c) \/ ChildAnswered(c) PROVE TreeInv'
    BY <1>0, <1>10 DEF ChildAsks, ChildAnswered, Running, Statuses, Terminal, Open
<1>11. ASSUME NEW c \in Children, PauseChild(c) \/ ResumeChild(c) PROVE TreeInv'
    BY <1>0, <1>11 DEF PauseChild, ResumeChild, Running, Statuses, Terminal, Open
<1>12. ASSUME NEW c \in Children, ChildFinish(c) \/ ChildCrash(c) PROVE TreeInv'
    BY <1>0, <1>12 DEF ChildFinish, ChildCrash, Running
<1>13. ASSUME NEW c \in Children, ChildWakes(c) PROVE TreeInv'
  <2>1. PICK o \in {"succeeded", "failed"} : ChildEnds(c, o)
      BY <1>13 DEF ChildWakes, ChildWritten
  <2>2. o \in Terminal /\ ParentFree
      BY <1>13 DEF ChildWakes, Terminal
  <2>3. UNCHANGED <<tries, gathered, passVars, sideVars>> /\ cpc' = [cpc EXCEPT ![c] = "idle"]
      BY <1>13 DEF ChildWakes, ChildWritten
  <2>4. /\ parent' \in Statuses /\ child' \in [Children -> Statuses \cup {"none"}]
        /\ ended' \subseteq Children
        /\ LockInv' /\ NoLostWake' /\ GatherSound' /\ CountInv' /\ CancelTakesAll'
      BY <2>1, <2>2, <2>3, EndKeeps
  <2>5. cpc' \in [Children -> {"idle", "work", "locked"}]
      BY <2>3
  <2>6. UNCHANGED <<tries, gathered, ppc, spawning, ending, met, claim, counted, tree, want, has, quiet, outlived>>
      BY <2>3
  <2>7. TreeTypeOK'
      BY <2>4, <2>5, <2>6
  <2>8. TreeTypeInv'
      BY <2>6, <2>7
  <2> QED
      BY <2>4, <2>8
<1>14. ASSUME NEW c \in Children, ChildStale(c) PROVE TreeInv'
  <2>1. CASE tries[c] >= MaxCrashes
    <3>1. "failed" \in Terminal /\ ParentFree /\ ChildEnds(c, "failed")
        BY <1>14, <2>1 DEF ChildStale, Terminal
    <3>2. UNCHANGED <<tries, gathered, passVars, cpc, sideVars>>
        BY <1>14, <2>1 DEF ChildStale
    <3> QED
        BY <3>1, <3>2, EndKeeps
  <2>2. CASE ~(tries[c] >= MaxCrashes)
      BY <1>0, <1>14, <2>2 DEF ChildStale, Running, Statuses, Terminal, Open
  <2> QED
      BY <2>1, <2>2
<1>15. ASSUME NEW c \in Children, ChildExpire(c) PROVE TreeInv'
  <2>1. "expired" \in Terminal /\ ParentFree /\ ChildEnds(c, "expired")
      BY <1>15 DEF ChildExpire, Terminal
  <2>2. UNCHANGED <<tries, gathered, passVars, cpc, sideVars>>
      BY <1>15 DEF ChildExpire
  <2> QED
      BY <2>1, <2>2, EndKeeps
<1>16. CASE TakeOffProject
  <2>1. PICK hit \in SUBSET {c \in Children : child[c] \in Open /\ ChildFree(c)}, top \in BOOLEAN :
          /\ parent' = IF top /\ parent \in Open THEN "cancelled" ELSE parent
          /\ child' = [c \in Children |-> IF c \in hit THEN "cancelled" ELSE child[c]]
          /\ ended' = ended \cup hit
          /\ quiet' = (quiet \/ (hit # {} /\ AllEnded(child')))
      BY <1>16 DEF TakeOffProject
  <2>2. ParentFree /\ UNCHANGED <<tries, gathered, passVars, cpc, claimVars, treeVars, outlived>>
      BY <1>16 DEF TakeOffProject
  <2>3. CountInv'
      BY <1>0, <2>1, <2>2 DEF Running
  <2>4. TreeTypeInv'
      BY <2>1, <2>2 DEF Statuses
  <2>5. LockInv' /\ GatherSound'
      BY <2>1, <2>2 DEF ParentFree, Terminal
  <2>6. NoLostWake' /\ CancelTakesAll'
      BY <2>1, <2>2 DEF Open
  <2> QED
      BY <2>3, <2>4, <2>5, <2>6
<1>17. CASE UNCHANGED familyVars
    BY <1>0, <1>17 DEF familyVars, Running
<1> QED
    BY <1>1, <1>2, <1>3, <1>4, <1>5, <1>6, <1>7, <1>8, <1>9, <1>10, <1>11, <1>12, <1>13, <1>14, <1>15,
       <1>16, <1>17 DEF NextTree, Person, Cancelling, Claiming

LEMMA TreeAlways == TreeSpec => []TreeInv
BY TreeInit, TreeNext, PTL DEF TreeSpec

\* No wake-up is lost, for any number of children (wake_parent and _finish,
\* each under the lock of the parent's row), but when cancel_jobs_in_project
\* cancels the last child.
THEOREM WakeUpsArrive == TreeSpec => []NoLostWake
<1>1. TreeInv => NoLostWake
    BY DEF TreeInv
<1> QED
    BY <1>1, TreeAlways, PTL

\* The concurrency limit of a parent holds for any number of children, any limit
\* and batches of any size (claim_runs).
THEOREM CapAlways == TreeSpec => []CapHolds
<1>1. TreeInv => CapHolds
    BY DEF TreeInv, CountInv
<1> QED
    BY <1>1, TreeAlways, PTL

\* A parent that goes on from gather has seen every child come to an end.
THEOREM GatherComplete == TreeSpec => []GatherSound
<1>1. TreeInv => GatherSound
    BY DEF TreeInv
<1> QED
    BY <1>1, TreeAlways, PTL

\* After a cancellation of the tree a child is open only if a person retried it
\* or its insert waited for the cancellation (control.cancel, create_child).
THEOREM CancelComplete == TreeSpec => []CancelTakesAll
<1>1. TreeInv => CancelTakesAll
    BY DEF TreeInv
<1> QED
    BY <1>1, TreeAlways, PTL
=============================================================================
