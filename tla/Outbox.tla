------------------------------- MODULE Outbox -------------------------------
(* The transactional outbox and its two kinds of readers.                     *)
(*                                                                            *)
(* core/events.py draws an event's id from a sequence at the insert; the row  *)
(* is seen, and listeners are notified, when its transaction commits.  So ids *)
(* become visible out of order.                                               *)
(*   - One process's dispatcher (realtime/listener.py, realtime/dispatch.py)  *)
(*     publishes rows to its Hub.  Its Cursor lives in memory: a low-water    *)
(*     mark, the ids above it already delivered, and how long each missing id *)
(*     has been missed.                                                       *)
(*   - The durable consumers (consume_events of agents/triggers.py,           *)
(*     index_changes of ai/embeddings.py) keep the highest id they have read  *)
(*     in consumer_offsets, locked for the pass.  Here: one such consumer and *)
(*     the workers that run its job.                                          *)
(*                                                                            *)
(* Time passes in ticks; every duration is counted from its start and stops   *)
(* at the bound it is compared with.                                          *)
EXTENDS Integers, FiniteSets

CONSTANTS
    N,           \* bound: events ever written
    GapWait,     \* GAP_WAIT
    MaxOpen,     \* bound: the longest a writing transaction stays open
    MaxPass,     \* bound: the longest one dispatch_pending takes
    Batch,       \* BATCH, and the consumer's batch
    Workers,     \* job workers
    MaxBatches,  \* max_batches of a consumer's pass
    MaxFaults    \* bound: lost connections, dead processes, off switches

ASSUME OutboxAssumption ==
    /\ N \in Nat /\ GapWait \in Nat \ {0} /\ MaxOpen \in Nat /\ MaxPass \in Nat
    /\ Batch \in Nat \ {0} /\ MaxBatches \in Nat \ {0} /\ MaxFaults \in Nat

Ids == 1 .. N

VARIABLES
    txn,        \* per id: "unborn", "open", "committed" or "gone" (rolled back)
    open,       \* how long its transaction has been open, or was
    late,       \* history: ids committed after a higher one
    \* the dispatcher of one process
    conn,       \* "down" (no process), "off" (not listening) or "on"
    notes,      \* notifications waiting in its connection
    dpc,        \* "idle", "read", "publish" or "mark"
    low, seen,  \* Cursor.low, Cursor.seen
    gaps,       \* Cursor.gaps: ticks since an id was first missed, or -1
    from,       \* read_from
    rows,       \* what the select of this round returned
    took,       \* how long this dispatch_pending has taken
    began,      \* history: the id the process started from
    published,  \* history: how often it has published each id
    \* the durable consumer
    offset,     \* last_event_id
    handled,    \* how often each event's effects were committed
    dropped,    \* history: ids a kill switch passed over
    holder,     \* the workers that hold the row of consumer_offsets
    at,         \* per worker: its cursor, not yet committed
    mine,       \* per worker: the events handled in its transaction
    rounds,     \* per worker: batches read
    faults

outboxVars   == <<txn, open, late>>
passVars     == <<dpc, from, rows, took>>
cursorVars   == <<low, seen, gaps>>
dispatchVars == <<conn, notes, passVars, cursorVars, began, published>>
workerVars   == <<holder, at, mine, rounds>>
consumerVars == <<offset, handled, dropped, workerVars>>
vars         == <<outboxVars, dispatchVars, consumerVars, faults>>

TypeOK ==
    /\ txn \in [Ids -> {"unborn", "open", "committed", "gone"}]
    /\ open \in [Ids -> 0 .. MaxOpen]
    /\ late \in SUBSET Ids
    /\ conn \in {"down", "off", "on"} /\ notes \in Nat
    /\ dpc \in {"idle", "read", "publish", "mark"}
    /\ low \in 0 .. N /\ seen \in SUBSET Ids
    /\ gaps \in [Ids -> -1 .. GapWait]
    /\ from \in 0 .. N /\ rows \in SUBSET Ids /\ took \in 0 .. MaxPass
    /\ began \in 0 .. N /\ published \in [Ids -> Nat]
    /\ offset \in 0 .. N /\ handled \in [Ids -> Nat] /\ dropped \in SUBSET Ids
    /\ holder \in SUBSET Workers
    /\ at \in [Workers -> 0 .. N] /\ mine \in [Workers -> SUBSET Ids]
    /\ rounds \in [Workers -> 0 .. MaxBatches]
    /\ faults \in 0 .. MaxFaults

Visible == {i \in Ids : txn[i] = "committed"}

\* GAP_WAIT is "longer than any normal write".  A slow one comes near it: with a
\* dispatch_pending that reads before the commit it is as long.  The body of a
\* step and a pass of the rules hold their ids open as long as they take.
Slow(i) == open[i] + MaxPass >= GapWait

\* select max(id), over the rows that can be seen
IsNewest(m) ==
    /\ m \in Visible \cup {0}
    /\ \A i \in Visible : i <= m

\* B is what "where id > after order by id limit Batch" returns.
IsBatch(B, after) ==
    LET S == {i \in Visible : i > after}
    IN  /\ B \subseteq S
        /\ \A b \in B, i \in S : i < b => i \in B
        /\ Cardinality(B) = Batch \/ (B = S /\ Cardinality(B) < Batch)

Init ==
    /\ txn = [i \in Ids |-> "unborn"] /\ open = [i \in Ids |-> 0] /\ late = {}
    /\ conn = "down" /\ notes = 0
    /\ dpc = "idle" /\ from = 0 /\ rows = {} /\ took = 0
    /\ low = 0 /\ seen = {} /\ gaps = [i \in Ids |-> -1]
    /\ began = 0 /\ published = [i \in Ids |-> 0]
    /\ offset = 0 /\ handled = [i \in Ids |-> 0] /\ dropped = {}
    /\ holder = {} /\ at = [w \in Workers |-> 0] /\ mine = [w \in Workers |-> {}]
    /\ rounds = [w \in Workers |-> 0]
    /\ faults = 0

-----------------------------------------------------------------------------
(* The writers.                                                               *)

\* emit: the insert draws the next id of the sequence.
Emit(i) ==
    /\ txn[i] = "unborn" /\ \A j \in 1 .. i - 1 : txn[j] # "unborn"
    /\ txn' = [txn EXCEPT ![i] = "open"]
    /\ UNCHANGED <<open, late, dispatchVars, consumerVars, faults>>

\* Its transaction commits: Postgres delivers the pg_notify of emit.
Commit(i) ==
    /\ txn[i] = "open"
    /\ txn' = [txn EXCEPT ![i] = "committed"]
    /\ late' = IF \E j \in Visible : j > i THEN late \cup {i} ELSE late
    /\ notes' = IF conn = "on" THEN notes + 1 ELSE notes
    /\ UNCHANGED <<open, conn, passVars, cursorVars, began, published, consumerVars, faults>>

Rollback(i) ==
    /\ txn[i] = "open"
    /\ txn' = [txn EXCEPT ![i] = "gone"]
    /\ UNCHANGED <<open, late, dispatchVars, consumerVars, faults>>

\* A tick of time.
Tick ==
    /\ \A i \in Ids : txn[i] = "open" => open[i] < MaxOpen
    /\ dpc # "idle" => took < MaxPass
    /\ open' = [i \in Ids |-> IF txn[i] = "open" THEN open[i] + 1 ELSE open[i]]
    /\ gaps' = [i \in Ids |-> IF gaps[i] \in 0 .. GapWait - 1 THEN gaps[i] + 1 ELSE gaps[i]]
    /\ took' = IF dpc # "idle" THEN took + 1 ELSE took
    /\ UNCHANGED <<txn, late, conn, notes, dpc, from, rows, low, seen, began, published,
                   consumerVars, faults>>

-----------------------------------------------------------------------------
(* The dispatcher.                                                            *)

\* _starting_cursor: a process starts from the newest row it can see.
Boot ==
    /\ conn = "down"
    /\ conn' = "off"
    /\ IsNewest(began')
    /\ low' = began'
    /\ UNCHANGED <<outboxVars, notes, passVars, seen, gaps, published, consumerVars, faults>>

StartPass == dpc' = "read" /\ from' = low /\ rows' = {} /\ took' = 0

\* Faulty variant of Listen: it goes straight to waiting for notifications.
ListenOnly ==
    /\ conn = "off"
    /\ conn' = "on" /\ notes' = 0
    /\ UNCHANGED <<outboxVars, passVars, cursorVars, began, published, consumerVars, faults>>

\* run_listener connects and LISTENs, then looks for what it has missed.
Listen ==
    /\ conn = "off"
    /\ conn' = "on" /\ notes' = 0
    /\ StartPass
    /\ UNCHANGED <<outboxVars, cursorVars, began, published, consumerVars, faults>>

Notified ==
    /\ conn = "on" /\ dpc = "idle" /\ notes > 0
    /\ notes' = notes - 1
    /\ StartPass
    /\ UNCHANGED <<outboxVars, conn, cursorVars, began, published, consumerVars, faults>>

\* dispatch_pending: the select of a round.
Read ==
    /\ dpc = "read"
    /\ dpc' = "publish"
    /\ rows' \in SUBSET Ids /\ IsBatch(rows', from)
    /\ UNCHANGED <<outboxVars, conn, notes, from, took, cursorVars, began, published,
                   consumerVars, faults>>

IsTop(t, D) == t \in D \cup {low} /\ \A i \in D \cup {low} : i <= t

\* Faulty variant of Advance: it forgets what it delivered above the mark.
AdvanceForget(D) == low' = low /\ seen' = {} /\ UNCHANGED gaps

\* Cursor.advance over the delivered ids D: the mark stops below the first id
\* that is neither delivered nor missed for GAP_WAIT, and starts its wait.
Advance(D) ==
    \E top \in D \cup {low} :
        LET Stop(i) == i \notin D /\ gaps[i] < GapWait
        IN  /\ IsTop(top, D)
            /\ low' \in low .. top
            /\ \A i \in low + 1 .. low' : ~Stop(i)
            /\ low' < top => Stop(low' + 1)
            /\ seen' = {i \in D : i > low'}
            /\ gaps' = [i \in Ids |->
                           IF i \in low + 1 .. low' THEN -1
                           ELSE IF i = low' + 1 /\ low' < top /\ gaps[i] = -1 THEN 0
                           ELSE gaps[i]]

\* The rows not delivered yet are published; a full round is followed by
\* another, a short one by the cursor's advance.
Publish ==
    /\ dpc = "publish"
    /\ published' = [i \in Ids |-> IF i \in rows \ seen THEN published[i] + 1 ELSE published[i]]
    /\ \/ /\ Cardinality(rows) = Batch
          /\ from' \in rows /\ \A i \in rows : i <= from'
          /\ seen' = seen \cup rows
          /\ dpc' = "read"
          /\ UNCHANGED <<low, gaps>>
       \/ /\ Cardinality(rows) < Batch
          /\ Advance(seen \cup rows)
          /\ dpc' = "mark"
          /\ UNCHANGED from
    /\ rows' = {}
    /\ UNCHANGED <<outboxVars, conn, notes, took, began, consumerVars, faults>>

\* dispatched_at is set, for monitoring, and the pass is over.
Mark ==
    /\ dpc = "mark"
    /\ dpc' = "idle" /\ from' = 0 /\ took' = 0
    /\ UNCHANGED <<outboxVars, conn, notes, rows, cursorVars, began, published,
                   consumerVars, faults>>

EndPass == dpc' = "idle" /\ from' = 0 /\ rows' = {} /\ took' = 0

\* The connection or a statement fails: the cursor is kept.
Disconnect ==
    /\ faults < MaxFaults /\ faults' = faults + 1
    /\ conn = "on"
    /\ conn' = "off" /\ notes' = 0
    /\ EndPass
    /\ UNCHANGED <<outboxVars, cursorVars, began, published, consumerVars>>

\* The process dies, and its cursor with it.
Die ==
    /\ faults < MaxFaults /\ faults' = faults + 1
    /\ conn # "down"
    /\ conn' = "down" /\ notes' = 0
    /\ EndPass
    /\ low' = 0 /\ seen' = {} /\ gaps' = [i \in Ids |-> -1]
    /\ began' = 0 /\ published' = [i \in Ids |-> 0]
    /\ UNCHANGED <<outboxVars, consumerVars>>

-----------------------------------------------------------------------------
(* The durable consumer.                                                      *)

\* Faulty variant of Lock: the row is read without for update.
LockFreely(w) ==
    /\ w \notin holder
    /\ holder' = holder \cup {w}
    /\ at' = [at EXCEPT ![w] = offset]
    /\ UNCHANGED <<outboxVars, dispatchVars, offset, handled, dropped, mine, rounds, faults>>

\* _cursor: select ... for update.
Lock(w) ==
    /\ holder = {}
    /\ holder' = {w}
    /\ at' = [at EXCEPT ![w] = offset]
    /\ UNCHANGED <<outboxVars, dispatchVars, offset, handled, dropped, mine, rounds, faults>>

\* A round: the events of a batch are handled, in order; an index run whose AI
\* call fails has handled only some of them.
Handle(w) ==
    /\ w \in holder /\ rounds[w] < MaxBatches
    /\ \E B \in SUBSET Ids :
          /\ IsBatch(B, at[w]) /\ B # {}
          /\ \E last \in B :
                /\ mine' = [mine EXCEPT ![w] = @ \cup {i \in B : i <= last}]
                /\ at' = [at EXCEPT ![w] = last]
                /\ rounds' = [rounds EXCEPT ![w] =
                                 IF \E i \in B : i > last THEN MaxBatches ELSE @ + 1]
    /\ UNCHANGED <<outboxVars, dispatchVars, offset, handled, dropped, holder, faults>>

Unlock(w) ==
    /\ holder' = holder \ {w}
    /\ at' = [at EXCEPT ![w] = 0]
    /\ mine' = [mine EXCEPT ![w] = {}]
    /\ rounds' = [rounds EXCEPT ![w] = 0]

\* Faulty variant of Finish: it waits until it has done enough.
FinishFull(w) ==
    /\ w \in holder /\ rounds[w] = MaxBatches
    /\ offset' = at[w]
    /\ handled' = [i \in Ids |-> IF i \in mine[w] THEN handled[i] + 1 ELSE handled[i]]
    /\ Unlock(w)
    /\ UNCHANGED <<outboxVars, dispatchVars, dropped, faults>>

\* Nothing is left, or enough was done: the work and the cursor commit.
Finish(w) ==
    /\ w \in holder
    /\ rounds[w] = MaxBatches \/ IsBatch({}, at[w])
    /\ offset' = at[w]
    /\ handled' = [i \in Ids |-> IF i \in mine[w] THEN handled[i] + 1 ELSE handled[i]]
    /\ Unlock(w)
    /\ UNCHANGED <<outboxVars, dispatchVars, dropped, faults>>

\* The kill switch is off: the pass moves the cursor over what happened.
PassOver(w) ==
    /\ faults < MaxFaults /\ faults' = faults + 1
    /\ w \in holder /\ rounds[w] = 0
    /\ \E m \in 0 .. N :
          /\ IsNewest(m)
          /\ offset' = IF m > at[w] THEN m ELSE at[w]
    /\ dropped' = dropped \cup {i \in Visible : i > at[w]}
    /\ Unlock(w)
    /\ UNCHANGED <<outboxVars, dispatchVars, handled>>

\* The worker dies or its pass raises: its transaction is rolled back.  (An
\* index run whose first AI call fails leaves no more behind.)
Abort(w) ==
    /\ faults < MaxFaults /\ faults' = faults + 1
    /\ w \in holder
    /\ Unlock(w)
    /\ UNCHANGED <<outboxVars, dispatchVars, offset, handled, dropped>>

Write    == \E i \in Ids : Emit(i) \/ Commit(i) \/ Rollback(i)
Dispatch == Boot \/ Listen \/ Notified \/ Read \/ Publish \/ Mark
Consume  == \E w \in Workers : Lock(w) \/ Handle(w) \/ Finish(w)
Fault    == Disconnect \/ Die \/ \E w \in Workers : PassOver(w) \/ Abort(w)

Next == Write \/ Tick \/ Dispatch \/ Consume \/ Fault

Spec == Init /\ [][Next]_vars

\* A process keeps its listener running and backs off between attempts; the
\* consumer's job runs every minute.  Nothing makes a transaction
\* end or time pass.
FairSpec == Spec /\ WF_vars(Dispatch) /\ WF_vars(Consume)

-----------------------------------------------------------------------------
(* Properties.                                                                *)

\* "re-reads don't publish them twice": one process never hands an event to its
\* Hub a second time, however often the rows above the mark are read again and
\* whatever pass failed half-way.
PublishedOnce == \A i \in Ids : published[i] <= 1

\* The low-water mark "only moves past an id once it has been delivered", or
\* when it will never be: every event of the process's lifetime at or below it
\* is published or rolled back, or its writer was slow.
LowWaterHolds ==
    conn # "down" =>
        \A i \in Ids : i > began /\ i <= low => txn[i] = "gone" \/ published[i] = 1 \/ Slow(i)

OnTimeHandled ==
    \A i \in Visible : i <= offset /\ i \notin late \cup dropped => handled[i] = 1

\* The events of a pass that crashed are handled by a later one and those of a
\* pass that committed are not handled again, whoever races for the cursor: no
\* event twice, and each one behind the cursor once, except those whose ids and
\* commits did not keep their order and those a kill switch passed over.
ExactlyOnce == OnTimeHandled /\ \A i \in Ids : handled[i] <= 1

\* What docs/architecture/realtime-jobs-events.md says of every job consumer,
\* "at-least-once": an event behind the cursor has been handled.  It does not
\* hold of one whose id was given earlier and whose commit came later.
AtLeastOnce ==
    \A i \in Visible : i <= offset /\ i \notin dropped => handled[i] >= 1

\* A committed event reaches the tabs of a process that was up before it, by
\* its notification or by the pass that follows a reconnection, unless its
\* writer was slow: the gap it left may have been given up by then.
TabsHear ==
    \A i \in Ids :
        (i \in Visible /\ conn # "down" /\ i > began /\ ~Slow(i))
            ~> (published[i] >= 1 \/ conn = "down")

\* The consumer's cursor passes every committed event.
CatchesUp == \A i \in Ids : (i \in Visible) ~> (offset >= i)
=============================================================================
