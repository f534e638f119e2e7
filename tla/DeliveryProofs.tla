--------------------------- MODULE DeliveryProofs ----------------------------
(* Theorems about the outbox (module Outbox) and about the live feed of a tab *)
(* behind it (module LiveFeed), for any number of events and workers, any     *)
(* durations, any queue and any replay limit.                                 *)
(*                                                                            *)
(* PublishedOnce rests on SeenInv: what a process has published is at or      *)
(* below its mark or remembered above it, and a pass never reads from below   *)
(* the mark.  LowWaterHolds needs time: by GapInv a committed event that a    *)
(* pass has read past was missed no longer than its transaction was open and  *)
(* the pass has taken, so a gap given up is that of a slow writer.  The       *)
(* consumer's theorems rest on ConsumerInv: its pass covers the events from   *)
(* the offset to its own cursor, except late ones.  NoOtherGap rests on       *)
(* FeedInv: an event that a tab does not show is named as missed, or it is on *)
(* its way.                                                                   *)
EXTENDS Outbox, LiveFeed, TLAPS, FiniteSetTheorems

-----------------------------------------------------------------------------
(* The outbox and its readers.                                                *)

\* Every variable keeps its type.
LEMMA TypeStep ==
    ASSUME TypeOK, [Next]_vars
    PROVE  TypeOK'
<1>0. /\ 0 \in 0 .. N /\ 0 \in 0 .. MaxOpen /\ 0 \in 0 .. MaxPass /\ 0 \in 0 .. MaxBatches
      /\ 0 \in -1 .. GapWait /\ -1 \in -1 .. GapWait
      /\ Ids \subseteq 0 .. N
      /\ N \in Nat /\ MaxOpen \in Nat /\ MaxPass \in Nat /\ GapWait \in Nat /\ GapWait > 0
      /\ MaxBatches \in Nat /\ MaxFaults \in Nat
    BY OutboxAssumption DEF Ids
<1>. USE <1>0 DEF TypeOK, outboxVars, passVars, cursorVars, dispatchVars, workerVars,
        consumerVars, StartPass, EndPass
<1>1. CASE UNCHANGED vars BY <1>1 DEF vars
<1>2. ASSUME NEW i \in Ids, Emit(i) PROVE TypeOK' BY <1>2 DEF Emit
<1>3. ASSUME NEW i \in Ids, Commit(i) PROVE TypeOK' BY <1>3 DEF Commit
<1>4. ASSUME NEW i \in Ids, Rollback(i) PROVE TypeOK' BY <1>4 DEF Rollback
<1>5. CASE Tick
  <2>1. open' \in [Ids -> 0 .. MaxOpen] BY <1>5 DEF Tick
  <2>2. gaps' \in [Ids -> -1 .. GapWait] BY <1>5 DEF Tick
  <2>3. took' \in 0 .. MaxPass BY <1>5 DEF Tick
  <2>. QED BY <1>5, <2>1, <2>2, <2>3 DEF Tick
<1>6. CASE Boot BY <1>6 DEF Boot, IsNewest, Visible
<1>7. CASE Listen BY <1>7 DEF Listen
<1>8. CASE Notified BY <1>8 DEF Notified
<1>9. CASE Read BY <1>9 DEF Read
<1>10. CASE Publish
  <2>1. published' \in [Ids -> Nat] BY <1>10 DEF Publish
  <2>2. rows' \in SUBSET Ids /\ dpc' \in {"read", "mark"} BY <1>10 DEF Publish
  <2>3. /\ from' \in 0 .. N /\ low' \in 0 .. N /\ seen' \in SUBSET Ids
        /\ gaps' \in [Ids -> -1 .. GapWait]
    <3>1. CASE Cardinality(rows) = Batch /\ UNCHANGED <<low, gaps>> /\ from' \in rows
               /\ seen' = seen \cup rows
      <4>1. from' \in 0 .. N /\ seen' \in SUBSET Ids BY <3>1
      <4>2. low' = low /\ gaps' = gaps BY <3>1
      <4>. QED BY <4>1, <4>2
    <3>2. CASE Advance(seen \cup rows) /\ UNCHANGED from
      <4>1. PICK top \in seen \cup rows \cup {low} :
               /\ low' \in low .. top
               /\ seen' = {i \in seen \cup rows : i > low'}
               /\ gaps' = [i \in Ids |->
                             IF i \in low + 1 .. low' THEN -1
                             ELSE IF i = low' + 1 /\ low' < top /\ gaps[i] = -1 THEN 0
                             ELSE gaps[i]]
        BY <3>2 DEF Advance
      <4>2. gaps' \in [Ids -> -1 .. GapWait] BY <4>1
      <4>3. top \in 0 .. N OBVIOUS
      <4>4. low' \in 0 .. N BY <4>1, <4>3
      <4>5. seen' \in SUBSET Ids BY <4>1
      <4>6. from' = from BY <3>2
      <4>. QED BY <4>2, <4>4, <4>5, <4>6
    <3>. QED BY <1>10, <3>1, <3>2 DEF Publish
  <2>. QED BY <1>10, <2>1, <2>2, <2>3 DEF Publish
<1>11. CASE Mark BY <1>11 DEF Mark
<1>12. CASE Disconnect BY <1>12 DEF Disconnect
<1>13. CASE Die
  <2>1. gaps' \in [Ids -> -1 .. GapWait] /\ published' \in [Ids -> Nat] BY <1>13 DEF Die
  <2>. QED BY <1>13, <2>1 DEF Die
<1>14. ASSUME NEW w \in Workers, Lock(w) PROVE TypeOK' BY <1>14 DEF Lock
<1>15. ASSUME NEW w \in Workers, Handle(w) PROVE TypeOK'
  <2>1. PICK B \in SUBSET Ids, newest \in Ids :
           /\ newest \in B
           /\ mine' = [mine EXCEPT ![w] = @ \cup {i \in B : i <= newest}]
           /\ at' = [at EXCEPT ![w] = newest]
           /\ rounds' = [rounds EXCEPT ![w] =
                            IF \E i \in B : i > newest THEN MaxBatches ELSE @ + 1]
    BY <1>15 DEF Handle
  <2>2. rounds[w] + 1 \in 0 .. MaxBatches BY <1>15 DEF Handle
  <2>3. rounds' \in [Workers -> 0 .. MaxBatches] BY <2>1, <2>2
  <2>4. mine' \in [Workers -> SUBSET Ids] BY <2>1
  <2>. QED BY <1>15, <2>1, <2>3, <2>4 DEF Handle
<1>16. ASSUME NEW w \in Workers, Unlock(w)
       PROVE  /\ holder' \in SUBSET Workers /\ at' \in [Workers -> 0 .. N]
              /\ mine' \in [Workers -> SUBSET Ids] /\ rounds' \in [Workers -> 0 .. MaxBatches]
  BY <1>16 DEF Unlock
<1>17. ASSUME NEW w \in Workers, Finish(w) PROVE TypeOK'
  <2>1. handled' \in [Ids -> Nat] BY <1>17 DEF Finish
  <2>2. offset' \in 0 .. N BY <1>17 DEF Finish
  <2>3. Unlock(w) BY <1>17 DEF Finish
  <2>. QED BY <1>16, <1>17, <2>1, <2>2, <2>3 DEF Finish
<1>18. ASSUME NEW w \in Workers, PassOver(w) PROVE TypeOK'
  <2>1. offset' \in 0 .. N BY <1>18 DEF PassOver
  <2>2. Unlock(w) BY <1>18 DEF PassOver
  <2>3. dropped' \in SUBSET Ids BY <1>18 DEF PassOver, Visible
  <2>. QED BY <1>16, <1>18, <2>1, <2>2, <2>3 DEF PassOver
<1>19. ASSUME NEW w \in Workers, Abort(w) PROVE TypeOK'
  <2>1. Unlock(w) BY <1>19 DEF Abort
  <2>. QED BY <1>16, <1>19, <2>1 DEF Abort
<1>. QED
  BY <1>1, <1>2, <1>3, <1>4, <1>5, <1>6, <1>7, <1>8, <1>9, <1>10, <1>11, <1>12, <1>13,
     <1>14, <1>15, <1>17, <1>18, <1>19 DEF Next, Write, Dispatch, Consume, Fault

\* Type correctness of the outbox and its readers.
THEOREM TypeCorrect == Spec => []TypeOK
<1>1. Init => TypeOK
  BY OutboxAssumption DEF Init, TypeOK, Ids
<1>2. TypeOK /\ [Next]_vars => TypeOK' BY TypeStep
<1>. QED BY <1>1, <1>2, PTL DEF Spec

-----------------------------------------------------------------------------
(* An event is published once.                                                *)

SeenInv ==
    /\ TypeOK
    /\ seen \subseteq Visible /\ \A i \in seen : i > low /\ published[i] = 1
    /\ rows \subseteq Visible /\ \A i \in rows : i > from
    /\ rows # {} => dpc = "publish"
    /\ dpc \in {"read", "publish"} => from >= low
    /\ conn = "down" => low = 0 /\ seen = {} /\ dpc = "idle" /\ \A i \in Ids : published[i] = 0
    /\ began <= low
    /\ \A i \in Ids : published[i] <= 1 /\ (published[i] = 1 => i <= low \/ i \in seen)

\* A row that can be seen stays.
LEMMA VisibleGrows ==
    ASSUME TypeOK, [Next]_vars
    PROVE  Visible \subseteq Visible'
<1>. USE DEF TypeOK, Visible, outboxVars
<1>1. ASSUME NEW i \in Ids, Emit(i) \/ Commit(i) \/ Rollback(i) PROVE Visible \subseteq Visible'
    BY <1>1 DEF Emit, Commit, Rollback
<1>2. ASSUME txn' = txn PROVE Visible \subseteq Visible' BY <1>2
<1>3. \/ \E i \in Ids : Emit(i) \/ Commit(i) \/ Rollback(i)
      \/ txn' = txn
    BY DEF Next, Write, Dispatch, Consume, Fault, Tick, Boot, Listen, Notified, Read, Publish,
       Mark, Disconnect, Die, Lock, Handle, Finish, PassOver, Abort, vars
<1>. QED BY <1>1, <1>2, <1>3

\* The steps that leave the dispatcher's pass and cursor alone.
LEMMA SeenQuiet ==
    ASSUME SeenInv, TypeOK', Visible \subseteq Visible',
           UNCHANGED <<conn, dpc, from, rows, low, seen, began, published>>
    PROVE  SeenInv'
BY DEF SeenInv

LEMMA SeenStep ==
    ASSUME SeenInv, [Next]_vars
    PROVE  SeenInv'
<1>1. TypeOK' /\ Visible \subseteq Visible' BY TypeStep, VisibleGrows DEF SeenInv
<1>0. /\ low \in Nat /\ from \in Nat /\ began \in Nat /\ N \in Nat
      /\ low' \in Nat /\ from' \in Nat /\ began' \in Nat
      /\ \A i \in Ids : i \in Nat /\ i >= 1 /\ published[i] \in Nat /\ published'[i] \in Nat
      /\ seen \subseteq Ids /\ rows \subseteq Ids
  <2>1. N \in Nat /\ Ids = 1 .. N BY OutboxAssumption DEF Ids
  <2>2. /\ low \in 0 .. N /\ from \in 0 .. N /\ began \in 0 .. N
        /\ seen \subseteq Ids /\ rows \subseteq Ids /\ published \in [Ids -> Nat]
      BY DEF SeenInv, TypeOK
  <2>3. /\ low' \in 0 .. N /\ from' \in 0 .. N /\ began' \in 0 .. N
        /\ published' \in [Ids -> Nat]
      BY <1>1 DEF TypeOK
  <2>4. \A i \in Ids : i \in Nat /\ i >= 1 BY <2>1
  <2>. QED BY <2>1, <2>2, <2>3, <2>4
<1>2. CASE \/ UNCHANGED vars \/ Write \/ Tick \/ Consume
           \/ \E w \in Workers : PassOver(w) \/ Abort(w)
  <2>. USE DEF dispatchVars, passVars, cursorVars
  <2>1. UNCHANGED <<conn, dpc, from, rows, low, seen, began, published>>
      BY <1>2 DEF vars, Write, Emit, Commit, Rollback, Tick, Consume, Lock, Handle, Finish,
         PassOver, Abort
  <2>. QED BY <1>1, <2>1, SeenQuiet
<1>3. CASE Boot
  <2>1. /\ low' = began' /\ conn = "down" /\ conn' = "off"
        /\ UNCHANGED <<dpc, from, rows, seen, published>>
      BY <1>3 DEF Boot, passVars
  <2>. QED BY <1>0, <1>1, <2>1 DEF SeenInv
<1>4. CASE Listen \/ Notified
  <2>1. /\ dpc' = "read" /\ from' = low /\ rows' = {} /\ conn' = "on"
        /\ UNCHANGED <<low, seen, began, published>>
      BY <1>4 DEF Listen, Notified, StartPass, cursorVars
  <2>. QED BY <1>0, <1>1, <2>1 DEF SeenInv
<1>5. CASE Read
  <2>1. /\ dpc = "read" /\ dpc' = "publish"
        /\ UNCHANGED <<txn, conn, from, low, seen, began, published>>
        /\ rows' \subseteq {i \in Visible : i > from}
      BY <1>5 DEF Read, IsBatch, cursorVars, outboxVars
  <2>2. rows' \subseteq Visible' /\ \A i \in rows' : i > from'
      BY <1>1, <2>1
  <2>. QED BY <1>0, <1>1, <2>1, <2>2 DEF SeenInv
<1>6. CASE Publish
  <2>1. /\ dpc = "publish" /\ rows' = {}
        /\ published' = [i \in Ids |-> IF i \in rows \ seen THEN published[i] + 1 ELSE published[i]]
        /\ UNCHANGED <<conn, began>>
      BY <1>6 DEF Publish
  <2>2. \A i \in rows : i > low BY <1>0, <2>1 DEF SeenInv
  <2>3. \A i \in rows \ seen : published[i] = 0
      BY <1>0, <2>2 DEF SeenInv
  <2>4. \A i \in Ids : published'[i] = IF i \in rows THEN 1 ELSE published[i]
      BY <1>0, <2>1, <2>3 DEF SeenInv
  <2>5. conn # "down" /\ conn' # "down" BY <2>1 DEF SeenInv
  <2>6. CASE /\ dpc' = "read" /\ from' \in rows /\ seen' = seen \cup rows /\ low' = low
    <3>1. from' >= low' BY <1>0, <2>2, <2>6
    <3>2. seen' \subseteq Visible' BY <1>1, <2>6 DEF SeenInv
    <3>3. \A i \in seen' : i > low' /\ published'[i] = 1
        BY <1>0, <2>2, <2>4, <2>6 DEF SeenInv
    <3>4. \A i \in Ids : published'[i] <= 1 /\ (published'[i] = 1 => i <= low' \/ i \in seen')
        BY <1>0, <2>4, <2>6 DEF SeenInv
    <3>. QED BY <1>1, <2>1, <2>5, <2>6, <3>1, <3>2, <3>3, <3>4 DEF SeenInv
  <2>7. CASE Advance(seen \cup rows) /\ dpc' = "mark" /\ from' = from
    <3>1. PICK top \in seen \cup rows \cup {low} :
             low' \in low .. top /\ seen' = {i \in seen \cup rows : i > low'}
        BY <2>7 DEF Advance
    <3>2. low' >= low BY <1>0, <3>1
    <3>3. seen' \subseteq Visible' BY <1>1, <3>1 DEF SeenInv
    <3>4. \A i \in seen' : i > low' /\ published'[i] = 1
        BY <1>0, <2>4, <3>1 DEF SeenInv
    <3>5. \A i \in Ids : published'[i] <= 1 /\ (published'[i] = 1 => i <= low' \/ i \in seen')
        BY <1>0, <2>4, <3>1, <3>2 DEF SeenInv
    <3>6. began' <= low' BY <1>0, <2>1, <3>2 DEF SeenInv
    <3>. QED BY <1>1, <2>1, <2>5, <2>7, <3>3, <3>4, <3>5, <3>6 DEF SeenInv
  <2>. QED BY <1>6, <2>6, <2>7 DEF Publish
<1>7. CASE Mark \/ Disconnect
  <2>1. /\ dpc' = "idle" /\ (rows' = {} \/ (rows' = rows /\ dpc = "mark"))
        /\ (conn' = "off" \/ conn' = conn)
        /\ UNCHANGED <<low, seen, began, published>>
      BY <1>7 DEF Mark, Disconnect, EndPass, cursorVars
  <2>2. rows' = {} BY <2>1 DEF SeenInv
  <2>. QED BY <1>0, <1>1, <2>1, <2>2 DEF SeenInv
<1>8. CASE Die
  <2>1. /\ dpc' = "idle" /\ rows' = {} /\ low' = 0 /\ seen' = {} /\ began' = 0
        /\ published' = [i \in Ids |-> 0]
      BY <1>8 DEF Die, EndPass
  <2>2. \A i \in Ids : published'[i] = 0 BY <2>1
  <2>. QED BY <1>1, <2>1, <2>2 DEF SeenInv
<1>. QED BY <1>2, <1>3, <1>4, <1>5, <1>6, <1>7, <1>8 DEF Next, Dispatch, Fault

LEMMA SeenInit == Init => SeenInv
<1>1. Init => TypeOK BY OutboxAssumption DEF Init, TypeOK, Ids
<1>. QED BY <1>1 DEF Init, SeenInv

\* No process hands an event to its Hub twice, whatever order events commit in
\* and whichever pass fails.
THEOREM PublishesOnce == Spec => []PublishedOnce
<1>1. SeenInv => PublishedOnce BY DEF SeenInv, PublishedOnce
<1>. QED BY <1>1, SeenInit, SeenStep, PTL DEF Spec

-----------------------------------------------------------------------------
(* What the low-water mark leaves behind never commits.                       *)

\* An id is missed only while a higher one is visible, so after its insert.
NoticedInv ==
    /\ \A i \in Ids : txn[i] # "unborn" => \A j \in 1 .. i - 1 : txn[j] # "unborn"
    /\ \A i \in Ids : gaps[i] >= 0 =>
          i > low /\ txn[i] # "unborn" /\ (txn[i] = "open" => gaps[i] <= open[i])
    /\ conn = "down" => \A i \in Ids : gaps[i] = -1

\* Passed(i): the pass has read past an event that was not to be seen yet.
Passed(i) ==
    \/ dpc \in {"read", "publish"} /\ i > low /\ i <= from /\ i \notin seen
    \/ /\ dpc = "publish" /\ i > from /\ i \notin rows
       /\ (\E r \in rows : i < r) \/ Cardinality(rows) < Batch

\* If it has committed since, it was not missed longer than it took to write it
\* and the pass has taken.
PassedInv == \A i \in Visible : Passed(i) => gaps[i] <= open[i] + took

GapInv == SeenInv /\ NoticedInv /\ PassedInv /\ LowWaterHolds

LEMMA NextUp ==
    ASSUME NEW a \in Nat, NEW b \in Nat, NEW c, c = a + 1, a < b
    PROVE  c > a /\ (c = b \/ c \in 1 .. b - 1)
OBVIOUS

\* The ranges the arithmetic of the proofs needs.
LEMMA Ranges ==
    ASSUME TypeOK
    PROVE  /\ Ids = 1 .. N /\ N \in Nat /\ MaxOpen \in Nat /\ MaxPass \in Nat
           /\ GapWait \in Nat /\ GapWait > 0
           /\ low \in Nat /\ from \in Nat /\ began \in Nat /\ low <= N /\ from <= N
           /\ took \in Nat /\ took <= MaxPass
           /\ seen \subseteq Ids /\ rows \subseteq Ids /\ Visible \subseteq Ids
           /\ gaps \in [Ids -> -1 .. GapWait] /\ open \in [Ids -> 0 .. MaxOpen]
           /\ \A i \in Ids : /\ i \in Nat /\ i >= 1
                             /\ gaps[i] \in Int /\ gaps[i] >= -1 /\ gaps[i] <= GapWait
                             /\ open[i] \in Nat /\ open[i] <= MaxOpen
<1>1. /\ N \in Nat /\ MaxOpen \in Nat /\ MaxPass \in Nat /\ GapWait \in Nat /\ GapWait > 0
    BY OutboxAssumption
<1>2. Ids = 1 .. N BY DEF Ids
<1>3. /\ low \in 0 .. N /\ from \in 0 .. N /\ began \in 0 .. N /\ took \in 0 .. MaxPass
      /\ seen \subseteq Ids /\ rows \subseteq Ids /\ Visible \subseteq Ids
    BY DEF TypeOK, Visible
<1>4. gaps \in [Ids -> -1 .. GapWait] /\ open \in [Ids -> 0 .. MaxOpen] BY DEF TypeOK
<1>5. \A i \in Ids : gaps[i] \in -1 .. GapWait /\ open[i] \in 0 .. MaxOpen /\ i \in 1 .. N
    BY <1>2, <1>4
<1>. QED BY <1>1, <1>2, <1>3, <1>4, <1>5

\* The steps of the writers' transactions.
LEMMA GapWrite ==
    ASSUME GapInv, SeenInv', NEW k \in Ids, Emit(k) \/ Commit(k) \/ Rollback(k)
    PROVE  GapInv'
<1>1. TypeOK BY DEF GapInv, SeenInv
<1>2. UNCHANGED <<conn, dpc, low, seen, gaps, from, rows, took, began, published, open>>
    BY DEF Emit, Commit, Rollback, dispatchVars, passVars, cursorVars
<1>3. \/ txn[k] = "unborn" /\ txn' = [txn EXCEPT ![k] = "open"]
         /\ \A j \in 1 .. k - 1 : txn[j] # "unborn"
      \/ txn[k] = "open" /\ txn' = [txn EXCEPT ![k] = "committed"]
      \/ txn[k] = "open" /\ txn' = [txn EXCEPT ![k] = "gone"]
    BY DEF Emit, Commit, Rollback
<1>4. \A i \in Ids : i # k => txn'[i] = txn[i] BY <1>1, <1>3 DEF TypeOK
<1>5. txn'[k] \in {"open", "committed", "gone"} BY <1>1, <1>3 DEF TypeOK
<1>6. \A i \in Ids : txn'[i] = "unborn" => txn[i] = "unborn" BY <1>4, <1>5
<1>7. NoticedInv'
  <2>1. ASSUME NEW i \in Ids, txn'[i] # "unborn", NEW j \in 1 .. i - 1
        PROVE  txn'[j] # "unborn"
    <3>1. j \in Ids BY <1>1, Ranges
    <3>2. CASE txn[i] # "unborn" BY <1>6, <2>1, <3>1, <3>2 DEF GapInv, NoticedInv
    <3>3. CASE txn[i] = "unborn"
      <4>1. i = k /\ \A h \in 1 .. k - 1 : txn[h] # "unborn"
          BY <1>3, <1>4, <2>1, <3>3
      <4>. QED BY <1>6, <3>1, <4>1
    <3>. QED BY <3>2, <3>3
  <2>2. ASSUME NEW i \in Ids, gaps'[i] >= 0
        PROVE  i > low' /\ txn'[i] # "unborn" /\ (txn'[i] = "open" => gaps'[i] <= open'[i])
    <3>1. i > low /\ txn[i] # "unborn" /\ (txn[i] = "open" => gaps[i] <= open[i])
        BY <1>2, <2>2 DEF GapInv, NoticedInv
    <3>2. txn'[i] = "open" => txn[i] = "open" BY <1>3, <1>4, <3>1
    <3>. QED BY <1>2, <1>6, <3>1, <3>2
  <2>3. conn' = "down" => \A i \in Ids : gaps'[i] = -1
      BY <1>2 DEF GapInv, NoticedInv
  <2>. QED BY <2>1, <2>2, <2>3 DEF NoticedInv
<1>8. PassedInv'
  <2>1. SUFFICES ASSUME NEW i \in Visible', Passed(i)' PROVE gaps'[i] <= open'[i] + took'
      BY DEF PassedInv
  <2>2. i \in Ids /\ Passed(i) BY <1>2, <2>1 DEF Visible, Passed
  <2>3. CASE i \in Visible BY <1>2, <2>2, <2>3 DEF GapInv, PassedInv
  <2>4. CASE i \notin Visible
    <3>0. txn'[i] = "committed" /\ txn[i] # "committed" BY <2>1, <2>2, <2>4 DEF Visible
    <3>3. i = k BY <1>4, <2>2, <3>0
    <3>1. txn[i] = "open" BY <1>1, <1>3, <3>0, <3>3 DEF TypeOK
    <3>2. gaps[i] <= open[i] \/ gaps[i] = -1
        BY <1>1, <2>2, <3>1, Ranges DEF GapInv, NoticedInv
    <3>. QED BY <1>1, <1>2, <2>2, <3>2, Ranges
  <2>. QED BY <2>3, <2>4
<1>9. LowWaterHolds'
  <2>1. SUFFICES ASSUME conn' # "down", NEW i \in Ids, i > began', i <= low'
                 PROVE  txn'[i] = "gone" \/ published'[i] = 1 \/ Slow(i)'
      BY DEF LowWaterHolds
  <2>2. txn[i] = "gone" \/ published[i] = 1 \/ Slow(i)
      BY <1>2, <2>1 DEF GapInv, LowWaterHolds
  <2>3. txn[i] = "gone" => txn'[i] = "gone"
    <3>1. txn[i] = "gone" => i # k BY <1>3
    <3>. QED BY <1>4, <3>1
  <2>. QED BY <1>2, <2>2, <2>3 DEF Slow
<1>. QED BY <1>7, <1>8, <1>9 DEF GapInv

LEMMA GapTick ==
    ASSUME GapInv, SeenInv', Tick
    PROVE  GapInv'
<1>1. TypeOK BY DEF GapInv, SeenInv
<1>2. /\ UNCHANGED <<txn, conn, dpc, low, seen, from, rows, began, published>>
      /\ open' = [i \in Ids |-> IF txn[i] = "open" THEN open[i] + 1 ELSE open[i]]
      /\ gaps' = [i \in Ids |-> IF gaps[i] \in 0 .. GapWait - 1 THEN gaps[i] + 1 ELSE gaps[i]]
      /\ took' = IF dpc # "idle" THEN took + 1 ELSE took
    BY DEF Tick
<1>3. \A i \in Ids : /\ gaps'[i] <= gaps[i] + 1 /\ (gaps'[i] >= 0 <=> gaps[i] >= 0)
                     /\ gaps[i] = -1 => gaps'[i] = -1
                     /\ gaps'[i] \in Int
    BY <1>1, <1>2, Ranges
<1>4. NoticedInv'
  <2>1. \A i \in Ids : gaps'[i] >= 0 =>
            i > low' /\ txn'[i] # "unborn" /\ (txn'[i] = "open" => gaps'[i] <= open'[i])
    <3>1. SUFFICES ASSUME NEW i \in Ids, gaps'[i] >= 0
                   PROVE  i > low' /\ txn'[i] # "unborn" /\ (txn'[i] = "open" => gaps'[i] <= open'[i])
        OBVIOUS
    <3>2. i > low /\ txn[i] # "unborn" /\ (txn[i] = "open" => gaps[i] <= open[i])
        BY <1>3, <3>1 DEF GapInv, NoticedInv
    <3>3. txn[i] = "open" => open'[i] = open[i] + 1 BY <1>2
    <3>. QED BY <1>1, <1>2, <1>3, <3>2, <3>3, Ranges
  <2>2. conn' = "down" => \A i \in Ids : gaps'[i] = -1
      BY <1>2, <1>3 DEF GapInv, NoticedInv
  <2>. QED BY <1>2, <2>1, <2>2 DEF GapInv, NoticedInv
<1>5. PassedInv'
  <2>1. SUFFICES ASSUME NEW i \in Visible', Passed(i)' PROVE gaps'[i] <= open'[i] + took'
      BY DEF PassedInv
  <2>2. i \in Visible /\ i \in Ids /\ Passed(i) BY <1>2, <2>1 DEF Visible, Passed
  <2>3. gaps[i] <= open[i] + took BY <2>2 DEF GapInv, PassedInv
  <2>4. took' = took + 1 BY <1>2, <2>2 DEF Passed
  <2>5. /\ gaps[i] \in Int /\ gaps'[i] \in Int /\ gaps'[i] <= gaps[i] + 1
        /\ took \in Nat /\ open[i] \in Nat
      BY <1>1, <1>3, <2>2, Ranges
  <2>6. open'[i] = open[i] BY <1>2, <2>2 DEF Visible
  <2>. QED BY <2>3, <2>4, <2>5, <2>6
<1>6. LowWaterHolds'
  <2>1. SUFFICES ASSUME conn # "down", NEW i \in Ids, i > began, i <= low
                 PROVE  txn[i] = "gone" \/ published[i] = 1 \/ Slow(i)'
      BY <1>2 DEF LowWaterHolds
  <2>2. txn[i] = "gone" \/ published[i] = 1 \/ Slow(i) BY <2>1 DEF GapInv, LowWaterHolds
  <2>3. open'[i] \in Nat /\ open'[i] >= open[i] BY <1>1, <1>2, Ranges
  <2>. QED BY <1>1, <2>2, <2>3, Ranges DEF Slow
<1>. QED BY <1>4, <1>5, <1>6 DEF GapInv

\* A short round ends the pass: the mark goes up to the first id that may come.
LEMMA GapAdvance ==
    ASSUME GapInv, SeenInv', Publish, dpc' = "mark",
           Cardinality(rows) < Batch, Advance(seen \cup rows)
    PROVE  GapInv'
<1>1. TypeOK BY DEF GapInv, SeenInv
<1>2. /\ dpc = "publish" /\ UNCHANGED <<txn, open, conn, began>>
      /\ published' = [i \in Ids |-> IF i \in rows \ seen THEN published[i] + 1 ELSE published[i]]
    BY DEF Publish, outboxVars
<1>3. PICK top \in seen \cup rows \cup {low} :
         /\ \A i \in seen \cup rows \cup {low} : i <= top
         /\ low' \in low .. top
         /\ \A i \in low + 1 .. low' : ~(i \notin seen \cup rows /\ gaps[i] < GapWait)
         /\ gaps' = [i \in Ids |->
                       IF i \in low + 1 .. low' THEN -1
                       ELSE IF i = low' + 1 /\ low' < top /\ gaps[i] = -1 THEN 0
                       ELSE gaps[i]]
    BY DEF Advance, IsTop
<1>4. /\ top \in Nat /\ top <= N /\ low' \in Nat /\ low' <= top /\ low <= low'
      /\ low' < top => top \in Visible
    BY <1>1, <1>3, Ranges DEF GapInv, SeenInv
<1>5. \A i \in rows : i > low BY <1>1, <1>2, Ranges DEF GapInv, SeenInv
<1>6. NoticedInv'
  <2>1. ASSUME NEW i \in Ids, gaps'[i] >= 0
        PROVE  i > low' /\ txn'[i] # "unborn" /\ (txn'[i] = "open" => gaps'[i] <= open'[i])
    <3>1. i \notin low + 1 .. low' BY <1>3, <2>1
    <3>2. CASE gaps[i] >= 0
      <4>1. i > low /\ txn[i] # "unborn" /\ (txn[i] = "open" => gaps[i] <= open[i])
          BY <3>2 DEF GapInv, NoticedInv
      <4>2. gaps'[i] = gaps[i] BY <1>3, <3>1, <3>2
      <4>. QED BY <1>1, <1>2, <1>4, <3>1, <4>1, <4>2, Ranges
    <3>3. CASE ~(gaps[i] >= 0)
      <4>1. i = low' + 1 /\ low' < top /\ gaps'[i] = 0
          BY <1>3, <2>1, <3>1, <3>3
      <4>2. top \in Ids /\ txn[top] # "unborn" /\ (i = top \/ i \in 1 .. top - 1)
        <5>1. top \in Visible /\ top \in Ids /\ txn[top] = "committed"
            BY <1>4, <4>1 DEF Visible
        <5>2. i \in Nat /\ i >= 1 /\ top \in Nat /\ low' \in Nat BY <1>1, <1>4, Ranges
        <5>3. i = top \/ i \in 1 .. top - 1 BY <4>1, <5>2, NextUp
        <5>. QED BY <5>1, <5>3
      <4>3. txn[i] # "unborn" BY <4>2 DEF GapInv, NoticedInv
      <4>4. i > low' BY <1>4, <4>1, NextUp
      <4>5. gaps'[i] <= open'[i]
        <5>1. open[i] \in Nat /\ open'[i] = open[i] BY <1>1, <1>2, Ranges
        <5>. QED BY <4>1, <5>1
      <4>. QED BY <1>2, <4>3, <4>4, <4>5
    <3>. QED BY <3>2, <3>3
  <2>2. conn' # "down" BY <1>2 DEF GapInv, SeenInv
  <2>. QED BY <1>2, <2>1, <2>2 DEF GapInv, NoticedInv
<1>7. PassedInv' BY DEF PassedInv, Passed
<1>8. LowWaterHolds'
  <2>1. SUFFICES ASSUME NEW i \in Ids, i > began, i <= low'
                 PROVE  txn[i] = "gone" \/ published'[i] = 1 \/ Slow(i)
      BY <1>2 DEF LowWaterHolds, Slow
  <2>2. conn # "down" BY <1>2 DEF GapInv, SeenInv
  <2>3. CASE i <= low
    <3>1. txn[i] = "gone" \/ published[i] = 1 \/ Slow(i)
        BY <2>1, <2>2, <2>3 DEF GapInv, LowWaterHolds
    <3>2. i \notin rows BY <1>1, <1>5, <2>3, Ranges
    <3>. QED BY <1>2, <3>1, <3>2
  <2>4. CASE i > low /\ i \in seen \cup rows
    <3>1. CASE i \in seen BY <1>2, <3>1 DEF GapInv, SeenInv
    <3>2. CASE i \notin seen
      <4>1. published[i] \in Nat /\ published[i] <= 1 BY <1>1 DEF GapInv, SeenInv, TypeOK
      <4>2. published[i] # 1 BY <1>1, <2>4, <3>2, Ranges DEF GapInv, SeenInv
      <4>3. published[i] = 0 BY <4>1, <4>2
      <4>. QED BY <1>2, <2>4, <3>2, <4>3
    <3>. QED BY <3>1, <3>2
  <2>5. CASE i > low /\ i \notin seen \cup rows
    <3>1. i \in low + 1 .. low' BY <1>1, <1>4, <2>1, <2>5, Ranges
    <3>2. gaps[i] >= GapWait BY <1>1, <1>3, <2>5, <3>1, Ranges
    <3>3. txn[i] # "unborn" BY <1>1, <3>2, Ranges DEF GapInv, NoticedInv
    <3>4. CASE txn[i] = "open"
      <4>1. gaps[i] <= open[i] BY <1>1, <3>2, <3>4, Ranges DEF GapInv, NoticedInv
      <4>. QED BY <1>1, <3>2, <4>1, Ranges DEF Slow
    <3>5. CASE txn[i] = "committed"
      <4>1. i <= from \/ i > from BY <1>1, Ranges
      <4>2. Passed(i) BY <1>2, <2>5, <4>1 DEF Passed
      <4>3. i \in Visible BY <3>5 DEF Visible
      <4>4. gaps[i] <= open[i] + took BY <4>2, <4>3 DEF GapInv, PassedInv
      <4>. QED BY <1>1, <3>2, <4>4, Ranges DEF Slow
    <3>. QED BY <1>1, <3>3, <3>4, <3>5 DEF TypeOK
  <2>. QED BY <1>1, <2>3, <2>4, <2>5, Ranges
<1>. QED BY <1>6, <1>7, <1>8 DEF GapInv

\* A full round is followed by another.
LEMMA GapRound ==
    ASSUME GapInv, SeenInv', Publish, dpc' = "read", from' \in rows,
           \A i \in rows : i <= from', seen' = seen \cup rows, UNCHANGED <<low, gaps>>
    PROVE  GapInv'
<1>1. TypeOK BY DEF GapInv, SeenInv
<1>2. /\ dpc = "publish" /\ UNCHANGED <<txn, open, conn, took, began>>
      /\ published' = [i \in Ids |-> IF i \in rows \ seen THEN published[i] + 1 ELSE published[i]]
    BY DEF Publish, outboxVars
<1>3. \A i \in rows : i > low BY <1>1, <1>2, Ranges DEF GapInv, SeenInv
<1>4. NoticedInv' BY <1>2 DEF GapInv, NoticedInv
<1>5. PassedInv'
  <2>1. SUFFICES ASSUME NEW i \in Visible', Passed(i)' PROVE gaps[i] <= open[i] + took
      BY <1>2 DEF PassedInv
  <2>2. i \in Visible /\ i \in Ids /\ i > low /\ i <= from' /\ i \notin seen /\ i \notin rows
      BY <1>2, <2>1 DEF Visible, Passed
  <2>3. i # from' BY <2>2
  <2>4. i <= from \/ (i > from /\ i < from') BY <1>1, <2>2, <2>3, Ranges
  <2>5. Passed(i) BY <1>2, <2>2, <2>4 DEF Passed
  <2>. QED BY <2>2, <2>5 DEF GapInv, PassedInv
<1>6. LowWaterHolds'
  <2>1. SUFFICES ASSUME conn # "down", NEW i \in Ids, i > began, i <= low
                 PROVE  txn[i] = "gone" \/ published'[i] = 1 \/ Slow(i)
      BY <1>2 DEF LowWaterHolds, Slow
  <2>2. i \notin rows BY <1>1, <1>3, <2>1, Ranges
  <2>. QED BY <1>2, <2>1, <2>2 DEF GapInv, LowWaterHolds
<1>. QED BY <1>4, <1>5, <1>6 DEF GapInv

LEMMA GapStep ==
    ASSUME GapInv, [Next]_vars
    PROVE  GapInv'
<1>1. SeenInv' /\ TypeOK BY SeenStep DEF GapInv, SeenInv
<1>2. CASE Write BY <1>1, <1>2, GapWrite DEF Write
<1>3. CASE Tick BY <1>1, <1>3, GapTick
<1>4. CASE Publish
  <2>1. CASE dpc' = "mark" /\ Cardinality(rows) < Batch /\ Advance(seen \cup rows)
      BY <1>1, <1>4, <2>1, GapAdvance
  <2>2. CASE /\ dpc' = "read" /\ from' \in rows /\ \A i \in rows : i <= from'
             /\ seen' = seen \cup rows /\ UNCHANGED <<low, gaps>>
      BY <1>1, <1>4, <2>2, GapRound
  <2>. QED BY <1>4, <2>1, <2>2 DEF Publish
<1>5. CASE \/ UNCHANGED vars \/ Consume \/ \E w \in Workers : PassOver(w) \/ Abort(w)
  <2>1. UNCHANGED <<txn, open, conn, dpc, low, seen, gaps, from, rows, took, began, published>>
      BY <1>5 DEF vars, Consume, Lock, Handle, Finish, PassOver, Abort, outboxVars,
         dispatchVars, passVars, cursorVars
  <2>2. Visible' = Visible BY <2>1 DEF Visible
  <2>3. NoticedInv' /\ LowWaterHolds' BY <2>1 DEF GapInv, NoticedInv, LowWaterHolds, Slow
  <2>4. PassedInv' BY <2>1, <2>2 DEF GapInv, PassedInv, Passed
  <2>. QED BY <1>1, <2>3, <2>4 DEF GapInv
<1>6. CASE Boot
  <2>1. /\ low' = began' /\ conn = "down" /\ UNCHANGED <<txn, open, dpc, gaps>>
      BY <1>6 DEF Boot, outboxVars, passVars
  <2>2. dpc = "idle" /\ \A i \in Ids : gaps[i] = -1 BY <2>1 DEF GapInv, SeenInv, NoticedInv
  <2>3. NoticedInv' BY <2>1, <2>2 DEF GapInv, NoticedInv
  <2>4. PassedInv' BY <2>1, <2>2 DEF PassedInv, Passed
  <2>5. TypeOK' BY <1>1 DEF SeenInv
  <2>6. \A i \in Ids : ~(i > began' /\ i <= low')
    <3>1. \A i \in Ids : i \in Int /\ began' \in Int BY <1>1, <2>5, OutboxAssumption DEF TypeOK, Ids
    <3>. QED BY <2>1, <3>1
  <2>7. LowWaterHolds' BY <2>6 DEF LowWaterHolds
  <2>. QED BY <1>1, <2>3, <2>4, <2>7 DEF GapInv
<1>7. CASE Listen \/ Notified
  <2>1. /\ dpc' = "read" /\ from' = low /\ rows' = {} /\ conn' = "on" /\ conn # "down"
        /\ UNCHANGED <<txn, open, low, seen, gaps, began, published>>
      BY <1>7 DEF Listen, Notified, StartPass, cursorVars, outboxVars
  <2>2. NoticedInv' /\ LowWaterHolds' BY <2>1 DEF GapInv, NoticedInv, LowWaterHolds, Slow
  <2>3. \A i \in Ids : ~(i > low /\ i <= low) BY <1>1, Ranges
  <2>4. PassedInv' BY <2>1, <2>3 DEF PassedInv, Passed, Visible
  <2>. QED BY <1>1, <2>2, <2>4 DEF GapInv
<1>8. CASE Read
  <2>1. /\ dpc = "read" /\ dpc' = "publish" /\ IsBatch(rows', from)
        /\ UNCHANGED <<txn, open, conn, low, seen, gaps, from, took, began, published>>
      BY <1>8 DEF Read, cursorVars, outboxVars
  <2>2. NoticedInv' /\ LowWaterHolds' BY <2>1 DEF GapInv, NoticedInv, LowWaterHolds, Slow
  <2>3. PassedInv'
    <3>1. SUFFICES ASSUME NEW i \in Visible', Passed(i)' PROVE gaps[i] <= open[i] + took
        BY <2>1 DEF PassedInv
    <3>2. i \in Visible BY <2>1, <3>1 DEF Visible
    <3>3. CASE i > low /\ i <= from /\ i \notin seen
        BY <2>1, <3>2, <3>3 DEF GapInv, PassedInv, Passed
    <3>4. CASE i > from /\ i \notin rows' /\ \E r \in rows' : i < r
        BY <2>1, <3>2, <3>4 DEF IsBatch
    <3>5. CASE i > from /\ i \notin rows' /\ Cardinality(rows') < Batch
      <4>1. Cardinality(rows') # Batch BY <3>5, OutboxAssumption
      <4>. QED BY <2>1, <3>2, <3>5, <4>1 DEF IsBatch
    <3>. QED BY <2>1, <3>1, <3>3, <3>4, <3>5 DEF Passed
  <2>. QED BY <1>1, <2>2, <2>3 DEF GapInv
<1>9. CASE Mark \/ Disconnect
  <2>1. /\ conn = "down" <=> conn' = "down"
        /\ UNCHANGED <<txn, open, low, seen, gaps, began, published>>
      BY <1>9 DEF Mark, Disconnect, EndPass, cursorVars, outboxVars
  <2>2. dpc' = "idle" BY <1>9 DEF Mark, Disconnect, EndPass
  <2>3. NoticedInv' /\ LowWaterHolds' BY <2>1 DEF GapInv, NoticedInv, LowWaterHolds, Slow
  <2>4. PassedInv' BY <2>2 DEF PassedInv, Passed
  <2>. QED BY <1>1, <2>3, <2>4 DEF GapInv
<1>10. CASE Die
  <2>1. /\ dpc' = "idle" /\ conn' = "down" /\ gaps' = [i \in Ids |-> -1] /\ UNCHANGED txn
      BY <1>10 DEF Die, EndPass, outboxVars
  <2>2. \A i \in Ids : gaps'[i] = -1 BY <2>1
  <2>3. NoticedInv' BY <2>1, <2>2 DEF GapInv, NoticedInv
  <2>4. PassedInv' /\ LowWaterHolds' BY <2>1 DEF PassedInv, Passed, LowWaterHolds
  <2>. QED BY <1>1, <2>3, <2>4 DEF GapInv
<1>. QED BY <1>2, <1>3, <1>4, <1>5, <1>6, <1>7, <1>8, <1>9, <1>10 DEF Next, Dispatch, Fault

\* Of the events of a process's lifetime, its mark leaves behind only what is
\* published or rolled back, and what a slow writer has written or still writes,
\* whatever writes and passes take.
THEOREM MarkSkipsNothing == Spec => []LowWaterHolds
<1>1. Init => GapInv
    BY SeenInit DEF Init, GapInv, NoticedInv, PassedInv, Visible, LowWaterHolds
<1>2. GapInv /\ [Next]_vars => GapInv' BY GapStep
<1>3. GapInv => LowWaterHolds BY DEF GapInv
<1>. QED BY <1>1, <1>2, <1>3, PTL DEF Spec

-----------------------------------------------------------------------------
(* The durable consumer.                                                      *)

\* OffsetInv: the durable cursor is a row that can be seen, and what is behind
\* it is accounted for.
OffsetInv ==
    /\ offset \in Visible \cup {0}
    /\ \A i \in Ids : handled[i] <= 1 /\ (handled[i] = 1 => i <= offset)
    /\ OnTimeHandled

\* PassInv: one worker at a time, and its pass covers offset + 1 .. at[w].
PassInv ==
    /\ \A v, w \in holder : v = w
    /\ \A w \in Workers \ holder : at[w] = 0 /\ mine[w] = {} /\ rounds[w] = 0
    /\ \A w \in holder :
          /\ at[w] >= offset /\ at[w] \in Visible \cup {0}
          /\ rounds[w] = 0 => at[w] = offset
          /\ mine[w] \subseteq {i \in Visible : i > offset /\ i <= at[w]}
          /\ \A i \in Visible : i > offset /\ i <= at[w] /\ i \notin late => i \in mine[w]

ConsumerInv == TypeOK /\ OffsetInv /\ PassInv

LEMMA ConsumerTypes ==
    ASSUME TypeOK
    PROVE  /\ offset \in Nat /\ \A i \in Ids : i \in Nat /\ i >= 1 /\ handled[i] \in Nat
           /\ \A w \in Workers : at[w] \in Nat /\ at[w] <= N
           /\ Visible \subseteq Ids /\ holder \subseteq Workers
           /\ at \in [Workers -> 0 .. N] /\ mine \in [Workers -> SUBSET Ids]
           /\ rounds \in [Workers -> 0 .. MaxBatches] /\ handled \in [Ids -> Nat]
<1>1. N \in Nat /\ Ids = 1 .. N BY OutboxAssumption DEF Ids
<1>2. /\ offset \in 0 .. N /\ handled \in [Ids -> Nat] /\ at \in [Workers -> 0 .. N]
      /\ Visible \subseteq Ids /\ holder \subseteq Workers
      /\ mine \in [Workers -> SUBSET Ids] /\ rounds \in [Workers -> 0 .. MaxBatches]
    BY DEF TypeOK, Visible
<1>3. \A w \in Workers : at[w] \in 0 .. N BY <1>2
<1>. QED BY <1>1, <1>2, <1>3

\* A commit behind somebody's cursor is late.
LEMMA ConsumerWrite ==
    ASSUME ConsumerInv, TypeOK', NEW k \in Ids, Emit(k) \/ Commit(k) \/ Rollback(k)
    PROVE  ConsumerInv'
<1>1. TypeOK BY DEF ConsumerInv
<1>2. UNCHANGED <<offset, handled, dropped, holder, at, mine, rounds>>
    BY DEF Emit, Commit, Rollback, consumerVars, workerVars
<1>3. CASE Emit(k) \/ Rollback(k)
  <2>1. txn' = [txn EXCEPT ![k] = "open"] \/ txn' = [txn EXCEPT ![k] = "gone"]
      BY <1>3 DEF Emit, Rollback
  <2>2. txn[k] # "committed" /\ late' = late BY <1>3 DEF Emit, Rollback
  <2>3. Visible' = Visible BY <1>1, <2>1, <2>2 DEF Visible, TypeOK
  <2>. QED BY <1>2, <2>2, <2>3 DEF ConsumerInv, OffsetInv, PassInv, OnTimeHandled
<1>4. CASE Commit(k)
  <2>1. /\ txn[k] = "open" /\ txn' = [txn EXCEPT ![k] = "committed"]
        /\ late' = IF \E j \in Visible : j > k THEN late \cup {k} ELSE late
      BY <1>4 DEF Commit
  <2>2. k \notin Visible /\ Visible' = Visible \cup {k}
      BY <1>1, <2>1 DEF Visible, TypeOK
  <2>3. late \subseteq late' BY <2>1
  <2>4. ASSUME NEW m \in Visible \cup {0}, k <= m PROVE k \in late'
    <3>1. m \in Visible /\ m \in Ids /\ m # k
        BY <1>1, <2>2, <2>4, ConsumerTypes
    <3>2. m > k BY <1>1, <2>4, <3>1, ConsumerTypes
    <3>. QED BY <2>1, <3>1, <3>2
  <2>5. OffsetInv'
    <3>1. OnTimeHandled'
        BY <1>2, <2>2, <2>3, <2>4 DEF ConsumerInv, OffsetInv, OnTimeHandled
    <3>. QED BY <1>2, <2>2, <3>1 DEF ConsumerInv, OffsetInv
  <2>6. ASSUME NEW w \in holder, NEW i \in Visible', i > offset, i <= at[w], i \notin late'
        PROVE  i \in mine[w]
      BY <2>2, <2>3, <2>4, <2>6 DEF ConsumerInv, PassInv
  <2>7. PassInv' BY <1>2, <2>2, <2>6 DEF ConsumerInv, PassInv
  <2>. QED BY <2>5, <2>7 DEF ConsumerInv
<1>. QED BY <1>3, <1>4

LEMMA ConsumerLock ==
    ASSUME ConsumerInv, TypeOK', NEW w \in Workers, Lock(w)
    PROVE  ConsumerInv'
<1>1. TypeOK BY DEF ConsumerInv
<1>2. /\ holder = {} /\ holder' = {w} /\ at' = [at EXCEPT ![w] = offset]
      /\ UNCHANGED <<txn, late, offset, handled, dropped, mine, rounds>>
    BY DEF Lock, outboxVars
<1>3. Visible' = Visible BY <1>2 DEF Visible
<1>4. OffsetInv' BY <1>2, <1>3 DEF ConsumerInv, OffsetInv, OnTimeHandled
<1>5. at'[w] = offset /\ \A v \in Workers : v # w => at'[v] = at[v]
    BY <1>1, <1>2, ConsumerTypes
<1>6. mine[w] = {} /\ rounds[w] = 0 BY <1>2 DEF ConsumerInv, PassInv
<1>7. offset >= offset /\ \A i \in Visible : ~(i > offset /\ i <= offset)
    BY <1>1, ConsumerTypes
<1>8. PassInv'
    BY <1>2, <1>3, <1>5, <1>6, <1>7 DEF ConsumerInv, OffsetInv, PassInv
<1>. QED BY <1>4, <1>8 DEF ConsumerInv

LEMMA ConsumerHandle ==
    ASSUME ConsumerInv, TypeOK', NEW w \in Workers, Handle(w)
    PROVE  ConsumerInv'
<1>1. TypeOK BY DEF ConsumerInv
<1>2. /\ w \in holder /\ UNCHANGED <<txn, late, offset, handled, dropped, holder>>
    BY DEF Handle, outboxVars
<1>3. PICK B \in SUBSET Ids, newest \in Ids :
         /\ IsBatch(B, at[w]) /\ newest \in B
         /\ mine' = [mine EXCEPT ![w] = @ \cup {i \in B : i <= newest}]
         /\ at' = [at EXCEPT ![w] = newest]
         /\ rounds' = [rounds EXCEPT ![w] = IF \E i \in B : i > newest THEN MaxBatches ELSE @ + 1]
    BY DEF Handle
<1>4. Visible' = Visible BY <1>2 DEF Visible
<1>5. OffsetInv' BY <1>2, <1>4 DEF ConsumerInv, OffsetInv, OnTimeHandled
<1>6. /\ B \subseteq {i \in Visible : i > at[w]}
      /\ \A b \in B, i \in Visible : i > at[w] /\ i < b => i \in B
    BY <1>3 DEF IsBatch
<1>7. /\ at'[w] = newest /\ mine'[w] = mine[w] \cup {i \in B : i <= newest}
      /\ \A v \in Workers : v # w => at'[v] = at[v] /\ mine'[v] = mine[v] /\ rounds'[v] = rounds[v]
    BY <1>1, <1>3, ConsumerTypes
<1>8. rounds'[w] # 0
  <2>1. rounds'[w] = IF \E i \in B : i > newest THEN MaxBatches ELSE rounds[w] + 1
      BY <1>1, <1>3, ConsumerTypes
  <2>2. rounds[w] \in Nat /\ rounds[w] + 1 # 0 BY <1>1, ConsumerTypes, OutboxAssumption
  <2>. QED BY <2>1, <2>2, OutboxAssumption
<1>9. /\ newest \in Visible /\ newest > at[w] /\ at[w] >= offset
      /\ newest \in Nat /\ at[w] \in Nat /\ offset \in Nat /\ newest > offset
  <2>1. newest \in Visible /\ newest > at[w] /\ at[w] >= offset
      BY <1>2, <1>3, <1>6 DEF ConsumerInv, PassInv
  <2>2. newest \in Nat /\ at[w] \in Nat /\ offset \in Nat BY <1>1, ConsumerTypes
  <2>. QED BY <2>1, <2>2
<1>10. ASSUME NEW i \in mine'[w] PROVE i \in Visible /\ i > offset /\ i <= newest
  <2>1. CASE i \in mine[w]
    <3>1. i \in Visible /\ i > offset /\ i <= at[w] BY <1>2, <2>1 DEF ConsumerInv, PassInv
    <3>2. i \in Nat BY <1>1, <3>1, ConsumerTypes
    <3>. QED BY <1>9, <3>1, <3>2
  <2>2. CASE i \in B /\ i <= newest
    <3>1. i \in Visible /\ i > at[w] BY <1>6, <2>2
    <3>2. i \in Nat BY <1>1, <3>1, ConsumerTypes
    <3>. QED BY <1>9, <2>2, <3>1, <3>2
  <2>. QED BY <1>7, <2>1, <2>2
<1>11. ASSUME NEW i \in Visible, i > offset, i <= newest, i \notin late PROVE i \in mine'[w]
  <2>1. i \in Nat BY <1>1, ConsumerTypes
  <2>2. CASE i <= at[w] BY <1>2, <1>7, <1>11, <2>2 DEF ConsumerInv, PassInv
  <2>3. CASE i > at[w]
    <3>1. i = newest \/ i < newest BY <1>9, <1>11, <2>1
    <3>2. i \in B BY <1>3, <1>6, <2>3, <3>1
    <3>. QED BY <1>7, <1>11, <3>2
  <2>. QED BY <1>9, <2>1, <2>2, <2>3
<1>12. \A v \in holder : v = w BY <1>2 DEF ConsumerInv, PassInv
<1>13. \A v \in Workers \ holder : v # w BY <1>2
<1>14. newest >= offset BY <1>9
<1>15. PassInv'
    BY <1>2, <1>4, <1>7, <1>8, <1>9, <1>10, <1>11, <1>12, <1>13, <1>14
       DEF ConsumerInv, PassInv
<1>. QED BY <1>5, <1>15 DEF ConsumerInv

\* A pass that is over leaves no trace of its own.
LEMMA ConsumerUnlock ==
    ASSUME ConsumerInv, TypeOK', NEW w \in Workers, w \in holder, Unlock(w)
    PROVE  PassInv'
<1>1. TypeOK BY DEF ConsumerInv
<1>2. holder' = {} BY DEF Unlock, ConsumerInv, PassInv
<1>3. /\ at'[w] = 0 /\ mine'[w] = {} /\ rounds'[w] = 0
      /\ \A v \in Workers : v # w => at'[v] = at[v] /\ mine'[v] = mine[v] /\ rounds'[v] = rounds[v]
    BY <1>1, ConsumerTypes DEF Unlock
<1>4. \A v \in Workers : v # w => v \notin holder BY DEF ConsumerInv, PassInv
<1>. QED BY <1>2, <1>3, <1>4 DEF ConsumerInv, PassInv

LEMMA ConsumerFinish ==
    ASSUME ConsumerInv, TypeOK', NEW w \in Workers, Finish(w)
    PROVE  ConsumerInv'
<1>1. TypeOK BY DEF ConsumerInv
<1>2. /\ w \in holder /\ offset' = at[w] /\ Unlock(w)
      /\ handled' = [i \in Ids |-> IF i \in mine[w] THEN handled[i] + 1 ELSE handled[i]]
      /\ UNCHANGED <<txn, late, dropped>>
    BY DEF Finish, outboxVars
<1>3. PassInv' BY <1>2, ConsumerUnlock
<1>4. Visible' = Visible BY <1>2 DEF Visible
<1>5. /\ at[w] >= offset /\ at[w] \in Visible \cup {0} /\ at[w] \in Nat /\ offset \in Nat
      /\ mine[w] \subseteq {i \in Visible : i > offset /\ i <= at[w]}
      /\ \A i \in Visible : i > offset /\ i <= at[w] /\ i \notin late => i \in mine[w]
    BY <1>1, <1>2, ConsumerTypes DEF ConsumerInv, PassInv
<1>6. \A i \in mine[w] : handled[i] = 0
  <2>1. SUFFICES ASSUME NEW i \in mine[w] PROVE handled[i] = 0 OBVIOUS
  <2>2. i \in Visible /\ i > offset BY <1>5
  <2>3. i \in Ids /\ i \in Nat /\ handled[i] \in Nat BY <1>1, <2>2, ConsumerTypes
  <2>4. handled[i] <= 1 /\ (handled[i] = 1 => i <= offset)
      BY <2>3 DEF ConsumerInv, OffsetInv
  <2>. QED BY <1>5, <2>2, <2>3, <2>4
<1>7. \A i \in Ids : handled'[i] = IF i \in mine[w] THEN 1 ELSE handled[i]
    BY <1>2, <1>6
<1>8. \A i \in Ids : handled'[i] <= 1 /\ (handled'[i] = 1 => i <= offset')
  <2>1. SUFFICES ASSUME NEW i \in Ids
                 PROVE  handled'[i] <= 1 /\ (handled'[i] = 1 => i <= offset')
      OBVIOUS
  <2>2. CASE i \in mine[w] BY <1>2, <1>5, <1>7, <2>2
  <2>3. CASE i \notin mine[w]
    <3>1. handled[i] <= 1 /\ (handled[i] = 1 => i <= offset) BY DEF ConsumerInv, OffsetInv
    <3>2. i \in Nat BY <1>1, ConsumerTypes
    <3>. QED BY <1>2, <1>5, <1>7, <2>3, <3>1, <3>2
  <2>. QED BY <2>2, <2>3
<1>9. OnTimeHandled'
  <2>1. SUFFICES ASSUME NEW i \in Visible, i <= at[w], i \notin late \cup dropped
                 PROVE  handled'[i] = 1
      BY <1>2, <1>4 DEF OnTimeHandled
  <2>2. i \in Ids /\ i \in Nat BY <1>1, ConsumerTypes
  <2>3. CASE i <= offset
    <3>1. handled[i] = 1 BY <2>1, <2>3 DEF ConsumerInv, OffsetInv, OnTimeHandled
    <3>. QED BY <1>7, <2>2, <3>1
  <2>4. CASE i > offset BY <1>5, <1>7, <2>1, <2>2, <2>4
  <2>. QED BY <1>5, <2>2, <2>3, <2>4
<1>. QED BY <1>2, <1>3, <1>4, <1>5, <1>8, <1>9 DEF ConsumerInv, OffsetInv

LEMMA ConsumerPassOver ==
    ASSUME ConsumerInv, TypeOK', NEW w \in Workers, PassOver(w)
    PROVE  ConsumerInv'
<1>1. TypeOK BY DEF ConsumerInv
<1>2. /\ w \in holder /\ rounds[w] = 0 /\ Unlock(w)
      /\ dropped' = dropped \cup {i \in Visible : i > at[w]}
      /\ UNCHANGED <<txn, late, handled>>
    BY DEF PassOver, outboxVars
<1>3. PICK m \in 0 .. N : IsNewest(m) /\ offset' = IF m > at[w] THEN m ELSE at[w]
    BY DEF PassOver
<1>4. PassInv' BY <1>2, ConsumerUnlock
<1>5. Visible' = Visible BY <1>2 DEF Visible
<1>6. at[w] = offset /\ offset \in Nat BY <1>1, <1>2, ConsumerTypes DEF ConsumerInv, PassInv
<1>7. m \in Nat BY OutboxAssumption
<1>8. offset' >= offset /\ offset' \in Nat BY <1>3, <1>6, <1>7
<1>9. offset' \in Visible' \cup {0}
    BY <1>3, <1>5, <1>6 DEF IsNewest, ConsumerInv, OffsetInv
<1>10. \A i \in Ids : handled'[i] <= 1 /\ (handled'[i] = 1 => i <= offset')
  <2>1. \A i \in Ids : i \in Nat BY <1>1, ConsumerTypes
  <2>. QED BY <1>2, <1>6, <1>8, <2>1 DEF ConsumerInv, OffsetInv
<1>11. OnTimeHandled'
  <2>1. SUFFICES ASSUME NEW i \in Visible, i \notin late \cup dropped' PROVE handled[i] = 1
      BY <1>2, <1>5 DEF OnTimeHandled
  <2>2. i \in Nat BY <1>1, ConsumerTypes
  <2>3. i \notin dropped /\ ~(i > offset) BY <1>2, <1>6, <2>1
  <2>4. i <= offset BY <1>6, <2>2, <2>3
  <2>. QED BY <2>1, <2>3, <2>4 DEF ConsumerInv, OffsetInv, OnTimeHandled
<1>. QED BY <1>4, <1>9, <1>10, <1>11 DEF ConsumerInv, OffsetInv

LEMMA ConsumerStep ==
    ASSUME ConsumerInv, [Next]_vars
    PROVE  ConsumerInv'
<1>1. TypeOK' BY TypeStep DEF ConsumerInv
<1>2. CASE Write BY <1>1, <1>2, ConsumerWrite DEF Write
<1>3. CASE UNCHANGED vars \/ Tick \/ Dispatch \/ Disconnect \/ Die
  <2>1. UNCHANGED <<txn, late, offset, handled, dropped, holder, at, mine, rounds>>
      BY <1>3 DEF vars, Tick, Dispatch, Boot, Listen, Notified, Read, Publish, Mark, Disconnect,
         Die, outboxVars, consumerVars, workerVars
  <2>2. Visible' = Visible BY <2>1 DEF Visible
  <2>. QED BY <1>1, <2>1, <2>2 DEF ConsumerInv, OffsetInv, PassInv, OnTimeHandled
<1>4. ASSUME NEW w \in Workers, Abort(w) PROVE ConsumerInv'
  <2>1. w \in holder /\ Unlock(w) /\ UNCHANGED <<txn, late, offset, handled, dropped>>
      BY <1>4 DEF Abort, outboxVars
  <2>2. PassInv' BY <1>1, <2>1, ConsumerUnlock
  <2>3. Visible' = Visible BY <2>1 DEF Visible
  <2>. QED BY <1>1, <2>1, <2>2, <2>3 DEF ConsumerInv, OffsetInv, OnTimeHandled
<1>. QED
  BY <1>1, <1>2, <1>3, <1>4, ConsumerLock, ConsumerHandle, ConsumerFinish, ConsumerPassOver
     DEF Next, Consume, Fault

LEMMA ConsumerInit == Init => ConsumerInv
<1>1. Init => TypeOK BY OutboxAssumption DEF Init, TypeOK, Ids
<1>2. ASSUME Init PROVE OffsetInv /\ PassInv
  <2>1. Visible = {} BY <1>2 DEF Init, Visible
  <2>. QED BY <1>2, <2>1 DEF Init, OffsetInv, PassInv, OnTimeHandled
<1>. QED BY <1>1, <1>2 DEF ConsumerInv

\* Whichever workers run the consumer's job and whichever of them die, no
\* event's effects are committed twice, and no event that committed in the order
\* of the ids is left unhandled behind the cursor, unless a kill switch passed
\* over it.
THEOREM HandlesOnce == Spec => []ExactlyOnce
<1>1. ConsumerInv => ExactlyOnce BY DEF ConsumerInv, OffsetInv, ExactlyOnce
<1>. QED BY <1>1, ConsumerInit, ConsumerStep, PTL DEF Spec

-----------------------------------------------------------------------------
(* The live feed.                                                             *)

\* What the queue may hold.
Messages == committed \cup {Overflow}

LEMMA Grown ==
    ASSUME NEW S, NEW s \in Seq(S), NEW x \in S
    PROVE  /\ Append(s, x) \in Seq(S) /\ Len(Append(s, x)) = Len(s) + 1
           /\ Range(Append(s, x)) = Range(s) \cup {x}
<1>1. /\ Append(s, x) \in Seq(S) /\ Len(Append(s, x)) = Len(s) + 1
      /\ DOMAIN Append(s, x) = 1 .. Len(s) + 1 /\ DOMAIN s = 1 .. Len(s) /\ Len(s) \in Nat
    OBVIOUS
<1>2. Append(s, x)[Len(s) + 1] = x /\ \A k \in 1 .. Len(s) : Append(s, x)[k] = s[k] OBVIOUS
<1>. QED BY <1>1, <1>2 DEF Range

LEMMA Shrunk ==
    ASSUME NEW S, NEW s \in Seq(S), s # <<>>
    PROVE  /\ Head(s) \in S /\ Tail(s) \in Seq(S) /\ Len(Tail(s)) = Len(s) - 1
           /\ Range(s) = Range(Tail(s)) \cup {Head(s)}
<1>1. /\ Head(s) \in S /\ Tail(s) \in Seq(S) /\ Len(Tail(s)) = Len(s) - 1 /\ Len(s) \in Nat \ {0}
      /\ DOMAIN Tail(s) = 1 .. Len(s) - 1 /\ DOMAIN s = 1 .. Len(s)
    OBVIOUS
<1>2. Head(s) = s[1] /\ \A k \in 1 .. Len(s) - 1 : Tail(s)[k] = s[k + 1] OBVIOUS
<1>3. Range(Tail(s)) \subseteq Range(s)
  <2>1. SUFFICES ASSUME NEW k \in 1 .. Len(s) - 1 PROVE Tail(s)[k] \in Range(s)
      BY <1>1 DEF Range
  <2>2. k + 1 \in DOMAIN s /\ Tail(s)[k] = s[k + 1] BY <1>1, <1>2
  <2>. QED BY <2>2 DEF Range
<1>4. Head(s) \in Range(s) BY <1>1, <1>2 DEF Range
<1>5. ASSUME NEW k \in 1 .. Len(s) PROVE s[k] \in Range(Tail(s)) \cup {Head(s)}
  <2>1. CASE k = 1 BY <2>1, <1>2
  <2>2. CASE k # 1
    <3>1. k - 1 \in DOMAIN Tail(s) /\ Tail(s)[k - 1] = s[k] BY <2>2, <1>1, <1>2
    <3>. QED BY <3>1 DEF Range
  <2>. QED BY <2>1, <2>2
<1>6. Range(s) \subseteq Range(Tail(s)) \cup {Head(s)} BY <1>1, <1>5 DEF Range
<1>. QED BY <1>1, <1>3, <1>4, <1>6

LEMMA NothingIn == Range(<<>>) = {}
BY DEF Range

\* What Send does to the queue, full or not.
LEMMA Queued ==
    ASSUME queue \in Seq(Messages), Len(queue) <= QueueSize, NEW i \in committed, Send(i)
    PROVE  /\ queue' \in Seq(Messages) /\ Len(queue') <= QueueSize
           /\ \/ ~Full /\ Range(queue') = Range(queue) \cup {i} /\ UNCHANGED <<missed, owed>>
              \/ /\ Full /\ queue # <<>> /\ owed' = TRUE /\ Miss(Heads \cup {i}, "dropped")
                 /\ Overflow \in Range(queue')
                 /\ Range(queue) \subseteq Range(queue') \cup {Head(queue)}
<1>0. QueueSize \in Nat \ {0} /\ Len(queue) \in Nat /\ Overflow \in Messages /\ i \in Messages
    BY LimitsAssumption DEF Messages
<1>1. CASE ~Full
  <2>1. queue' = Append(queue, i) /\ UNCHANGED <<missed, owed>> BY <1>1 DEF Send
  <2>. QED BY <1>0, <1>1, <2>1, Grown DEF Full
<1>2. CASE Full
  <2>1. queue' = Append(Tail(queue), Overflow) /\ owed' = TRUE /\ Miss(Heads \cup {i}, "dropped")
      BY <1>2 DEF Send
  <2>2. queue # <<>> /\ Len(queue) = QueueSize BY <1>0, <1>2 DEF Full
  <2>3. /\ Tail(queue) \in Seq(Messages) /\ Len(Tail(queue)) = Len(queue) - 1
        /\ Range(queue) = Range(Tail(queue)) \cup {Head(queue)}
      BY <2>2, Shrunk
  <2>. DEFINE rest == Tail(queue)
  <2>. HIDE DEF rest
  <2>0. rest \in Seq(Messages) /\ Overflow \in Messages BY <1>0, <2>3 DEF rest
  <2>4. /\ Append(rest, Overflow) \in Seq(Messages) /\ Len(Append(rest, Overflow)) = Len(rest) + 1
        /\ Range(Append(rest, Overflow)) = Range(rest) \cup {Overflow}
      BY <2>0, Grown
  <2>5. queue' = Append(rest, Overflow) /\ Len(rest) = Len(queue) - 1 BY <2>1, <2>3 DEF rest
  <2>6. Range(queue) = Range(rest) \cup {Head(queue)} BY <2>3 DEF rest
  <2>7. queue' \in Seq(Messages) /\ Len(queue') <= QueueSize BY <1>0, <2>2, <2>4, <2>5
  <2>8. Overflow \in Range(queue') /\ Range(queue) \subseteq Range(queue') \cup {Head(queue)}
      BY <2>4, <2>5, <2>6
  <2>. QED BY <1>2, <2>1, <2>2, <2>7, <2>8
<1>. QED BY <1>1, <1>2

\* Every variable keeps its type.
LEMMA FeedTypeStep ==
    ASSUME FeedTypeOK, [FeedNext]_feedVars
    PROVE  FeedTypeOK'
<1>0. /\ NumEvents \in Nat /\ QueueSize \in Nat \ {0} /\ ReplayLimit \in Nat /\ MaxLosses \in Nat
      /\ 0 \in 0 .. NumEvents /\ 0 \in 0 .. MaxLosses /\ Events \subseteq 0 .. NumEvents
      /\ <<>> \in Seq(Messages) /\ Len(<<>>) = 0
      /\ {"dropped", "slipped", "fresh", "behind", "resync"} \subseteq Reasons
    BY LimitsAssumption DEF Events, Reasons
<1>1. queue \in Seq(Messages) /\ Len(queue) <= QueueSize BY DEF FeedTypeOK, Messages
<1>2. IsFiniteSet(committed) /\ \A S \in SUBSET committed : IsFiniteSet(S) /\ Cardinality(S) \in Nat
  <2>1. IsFiniteSet(Events) BY <1>0, FS_Interval DEF Events
  <2>. QED BY <2>1, FS_Subset, FS_CardinalityType DEF FeedTypeOK
<1>3. TooLong # {} /\ \A S \in SUBSET Events : S # TooLong BY DEF TooLong, Overflow, Events
<1>. USE <1>0, <1>1 DEF link, tab
<1>4. ASSUME NEW S, NEW why \in Reasons, Miss(S, why) PROVE missed' \in [Events -> Reasons]
    BY <1>4 DEF Miss, FeedTypeOK
<1>5. CASE UNCHANGED feedVars BY <1>5 DEF feedVars, FeedTypeOK
<1>6. ASSUME NEW i \in Events, Happen(i) PROVE FeedTypeOK'
  <2>1. backlog' # TooLong => backlog' \subseteq committed' /\ Cardinality(backlog') <= ReplayLimit
      BY <1>6 DEF Happen, FeedTypeOK
  <2>2. queue' \in Seq(committed' \cup {Overflow})
    <3>1. committed \cup {Overflow} \subseteq committed' \cup {Overflow} BY <1>6 DEF Happen
    <3>. QED BY <1>6, <3>1 DEF Happen, FeedTypeOK
  <2>. QED BY <1>6, <2>1, <2>2 DEF Happen, FeedTypeOK
<1>7. ASSUME NEW i \in Events, HubPublish(i) PROVE FeedTypeOK'
  <2>1. queue' \in Seq(Messages) /\ Len(queue') <= QueueSize /\ owed' \in BOOLEAN /\ missed' \in [Events -> Reasons]
    <3>1. CASE sub
      <4>1. Send(i) /\ i \in committed BY <1>7, <3>1 DEF HubPublish
      <4>. QED BY <4>1, Queued, <1>4 DEF FeedTypeOK
    <3>2. CASE ~sub BY <1>7, <3>2, <1>4 DEF HubPublish, FeedTypeOK
    <3>. QED BY <3>1, <3>2
  <2>. QED BY <1>7, <2>1 DEF HubPublish, FeedTypeOK, Messages
<1>8. CASE Revoke BY <1>8 DEF Revoke, FeedTypeOK
<1>9. CASE RecheckAll BY <1>9 DEF RecheckAll, FeedTypeOK
<1>10. CASE Replay
  <2>. DEFINE replayed == {i \in committed : since > 0 /\ i > since}
              behindIt == {i \in atHub : i <= since} \ shown
  <2>1. CASE Cardinality(replayed) > ReplayLimit
    <3>1. /\ backlog' = TooLong
          /\ missed' = [i \in Events |-> IF i \in behindIt THEN "behind"
                                         ELSE IF i \in (replayed \cap atHub) \ shown THEN "resync"
                                         ELSE missed[i]]
        BY <1>10, <2>1 DEF Replay, ReplayAbove
    <3>2. missed' \in [Events -> Reasons] BY <3>1 DEF FeedTypeOK
    <3>. QED BY <1>10, <3>1, <3>2 DEF Replay, ReplayAbove, FeedTypeOK
  <2>2. CASE ~(Cardinality(replayed) > ReplayLimit)
    <3>1. /\ backlog' = replayed /\ \E S : Miss(S, "fresh") \/ Miss(S, "behind")
        BY <1>10, <2>2 DEF Replay, ReplayAbove
    <3>2. missed' \in [Events -> Reasons] BY <3>1, <1>4
    <3>3. backlog' \subseteq committed /\ Cardinality(backlog') <= ReplayLimit BY <1>2, <2>2, <3>1
    <3>. QED BY <1>10, <3>2, <3>3 DEF Replay, ReplayAbove, FeedTypeOK
  <2>. QED BY <2>1, <2>2
<1>11. CASE Deny BY <1>11 DEF Deny, FeedTypeOK
<1>12. CASE Subscribe BY <1>12 DEF Subscribe, FeedTypeOK
<1>13. CASE SendBacklog
  <2>1. CASE backlog = {} BY <1>13, <2>1 DEF SendBacklog, FeedTypeOK
  <2>2. CASE backlog = TooLong
    <3>1. {} \subseteq committed /\ Cardinality({}) <= ReplayLimit BY FS_EmptySet
    <3>. QED BY <1>13, <1>3, <2>2, <3>1 DEF SendBacklog, FeedTypeOK
  <2>3. CASE backlog # {} /\ backlog # TooLong
    <3>1. PICK i \in backlog : backlog' = backlog \ {i} /\ Deliver(i) BY <1>13, <2>3 DEF SendBacklog
    <3>2. backlog \subseteq committed /\ Cardinality(backlog) <= ReplayLimit BY <2>3 DEF FeedTypeOK
    <3>3. backlog' \subseteq committed /\ Cardinality(backlog') <= ReplayLimit
        BY <1>2, <3>1, <3>2, FS_Subset
    <3>4. last' \in 0 .. NumEvents /\ shown' \subseteq committed
        BY <3>1, <3>2 DEF Deliver, FeedTypeOK, Events
    <3>. QED BY <1>13, <2>3, <3>3, <3>4 DEF SendBacklog, FeedTypeOK
  <2>. QED BY <2>1, <2>2, <2>3
<1>14. CASE SendQueued
  <2>1. Head(queue) \in Messages /\ Tail(queue) \in Seq(Messages) /\ Len(Tail(queue)) = Len(queue) - 1
      BY <1>14, Shrunk DEF SendQueued
  <2>2. queue' \in Seq(Messages) /\ Len(queue') <= QueueSize BY <1>14, <2>1 DEF SendQueued
  <2>3. CASE Head(queue) = Overflow
    <3>1. owed' \in BOOLEAN
      <4>1. owed' = (Overflow \in Range(Tail(queue))) BY <1>14, <2>3, Zenon DEF SendQueued
      <4>2. CASE Overflow \in Range(Tail(queue)) BY <4>1, <4>2
      <4>3. CASE Overflow \notin Range(Tail(queue)) BY <4>1, <4>3
      <4>. QED BY <4>2, <4>3
    <3>2. last' \in 0 .. NumEvents BY <1>14, <2>3 DEF SendQueued
    <3>. QED BY <1>14, <2>2, <2>3, <3>1, <3>2 DEF SendQueued, FeedTypeOK, Messages
  <2>4. CASE Head(queue) # Overflow
    <3>1. Head(queue) \in committed /\ Head(queue) \in 0 .. NumEvents
        BY <2>1, <2>4 DEF Messages, FeedTypeOK
    <3>2. last' \in 0 .. NumEvents BY <1>14, <2>4, <3>1 DEF SendQueued, Deliver, FeedTypeOK
    <3>3. shown' \subseteq committed BY <1>14, <2>4, <3>1 DEF SendQueued, Deliver, FeedTypeOK
    <3>. QED BY <1>14, <2>2, <2>4, <3>2, <3>3 DEF SendQueued, FeedTypeOK, Messages
  <2>. QED BY <2>3, <2>4
<1>15. CASE Guard BY <1>15 DEF Guard, Reauthorize, FeedTypeOK
<1>16. CASE Connect BY <1>16 DEF Connect, FeedTypeOK
<1>17. CASE LoseConnection
  <2>1. {} \subseteq committed /\ Cardinality({}) <= ReplayLimit BY FS_EmptySet
  <2>2. queue' \in Seq(Messages) /\ Len(queue') <= QueueSize BY <1>17 DEF LoseConnection
  <2>3. losses' \in 0 .. MaxLosses BY <1>17 DEF LoseConnection, FeedTypeOK
  <2>4. backlog' \subseteq committed' /\ Cardinality(backlog') <= ReplayLimit
      BY <1>17, <2>1 DEF LoseConnection
  <2>. QED BY <1>17, <2>2, <2>3, <2>4 DEF LoseConnection, FeedTypeOK, Messages
<1>18. CASE Focus BY <1>18 DEF Focus, FeedTypeOK
<1>. QED BY <1>5, <1>6, <1>7, <1>8, <1>9, <1>10, <1>11, <1>12, <1>13, <1>14, <1>15, <1>16, <1>17, <1>18
         DEF FeedNext, Reader

\* Type correctness of a tab's feed: the queue never holds more than its size, a
\* backlog never more than the replay limit.
THEOREM FeedTypeCorrect == FeedSpec => []FeedTypeOK
<1>1. FeedInit => FeedTypeOK
  <2>1. SUFFICES ASSUME FeedInit PROVE FeedTypeOK OBVIOUS
  <2>2. /\ NumEvents \in Nat /\ QueueSize \in Nat \ {0} /\ ReplayLimit \in Nat /\ MaxLosses \in Nat
        /\ 0 \in 0 .. NumEvents /\ 0 \in 0 .. MaxLosses
      BY LimitsAssumption
  <2>3. queue \in Seq(committed \cup {Overflow}) /\ Len(queue) <= QueueSize BY <2>1, <2>2 DEF FeedInit
  <2>4. backlog \subseteq committed /\ Cardinality(backlog) <= ReplayLimit
      BY <2>1, <2>2, FS_EmptySet DEF FeedInit
  <2>5. missed \in [Events -> Reasons] BY <2>1 DEF FeedInit, Reasons
  <2>. QED BY <2>1, <2>2, <2>3, <2>4, <2>5 DEF FeedInit, FeedTypeOK
<1>2. FeedTypeOK /\ [FeedNext]_feedVars => FeedTypeOK' BY FeedTypeStep
<1>. QED BY <1>1, <1>2, PTL DEF FeedSpec

-----------------------------------------------------------------------------
(* The marker.                                                                *)

LEMMA MarkerStep ==
    ASSUME FeedTypeOK, OverflowTold, [FeedNext]_feedVars
    PROVE  OverflowTold'
<1>0. queue \in Seq(Messages) /\ Len(queue) <= QueueSize BY DEF FeedTypeOK, Messages
<1>1. CASE UNCHANGED <<queue, owed>> BY <1>1 DEF OverflowTold
<1>2. ASSUME NEW i \in Events, HubPublish(i) PROVE OverflowTold'
  <2>1. CASE ~sub BY <1>1, <1>2, <2>1 DEF HubPublish
  <2>2. CASE sub
    <3>1. Send(i) /\ i \in committed BY <1>2, <2>2 DEF HubPublish
    <3>. QED BY <1>0, <3>1, Queued DEF OverflowTold
  <2>. QED BY <2>1, <2>2
<1>3. CASE SendQueued
  <2>1. queue # <<>> /\ queue' = Tail(queue) BY <1>3 DEF SendQueued
  <2>2. Range(queue) = Range(queue') \cup {Head(queue)} BY <1>0, <2>1, Shrunk
  <2>3. CASE Head(queue) = Overflow
    <3>1. owed' = (Overflow \in Range(Tail(queue))) BY <1>3, <2>3, Zenon DEF SendQueued
    <3>. QED BY <2>1, <3>1 DEF OverflowTold
  <2>4. CASE Head(queue) # Overflow
    <3>1. owed' = owed BY <1>3, <2>4 DEF SendQueued
    <3>. QED BY <2>2, <2>4, <3>1 DEF OverflowTold
  <2>. QED BY <2>3, <2>4
<1>4. CASE LoseConnection BY <1>4 DEF LoseConnection, OverflowTold
<1>5. CASE SendBacklog BY <1>1, <1>5 DEF SendBacklog
<1>. QED
  BY <1>1, <1>2, <1>3, <1>4, <1>5
  DEF FeedNext, feedVars, link, tab, Reader, Happen, Revoke, RecheckAll, Replay, ReplayAbove, Deny, Subscribe,
      Guard, Reauthorize, Connect, Focus

\* Whatever a slow tab loses from its queue, a marker is behind it: the tab
\* reads of the loss before it reads anything that came after.
THEOREM LossIsTold == FeedSpec => []OverflowTold
<1>1. FeedInit => OverflowTold BY DEF FeedInit, OverflowTold
<1>2. FeedTypeOK /\ OverflowTold /\ [FeedNext]_feedVars => OverflowTold' BY MarkerStep
<1>. QED BY <1>1, <1>2, FeedTypeCorrect, PTL DEF FeedSpec

-----------------------------------------------------------------------------
(* The five sets.  A published event that the tab does not show is named as   *)
(* lost, or is on its way in the queue or the backlog, or is none of this     *)
(* connection's: it has not subscribed, and what it asks for is not read yet. *)

NotYet == ~sub /\ reader # "read"
Covered(i) ==
    i \in shown \/ missed[i] # "none" \/ i \in Range(queue) \/ i \in backlog \/ NotYet

FeedInv ==
    /\ sub => up /\ reader \in {"idle", "sending"}
    /\ ~up => reader = "idle"
    /\ reader \in {"idle", "asked"} => backlog = {}
    /\ \A i \in atHub : Covered(i)

\* What is named as lost stays named.
LEMMA NamedStays ==
    ASSUME missed \in [Events -> Reasons], NEW S, NEW why \in Reasons \ {"none"}, Miss(S, why)
    PROVE  /\ \A i \in Events : missed[i] # "none" => missed'[i] # "none"
           /\ \A i \in Events : i \in S \ shown => missed'[i] # "none"
BY DEF Miss

LEMMA FeedStep ==
    ASSUME FeedTypeOK, FeedInv, [FeedNext]_feedVars
    PROVE  FeedInv'
<1>0. /\ queue \in Seq(Messages) /\ Len(queue) <= QueueSize
      /\ atHub \subseteq committed /\ committed \subseteq Events /\ shown \subseteq committed
      /\ missed \in [Events -> Reasons] /\ {"dropped", "slipped", "fresh", "behind"} \subseteq Reasons \ {"none"}
    BY DEF FeedTypeOK, Messages, Reasons
<1>. DEFINE Links == (sub => up /\ reader \in {"idle", "sending"}) /\ (~up => reader = "idle")
                      /\ (reader \in {"idle", "asked"} => backlog = {})
<1>1. Links /\ \A i \in atHub : Covered(i) BY DEF FeedInv
\* Steps that take nothing away.
<1>2. ASSUME UNCHANGED <<atHub, sub, reader>>, up \/ ~sub', up => up', shown \subseteq shown',
             UNCHANGED <<missed, queue, backlog>>
      PROVE  FeedInv'
    BY <1>1, <1>2 DEF FeedInv, Covered, NotYet
<1>3. CASE UNCHANGED feedVars BY <1>2, <1>3 DEF feedVars, link, tab, FeedInv
<1>4. ASSUME NEW i \in Events, Happen(i) PROVE FeedInv' BY <1>2, <1>4, <1>1 DEF Happen, link, tab
<1>5. ASSUME NEW i \in Events, HubPublish(i) PROVE FeedInv'
  <2>1. i \in committed /\ atHub' = atHub \cup {i} BY <1>5 DEF HubPublish
  <2>2. UNCHANGED <<up, sub, reader, backlog, shown>> BY <1>5 DEF HubPublish, tab
  <2>3. SUFFICES ASSUME NEW k \in atHub' PROVE Covered(k)' BY <1>1, <2>2 DEF FeedInv
  <2>4. k \in Events /\ (k \in atHub \/ k = i) BY <1>0, <2>1
  <2>5. CASE sub
    <3>1. Send(i) BY <1>5, <2>5 DEF HubPublish
    <3>2. CASE ~Full /\ Range(queue') = Range(queue) \cup {i} /\ UNCHANGED <<missed, owed>>
        BY <1>1, <2>2, <2>4, <3>2 DEF Covered, NotYet
    <3>3. CASE /\ Full /\ Miss(Heads \cup {i}, "dropped")
               /\ Range(queue) \subseteq Range(queue') \cup {Head(queue)}
      <4>1. /\ missed[k] # "none" => missed'[k] # "none"
            /\ k \in (Heads \cup {i}) \ shown => missed'[k] # "none"
          BY <1>0, <2>4, <3>3, NamedStays
      <4>2. k = Head(queue) => k \in Heads BY <2>4, <3>3 DEF Heads, Overflow, Events
      <4>. QED BY <1>1, <2>2, <2>4, <2>5, <3>3, <4>1, <4>2 DEF Covered, NotYet
    <3>. QED BY <1>0, <2>1, <3>1, <3>2, <3>3, Queued
  <2>6. CASE ~sub
    <3>1. queue' = queue BY <1>5, <2>6 DEF HubPublish
    <3>2. CASE reader = "read" /\ i \notin backlog
      <4>1. Miss({i}, "slipped") BY <1>5, <2>6, <3>2 DEF HubPublish
      <4>2. /\ missed[k] # "none" => missed'[k] # "none"
            /\ k \in {i} \ shown => missed'[k] # "none"
          BY <1>0, <2>4, <4>1, NamedStays
      <4>. QED BY <1>1, <2>2, <2>4, <3>1, <3>2, <4>2 DEF Covered, NotYet
    <3>3. CASE reader # "read" \/ i \in backlog
      <4>1. missed' = missed BY <1>5, <2>6, <3>3 DEF HubPublish
      <4>. QED BY <1>1, <2>2, <2>4, <2>6, <3>1, <3>3, <4>1 DEF Covered, NotYet
    <3>. QED BY <3>2, <3>3
  <2>. QED BY <2>5, <2>6
<1>6. CASE Revoke BY <1>1, <1>2, <1>6 DEF Revoke, link, tab
<1>7. CASE RecheckAll BY <1>1, <1>2, <1>7 DEF RecheckAll, tab
<1>8. CASE Replay
  <2>. DEFINE replayed == {i \in committed : since > 0 /\ i > since}
              behindIt == {i \in atHub : i <= since} \ shown
  <2>1. /\ up /\ reader = "asked" /\ reader' = "read" /\ ~sub
        /\ UNCHANGED <<atHub, up, sub, shown, queue>>
      BY <1>1, <1>8 DEF Replay, ReplayAbove, tab
  <2>2. SUFFICES ASSUME NEW k \in atHub PROVE Covered(k)' BY <2>1 DEF FeedInv
  <2>3. k \in Events /\ k \in committed /\ since \in Nat /\ k > 0 /\ k \in Nat
      BY <1>0, LimitsAssumption DEF FeedTypeOK, Events
  <2>4. k \in replayed \/ k \in behindIt \/ k \in shown \/ since = 0 BY <2>3
  <2>5. CASE Cardinality(replayed) > ReplayLimit
    <3>1. missed' = [i \in Events |-> IF i \in behindIt THEN "behind"
                                      ELSE IF i \in (replayed \cap atHub) \ shown THEN "resync"
                                      ELSE missed[i]]
        BY <1>8, <2>5 DEF Replay, ReplayAbove
    <3>2. since # 0
      <4>1. SUFFICES ASSUME since = 0 PROVE FALSE OBVIOUS
      <4>2. replayed = {} BY <4>1
      <4>. QED BY <2>5, <4>2, FS_EmptySet, LimitsAssumption
    <3>. QED BY <2>1, <2>3, <2>4, <3>1, <3>2 DEF Covered
  <2>6. CASE ~(Cardinality(replayed) > ReplayLimit)
    <3>1. backlog' = replayed /\ (IF since = 0 THEN Miss(atHub, "fresh") ELSE Miss(behindIt, "behind"))
        BY <1>8, <2>6 DEF Replay, ReplayAbove
    <3>2. CASE since = 0
      <4>1. k \in atHub \ shown => missed'[k] # "none" BY <1>0, <2>3, <3>1, <3>2, NamedStays
      <4>. QED BY <2>1, <4>1 DEF Covered
    <3>3. CASE since # 0
      <4>1. k \in behindIt \ shown => missed'[k] # "none" BY <1>0, <2>3, <3>1, <3>3, NamedStays
      <4>. QED BY <2>1, <2>4, <3>1, <3>3, <4>1 DEF Covered
    <3>. QED BY <3>2, <3>3
  <2>. QED BY <2>5, <2>6
<1>9. CASE Deny BY <1>1, <1>9 DEF Deny, tab, FeedInv, Covered, NotYet
<1>10. CASE Subscribe BY <1>1, <1>10 DEF Subscribe, tab, FeedInv, Covered, NotYet
<1>11. CASE SendBacklog
  <2>1. /\ reader = "sending" /\ UNCHANGED <<atHub, up, sub, queue, missed>>
        /\ ((reader' = "idle" /\ backlog' = {}) \/ reader' = "sending")
    <3>1. CASE backlog = {} BY <1>11, <3>1 DEF SendBacklog, tab
    <3>2. CASE backlog # {}
      <4>1. CASE backlog = TooLong BY <1>11, <3>2, <4>1 DEF SendBacklog
      <4>2. CASE backlog # TooLong BY <1>11, <3>2, <4>2 DEF SendBacklog
      <4>. QED BY <4>1, <4>2
    <3>. QED BY <3>1, <3>2
  <2>2. \A i \in backlog : i \in backlog' \/ i \in shown' \/ i \notin Events
    <3>1. CASE backlog = {} BY <3>1
    <3>2. CASE backlog = TooLong BY <3>2 DEF TooLong, Overflow, Events
    <3>3. CASE backlog # {} /\ backlog # TooLong
      <4>1. PICK i \in backlog : backlog' = backlog \ {i} /\ Deliver(i) BY <1>11, <3>3 DEF SendBacklog
      <4>. QED BY <4>1 DEF Deliver
    <3>. QED BY <3>1, <3>2, <3>3
  <2>3. shown \subseteq shown' BY <1>11 DEF SendBacklog, Deliver, tab
  <2>. QED BY <1>0, <1>1, <2>1, <2>2, <2>3 DEF FeedInv, Covered, NotYet
<1>12. CASE SendQueued
  <2>1. /\ queue # <<>> /\ queue' = Tail(queue) /\ UNCHANGED <<atHub, up, sub, reader, missed, backlog>>
      BY <1>12 DEF SendQueued
  <2>2. Range(queue) = Range(queue') \cup {Head(queue)} BY <1>0, <2>1, Shrunk
  <2>3. shown \subseteq shown' /\ (Head(queue) # Overflow => Head(queue) \in shown')
      BY <1>12 DEF SendQueued, Deliver
  <2>4. Overflow \notin Events BY DEF Overflow, Events
  <2>. QED BY <1>0, <1>1, <2>1, <2>2, <2>3, <2>4 DEF FeedInv, Covered, NotYet
<1>13. CASE Guard
  <2>1. UNCHANGED <<atHub, up, reader, queue, missed, backlog>> /\ up
      BY <1>13 DEF Guard, Reauthorize
  <2>2. CASE sub /\ ~may
    <3>1. shown' = committed /\ ~sub' BY <1>13, <2>2 DEF Guard, Reauthorize
    <3>. QED BY <1>0, <1>1, <2>1, <3>1 DEF FeedInv, Covered
  <2>3. CASE ~(sub /\ ~may)
    <3>1. UNCHANGED <<sub, shown>> BY <1>13, <2>3 DEF Guard, Reauthorize, tab
    <3>. QED BY <1>1, <2>1, <3>1 DEF FeedInv, Covered, NotYet
  <2>. QED BY <2>2, <2>3
<1>14. CASE Connect BY <1>1, <1>14 DEF Connect, tab, FeedInv, Covered, NotYet
<1>15. CASE LoseConnection BY <1>1, <1>15 DEF LoseConnection, tab, FeedInv, Covered, NotYet
<1>16. CASE Focus BY <1>0, <1>1, <1>2, <1>16 DEF Focus, link
<1>. QED BY <1>3, <1>4, <1>5, <1>6, <1>7, <1>8, <1>9, <1>10, <1>11, <1>12, <1>13, <1>14, <1>15, <1>16
         DEF FeedNext, Reader

\* A tab at rest shows everything that happened on its channel, but for what
\* was lost in one of the five named ways.
THEOREM NothingElseIsLost == FeedSpec => []NoOtherGap
<1>1. FeedInit => FeedInv BY DEF FeedInit, FeedInv
<1>2. FeedTypeOK /\ FeedInv /\ [FeedNext]_feedVars => FeedInv' BY FeedStep
<1>3. FeedTypeOK /\ FeedInv => NoOtherGap
  <2>1. SUFFICES ASSUME FeedTypeOK, FeedInv, AtRest, NEW i \in committed
                 PROVE  i \in shown \/ missed[i] # "none"
      BY DEF NoOtherGap
  <2>2. Covered(i) /\ i \notin Range(queue) /\ i \notin backlog /\ ~NotYet
      BY <2>1, NothingIn DEF FeedInv, AtRest, NotYet
  <2>. QED BY <2>1, <2>2 DEF Covered
<1>. QED BY <1>1, <1>2, <1>3, FeedTypeCorrect, PTL DEF FeedSpec
=============================================================================
