--------------------------- MODULE JobEngineProofs ---------------------------
(* What holds of the job engine for any jobs, passes, program and bounds.     *)
EXTENDS JobEngine, TLAPS

------------------------------------------------------------------------------
(* Type correctness.  TypeOK alone is not inductive: that a step's row and    *)
(* the row of a job are really there when a pass writes them rests on what    *)
(* the pass has done before.                                                  *)

PassOK ==
    \A p \in Passes :
        /\ pc[p] # "idle" => cur[p] \in batch[p]
        /\ pc[p] \in {"body", "undo"} => at[p] \in Steps
        /\ pc[p] \in {"undo", "closing"} <=> outcome[p] # "none"
        /\ pc[p] = "undo" => outcome[p] \in {"failed", "budget_exceeded"}
        /\ outcome[p] = "waiting" => at[p] \in Sleeps

TypeInv == TypeOK /\ PassOK

LEMMA TypeInit == Init => TypeInv
BY ShapeAssumption DEF Init, TypeInv, TypeOK, PassOK, Statuses, RowStatuses, Outcomes, Steps

LEMMA TypeNext == TypeInv /\ [Next]_vars => TypeInv'
<1> SUFFICES ASSUME TypeInv, [Next]_vars PROVE TypeInv'
    OBVIOUS
<1> USE ShapeAssumption DEF TypeInv, TypeOK, PassOK, runVars, stepVars, passVars, world, Steps
<1>1. ASSUME NEW p \in Passes, Claim(p) PROVE TypeInv'
    BY <1>1 DEF Claim, Statuses
<1>2. ASSUME NEW p \in Passes, StepOfPass(p) PROVE TypeInv'
  <2>1. ASSUME NEW j \in Jobs, Skip(p, j) PROVE TypeInv'
      BY <2>1 DEF Skip, LeaveJob, Outcomes
  <2>2. ASSUME NEW j \in Jobs, Refuse(p, j) PROVE TypeInv'
    <3>1. \E o \in {"failed", "cancelled", "agent_off"} : Close(p, o)
        BY <2>2 DEF Refuse
    <3> QED
        BY <2>2, <3>1 DEF Refuse, Close, Outcomes
  <2>3. ASSUME NEW j \in Jobs, Prepare(p, j) PROVE TypeInv'
      BY <2>3 DEF Prepare, DoneRows
  <2>4. ASSUME Replay(p) PROVE TypeInv'
      BY <2>4 DEF Replay
  <2>5. ASSUME Suspend(p) PROVE TypeInv'
      BY <2>5 DEF Suspend, Close, Outcomes
  <2>6. ASSUME BeginStep(p) PROVE TypeInv'
    <3>1. row' \in [Jobs -> [Steps -> RowStatuses]]
        BY <2>6 DEF BeginStep, NewStep, RowStatuses
    <3> QED
        BY <2>6, <3>1 DEF BeginStep, NewStep
  <2>7. ASSUME Interrupt(p) PROVE TypeInv'
      BY <2>7 DEF Interrupt, NewStep, Close, Outcomes
  <2>8. ASSUME CommitStep(p) PROVE TypeInv'
    <3>1. cur[p] \in Jobs /\ at[p] \in Steps
        BY <2>8 DEF CommitStep
    <3>2. row' \in [Jobs -> [Steps -> RowStatuses]]
        BY <2>8, <3>1 DEF CommitStep, RowStatuses
    <3>3. applied' \in [Jobs -> [Steps -> 0 .. 2]]
        BY <2>8, <3>1 DEF CommitStep
    <3> QED
        BY <2>8, <3>1, <3>2, <3>3 DEF CommitStep
  <2>9. ASSUME FailStep(p) PROVE TypeInv'
      BY <2>9 DEF FailStep, Outcomes
  <2>10. ASSUME MarkFailed(p) PROVE TypeInv'
    <3>1. row' \in [Jobs -> [Steps -> RowStatuses]]
        BY <2>10 DEF MarkFailed, RowStatuses
    <3> QED
        BY <2>10, <3>1 DEF MarkFailed
  <2>11. ASSUME Raise(p) PROVE TypeInv'
      BY <2>11 DEF Raise, Close, Outcomes
  <2>12. ASSUME Return(p) PROVE TypeInv'
      BY <2>12 DEF Return, Close, Outcomes
  <2>13. ASSUME Finish(p) PROVE TypeInv'
    <3>1. cur[p] \in Jobs /\ outcome[p] # "none"
        BY <2>13 DEF Finish
    <3>2. PassOK' /\ batch' \in [Passes -> SUBSET Jobs]
        BY <2>13 DEF Finish, LeaveJob
    <3>3. CASE status[cur[p]] # "running" \/ outcome[p] = "interrupted"
        BY <2>13, <3>2, <3>3 DEF Finish, LeaveJob, Outcomes
    <3>4. CASE ~(status[cur[p]] # "running" \/ outcome[p] = "interrupted")
      <4>1. FinishRow(p, cur[p])
          BY <2>13, <3>4 DEF Finish
      <4>2. /\ status' \in [Jobs -> Statuses]
            /\ timer' \in [Jobs -> Sleeps \cup {0}]
            /\ hold' \in [Jobs -> {"none", "paused", "agent_off"}]
            /\ attempt' = attempt
          BY <3>1, <3>4, <4>1 DEF FinishRow, Outcomes, Statuses
      <4> QED
          BY <2>13, <3>2, <4>2 DEF Finish, LeaveJob, Outcomes
    <3> QED
        BY <3>3, <3>4
  <2> QED
      BY <1>2, <2>1, <2>2, <2>3, <2>4, <2>5, <2>6, <2>7, <2>8, <2>9, <2>10, <2>11,
         <2>12, <2>13 DEF StepOfPass
<1>3. ASSUME NEW p \in Passes, Crash(p) PROVE TypeInv'
    BY <1>3 DEF Crash, Outcomes
<1>4. ASSUME NEW j \in Jobs, Tick(j) PROVE TypeInv'
  <2>1. CASE TickTimer(j)
    <3>1. timer[j] \in Sleeps
        BY <2>1 DEF TickTimer, RowStatuses
    <3>2. row' \in [Jobs -> [Steps -> RowStatuses]]
        BY <2>1, <3>1 DEF TickTimer, RowStatuses
    <3>3. applied' \in [Jobs -> [Steps -> 0 .. 2]]
      <4>1. applied[j] \in [Steps -> 0 .. 2] /\ timer[j] \in Steps
          BY <3>1
      <4>2. [applied[j] EXCEPT ![timer[j]] = IF @ = 0 THEN 1 ELSE 2] \in [Steps -> 0 .. 2]
          BY <4>1
      <4> QED
          BY <2>1, <4>2 DEF TickTimer
    <3> QED
        BY <2>1, <3>2, <3>3 DEF TickTimer, Statuses
  <2>2. CASE TickExpire(j)
      BY <2>2 DEF TickExpire, Statuses
  <2>3. CASE TickStale(j)
    <3>1. UNCHANGED <<hold, timer, stepVars, world, passVars>>
        BY <2>3 DEF TickStale
    <3>2. status' \in [Jobs -> Statuses]
        BY <2>3 DEF TickStale, Statuses
    <3>3. attempt' = attempt \/ attempt' = [attempt EXCEPT ![j] = @ + 1]
        BY <2>3 DEF TickStale
    <3>4. attempt[j] + 1 \in Nat
        OBVIOUS
    <3>5. attempt' \in [Jobs -> Nat]
        BY <3>3, <3>4
    <3> QED
        BY <3>1, <3>2, <3>5
  <2> QED
      BY <1>4, <2>1, <2>2, <2>3 DEF Tick
<1>5. ASSUME NEW j \in Jobs, Person(j) PROVE TypeInv'
  <2>1. CASE Pause(j)
      BY <2>1 DEF Pause, Statuses
  <2>2. CASE Resume(j)
      BY <2>2 DEF Resume, Restored, Statuses
  <2>3. CASE Cancel(j)
      BY <2>3 DEF Cancel, Statuses
  <2>4. CASE Retry(j)
    <3>1. row' \in [Jobs -> [Steps -> RowStatuses]]
        BY <2>4 DEF Retry, RowStatuses
    <3> QED
        BY <2>4, <3>1 DEF Retry, Statuses
  <2>5. CASE UndoAll(j)
      BY <2>5 DEF UndoAll
  <2> QED
      BY <1>5, <2>1, <2>2, <2>3, <2>4, <2>5 DEF Person
<1>6. ASSUME NEW j \in Jobs, NEW k \in Sleeps, TimeComes(j, k) PROVE TypeInv'
    BY <1>6 DEF TimeComes
<1>7. ASSUME AgentOff PROVE TypeInv'
    BY <1>7 DEF AgentOff, Statuses
<1>8. ASSUME AgentOn PROVE TypeInv'
    BY <1>8 DEF AgentOn, Restored, Statuses
<1>9. CASE UNCHANGED vars
    BY <1>9 DEF vars
<1> QED
    BY <1>1, <1>2, <1>3, <1>4, <1>5, <1>6, <1>7, <1>8, <1>9 DEF Next

\* Every variable keeps its type, for any instance of the engine.
THEOREM TypeCorrect == Spec => []TypeOK
<1>1. TypeInv => TypeOK
    BY DEF TypeInv
<1> QED
    BY <1>1, TypeInit, TypeNext, PTL DEF Spec

------------------------------------------------------------------------------
(* What needs no care: these hold even when passes overlap.                   *)

\* No claim, requeue, resume or retry leaves two runs of one agent running on
\* one entity (claim_runs).
THEOREM SlotsExclude == Spec => []SlotExclusive
<1>1. Init => SlotExclusive
    BY DEF Init, SlotExclusive
<1>2. TypeInv /\ SlotExclusive /\ [Next]_vars => SlotExclusive'
  <2> SUFFICES ASSUME TypeInv, SlotExclusive, [Next]_vars PROVE SlotExclusive'
      OBVIOUS
  <2> USE DEF TypeInv, TypeOK, SlotExclusive
  <2>1. ASSUME NEW p \in Passes, Claim(p) PROVE SlotExclusive'
    <3>1. PICK B \in SUBSET {j \in Jobs : status[j] = "queued" /\ SlotFree(j)} :
              /\ \A i, j \in B : i # j => SlotOf[i] = NoSlot \/ SlotOf[i] # SlotOf[j]
              /\ status' = [j \in Jobs |-> IF j \in B THEN "running" ELSE status[j]]
        BY <2>1 DEF Claim
    <3>2. \A i \in B, j \in Jobs : status[j] = "running" =>
              SlotOf[i] = NoSlot \/ SlotOf[i] # SlotOf[j]
        BY <3>1 DEF SlotFree
    <3> QED
        BY <3>1, <3>2
  <2>2. ASSUME \A j \in Jobs : status'[j] = "running" => status[j] = "running"
        PROVE  SlotExclusive'
      BY <2>2
  <2>3. ASSUME NEW p \in Passes, StepOfPass(p) PROVE SlotExclusive'
    <3>1. CASE Finish(p)
        BY <2>2, <3>1 DEF Finish, FinishRow, PassOK, runVars
    <3>2. ~Finish(p) => status' = status
        BY <2>3 DEF StepOfPass, Skip, Refuse, Prepare, Replay, Suspend, BeginStep,
           Interrupt, CommitStep, FailStep, MarkFailed, Raise, Return, runVars
    <3> QED
        BY <2>2, <3>1, <3>2
  <2>4. ASSUME NEW p \in Passes, Crash(p) PROVE SlotExclusive'
      BY <2>2, <2>4 DEF Crash, runVars
  <2>5. ASSUME NEW j \in Jobs, Tick(j) PROVE SlotExclusive'
      BY <2>2, <2>5 DEF Tick, TickTimer, TickExpire, TickStale
  <2>6. ASSUME NEW j \in Jobs, Person(j) PROVE SlotExclusive'
      BY <2>2, <2>6 DEF Person, Pause, Resume, Restored, Cancel, Retry, UndoAll, runVars
  <2>7. ASSUME NEW j \in Jobs, NEW k \in Sleeps, TimeComes(j, k) PROVE SlotExclusive'
      BY <2>2, <2>7 DEF TimeComes, runVars
  <2>8. CASE AgentOff \/ AgentOn
      BY <2>2, <2>8 DEF AgentOff, AgentOn, Restored
  <2>9. CASE UNCHANGED vars
      BY <2>2, <2>9 DEF vars, runVars
  <2> QED
      BY <2>1, <2>3, <2>4, <2>5, <2>6, <2>7, <2>8, <2>9 DEF Next
<1> QED
    BY <1>1, <1>2, TypeInit, TypeNext, PTL DEF Spec

------------------------------------------------------------------------------
(* The tick never meets a row it would insert twice, even when passes         *)
(* overlap.  The argument: a job has a timer only while it waits or is paused *)
(* out of waiting, so no body begins a row for it, and the row of a sleep is  *)
(* never made before the sleep is due, while the wait of _finish is.          *)

TimerInv ==
    /\ \A j \in Jobs : status[j] = "waiting" => timer[j] # 0
    /\ \A j \in Jobs : timer[j] # 0 =>
          status[j] \in {"waiting", "paused"} /\ row[j][timer[j]] = "none"
    /\ \A j \in Jobs : \A k \in Sleeps : row[j][k] # "none" => k \in due[j]
    /\ \A p \in Passes : pc[p] \in {"body", "undo"} /\ ~stray[p] => row[cur[p]][at[p]] # "none"

LEMMA TimerInit == Init => TimerInv
BY ShapeAssumption DEF Init, TimerInv, Steps

LEMMA TimerNext == ASSUME TypeInv, TimerInv, [Next]_vars PROVE TimerInv'
<1> USE ShapeAssumption DEF TypeInv, TypeOK, PassOK, TimerInv, runVars, stepVars, passVars,
        world, Steps
<1>1. ASSUME NEW p \in Passes, Claim(p) PROVE TimerInv'
    BY <1>1 DEF Claim
<1>2. ASSUME NEW p \in Passes, StepOfPass(p) PROVE TimerInv'
  <2>1. ASSUME NEW j \in Jobs, Skip(p, j) PROVE TimerInv'
      BY <2>1 DEF Skip, LeaveJob
  <2>2. ASSUME NEW j \in Jobs, Refuse(p, j) PROVE TimerInv'
      BY <2>2 DEF Refuse, Close
  <2>3. ASSUME NEW j \in Jobs, Prepare(p, j) PROVE TimerInv'
      BY <2>3 DEF Prepare
  <2>4. CASE Replay(p)
      BY <2>4 DEF Replay
  <2>5. CASE Suspend(p) \/ Interrupt(p) \/ Raise(p) \/ Return(p)
      BY <2>5 DEF Suspend, Interrupt, NewStep, Raise, Return, Close
  <2>6. CASE BeginStep(p)
    <3>1. cur[p] \in Jobs /\ at[p] \in Steps /\ status[cur[p]] = "running"
        BY <2>6 DEF BeginStep, NewStep
    <3>2. at[p] \in Sleeps => at[p] \in due[cur[p]]
        BY <2>6 DEF BeginStep, NewStep
    <3>3. /\ row' = [row EXCEPT ![cur[p]][at[p]] = "running"]
          /\ UNCHANGED <<status, timer, due, cur, at>>
          /\ pc' = [pc EXCEPT ![p] = "body"]
          /\ stray' = [stray EXCEPT ![p] = FALSE]
        BY <2>6 DEF BeginStep
    <3>4. timer[cur[p]] = 0
        BY <3>1
    <3> QED
        BY <3>1, <3>2, <3>3, <3>4
  <2>7. CASE CommitStep(p)
    <3>1. cur[p] \in Jobs /\ at[p] \in Steps
        BY <2>7 DEF CommitStep
    <3>2. /\ UNCHANGED <<status, timer, due, cur, stray>>
          /\ pc' = [pc EXCEPT ![p] = "handler"]
          /\ at' = [at EXCEPT ![p] = @ + 1]
        BY <2>7 DEF CommitStep
    <3>3. CASE stray[p]
        BY <2>7, <3>2, <3>3 DEF CommitStep
    <3>4. CASE ~stray[p]
      <4>1. row' = [row EXCEPT ![cur[p]][at[p]] = "done"] /\ row[cur[p]][at[p]] # "none"
          BY <2>7, <3>4 DEF CommitStep
      <4> QED
          BY <3>1, <3>2, <4>1
    <3> QED
        BY <3>3, <3>4
  <2>8. CASE FailStep(p)
      BY <2>8 DEF FailStep
  <2>9. CASE MarkFailed(p)
    <3>1. cur[p] \in Jobs /\ at[p] \in Steps
        BY <2>9 DEF MarkFailed
    <3>2. /\ UNCHANGED <<status, timer, due, cur, at, stray>>
          /\ pc' = [pc EXCEPT ![p] = "closing"]
        BY <2>9 DEF MarkFailed
    <3>3. CASE stray[p]
        BY <2>9, <3>2, <3>3 DEF MarkFailed
    <3>4. CASE ~stray[p]
      <4>1. row' = [row EXCEPT ![cur[p]][at[p]] = "failed"] /\ row[cur[p]][at[p]] # "none"
          BY <2>9, <3>4 DEF MarkFailed
      <4> QED
          BY <3>1, <3>2, <4>1
    <3> QED
        BY <3>3, <3>4
  <2>10. CASE Finish(p)
    <3>1. cur[p] \in Jobs /\ outcome[p] # "none"
        BY <2>10 DEF Finish
    <3>2. UNCHANGED <<row, due>> /\ pc' = [pc EXCEPT ![p] = "idle"] /\ cur' = [cur EXCEPT ![p] = NoJob]
          /\ at' = [at EXCEPT ![p] = 0] /\ stray' = [stray EXCEPT ![p] = FALSE]
        BY <2>10 DEF Finish, LeaveJob
    <3>3. CASE UNCHANGED runVars
        BY <3>2, <3>3
    <3>4. CASE FinishRow(p, cur[p])
      <4>1. \A i \in Jobs : i # cur[p] => status'[i] = status[i] /\ timer'[i] = timer[i]
          BY <3>4 DEF FinishRow
      <4>2. status'[cur[p]] = "waiting" => outcome[p] = "waiting" /\ at[p] \notin due[cur[p]]
          BY <3>1, <3>4 DEF FinishRow
      <4>3. timer'[cur[p]] = IF status'[cur[p]] = "waiting" THEN at[p] ELSE 0
          BY <3>1, <3>4 DEF FinishRow
      <4>4. status'[cur[p]] = "waiting" => at[p] \in Sleeps /\ at[p] # 0 /\ row[cur[p]][at[p]] = "none"
          BY <3>1, <4>2
      <4> HIDE DEF TypeInv, TypeOK, PassOK, Steps
      <4>5. /\ \A i \in Jobs : status'[i] = "waiting" => timer'[i] # 0
            /\ \A i \in Jobs : timer'[i] # 0 =>
                 status'[i] \in {"waiting", "paused"} /\ row'[i][timer'[i]] = "none"
          BY <3>1, <3>2, <4>1, <4>3, <4>4
      <4>6. \A q \in Passes : pc'[q] \in {"body", "undo"} /\ ~stray'[q] =>
                q # p /\ pc[q] \in {"body", "undo"} /\ ~stray[q] /\ cur'[q] = cur[q] /\ at'[q] = at[q]
          BY <3>2 DEF TypeInv, TypeOK
      <4> QED
          BY <3>2, <4>5, <4>6
    <3> QED
        BY <2>10, <3>3, <3>4 DEF Finish
  <2> QED
      BY <1>2, <2>1, <2>2, <2>3, <2>4, <2>5, <2>6, <2>7, <2>8, <2>9, <2>10 DEF StepOfPass
<1>3. ASSUME NEW p \in Passes, Crash(p) PROVE TimerInv'
    BY <1>3 DEF Crash
<1>4. ASSUME NEW j \in Jobs, Tick(j) PROVE TimerInv'
  <2>1. CASE TickTimer(j)
    <3>1. timer[j] \in Steps /\ timer[j] \in due[j]
        BY <2>1 DEF TickTimer
    <3>2. /\ row' = [row EXCEPT ![j][timer[j]] = "done"]
          /\ status' = [status EXCEPT ![j] = "queued"]
          /\ timer' = [timer EXCEPT ![j] = 0]
          /\ UNCHANGED <<due, passVars>>
        BY <2>1 DEF TickTimer
    <3> QED
        BY <3>1, <3>2
  <2>2. CASE TickExpire(j)
      BY <2>2 DEF TickExpire
  <2>3. CASE TickStale(j)
    <3>1. status[j] = "running" /\ UNCHANGED <<timer, row, due, passVars>>
        BY <2>3 DEF TickStale, Stale
    <3>2. \A i \in Jobs : i # j => status'[i] = status[i]
        BY <2>3 DEF TickStale
    <3>3. status'[j] # "waiting"
        BY <2>3 DEF TickStale
    <3> HIDE DEF TypeInv, TypeOK, PassOK, Steps
    <3> QED
        BY <3>1, <3>2, <3>3
  <2> QED
      BY <1>4, <2>1, <2>2, <2>3 DEF Tick
<1>5. ASSUME NEW j \in Jobs, Person(j) PROVE TimerInv'
  <2>1. CASE Pause(j)
      BY <2>1 DEF Pause
  <2>2. CASE Resume(j)
      BY <2>2 DEF Resume, Restored
  <2>3. CASE Cancel(j)
      BY <2>3 DEF Cancel
  <2>5. CASE UndoAll(j)
      BY <2>5 DEF UndoAll
  <2>4. CASE Retry(j)
    <3>1. status[j] \in Retryable /\ status' = [status EXCEPT ![j] = "queued"]
        BY <2>4 DEF Retry
    <3>2. /\ \A i \in Jobs : i # j => row'[i] = row[i]
          /\ \A k \in Steps : row'[j][k] = IF row[j][k] = "done" THEN "done" ELSE "none"
          /\ UNCHANGED <<timer, due, pc, cur, at>>
        BY <2>4 DEF Retry
    <3>3. ASSUME NEW q \in Passes, ~stray'[q], pc[q] \in {"body", "undo"}
          PROVE  /\ row[cur[q]][at[q]] # "none"
                 /\ cur[q] = j => row[j][at[q]] = "done"
      <4>1. stray'[q] = (stray[q] \/ (pc[q] \in {"body", "undo"} /\ cur[q] = j /\ row[j][at[q]] # "done"))
          BY <2>4 DEF Retry
      <4>2. ~stray[q] /\ (cur[q] = j => row[j][at[q]] = "done")
          BY <3>3, <4>1
      <4> QED
          BY <3>3, <4>2
    <3>4. ASSUME NEW q \in Passes, pc[q] \in {"body", "undo"}
          PROVE  at[q] \in Steps /\ cur[q] \in batch[q] /\ batch[q] \in SUBSET Jobs
        BY <3>4
    <3>11. status \in [Jobs -> Statuses] /\ Sleeps \subseteq Steps
        OBVIOUS
    <3> HIDE DEF TypeInv, TypeOK, PassOK, Steps
    <3>5. timer[j] = 0
        BY <3>1 DEF Retryable
    <3>6. \A i \in Jobs, k \in Steps : row'[i][k] # "none" => row'[i][k] = row[i][k]
      <4>1. ASSUME NEW i \in Jobs, NEW k \in Steps, row'[i][k] # "none"
            PROVE  row'[i][k] = row[i][k]
        <5>1. CASE i = j
            BY <3>2, <4>1, <5>1
        <5>2. CASE i # j
            BY <3>2, <5>2
        <5> QED
            BY <5>1, <5>2
      <4> QED
          BY <4>1
    <3>7. /\ \A i \in Jobs : status'[i] = "waiting" => timer'[i] # 0
          /\ \A i \in Jobs : timer'[i] # 0 =>
                status'[i] \in {"waiting", "paused"} /\ row'[i][timer'[i]] = "none"
        BY <3>1, <3>2, <3>5, <3>11
    <3>8. \A i \in Jobs : \A k \in Sleeps : row'[i][k] # "none" => k \in due'[i]
        BY <3>2, <3>6, <3>11
    <3>9. ASSUME NEW q \in Passes, pc'[q] \in {"body", "undo"}, ~stray'[q]
          PROVE  row'[cur'[q]][at'[q]] # "none"
      <4>1. pc[q] \in {"body", "undo"} /\ cur'[q] = cur[q] /\ at'[q] = at[q]
          BY <3>2, <3>9
      <4>2. at[q] \in Steps /\ cur[q] \in Jobs
          BY <3>4, <4>1
      <4>3. CASE cur[q] = j
          BY <3>2, <3>3, <3>9, <4>1, <4>2, <4>3
      <4>4. CASE cur[q] # j
          BY <3>2, <3>3, <3>9, <4>1, <4>2, <4>4
      <4> QED
          BY <4>3, <4>4
    <3> QED
        BY <3>7, <3>8, <3>9
  <2> QED
      BY <1>5, <2>1, <2>2, <2>3, <2>4, <2>5 DEF Person
<1>6. ASSUME NEW j \in Jobs, NEW k \in Sleeps, TimeComes(j, k) PROVE TimerInv'
    BY <1>6 DEF TimeComes
<1>7. ASSUME AgentOff PROVE TimerInv'
    BY <1>7 DEF AgentOff
<1>8. ASSUME AgentOn PROVE TimerInv'
    BY <1>8 DEF AgentOn, Restored
<1>9. CASE UNCHANGED vars
    BY <1>9 DEF vars
<1> QED
    BY <1>1, <1>2, <1>3, <1>4, <1>5, <1>6, <1>7, <1>8, <1>9 DEF Next

LEMMA TimerAlways == Spec => [](TypeInv /\ TimerInv)
<1>1. TypeInv /\ TimerInv /\ [Next]_vars => (TypeInv /\ TimerInv)'
    BY TypeNext, TimerNext
<1> QED
    BY <1>1, TypeInit, TimerInit, PTL DEF Spec

\* tick_jobs never inserts the row of a sleep that has one, so one job never
\* stops the tick for all, whether or not passes overlap (tick_jobs, _finish).
THEOREM TickIsSafe == Spec => []TickNeverConflicts
<1>1. TimerInv => TickNeverConflicts
    BY DEF TimerInv, TickNeverConflicts
<1> QED
    BY <1>1, TimerAlways, PTL

\* One step of the engine leaves every decision standing.
LEMMA DecisionNext ==
    ASSUME TypeInv, [Next]_vars, NEW j \in Jobs, status[j] \in {"paused"} \cup Terminal
    PROVE  /\ status'[j] \in MayBecome(status[j])
           /\ status[j] \in Terminal /\ status'[j] = "queued" => attempt'[j] = attempt[j] + 1
<1> DEFINE Stands == /\ status'[j] \in MayBecome(status[j])
                     /\ status[j] \in Terminal /\ status'[j] = "queued" => attempt'[j] = attempt[j] + 1
<1> USE DEF TypeInv, TypeOK, runVars
<1>k. status[j] \notin {"running", "queued", "waiting"}
    BY DEF Terminal
<1>s. status'[j] = status[j] => Stands
    BY DEF MayBecome, Terminal, Retryable
<1>m. /\ "paused" \notin Terminal
      /\ MayBecome("paused") = {"paused", "queued", "waiting", "cancelled", "expired"}
    BY DEF MayBecome, Terminal, Retryable
<1>1. ASSUME NEW p \in Passes, Claim(p) PROVE Stands
    BY <1>1, <1>k, <1>s DEF Claim
<1>2. ASSUME NEW p \in Passes, StepOfPass(p) PROVE Stands
  <2>1. CASE Finish(p)
    <3>1. cur[p] \in Jobs
        BY <2>1 DEF Finish, PassOK
    <3>2. status' = status \/ (status[cur[p]] = "running" /\ FinishRow(p, cur[p]))
        BY <2>1 DEF Finish
    <3> QED
        BY <1>k, <1>s, <3>1, <3>2 DEF FinishRow
  <2>2. ~Finish(p) => status' = status
      BY <1>2 DEF StepOfPass, Skip, Refuse, Prepare, Replay, Suspend, BeginStep,
         Interrupt, CommitStep, FailStep, MarkFailed, Raise, Return
  <2> QED
      BY <1>s, <2>1, <2>2
<1>3. ASSUME NEW p \in Passes, Crash(p) PROVE Stands
    BY <1>3, <1>s DEF Crash
<1>4. ASSUME NEW i \in Jobs, Tick(i) PROVE Stands
  <2>1. CASE i # j
      BY <1>4, <1>s, <2>1 DEF Tick, TickTimer, TickExpire, TickStale
  <2>2. CASE i = j
    <3>1. TickExpire(j) /\ status[j] = "paused" /\ status'[j] = "expired"
        BY <1>4, <1>k, <2>2 DEF Tick, TickTimer, TickExpire, TickStale, Stale
    <3> QED
        BY <1>m, <3>1
  <2> QED
      BY <2>1, <2>2
<1>5. ASSUME NEW i \in Jobs, Person(i) PROVE Stands
  <2>1. CASE i # j
      BY <1>5, <1>s, <2>1 DEF Person, Pause, Resume, Cancel, Retry, UndoAll
  <2>2. CASE i = j
    <3>1. CASE Resume(j)
        BY <1>m, <3>1 DEF Resume, Restored
    <3>2. CASE Cancel(j)
      <4>1. status[j] = "paused" /\ status'[j] = "cancelled"
          BY <1>k, <3>2 DEF Cancel, Open
      <4> QED
          BY <1>m, <4>1
    <3>3. CASE Retry(j)
      <4>1. status[j] \in Retryable /\ status'[j] = "queued" /\ attempt'[j] = attempt[j] + 1
          BY <3>3 DEF Retry
      <4> QED
          BY <4>1 DEF MayBecome, Retryable
    <3>4. CASE UndoAll(j)
        BY <1>s, <3>4 DEF UndoAll
    <3>5. ~Pause(j)
        BY <1>k DEF Pause
    <3> QED
        BY <1>5, <2>2, <3>1, <3>2, <3>3, <3>4, <3>5 DEF Person
  <2> QED
      BY <2>1, <2>2
<1>6. ASSUME NEW i \in Jobs, NEW k \in Sleeps, TimeComes(i, k) PROVE Stands
    BY <1>6, <1>s DEF TimeComes
<1>7. CASE AgentOff
    BY <1>7, <1>k, <1>s DEF AgentOff
<1>8. CASE AgentOn
  <2>1. status'[j] = status[j] \/ (status[j] = "paused" /\ status'[j] \in {"waiting", "queued"})
      BY <1>8 DEF AgentOn, Restored
  <2> QED
      BY <1>m, <1>s, <2>1
<1>9. CASE UNCHANGED vars
    BY <1>9, <1>s DEF vars
<1> QED
    BY <1>1, <1>2, <1>3, <1>4, <1>5, <1>6, <1>7, <1>8, <1>9 DEF Next

\* A pass that ends late, a claim or a tick never overwrites a pause, a
\* cancellation or an end, also when passes overlap, and only a retry, as a new
\* attempt, reopens a job that has ended (_finish, claim_runs, control.py).
THEOREM DecisionsHold == Spec => DecisionsStand
<1>1. TypeInv /\ [Next]_vars =>
        \A j \in Jobs :
          status[j] \in {"paused"} \cup Terminal =>
              /\ status'[j] \in MayBecome(status[j])
              /\ status[j] \in Terminal /\ status'[j] = "queued" => attempt'[j] = attempt[j] + 1
    BY DecisionNext
<1> QED
    BY <1>1, TypeInit, TypeNext, PTL DEF Spec, DecisionsStand

------------------------------------------------------------------------------
(* A step runs once.  The argument: a job that has not been claimed or        *)
(* retried under a pass that held it is in at most one batch, and while it is *)
(* in one it has no timer.  So the pass in whose batch it is can trust the    *)
(* history it read, and a body commits for a row that it made itself and that *)
(* was not done.                                                              *)

\* Nobody else has the job of a pass, and the tick records no wait for it.
Owned ==
    /\ \A p, q \in Passes : p # q => batch[p] \cap batch[q] \subseteq overlapped
    /\ \A p \in Passes : \A j \in batch[p] \ overlapped : timer[j] = 0

\* What a pass knows of its job is true.
Current ==
    \A p \in Passes :
        /\ pc[p] = "idle" => ~stray[p]
        /\ pc[p] # "idle" /\ cur[p] \notin overlapped =>
              /\ ~stray[p]
              /\ pc[p] \in {"handler", "body"} => known[p] = DoneRows(cur[p])
              /\ pc[p] \in {"body", "undo"} => row[cur[p]][at[p]] = "running"

RunOnceInv == TypeInv /\ TimerInv /\ Owned /\ Current /\ StepsRunOnce

\* A job that two passes have held stays marked.
LEMMA OverlapGrows == ASSUME [Next]_vars PROVE overlapped \subseteq overlapped'
<1>1. ASSUME NEW p \in Passes, Claim(p) PROVE overlapped \subseteq overlapped'
    BY <1>1 DEF Claim
<1>2. ASSUME NEW p \in Passes, StepOfPass(p) \/ Crash(p) PROVE overlapped' = overlapped
    BY <1>2 DEF StepOfPass, Skip, Refuse, Prepare, Replay, Suspend, BeginStep, Interrupt, CommitStep,
       FailStep, MarkFailed, Raise, Return, Finish, Crash, world
<1>3. ASSUME NEW j \in Jobs, Tick(j) PROVE overlapped' = overlapped
    BY <1>3 DEF Tick, TickTimer, TickExpire, TickStale, world
<1>4. ASSUME NEW j \in Jobs, Person(j) PROVE overlapped \subseteq overlapped'
    BY <1>4 DEF Person, Pause, Resume, Cancel, Retry, UndoAll, world
<1>5. ASSUME NEW j \in Jobs, NEW k \in Sleeps, TimeComes(j, k) PROVE overlapped' = overlapped
    BY <1>5 DEF TimeComes
<1>6. CASE AgentOff \/ AgentOn
    BY <1>6 DEF AgentOff, AgentOn
<1>7. CASE UNCHANGED vars
    BY <1>7 DEF vars, world
<1> QED
    BY <1>1, <1>2, <1>3, <1>4, <1>5, <1>6, <1>7 DEF Next

LEMMA RunOnceInit == Init => RunOnceInv
BY TypeInit, TimerInit DEF Init, RunOnceInv, Owned, Current, StepsRunOnce

\* Only claim_runs puts a job into a batch, and only _finish, which takes the
\* job out of it, gives it a timer.
LEMMA OwnedNext ==
    ASSUME RunOnceInv, [Next]_vars PROVE Owned'
<1> USE DEF RunOnceInv, TypeInv, TypeOK, Owned, runVars, stepVars, passVars, world
<1>1. ASSUME NEW p \in Passes, Claim(p) PROVE Owned'
  <2>1. PICK B \in SUBSET {j \in Jobs : status[j] = "queued"} :
            /\ batch' = [batch EXCEPT ![p] = B]
            /\ timer' = timer
            /\ overlapped' = overlapped \cup {j \in B : Held(j)}
      BY <1>1 DEF Claim
  <2>2. \A q \in Passes : q # p => batch'[q] = batch[q] /\ batch[q] \cap B \subseteq overlapped'
      BY <2>1 DEF Held
  <2>3. \A j \in B : timer[j] = 0
      BY <2>1 DEF TimerInv
  <2>4. batch'[p] = B /\ overlapped \subseteq overlapped'
      BY <2>1
  <2>5. \A q, r \in Passes : q # r => batch'[q] \cap batch'[r] \subseteq overlapped'
      BY <2>2, <2>4
  <2>6. \A q \in Passes : \A j \in batch'[q] \ overlapped' : timer'[j] = 0
      BY <2>1, <2>2, <2>3, <2>4
  <2> QED
      BY <2>5, <2>6
<1>2. ASSUME NEW p \in Passes, StepOfPass(p) PROVE Owned'
  <2>1. ASSUME NEW j \in Jobs, Skip(p, j) PROVE Owned'
      BY <2>1 DEF Skip, LeaveJob
  <2>2. ASSUME Finish(p) PROVE Owned'
    <3>1. cur[p] \in batch[p] /\ cur[p] \in Jobs
        BY <2>2 DEF Finish, PassOK
    <3>2. batch' = [batch EXCEPT ![p] = @ \ {cur[p]}] /\ overlapped' = overlapped
        BY <2>2 DEF Finish, LeaveJob
    <3>3. \A j \in Jobs \ {cur[p]} : timer'[j] = timer[j]
        BY <2>2, <3>1 DEF Finish, FinishRow
    <3>4. \A q \in Passes : cur[p] \notin batch'[q] \ overlapped
        BY <3>1, <3>2
    <3>5. \A q \in Passes : batch'[q] \subseteq batch[q]
        BY <3>2
    <3> QED
        BY <3>2, <3>3, <3>4, <3>5
  <2>3. ~(\E j \in Jobs : Skip(p, j)) /\ ~Finish(p) => UNCHANGED <<timer, batch, overlapped>>
      BY <1>2 DEF StepOfPass, Refuse, Prepare, Replay, Suspend, BeginStep, Interrupt,
         CommitStep, FailStep, MarkFailed, Raise, Return
  <2> QED
      BY <2>1, <2>2, <2>3
<1>3. ASSUME NEW p \in Passes, Crash(p) PROVE Owned'
    BY <1>3 DEF Crash
<1>4. ASSUME NEW j \in Jobs, Tick(j) PROVE Owned'
  <2>1. /\ UNCHANGED <<batch, overlapped>>
        /\ \A i \in Jobs : timer'[i] \in {timer[i], 0}
      BY <1>4 DEF Tick, TickTimer, TickExpire, TickStale
  <2> QED
      BY <2>1
<1>5. ASSUME NEW j \in Jobs, Person(j) PROVE Owned'
  <2>1. /\ UNCHANGED batch
        /\ \A i \in Jobs : timer'[i] \in {timer[i], 0}
      BY <1>5 DEF Person, Pause, Resume, Cancel, Retry, UndoAll
  <2> QED
      BY <2>1, OverlapGrows
<1>6. ASSUME NEW j \in Jobs, NEW k \in Sleeps, TimeComes(j, k) PROVE Owned'
    BY <1>6 DEF TimeComes
<1>7. CASE AgentOff \/ AgentOn
    BY <1>7 DEF AgentOff, AgentOn
<1>9. CASE UNCHANGED vars
    BY <1>9 DEF vars
<1> QED
    BY <1>1, <1>2, <1>3, <1>4, <1>5, <1>6, <1>7, <1>9 DEF Next

\* A pass only ever writes rows of the job it has to itself.
LEMMA AloneAtWork ==
    ASSUME RunOnceInv, NEW p \in Passes, NEW q \in Passes, p # q,
           pc[p] # "idle", pc[q] # "idle", cur[p] \notin overlapped
    PROVE  cur[p] # cur[q]
BY DEF RunOnceInv, TypeInv, PassOK, Owned

LEMMA FreeWhenTimed ==
    ASSUME RunOnceInv, NEW j \in Jobs \ overlapped, timer[j] # 0,
           NEW p \in Passes, pc[p] # "idle"
    PROVE  cur[p] # j
BY DEF RunOnceInv, TypeInv, PassOK, Owned

\* One step of a pass keeps what the passes know and what the rows say.
LEMMA PassNext ==
    ASSUME RunOnceInv, NEW p \in Passes, StepOfPass(p)
    PROVE  Current' /\ StepsRunOnce'
<1> DEFINE Kept == Current' /\ StepsRunOnce'
<1> USE ShapeAssumption DEF RunOnceInv, TypeInv, TypeOK, PassOK, Current, StepsRunOnce,
        DoneRows, runVars, stepVars, passVars, world, Steps
<1>0. \A q \in Passes : pc[q] # "idle" => cur[q] \in Jobs
    OBVIOUS
<1>1. ASSUME NEW j \in Jobs, Skip(p, j) PROVE Kept
    BY <1>1 DEF Skip, LeaveJob
<1>2. ASSUME NEW j \in Jobs, Refuse(p, j) PROVE Kept
    BY <1>2 DEF Refuse, Close
<1>3. ASSUME NEW j \in Jobs, Prepare(p, j) PROVE Kept
    BY <1>3 DEF Prepare
<1>4. CASE Replay(p)
    BY <1>4 DEF Replay
<1>5. CASE Suspend(p) \/ Interrupt(p) \/ Raise(p) \/ Return(p)
  <2>1. /\ UNCHANGED <<row, applied, cur, at, known, stray, overlapped>>
        /\ pc[p] = "handler" /\ pc' = [pc EXCEPT ![p] = "closing"]
      BY <1>5 DEF Suspend, Interrupt, NewStep, Raise, Return, Close
  <2>2. Current'
      BY <2>1
  <2> QED
      BY <2>1, <2>2
<1>6. CASE BeginStep(p)
  <2>1. cur[p] \in Jobs /\ at[p] \in Steps /\ pc[p] = "handler"
      BY <1>6 DEF BeginStep, NewStep
  <2>3. /\ row' = [row EXCEPT ![cur[p]][at[p]] = "running"]
        /\ pc' = [pc EXCEPT ![p] = "body"]
        /\ stray' = [stray EXCEPT ![p] = FALSE]
        /\ UNCHANGED <<applied, cur, at, known, overlapped>>
      BY <1>6 DEF BeginStep
  <2>4. CASE cur[p] \in overlapped
    <3>1. \A j \in Jobs \ overlapped : row'[j] = row[j]
        BY <2>1, <2>3, <2>4
    <3>2. StepsRunOnce'
        BY <2>3, <3>1
    <3>3. Current'
        BY <2>1, <2>3, <2>4, <3>1
    <3> QED
        BY <3>2, <3>3
  <2>5. CASE cur[p] \notin overlapped
    <3>1. row[cur[p]][at[p]] # "done"
        BY <1>6, <2>5 DEF BeginStep, NewStep
    <3>2. \A q \in Passes \ {p} : pc[q] # "idle" => cur[q] # cur[p]
        BY <2>1, <2>5, AloneAtWork
    <3>3. StepsRunOnce'
        BY <2>1, <2>3, <3>1
    <3>4. Current'
        BY <1>6, <2>1, <2>3, <3>1, <3>2 DEF BeginStep, NewStep
    <3> QED
        BY <3>3, <3>4
  <2> QED
      BY <2>4, <2>5
<1>7. CASE CommitStep(p)
  <2>1. cur[p] \in Jobs /\ at[p] \in Steps /\ pc[p] = "body"
      BY <1>7 DEF CommitStep
  <2>3. /\ known' = [known EXCEPT ![p] = @ \cup {at[p]}]
        /\ pc' = [pc EXCEPT ![p] = "handler"]
        /\ at' = [at EXCEPT ![p] = @ + 1]
        /\ UNCHANGED <<cur, stray, overlapped>>
      BY <1>7 DEF CommitStep
  <2>4. CASE cur[p] \in overlapped
    <3>1. \A j \in Jobs \ overlapped : row'[j] = row[j] /\ applied'[j] = applied[j]
        BY <1>7, <2>1, <2>4 DEF CommitStep
    <3>2. StepsRunOnce'
        BY <2>3, <3>1
    <3>3. Current'
        BY <2>1, <2>3, <2>4, <3>1
    <3> QED
        BY <3>2, <3>3
  <2>5. CASE cur[p] \notin overlapped
    <3>1. row[cur[p]][at[p]] = "running" /\ ~stray[p]
        BY <2>1, <2>5
    <3>9. applied[cur[p]][at[p]] = 0
        BY <2>1, <2>5, <3>1
    <3>2. \A q \in Passes \ {p} : pc[q] # "idle" => cur[q] # cur[p]
        BY <2>1, <2>5, AloneAtWork
    <3>3. /\ row' = [row EXCEPT ![cur[p]][at[p]] = "done"]
          /\ applied' = [applied EXCEPT ![cur[p]][at[p]] = 1]
        BY <1>7, <2>1, <3>1, <3>9 DEF CommitStep
    <3>4. StepsRunOnce'
        BY <2>1, <2>3, <3>3
    <3>5. Current'
        BY <2>1, <2>3, <3>1, <3>2, <3>3
    <3> QED
        BY <3>4, <3>5
  <2> QED
      BY <2>4, <2>5
<1>8. CASE FailStep(p)
    BY <1>8 DEF FailStep
<1>9. CASE MarkFailed(p)
  <2>1. cur[p] \in Jobs /\ at[p] \in Steps /\ pc[p] = "undo"
      BY <1>9 DEF MarkFailed
  <2>3. /\ pc' = [pc EXCEPT ![p] = "closing"]
        /\ UNCHANGED <<applied, cur, at, known, stray, overlapped>>
      BY <1>9 DEF MarkFailed
  <2>4. CASE cur[p] \in overlapped
    <3>1. \A j \in Jobs \ overlapped : row'[j] = row[j]
        BY <1>9, <2>1, <2>4 DEF MarkFailed
    <3>2. StepsRunOnce'
        BY <2>3, <3>1
    <3>3. Current'
        BY <2>1, <2>3, <2>4, <3>1
    <3> QED
        BY <3>2, <3>3
  <2>5. CASE cur[p] \notin overlapped
    <3>1. row[cur[p]][at[p]] = "running" /\ ~stray[p]
        BY <2>1, <2>5
    <3>2. \A q \in Passes \ {p} : pc[q] # "idle" => cur[q] # cur[p]
        BY <2>1, <2>5, AloneAtWork
    <3>3. row' = [row EXCEPT ![cur[p]][at[p]] = "failed"]
        BY <1>9, <3>1 DEF MarkFailed
    <3>4. StepsRunOnce'
        BY <2>1, <2>3, <3>1, <3>3
    <3>5. Current'
        BY <2>1, <2>3, <3>1, <3>2, <3>3
    <3> QED
        BY <3>4, <3>5
  <2> QED
      BY <2>4, <2>5
<1>10. CASE Finish(p)
    BY <1>10 DEF Finish, LeaveJob
<1> QED
    BY <1>1, <1>2, <1>3, <1>4, <1>5, <1>6, <1>7, <1>8, <1>9, <1>10 DEF StepOfPass

LEMMA StepNext ==
    ASSUME RunOnceInv, [Next]_vars PROVE Current' /\ StepsRunOnce'
<1> USE ShapeAssumption DEF RunOnceInv, TypeInv, TypeOK, PassOK, Current, StepsRunOnce,
        DoneRows, runVars, stepVars, passVars, world, Steps
<1>1. ASSUME NEW p \in Passes, Claim(p) PROVE Current' /\ StepsRunOnce'
  <2>1. UNCHANGED <<row, applied, pc, cur, at, known, stray>>
      BY <1>1 DEF Claim
  <2> QED
      BY <2>1, OverlapGrows
<1>2. ASSUME NEW p \in Passes, StepOfPass(p) PROVE Current' /\ StepsRunOnce'
    BY <1>2, PassNext
<1>3. ASSUME NEW p \in Passes, Crash(p) PROVE Current' /\ StepsRunOnce'
    BY <1>3 DEF Crash
<1>4. ASSUME NEW j \in Jobs, Tick(j) PROVE Current' /\ StepsRunOnce'
  <2>1. CASE TickTimer(j)
    <3>1. timer[j] \in Steps /\ timer[j] # 0 /\ row[j][timer[j]] = "none"
      <4>1. timer[j] \in Sleeps /\ row[j][timer[j]] = "none"
          BY <2>1 DEF TickTimer
      <4>2. \A k \in Sleeps : k \in 1 .. NumSteps /\ k # 0
          BY ShapeAssumption
      <4> QED
          BY <4>1, <4>2
    <3>2. /\ row' = [row EXCEPT ![j][timer[j]] = "done"]
          /\ applied' = [applied EXCEPT ![j][timer[j]] = IF @ = 0 THEN 1 ELSE 2]
          /\ UNCHANGED <<pc, cur, at, known, stray, overlapped>>
        BY <2>1 DEF TickTimer
    <3>3. \A i \in Jobs : i # j => row'[i] = row[i] /\ applied'[i] = applied[i]
        BY <3>2
    <3>4. CASE j \in overlapped
        BY <3>2, <3>3, <3>4
    <3>5. CASE j \notin overlapped
      <4>1. applied[j][timer[j]] = 0
          BY <3>1, <3>5
      <4>2. applied' = [applied EXCEPT ![j][timer[j]] = 1]
          BY <3>2, <4>1
      <4>3. \A q \in Passes : pc[q] # "idle" => cur[q] # j
          BY <3>1, <3>5, FreeWhenTimed
      <4>4. StepsRunOnce'
          BY <3>1, <3>2, <4>2
      <4>5. Current'
          BY <3>2, <3>3, <4>3
      <4> QED
          BY <4>4, <4>5
    <3> QED
        BY <3>4, <3>5
  <2>2. CASE TickExpire(j) \/ TickStale(j)
      BY <2>2 DEF TickExpire, TickStale
  <2> QED
      BY <1>4, <2>1, <2>2 DEF Tick
<1>5. ASSUME NEW j \in Jobs, Person(j) PROVE Current' /\ StepsRunOnce'
  <2>1. CASE Pause(j) \/ Resume(j) \/ Cancel(j) \/ UndoAll(j)
      BY <2>1 DEF Pause, Resume, Cancel, UndoAll
  <2>2. CASE Retry(j)
    <3>1. j \notin overlapped' => \A q \in Passes : pc[q] # "idle" => cur[q] # j
        BY <2>2 DEF Retry, Held
    <3>2. /\ row' = [row EXCEPT ![j] = [k \in Steps |-> IF @[k] = "done" THEN "done" ELSE "none"]]
          /\ \A q \in Passes : pc[q] \notin {"body", "undo"} \/ cur[q] # j => stray'[q] = stray[q]
          /\ UNCHANGED <<applied, pc, cur, at, known>>
        BY <2>2 DEF Retry
    <3>3. \A i \in Jobs, k \in Steps : row'[i][k] = "done" <=> row[i][k] = "done"
        BY <3>2
    <3>4. StepsRunOnce'
        BY <3>2, <3>3, OverlapGrows
    <3>5. \A i \in Jobs : DoneRows(i)' = DoneRows(i)
        BY <3>3
    <3>6. \A i \in Jobs : i # j => row'[i] = row[i]
        BY <3>2
    <3>7. Current'
      <4> SUFFICES ASSUME NEW q \in Passes
                   PROVE  /\ pc'[q] = "idle" => ~stray'[q]
                          /\ pc'[q] # "idle" /\ cur'[q] \notin overlapped' =>
                              /\ ~stray'[q]
                              /\ pc'[q] \in {"handler", "body"} => known'[q] = DoneRows(cur[q])'
                              /\ pc'[q] \in {"body", "undo"} => row'[cur'[q]][at'[q]] = "running"
          BY <3>2
      <4>1. CASE pc[q] = "idle"
          BY <3>2, <4>1
      <4>2. CASE pc[q] # "idle" /\ cur[q] \notin overlapped'
        <5>1. cur[q] # j /\ cur[q] \in Jobs /\ cur[q] \notin overlapped
            BY <3>1, <4>2, OverlapGrows
        <5> QED
            BY <3>2, <3>5, <3>6, <4>2, <5>1
      <4>3. CASE pc[q] # "idle" /\ cur[q] \in overlapped'
          BY <3>2, <4>3
      <4> QED
          BY <4>1, <4>2, <4>3
    <3> QED
        BY <3>4, <3>7
  <2> QED
      BY <1>5, <2>1, <2>2 DEF Person
<1>6. ASSUME NEW j \in Jobs, NEW k \in Sleeps, TimeComes(j, k) PROVE Current' /\ StepsRunOnce'
    BY <1>6 DEF TimeComes
<1>7. CASE AgentOff \/ AgentOn
    BY <1>7 DEF AgentOff, AgentOn
<1>8. CASE UNCHANGED vars
    BY <1>8 DEF vars
<1> QED
    BY <1>1, <1>2, <1>3, <1>4, <1>5, <1>6, <1>7, <1>8 DEF Next

LEMMA RunOnceNext ==
    ASSUME RunOnceInv, [Next]_vars PROVE RunOnceInv'
<1>1. TypeInv'
    BY TypeNext DEF RunOnceInv
<1>2. TimerInv' /\ Owned' /\ Current' /\ StepsRunOnce'
    BY TimerNext, OwnedNext, StepNext DEF RunOnceInv
<1> QED
    BY <1>1, <1>2 DEF RunOnceInv

LEMMA RunOnceAlways == Spec => []RunOnceInv
<1>1. Init => RunOnceInv
    BY RunOnceInit
<1>2. RunOnceInv /\ [Next]_vars => RunOnceInv'
    BY RunOnceNext
<1> QED
    BY <1>1, <1>2, PTL DEF Spec

\* A step's writes are committed exactly when its row says done, and once, for
\* any number of jobs, workers, steps, crashes, requeues and retries, of every
\* job that no second pass and no retry took up under one that held it
\* (JobState.run_step).
THEOREM RunsOnce == Spec => []StepsRunOnce
<1>1. RunOnceInv => StepsRunOnce
    BY DEF RunOnceInv
<1> QED
    BY <1>1, RunOnceAlways, PTL

\* The history a pass replays from is the job's history for as long as the pass
\* acts on it (_prepare, run_step), with the same exception.
THEOREM HistoryIsCurrent == Spec => []ReplayIsCurrent
<1>1. RunOnceInv => ReplayIsCurrent
    BY DEF RunOnceInv, Current, ReplayIsCurrent
<1> QED
    BY <1>1, RunOnceAlways, PTL

------------------------------------------------------------------------------
(* The promise to each person.  What is still missing for it is the order: a  *)
(* step is only reached over finished ones, so the finished steps of a job    *)
(* are always its first ones, also through a wait that comes true while       *)
(* nobody runs the job.                                                       *)

InOrder ==
    /\ \A j \in Jobs \ overlapped : \A k, n \in Steps :
          row[j][k] = "done" /\ n < k => row[j][n] = "done"
    /\ \A j \in Jobs \ overlapped : \A n \in Steps : n < timer[j] => row[j][n] = "done"
    /\ \A p \in Passes :
          cur[p] \notin overlapped /\ (pc[p] \in {"handler", "body"} \/ outcome[p] = "waiting") =>
              \A n \in Steps : n < at[p] => row[cur[p]][n] = "done"

PromiseInv == RunOnceInv /\ InOrder

\* A finished step stays finished.
LEMMA DoneStays ==
    ASSUME RunOnceInv, [Next]_vars, NEW j \in Jobs \ overlapped, NEW k \in Steps,
           row[j][k] = "done"
    PROVE  row'[j][k] = "done"
<1> USE DEF RunOnceInv, TypeInv, TypeOK, stepVars
<1>1. ASSUME NEW p \in Passes, Claim(p) \/ Crash(p) PROVE row'[j][k] = "done"
    BY <1>1 DEF Claim, Crash
<1>2. ASSUME NEW p \in Passes, StepOfPass(p) PROVE row'[j][k] = "done"
  <2>1. CASE BeginStep(p)
    <3>1. row' = [row EXCEPT ![cur[p]][at[p]] = "running"] /\ pc[p] = "handler"
        BY <2>1 DEF BeginStep, NewStep
    <3>2. cur[p] = j => k # at[p]
      <4> SUFFICES ASSUME cur[p] = j, k = at[p] PROVE FALSE
          OBVIOUS
      <4>1. known[p] = DoneRows(j)
          BY <3>1 DEF Current
      <4>2. k \notin known[p]
          BY <2>1 DEF BeginStep, NewStep
      <4> QED
          BY <4>1, <4>2 DEF DoneRows
    <3> QED
        BY <3>1, <3>2
  <2>2. CASE CommitStep(p)
      BY <2>2 DEF CommitStep
  <2>3. CASE MarkFailed(p)
    <3>1. row' = row \/ row' = [row EXCEPT ![cur[p]][at[p]] = "failed"]
        BY <2>3 DEF MarkFailed
    <3>2. pc[p] = "undo" /\ (cur[p] = j => row[j][at[p]] = "running")
        BY <2>3 DEF MarkFailed, Current
    <3> QED
        BY <3>1, <3>2
  <2>4. ~BeginStep(p) /\ ~CommitStep(p) /\ ~MarkFailed(p) => row' = row
      BY <1>2 DEF StepOfPass, Skip, Refuse, Prepare, Replay, Suspend, Interrupt, FailStep,
         Raise, Return, Finish
  <2> QED
      BY <2>1, <2>2, <2>3, <2>4
<1>3. ASSUME NEW i \in Jobs, Tick(i) PROVE row'[j][k] = "done"
    BY <1>3 DEF Tick, TickTimer, TickExpire, TickStale
<1>4. ASSUME NEW i \in Jobs, Person(i) PROVE row'[j][k] = "done"
  <2>1. CASE Retry(i)
    <3>1. row' = [row EXCEPT ![i] = [n \in Steps |-> IF @[n] = "done" THEN "done" ELSE "none"]]
        BY <2>1 DEF Retry
    <3> QED
        BY <3>1
  <2>2. CASE Pause(i) \/ Resume(i) \/ Cancel(i) \/ UndoAll(i)
      BY <2>2 DEF Pause, Resume, Cancel, UndoAll
  <2> QED
      BY <1>4, <2>1, <2>2 DEF Person
<1>5. ASSUME NEW i \in Jobs, NEW s \in Sleeps, TimeComes(i, s) PROVE row'[j][k] = "done"
    BY <1>5 DEF TimeComes
<1>6. CASE AgentOff \/ AgentOn
    BY <1>6 DEF AgentOff, AgentOn
<1>7. CASE UNCHANGED vars
    BY <1>7 DEF vars
<1> QED
    BY <1>1, <1>2, <1>3, <1>4, <1>5, <1>6, <1>7 DEF Next

LEMMA PromiseInit == Init => PromiseInv
BY RunOnceInit, ShapeAssumption DEF Init, PromiseInv, InOrder, Steps

\* The steps that neither move a pass on in its program, nor finish a step, nor
\* set a timer.
LEMMA OrderKept ==
    ASSUME PromiseInv, [Next]_vars,
           \A j \in Jobs : timer'[j] \in {timer[j], 0},
           \A j \in Jobs \ overlapped, k \in Steps : row'[j][k] = "done" => row[j][k] = "done",
           \A p \in Passes : pc'[p] \in {"handler", "body"} \/ outcome'[p] = "waiting" =>
               /\ pc[p] \in {"handler", "body"} \/ outcome[p] = "waiting"
               /\ at'[p] = at[p] /\ cur'[p] = cur[p] /\ cur[p] \in Jobs
    PROVE  InOrder'
<1>1. \A j \in Jobs \ overlapped, k \in Steps : row[j][k] = "done" => row'[j][k] = "done"
    BY DoneStays DEF PromiseInv
<1>2. \A j \in Jobs \ overlapped' : \A k, n \in Steps :
          row'[j][k] = "done" /\ n < k => row'[j][n] = "done"
    BY <1>1, OverlapGrows DEF PromiseInv, InOrder
<1>3. \A j \in Jobs \ overlapped' : \A n \in Steps : n < timer'[j] => row'[j][n] = "done"
    BY <1>1, OverlapGrows DEF PromiseInv, InOrder, Steps
<1>4. \A p \in Passes :
          cur'[p] \notin overlapped' /\ (pc'[p] \in {"handler", "body"} \/ outcome'[p] = "waiting") =>
              \A n \in Steps : n < at'[p] => row'[cur'[p]][n] = "done"
    BY <1>1, OverlapGrows DEF PromiseInv, InOrder
<1> QED
    BY <1>2, <1>3, <1>4 DEF InOrder

LEMMA OrderNext == ASSUME PromiseInv, [Next]_vars PROVE InOrder'
<1> USE ShapeAssumption DEF runVars, stepVars, passVars, world
<1>t. /\ TypeOK /\ PassOK /\ Current /\ InOrder
      /\ \A p \in Passes : pc[p] # "idle" => cur[p] \in Jobs
      /\ \A p \in Passes : outcome[p] = "waiting" => cur[p] \in Jobs /\ at[p] \in Sleeps
    BY DEF PromiseInv, RunOnceInv, TypeInv, TypeOK, PassOK
<1>d. \A j \in Jobs \ overlapped, k \in Steps : row[j][k] = "done" => row'[j][k] = "done"
    BY DoneStays DEF PromiseInv
<1>o. overlapped \subseteq overlapped'
    BY OverlapGrows
<1>1. ASSUME NEW p \in Passes, Claim(p) \/ Crash(p) PROVE InOrder'
    BY <1>1, <1>t, OrderKept DEF Claim, Crash, TypeOK
<1>2. ASSUME NEW p \in Passes, StepOfPass(p) PROVE InOrder'
  <2>1. ASSUME NEW j \in Jobs, Skip(p, j) PROVE InOrder'
      BY <2>1, <1>t, OrderKept DEF Skip, LeaveJob, TypeOK
  <2>2. ASSUME NEW j \in Jobs, Refuse(p, j) PROVE InOrder'
      BY <2>2, <1>t, OrderKept DEF Refuse, Close, TypeOK
  <2>3. ASSUME NEW j \in Jobs, Prepare(p, j) PROVE InOrder'
    <3>1. /\ UNCHANGED <<row, timer, outcome, overlapped>> /\ outcome[p] # "waiting"
          /\ pc' = [pc EXCEPT ![p] = "handler"] /\ at' = [at EXCEPT ![p] = 1]
          /\ cur' = [cur EXCEPT ![p] = j]
        BY <2>3, <1>t DEF Prepare, PassOK
    <3>2. \A n \in Steps : ~(n < 1)
        BY DEF Steps
    <3> QED
        BY <3>1, <3>2, <1>t DEF InOrder, TypeOK
  <2>4. CASE Replay(p)
    <3>1. /\ UNCHANGED <<row, timer, outcome, pc, cur, overlapped>> /\ at' = [at EXCEPT ![p] = @ + 1]
          /\ pc[p] = "handler" /\ at[p] \in Steps
          /\ cur[p] \notin overlapped => row[cur[p]][at[p]] = "done"
        BY <2>4, <1>t DEF Replay, Current, DoneRows, TypeOK
    <3>2. \A n \in Steps : n < at[p] + 1 => n < at[p] \/ n = at[p]
        BY <3>1 DEF Steps
    <3> QED
        BY <3>1, <3>2, <1>t DEF InOrder, TypeOK
  <2>5. CASE Suspend(p) \/ Interrupt(p) \/ Raise(p) \/ Return(p)
      BY <2>5, <1>t, OrderKept DEF Suspend, Interrupt, NewStep, Raise, Return, Close, TypeOK
  <2>6. CASE BeginStep(p)
    <3>1. /\ \A j \in Jobs, k \in Steps : row'[j][k] = "done" => row[j][k] = "done"
          /\ pc[p] = "handler" /\ UNCHANGED <<timer, outcome, at, cur>>
          /\ pc' = [pc EXCEPT ![p] = "body"]
        BY <2>6, <1>t DEF BeginStep, NewStep, TypeOK
    <3> QED
        BY <3>1, <1>t, OrderKept DEF TypeOK
  <2>7. CASE CommitStep(p)
    <3>1. cur[p] \in Jobs /\ at[p] \in Steps /\ pc[p] = "body" /\ (cur[p] \notin overlapped => ~stray[p])
        BY <2>7, <1>t DEF CommitStep, PassOK, Current
    <3>2. /\ row' = row \/ row' = [row EXCEPT ![cur[p]][at[p]] = "done"]
          /\ ~stray[p] => row' = [row EXCEPT ![cur[p]][at[p]] = "done"]
          /\ pc' = [pc EXCEPT ![p] = "handler"] /\ at' = [at EXCEPT ![p] = @ + 1]
          /\ UNCHANGED <<timer, outcome, cur, overlapped>>
        BY <2>7, <3>1 DEF CommitStep
    <3>3. cur[p] \notin overlapped => \A n \in Steps : n < at[p] => row[cur[p]][n] = "done"
        BY <3>1, <1>t DEF InOrder
    <3>4. cur[p] \notin overlapped => row'[cur[p]][at[p]] = "done"
        BY <3>1, <3>2, <1>t DEF TypeOK
    <3>5. \A j \in Jobs, k \in Steps : row'[j][k] = "done" =>
              row[j][k] = "done" \/ (j = cur[p] /\ k = at[p])
        BY <3>1, <3>2, <1>t DEF TypeOK
    <3>6. \A n \in Steps : n < at[p] + 1 => n < at[p] \/ n = at[p]
        BY <3>1 DEF Steps
    <3>7. \A j \in Jobs \ overlapped : \A k, n \in Steps :
              row'[j][k] = "done" /\ n < k => row'[j][n] = "done"
        BY <3>3, <3>5, <1>d, <1>t DEF InOrder
    <3>8. \A j \in Jobs \ overlapped : \A n \in Steps : n < timer'[j] => row'[j][n] = "done"
        BY <3>2, <1>d, <1>t DEF InOrder
    <3>9. ASSUME NEW q \in Passes, cur'[q] \notin overlapped,
                 pc'[q] \in {"handler", "body"} \/ outcome'[q] = "waiting",
                 NEW n \in Steps, n < at'[q]
          PROVE  row'[cur'[q]][n] = "done"
      <4>1. CASE q = p
          BY <3>1, <3>2, <3>3, <3>4, <3>6, <3>9, <4>1, <1>d, <1>t DEF TypeOK
      <4>2. CASE q # p
        <5>1. pc[q] \in {"handler", "body"} \/ outcome[q] = "waiting"
            BY <3>2, <3>9, <4>2, <1>t DEF TypeOK
        <5>2. cur[q] \in Jobs \ overlapped /\ cur'[q] = cur[q] /\ at'[q] = at[q]
            BY <3>2, <3>9, <4>2, <5>1, <1>t DEF TypeOK
        <5>3. row[cur[q]][n] = "done"
            BY <3>9, <5>1, <5>2, <1>t DEF InOrder
        <5> QED
            BY <5>2, <5>3, <1>d
      <4> QED
          BY <4>1, <4>2
    <3> QED
        BY <3>2, <3>7, <3>8, <3>9 DEF InOrder
  <2>8. CASE FailStep(p)
      BY <2>8, <1>t, OrderKept DEF FailStep, TypeOK
  <2>9. CASE MarkFailed(p)
    <3>1. /\ \A j \in Jobs, k \in Steps : row'[j][k] = "done" => row[j][k] = "done"
          /\ pc[p] = "undo" /\ UNCHANGED <<timer, outcome, at, cur>>
          /\ pc' = [pc EXCEPT ![p] = "closing"]
        BY <2>9, <1>t DEF MarkFailed, TypeOK
    <3> QED
        BY <3>1, <1>t, OrderKept DEF TypeOK
  <2>10. CASE Finish(p)
    <3>1. /\ cur[p] \in Jobs /\ UNCHANGED <<row, overlapped>>
          /\ pc' = [pc EXCEPT ![p] = "idle"] /\ outcome' = [outcome EXCEPT ![p] = "none"]
          /\ at' = [at EXCEPT ![p] = 0] /\ cur' = [cur EXCEPT ![p] = NoJob]
        BY <2>10, <1>t DEF Finish, LeaveJob
    <3>2. \A j \in Jobs : timer'[j] # timer[j] =>
              timer'[j] = 0 \/ (j = cur[p] /\ timer'[j] = at[p] /\ outcome[p] = "waiting")
        BY <2>10, <3>1, <1>t DEF Finish, FinishRow, TypeOK
    <3>3. \A j \in Jobs \ overlapped : \A n \in Steps : n < timer'[j] => row[j][n] = "done"
        BY <3>1, <3>2, <1>t DEF InOrder, Steps
    <3> QED
        BY <3>1, <3>3, <1>t DEF InOrder, TypeOK
  <2> QED
      BY <1>2, <2>1, <2>2, <2>3, <2>4, <2>5, <2>6, <2>7, <2>8, <2>9, <2>10 DEF StepOfPass
<1>3. ASSUME NEW j \in Jobs, Tick(j) PROVE InOrder'
  <2>1. CASE TickTimer(j)
    <3>1. timer[j] \in Steps /\ UNCHANGED <<pc, cur, at, outcome, overlapped>>
        BY <2>1, <1>t DEF TickTimer, TypeOK
    <3>2. /\ row' = [row EXCEPT ![j][timer[j]] = "done"]
          /\ timer' = [timer EXCEPT ![j] = 0]
        BY <2>1 DEF TickTimer
    <3>3. \A i \in Jobs, k \in Steps : row'[i][k] = "done" =>
              row[i][k] = "done" \/ (i = j /\ k = timer[j])
        BY <3>1, <3>2, <1>t DEF TypeOK
    <3>4. \A i \in Jobs \ overlapped : \A k, n \in Steps :
              row'[i][k] = "done" /\ n < k => row'[i][n] = "done"
        BY <3>3, <1>d, <1>t DEF InOrder
    <3>5. \A i \in Jobs \ overlapped : \A n \in Steps : n < timer'[i] => row'[i][n] = "done"
        BY <3>2, <1>d, <1>t DEF InOrder, TypeOK, Steps
    <3>6. \A p \in Passes :
              cur[p] \notin overlapped /\ (pc[p] \in {"handler", "body"} \/ outcome[p] = "waiting") =>
                  \A n \in Steps : n < at[p] => row'[cur[p]][n] = "done"
        BY <1>d, <1>t DEF InOrder
    <3> QED
        BY <3>1, <3>4, <3>5, <3>6 DEF InOrder
  <2>2. CASE TickExpire(j) \/ TickStale(j)
      BY <2>2, <1>t, OrderKept DEF TickExpire, TickStale, TypeOK
  <2> QED
      BY <1>3, <2>1, <2>2 DEF Tick
<1>4. ASSUME NEW j \in Jobs, Person(j) PROVE InOrder'
  <2>1. CASE Pause(j) \/ Resume(j) \/ Cancel(j) \/ UndoAll(j)
      BY <2>1, <1>t, OrderKept DEF Pause, Resume, Cancel, UndoAll, TypeOK
  <2>2. CASE Retry(j)
      BY <2>2, <1>t, OrderKept DEF Retry, TypeOK
  <2> QED
      BY <1>4, <2>1, <2>2 DEF Person
<1>5. ASSUME NEW j \in Jobs, NEW k \in Sleeps, TimeComes(j, k) PROVE InOrder'
    BY <1>5, <1>t, OrderKept DEF TimeComes, TypeOK
<1>6. CASE AgentOff \/ AgentOn
    BY <1>6, <1>t, OrderKept DEF AgentOff, AgentOn, TypeOK
<1>7. CASE UNCHANGED vars
    BY <1>7, <1>t, OrderKept DEF vars, TypeOK
<1> QED
    BY <1>1, <1>2, <1>3, <1>4, <1>5, <1>6, <1>7 DEF Next

LEMMA PromiseAlways == Spec => []PromiseInv
<1>1. PromiseInv /\ [Next]_vars => PromiseInv'
    BY RunOnceNext, OrderNext DEF PromiseInv
<1> QED
    BY <1>1, PromiseInit, PTL DEF Spec

Working(j) == \E p \in Passes : pc[p] = "body" /\ cur[p] = j

\* What the person sees of a step of the engine: nothing, or the job is taken
\* up, put down, ended or reopened with no step in flight that it should await.
LEMMA Mapped ==
    ASSUME NEW j \in Jobs, Working(j)' <=> Working(j), applied'[j] = applied[j],
           \/ PhaseOf(j)' = PhaseOf(j)
           \/ PhaseOf(j) = "parked" /\ PhaseOf(j)' = "working" /\ ~Working(j)
           \/ PhaseOf(j) = "working" /\ PhaseOf(j)' = "parked"
           \/ PhaseOf(j) \in {"parked", "working"} /\ PhaseOf(j)' = "ended"
           \/ PhaseOf(j) = "ended" /\ PhaseOf(j)' = "parked" /\ ~Working(j)
           \/ PhaseOf(j) \in {"parked", "ended"} /\ PhaseOf(j)' = "disputed"
    PROVE  [Promise(j)!Next]_(Promise(j)!vars)
BY DEF Working, Promise!Next, Promise!vars, Promise!Work, Promise!Park, Promise!End, Promise!Reopen,
       Promise!Dispute

\* What writes the next step of the program: all before it are finished and
\* none after it.
LEMMA NextWrite ==
    ASSUME PromiseInv, NEW j \in Jobs \ overlapped, NEW k \in Steps, row[j][k] # "done",
           \A n \in Steps : n < k => row[j][n] = "done",
           applied' = [applied EXCEPT ![j][k] = IF @ = 0 THEN 1 ELSE 2]
    PROVE  Promise(j)!WriteNext
<1> USE ShapeAssumption DEF PromiseInv, RunOnceInv, TypeInv, TypeOK, Steps
<1>1. \A n \in Steps : applied[j][n] = IF n < k THEN 1 ELSE 0
  <2> SUFFICES ASSUME NEW n \in Steps PROVE applied[j][n] = IF n < k THEN 1 ELSE 0
      OBVIOUS
  <2>1. row[j][n] = "done" => n < k
      BY DEF InOrder
  <2>2. applied[j][n] = IF row[j][n] = "done" THEN 1 ELSE 0
      BY DEF StepsRunOnce
  <2> QED
      BY <2>1, <2>2
<1>2. applied'[j] = [applied[j] EXCEPT ![k] = 1]
    BY <1>1
<1> QED
    BY <1>1, <1>2 DEF Promise!WriteNext, Promise!Steps

\* Each step of the engine is a step of the promise to each job, or nothing
\* that its person sees.
LEMMA PromiseStep ==
    ASSUME PromiseInv, [Next]_vars, NEW j \in Jobs \ overlapped
    PROVE  [Promise(j)!Next]_(Promise(j)!vars)
<1> DEFINE Kept == [Promise(j)!Next]_(Promise(j)!vars)
<1> USE DEF runVars, stepVars, passVars, world
<1>t. /\ RunOnceInv /\ TypeOK /\ PassOK /\ Owned
      /\ \A p \in Passes : pc[p] # "idle" => cur[p] \in Jobs
    BY DEF PromiseInv, RunOnceInv, TypeInv, TypeOK, PassOK
<1>n. (~Held(j) => ~Working(j)) /\ (timer[j] # 0 => ~Working(j))
    BY <1>t, FreeWhenTimed DEF Working, Held, PassOK
<1>w. ASSUME NEW p \in Passes, \A q \in Passes : q # p => pc'[q] = pc[q] /\ cur'[q] = cur[q],
             pc[p] # "body", pc'[p] # "body"
      PROVE  Working(j)' <=> Working(j)
    BY <1>w DEF Working
<1>a. ASSUME NEW p \in Passes, pc[p] = "body", cur[p] = j PROVE
             \A q \in Passes : q # p => ~(pc[q] = "body" /\ cur[q] = j)
    BY <1>a, <1>t, AloneAtWork
<1>1. ASSUME NEW p \in Passes, Claim(p) PROVE Kept
  <2>1. UNCHANGED <<pc, cur, applied>>
      BY <1>1 DEF Claim
  <2>2. \/ status'[j] = status[j] /\ j \notin overlapped'
        \/ status[j] = "queued" /\ status'[j] = "running" /\ (j \in overlapped' <=> Held(j))
      BY <1>1, <1>t DEF Claim, TypeOK
  <2>3. \/ PhaseOf(j)' = PhaseOf(j)
        \/ PhaseOf(j) = "parked" /\ PhaseOf(j)' = "working" /\ ~Working(j)
        \/ PhaseOf(j) = "parked" /\ PhaseOf(j)' = "disputed"
      BY <1>n, <2>2 DEF PhaseOf, Terminal
  <2> QED
      BY <2>1, <2>3, Mapped DEF Working
<1>2. ASSUME NEW p \in Passes, StepOfPass(p) PROVE Kept
  <2>1. CASE BeginStep(p)
    <3>1. /\ pc[p] = "handler" /\ pc' = [pc EXCEPT ![p] = "body"] /\ status[cur[p]] = "running"
          /\ UNCHANGED <<status, applied, cur, overlapped>>
        BY <2>1 DEF BeginStep, NewStep
    <3>2. CASE cur[p] = j
      <4>1. ~Working(j)
          BY <3>1, <3>2, <1>t, AloneAtWork DEF Working
      <4>2. Working(j)'
          BY <3>1, <3>2, <1>t DEF Working, TypeOK
      <4>3. PhaseOf(j) = "working" /\ PhaseOf(j)' = PhaseOf(j)
          BY <3>1, <3>2 DEF PhaseOf, Terminal
      <4> QED
          BY <3>1, <4>1, <4>2, <4>3 DEF Working, Promise!Next, Promise!Start
    <3>3. CASE cur[p] # j
      <4>1. Working(j)' <=> Working(j)
          BY <3>1, <3>3, <1>t DEF Working, TypeOK
      <4> QED
          BY <3>1, <4>1, Mapped DEF PhaseOf
    <3> QED
        BY <3>2, <3>3
  <2>2. CASE CommitStep(p)
    <3>1. /\ pc[p] = "body" /\ pc' = [pc EXCEPT ![p] = "handler"]
          /\ applied' = [applied EXCEPT ![cur[p]][at[p]] = IF @ = 0 THEN 1 ELSE 2]
          /\ UNCHANGED <<status, cur, overlapped>>
        BY <2>2 DEF CommitStep
    <3>2. /\ cur[p] \in Jobs /\ at[p] \in Steps
          /\ cur[p] = j => row[cur[p]][at[p]] # "done"
        BY <3>1, <1>t DEF PassOK, RunOnceInv, Current
    <3>3. cur[p] = j => \A n \in Steps : n < at[p] => row[cur[p]][n] = "done"
        BY <3>1 DEF PromiseInv, InOrder
    <3>4. PhaseOf(j)' = PhaseOf(j)
        BY <3>1 DEF PhaseOf
    <3>5. CASE cur[p] = j
      <4>1. Promise(j)!WriteNext
          BY <3>1, <3>2, <3>3, <3>5, NextWrite
      <4>2. Working(j) /\ ~Working(j)'
          BY <3>1, <3>5, <1>a, <1>t DEF Working, TypeOK
      <4> QED
          BY <3>4, <4>1, <4>2 DEF Working, Promise!Next, Promise!Commit
    <3>6. CASE cur[p] # j
      <4>1. Working(j)' <=> Working(j)
          BY <3>1, <3>6, <1>t DEF Working, TypeOK
      <4>2. applied'[j] = applied[j]
          BY <3>1, <3>2, <3>6, <1>t DEF TypeOK
      <4> QED
          BY <3>4, <4>1, <4>2, Mapped
    <3> QED
        BY <3>5, <3>6
  <2>3. CASE FailStep(p)
    <3>1. /\ pc[p] = "body" /\ pc' = [pc EXCEPT ![p] = "undo"]
          /\ UNCHANGED <<status, cur, applied, overlapped>>
        BY <2>3 DEF FailStep
    <3>2. PhaseOf(j)' = PhaseOf(j)
        BY <3>1 DEF PhaseOf
    <3>3. CASE cur[p] = j
      <4>1. Working(j) /\ ~Working(j)'
          BY <3>1, <3>3, <1>a, <1>t DEF Working, TypeOK
      <4> QED
          BY <3>1, <3>2, <4>1 DEF Working, Promise!Next, Promise!Abort
    <3>4. CASE cur[p] # j
      <4>1. Working(j)' <=> Working(j)
          BY <3>1, <3>4, <1>t DEF Working, TypeOK
      <4> QED
          BY <3>1, <3>2, <4>1, Mapped
    <3> QED
        BY <3>3, <3>4
  <2>4. CASE Finish(p)
    <3>1. /\ pc[p] = "closing" /\ cur[p] \in Jobs /\ UNCHANGED <<applied, overlapped>>
          /\ pc' = [pc EXCEPT ![p] = "idle"] /\ cur' = [cur EXCEPT ![p] = NoJob]
        BY <2>4, <1>t DEF Finish, LeaveJob
    <3>2. Working(j)' <=> Working(j)
        BY <3>1, <1>t, <1>w DEF TypeOK
    <3>3. status'[j] = status[j] \/ status[j] = "running"
        BY <2>4, <3>1, <1>t DEF Finish, FinishRow, TypeOK
    <3>4. \/ PhaseOf(j)' = PhaseOf(j)
          \/ PhaseOf(j) = "working" /\ PhaseOf(j)' = "parked"
          \/ PhaseOf(j) \in {"parked", "working"} /\ PhaseOf(j)' = "ended"
        BY <3>1, <3>3 DEF PhaseOf, Terminal
    <3> QED
        BY <3>1, <3>2, <3>4, Mapped
  <2>5. CASE ~BeginStep(p) /\ ~CommitStep(p) /\ ~FailStep(p) /\ ~Finish(p)
    <3>1. UNCHANGED <<status, applied, overlapped>>
        BY <1>2, <2>5 DEF StepOfPass, Skip, Refuse, Prepare, Replay, Suspend, Interrupt,
           MarkFailed, Raise, Return
    <3> DEFINE Quiet == /\ pc[p] # "body" /\ pc'[p] # "body"
                        /\ \A q \in Passes : q # p => pc'[q] = pc[q] /\ cur'[q] = cur[q]
    <3>2. Quiet
      <4>1. ASSUME NEW i \in Jobs, Skip(p, i) \/ Prepare(p, i) PROVE Quiet
          BY <4>1, <1>t DEF Skip, Prepare, LeaveJob, TypeOK
      <4>2. ASSUME NEW i \in Jobs, Refuse(p, i) PROVE Quiet
          BY <4>2, <1>t DEF Refuse, Close, TypeOK
      <4>3. CASE Replay(p) \/ Suspend(p) \/ Interrupt(p) \/ MarkFailed(p) \/ Raise(p) \/ Return(p)
          BY <4>3, <1>t DEF Replay, Suspend, Interrupt, NewStep, MarkFailed, Raise, Return, Close, TypeOK
      <4> QED
          BY <1>2, <2>5, <4>1, <4>2, <4>3 DEF StepOfPass
    <3>3. Working(j)' <=> Working(j)
        BY <3>2, <1>w
    <3> QED
        BY <3>1, <3>3, Mapped DEF PhaseOf
  <2> QED
      BY <2>1, <2>2, <2>3, <2>4, <2>5
<1>3. ASSUME NEW p \in Passes, Crash(p) PROVE Kept
  <2>1. /\ pc' = [pc EXCEPT ![p] = "idle"] /\ cur' = [cur EXCEPT ![p] = NoJob]
        /\ UNCHANGED <<status, applied, overlapped>>
      BY <1>3 DEF Crash
  <2>2. PhaseOf(j)' = PhaseOf(j)
      BY <2>1 DEF PhaseOf
  <2>3. CASE pc[p] = "body" /\ cur[p] = j
    <3>1. Working(j) /\ ~Working(j)'
        BY <2>1, <2>3, <1>a, <1>t DEF Working, TypeOK
    <3> QED
        BY <2>1, <2>2, <3>1 DEF Working, Promise!Next, Promise!Abort
  <2>4. CASE ~(pc[p] = "body" /\ cur[p] = j)
    <3>1. Working(j)' <=> Working(j)
        BY <2>1, <2>4, <1>t DEF Working, TypeOK
    <3> QED
        BY <2>1, <2>2, <3>1, Mapped
  <2> QED
      BY <2>3, <2>4
<1>4. ASSUME NEW i \in Jobs, Tick(i) PROVE Kept
  <2>1. CASE TickTimer(i)
    <3>9. /\ timer[i] \in Sleeps /\ row[i][timer[i]] # "done"
          /\ UNCHANGED <<pc, cur, overlapped>>
        BY <2>1, <1>t DEF TickTimer, TypeOK
    <3>8. \A k \in Sleeps : k \in Steps /\ k # 0
        BY ShapeAssumption DEF Steps
    <3>1. /\ timer[i] \in Steps /\ timer[i] # 0 /\ row[i][timer[i]] # "done"
          /\ UNCHANGED <<pc, cur, overlapped>>
          /\ applied' = [applied EXCEPT ![i][timer[i]] = IF @ = 0 THEN 1 ELSE 2]
        BY <2>1, <3>8, <3>9 DEF TickTimer
    <3>2. i = j => \A n \in Steps : n < timer[i] => row[i][n] = "done"
        BY DEF PromiseInv, InOrder
    <3>3. PhaseOf(j)' = PhaseOf(j) /\ (Working(j)' <=> Working(j))
        BY <2>1, <3>1, <1>t DEF TickTimer, PhaseOf, Terminal, Working, TypeOK
    <3>4. CASE i = j
      <4>1. Promise(j)!WriteNext
          BY <3>1, <3>2, <3>4, NextWrite
      <4>2. PhaseOf(j) = "parked" /\ ~Working(j)
          BY <2>1, <3>1, <3>4, <1>n DEF TickTimer, PhaseOf, Terminal
      <4> QED
          BY <3>3, <4>1, <4>2 DEF Working, Promise!Next, Promise!Met
    <3>5. CASE i # j
        BY <3>1, <3>3, <3>5, <1>t, Mapped DEF TypeOK
    <3> QED
        BY <3>4, <3>5
  <2>2. CASE TickExpire(i) \/ TickStale(i)
    <3>1. UNCHANGED <<applied, pc, cur, overlapped>>
        BY <2>2 DEF TickExpire, TickStale
    <3>2. \/ status'[j] = status[j]
          \/ status[j] \notin Terminal /\ status'[j] = "expired"
          \/ status[j] = "running"
        BY <2>2, <1>t DEF TickExpire, TickStale, Stale, Terminal, TypeOK
    <3>3. \/ PhaseOf(j)' = PhaseOf(j)
          \/ PhaseOf(j) = "working" /\ PhaseOf(j)' = "parked"
          \/ PhaseOf(j) \in {"parked", "working"} /\ PhaseOf(j)' = "ended"
        BY <3>1, <3>2 DEF PhaseOf, Terminal
    <3> QED
        BY <3>1, <3>3, Mapped DEF Working
  <2> QED
      BY <1>4, <2>1, <2>2 DEF Tick
<1>5. ASSUME NEW i \in Jobs, Person(i) PROVE Kept
  <2>1. UNCHANGED <<applied, pc, cur>>
      BY <1>5 DEF Person, Pause, Resume, Cancel, Retry, UndoAll
  <2>2. \/ /\ \/ status'[j] = status[j]
              \/ status[j] \in {"queued", "waiting"} /\ status'[j] = "paused"
              \/ status[j] = "running" /\ status'[j] = "paused"
              \/ status[j] = "paused" /\ status'[j] \in {"waiting", "queued"}
              \/ status[j] \in Open /\ status'[j] = "cancelled"
           /\ j \notin overlapped'
        \/ /\ status[j] \in Retryable /\ status'[j] = "queued"
           /\ j \in overlapped' <=> Held(j)
      BY <1>5, <1>t DEF Person, Pause, Resume, Restored, Cancel, Retry, UndoAll, TypeOK
  <2>3. \/ PhaseOf(j)' = PhaseOf(j)
        \/ PhaseOf(j) = "working" /\ PhaseOf(j)' = "parked"
        \/ PhaseOf(j) \in {"parked", "working"} /\ PhaseOf(j)' = "ended"
        \/ PhaseOf(j) = "ended" /\ PhaseOf(j)' = "parked" /\ ~Working(j)
        \/ PhaseOf(j) = "ended" /\ PhaseOf(j)' = "disputed"
      BY <1>n, <2>2 DEF PhaseOf, Terminal, Open, Retryable
  <2> QED
      BY <2>1, <2>3, Mapped DEF Working
<1>6. ASSUME NEW i \in Jobs, NEW k \in Sleeps, TimeComes(i, k) PROVE Kept
    BY <1>6, Mapped DEF TimeComes, Working, PhaseOf
<1>7. CASE AgentOff \/ AgentOn
  <2>1. UNCHANGED <<applied, pc, cur, overlapped>>
      BY <1>7 DEF AgentOff, AgentOn
  <2>2. \/ status'[j] = status[j]
        \/ status[j] \in {"queued", "waiting"} /\ status'[j] = "paused"
        \/ status[j] = "paused" /\ status'[j] \in {"waiting", "queued"}
      BY <1>7, <1>t DEF AgentOff, AgentOn, Restored, TypeOK
  <2>3. PhaseOf(j)' = PhaseOf(j)
      BY <2>1, <2>2 DEF PhaseOf, Terminal
  <2> QED
      BY <2>1, <2>3, Mapped DEF Working
<1>8. CASE UNCHANGED vars
    BY <1>8, Mapped DEF vars, Working, PhaseOf
<1> QED
    BY <1>1, <1>2, <1>3, <1>4, <1>5, <1>6, <1>7, <1>8 DEF Next

\* And once it is disputed, nothing is promised of a job.
LEMMA NoPromiseStep ==
    ASSUME PromiseInv, [Next]_vars, NEW j \in Jobs, j \in overlapped
    PROVE  [Promise(j)!Next]_(Promise(j)!vars)
<1>1. PhaseOf(j) = "disputed" /\ PhaseOf(j)' = "disputed"
  <2>1. j \in overlapped'
      BY OverlapGrows
  <2> QED
      BY <2>1 DEF PhaseOf
<1>2. applied'[j] \in [Steps -> 0 .. 2]
    BY TypeNext DEF PromiseInv, RunOnceInv, TypeInv, TypeOK
<1>3. Working(j)' \in BOOLEAN
    BY DEF Working
<1> QED
    BY <1>1, <1>2, <1>3 DEF Working, Promise!Next, Promise!NoPromise, Promise!Steps, Steps

\* The refinement: to each person the engine is JobPromise.  Through crashes,
\* requeues, pauses, retries and the sweeps of the tick the steps of a job write
\* in order, one at a time and once, and none starts after the end, until two
\* passes hold the job.
THEOREM PromiseKept == Spec => KeepsPromise
<1>1. Init => \A j \in Jobs : Promise(j)!Init
    BY DEF Init, PhaseOf, Terminal, Steps, Promise!Init, Promise!Steps
<1>2. PromiseInv /\ [Next]_vars => \A j \in Jobs : [Promise(j)!Next]_(Promise(j)!vars)
    BY PromiseStep, NoPromiseStep
<1> QED
    BY <1>1, <1>2, PromiseAlways, PTL DEF Spec, KeepsPromise
==============================================================================
