----------------------------- MODULE AsksProofs -----------------------------
(* Theorems about Asks, for any answers, limits and number of escalations.    *)
(*                                                                            *)
(* The heart is LockInv: whoever holds the ask's row holds an open ask.  With *)
(* it, and with what _finish saw under the lock of the job's row (PassInv),   *)
(* a waiting job waits for the live, open ask (NoLostAnswer), and an answer a *)
(* pass has read is still the one on record when it records it (UsedInv),     *)
(* but for the two races of the model.                                        *)
EXTENDS Asks, TLAPS

\* Whose pass is about to write how its handler ended knows it.
TypeInv == TypeOK /\ (pc \in {"closing", "locked"} => ending # "none")

LockInv ==
    /\ n = 0 => ask = "none"
    /\ lock # "free" => ask = "open"

PassInv ==
    /\ pc # "idle" => run # "waiting"
    /\ pc = "locked" => run = "running"
    /\ pc = "locked" /\ ending = "waiting" /\ ~met => suspendOn = n /\ ask = "open"

WaitInv == TypeInv /\ LockInv /\ PassInv /\ NoLostAnswer

UsedInv ==
    /\ TypeInv /\ LockInv
    /\ UsedIsOnRecord
    /\ pc \in {"got", "saving"} => (ask \in {"answered", "expired"} /\ got = value) \/ takenBack

\* The tuple of variables, for the steps that change nothing.
LEMMA VarsSame ==
    ASSUME UNCHANGED vars
    PROVE  /\ UNCHANGED <<run, wait, tries>> /\ UNCHANGED <<recorded, used>>
           /\ UNCHANGED <<n, ask, value, expiry>>
           /\ UNCHANGED <<pc, got, suspendOn, ending, met>> /\ UNCHANGED <<lock, saw>>
           /\ UNCHANGED <<astray, takenBack>>
BY DEF vars, runVars, stepVars, askVars, passVars, lockVars, raceVars

\* A pass that is over has nothing in its hands.
LEMMA GoneTyped ==
    ASSUME PassGone
    PROVE  /\ pc' = "idle" /\ got' \in Values /\ suspendOn' = 0 /\ ending' = "none"
           /\ met' \in BOOLEAN
BY DEF PassGone, Values

LEMMA LetGoTyped ==
    ASSUME LetGo
    PROVE  lock' = "free" /\ saw' \in BOOLEAN
BY DEF LetGo

\* Every variable keeps its type.
LEMMA TypeStep ==
    ASSUME TypeInv, [Next]_vars
    PROVE  TypeInv'
<1>0. n \in Nat /\ MaxAsks \in Nat /\ MaxAsks # 0 /\ 0 \in 0 .. MaxAsks /\ 0 \in 0 .. n
    BY AsksAssumption DEF TypeInv, TypeOK
<1>. USE AsksAssumption, <1>0 DEF TypeInv, TypeOK, Statuses, Terminal, Open, Retryable, Values, Actions, RunFree, AskFree,
        EndJob, WakeFor, runVars, stepVars, askVars, passVars, lockVars, raceVars
<1>1. CASE Claim      BY <1>1 DEF Claim
<1>2. CASE AskCreate  BY <1>2 DEF AskCreate
<1>3. CASE AskSuspend BY <1>3 DEF AskSuspend
<1>4. CASE AskRefused BY <1>4 DEF AskRefused
<1>5. CASE AskRead
  <2>1. takenBack' \in BOOLEAN
      BY <1>5, Zenon DEF AskRead
  <2>2. QED
      BY <1>5, <2>1 DEF AskRead
<1>6. CASE Record     BY <1>6 DEF Record
<1>28. CASE Announce BY <1>28 DEF Announce
<1>7. CASE Interrupt  BY <1>7, GoneTyped DEF Interrupt
<1>8. CASE Return     BY <1>8 DEF Return
<1>9. CASE FinishLook
  <2>1. met' \in BOOLEAN
      BY <1>9, GoneTyped DEF FinishLook
  <2>2. QED
      BY <1>9, <2>1, GoneTyped DEF FinishLook
<1>10. CASE FinishWaiting
  <2>1. astray' \in BOOLEAN
      BY <1>10, Zenon DEF FinishWaiting
  <2>2. QED
      BY <1>10, <2>1, GoneTyped DEF FinishWaiting
<1>11. CASE FinishEnded BY <1>11, GoneTyped DEF FinishEnded
<1>12. CASE Stale     BY <1>12 DEF Stale
<1>13. CASE Fail      BY <1>13 DEF Fail
<1>14. CASE Crash     BY <1>14, GoneTyped DEF Crash
<1>15. CASE ExpireLock BY <1>15 DEF ExpireLock
<1>16. CASE Expire    BY <1>16, LetGoTyped DEF Expire
<1>17. CASE Escalate  BY <1>17, LetGoTyped DEF Escalate
<1>18. CASE AnswerLock BY <1>18 DEF AnswerLock
<1>19. CASE Answer    BY <1>19 DEF Answer
<1>20. CASE TakeBack  BY <1>20 DEF TakeBack
<1>21. CASE Abort     BY <1>21, LetGoTyped DEF Abort
<1>22. CASE ExpireJob BY <1>22 DEF ExpireJob
<1>23. CASE Cancel    BY <1>23 DEF Cancel
<1>24. CASE Pause     BY <1>24 DEF Pause
<1>25. CASE Resume    BY <1>25 DEF Resume
<1>26. CASE Retry     BY <1>26 DEF Retry
<1>27. CASE UNCHANGED vars BY <1>27, VarsSame
<1>. QED BY <1>1, <1>2, <1>3, <1>4, <1>5, <1>6, <1>7, <1>8, <1>9, <1>10, <1>11, <1>12, <1>13,
            <1>14, <1>15, <1>16, <1>17, <1>18, <1>19, <1>20, <1>21, <1>22, <1>23, <1>24,
            <1>25, <1>26, <1>27, <1>28 DEF Next, Pass, Timers

\* Whoever has locked the ask has found it open, and only the holder closes it.
LEMMA LockStep ==
    ASSUME TypeOK, LockInv, [Next]_vars
    PROVE  LockInv'
<1>0. n \in Nat
    BY AsksAssumption DEF TypeOK
<1>. USE <1>0 DEF LockInv, AskFree, LetGo, EndJob, runVars, stepVars, askVars, passVars, lockVars, raceVars
<1>1. CASE Claim
    BY <1>1 DEF Claim
<1>2. CASE AskCreate
    BY <1>2 DEF AskCreate
<1>3. CASE AskSuspend
    BY <1>3 DEF AskSuspend
<1>4. CASE AskRefused
    BY <1>4 DEF AskRefused
<1>5. CASE AskRead
    BY <1>5 DEF AskRead
<1>6. CASE Record
    BY <1>6 DEF Record
<1>28. CASE Announce
    BY <1>28 DEF Announce
<1>7. CASE Interrupt
    BY <1>7 DEF Interrupt
<1>8. CASE Return
    BY <1>8 DEF Return
<1>9. CASE FinishLook
    BY <1>9 DEF FinishLook
<1>10. CASE FinishWaiting
    BY <1>10 DEF FinishWaiting
<1>11. CASE FinishEnded
    BY <1>11 DEF FinishEnded
<1>12. CASE Stale
    BY <1>12 DEF Stale
<1>13. CASE Fail
    BY <1>13 DEF Fail
<1>14. CASE Crash
    BY <1>14 DEF Crash
<1>15. CASE ExpireLock
    BY <1>15 DEF ExpireLock
<1>16. CASE Expire
    BY <1>16 DEF Expire
<1>17. CASE Escalate
    BY <1>17 DEF Escalate
<1>18. CASE AnswerLock
    BY <1>18 DEF AnswerLock
<1>19. CASE Answer
    BY <1>19 DEF Answer
<1>20. CASE TakeBack
    BY <1>20 DEF TakeBack
<1>21. CASE Abort
    BY <1>21 DEF Abort
<1>22. CASE ExpireJob
    BY <1>22 DEF ExpireJob
<1>23. CASE Cancel
    BY <1>23 DEF Cancel
<1>24. CASE Pause
    BY <1>24 DEF Pause
<1>25. CASE Resume
    BY <1>25 DEF Resume
<1>26. CASE Retry
    BY <1>26 DEF Retry
<1>27. CASE UNCHANGED vars
    BY <1>27, VarsSame
<1>. QED
    BY <1>1, <1>2, <1>3, <1>4, <1>5, <1>6, <1>7, <1>8, <1>9, <1>10, <1>11, <1>12, <1>13,
       <1>14, <1>15, <1>16, <1>17, <1>18, <1>19, <1>20, <1>21, <1>22, <1>23, <1>24,
       <1>25, <1>26, <1>27, <1>28 DEF Next, Pass, Timers

\* A waiting job waits for the live ask, and it is open.
LEMMA WaitStep ==
    ASSUME WaitInv, [Next]_vars
    PROVE  WaitInv'
<1>0. n \in Nat /\ TypeInv' /\ LockInv'
    BY AsksAssumption, TypeStep, LockStep DEF WaitInv, TypeInv, TypeOK
<1>. SUFFICES PassInv' /\ NoLostAnswer'
    BY <1>0 DEF WaitInv
<1>. USE <1>0 DEF WaitInv, LockInv, PassInv, NoLostAnswer, RunFree, AskFree, LetGo, EndJob, WakeFor,
        PassGone, Open, Retryable, runVars, stepVars, askVars, passVars, lockVars, raceVars
<1>1. CASE Claim
    BY <1>1 DEF Claim
<1>2. CASE AskCreate
    BY <1>2 DEF AskCreate
<1>3. CASE AskSuspend
    BY <1>3 DEF AskSuspend
<1>4. CASE AskRefused
    BY <1>4 DEF AskRefused
<1>5. CASE AskRead
    BY <1>5 DEF AskRead
<1>6. CASE Record
    BY <1>6 DEF Record
<1>28. CASE Announce
    BY <1>28 DEF Announce
<1>7. CASE Interrupt
    BY <1>7 DEF Interrupt
<1>8. CASE Return
    BY <1>8 DEF Return
<1>9. CASE FinishLook
    BY <1>9 DEF FinishLook
<1>10. CASE FinishWaiting
    BY <1>10 DEF FinishWaiting
<1>11. CASE FinishEnded
    BY <1>11 DEF FinishEnded
<1>12. CASE Stale
    BY <1>12 DEF Stale
<1>13. CASE Fail
    BY <1>13 DEF Fail
<1>14. CASE Crash
    BY <1>14 DEF Crash
<1>15. CASE ExpireLock
    BY <1>15 DEF ExpireLock
<1>16. CASE Expire
    BY <1>16 DEF Expire
<1>17. CASE Escalate
    BY <1>17 DEF Escalate
<1>18. CASE AnswerLock
    BY <1>18 DEF AnswerLock
<1>19. CASE Answer
    BY <1>19 DEF Answer
<1>20. CASE TakeBack
    BY <1>20 DEF TakeBack
<1>21. CASE Abort
    BY <1>21 DEF Abort
<1>22. CASE ExpireJob
    BY <1>22 DEF ExpireJob
<1>23. CASE Cancel
    BY <1>23 DEF Cancel
<1>24. CASE Pause
    BY <1>24 DEF Pause
<1>25. CASE Resume
    BY <1>25 DEF Resume
<1>26. CASE Retry
    BY <1>26 DEF Retry
<1>27. CASE UNCHANGED vars
    BY <1>27, VarsSame
<1>. QED
    BY <1>1, <1>2, <1>3, <1>4, <1>5, <1>6, <1>7, <1>8, <1>9, <1>10, <1>11, <1>12, <1>13,
       <1>14, <1>15, <1>16, <1>17, <1>18, <1>19, <1>20, <1>21, <1>22, <1>23, <1>24,
       <1>25, <1>26, <1>27, <1>28 DEF Next, Pass, Timers

\* What a pass has read of the ask, and what it has recorded, stays so.
LEMMA UsedStep ==
    ASSUME UsedInv, [Next]_vars
    PROVE  UsedInv'
<1>0. n \in Nat /\ TypeInv' /\ LockInv'
    BY AsksAssumption, TypeStep, LockStep DEF UsedInv, TypeInv, TypeOK
<1>. SUFFICES UsedIsOnRecord' /\ (pc \in {"got", "saving"} => (ask \in {"answered", "expired"} /\ got = value) \/ takenBack)'
    BY <1>0 DEF UsedInv
<1>. USE <1>0 DEF UsedInv, LockInv, UsedIsOnRecord, AskFree, LetGo, EndJob,
        PassGone, runVars, stepVars, askVars, passVars, lockVars, raceVars
<1>1. CASE Claim
    BY <1>1 DEF Claim
<1>2. CASE AskCreate
    BY <1>2 DEF AskCreate
<1>3. CASE AskSuspend
    BY <1>3 DEF AskSuspend
<1>4. CASE AskRefused
    BY <1>4 DEF AskRefused
<1>5. CASE AskRead
    BY <1>5 DEF AskRead
<1>6. CASE Record
    BY <1>6 DEF Record
<1>28. CASE Announce
    BY <1>28 DEF Announce
<1>7. CASE Interrupt
    BY <1>7 DEF Interrupt
<1>8. CASE Return
    BY <1>8 DEF Return
<1>9. CASE FinishLook
    BY <1>9 DEF FinishLook
<1>10. CASE FinishWaiting
    BY <1>10 DEF FinishWaiting
<1>11. CASE FinishEnded
    BY <1>11 DEF FinishEnded
<1>12. CASE Stale
    BY <1>12 DEF Stale
<1>13. CASE Fail
    BY <1>13 DEF Fail
<1>14. CASE Crash
    BY <1>14 DEF Crash
<1>15. CASE ExpireLock
    BY <1>15 DEF ExpireLock
<1>16. CASE Expire
    BY <1>16 DEF Expire
<1>17. CASE Escalate
    BY <1>17 DEF Escalate
<1>18. CASE AnswerLock
    BY <1>18 DEF AnswerLock
<1>19. CASE Answer
    BY <1>19 DEF Answer
<1>20. CASE TakeBack
    BY <1>20 DEF TakeBack
<1>21. CASE Abort
    BY <1>21 DEF Abort
<1>22. CASE ExpireJob
    BY <1>22 DEF ExpireJob
<1>23. CASE Cancel
    BY <1>23 DEF Cancel
<1>24. CASE Pause
    BY <1>24 DEF Pause
<1>25. CASE Resume
    BY <1>25 DEF Resume
<1>26. CASE Retry
    BY <1>26 DEF Retry
<1>27. CASE UNCHANGED vars
    BY <1>27, VarsSame
<1>. QED
    BY <1>1, <1>2, <1>3, <1>4, <1>5, <1>6, <1>7, <1>8, <1>9, <1>10, <1>11, <1>12, <1>13,
       <1>14, <1>15, <1>16, <1>17, <1>18, <1>19, <1>20, <1>21, <1>22, <1>23, <1>24,
       <1>25, <1>26, <1>27, <1>28 DEF Next, Pass, Timers

LEMMA AsksInit == Init => TypeInv /\ LockInv /\ WaitInv /\ UsedInv
<1>. SUFFICES ASSUME Init PROVE TypeInv /\ LockInv /\ WaitInv /\ UsedInv
    OBVIOUS
<1>1. recorded \in BOOLEAN /\ met \in BOOLEAN /\ saw \in BOOLEAN /\ ~recorded
      /\ astray \in BOOLEAN /\ takenBack \in BOOLEAN
    BY DEF Init
<1>2. run = "queued" /\ wait = 0 /\ tries = 0 /\ used = NoAnswer /\ n = 0 /\ ask = "none"
      /\ value = NoAnswer /\ expiry \in Actions /\ pc = "idle" /\ got = NoAnswer
      /\ suspendOn = 0 /\ ending = "none" /\ lock = "free"
    BY DEF Init
<1>3. TypeInv
    BY <1>1, <1>2, AsksAssumption DEF TypeInv, TypeOK, Statuses, Values
<1>4. LockInv /\ PassInv /\ NoLostAnswer /\ UsedIsOnRecord
    BY <1>1, <1>2 DEF LockInv, PassInv, NoLostAnswer, UsedIsOnRecord
<1>. QED
    BY <1>2, <1>3, <1>4 DEF WaitInv, UsedInv

------------------------------------------------------------------------------
\* Type correctness, and an ask that is held is open.
THEOREM TypeCorrect == Spec => [](TypeOK /\ LockInv)
<1>1. TypeInv /\ LockInv /\ [Next]_vars => TypeInv' /\ LockInv'
    BY TypeStep, LockStep DEF TypeInv
<1>2. TypeInv => TypeOK
    BY DEF TypeInv
<1> QED
    BY <1>1, <1>2, AsksInit, PTL DEF Spec

\* No answer is lost: a job that waits, waits for an ask that is open, unless it
\* began to wait between the reading and the write of an escalation (_expire).
THEOREM AnswersArrive == Spec => []NoLostAnswer
<1>1. WaitInv /\ [Next]_vars => WaitInv'
    BY WaitStep
<1>2. WaitInv => NoLostAnswer
    BY DEF WaitInv
<1> QED
    BY <1>1, <1>2, AsksInit, PTL DEF Spec

\* The job went on with what its ask says, unless the answer was taken back after
\* the pass had read it and before it recorded it (_undo_answer, run_step).
THEOREM UsedAnswersStand == Spec => []UsedIsOnRecord
<1>1. UsedInv /\ [Next]_vars => UsedInv'
    BY UsedStep
<1>2. UsedInv => UsedIsOnRecord
    BY DEF UsedInv
<1> QED
    BY <1>1, <1>2, AsksInit, PTL DEF Spec

\* A closed ask is settled: the only change of a closed ask is that its answer
\* is taken back while the job has not used it (answer_ask, _expire,
\* cancel_for_run, _undo_answer).
THEOREM AsksSettle == Spec => Settled
<1>1. ASSUME TypeInv, LockInv, [Next]_vars, ask \in {"answered", "expired", "cancelled"}
      PROVE  \/ UNCHANGED <<n, ask, value>>
             \/ ask = "answered" /\ ask' = "open" /\ ~recorded
  <2>. USE <1>1 DEF LockInv, AskFree, LetGo, EndJob, runVars, stepVars, askVars, passVars, lockVars, raceVars
  <2>1. CASE Claim
      BY <2>1 DEF Claim
  <2>2. CASE AskCreate
      BY <2>2 DEF AskCreate
  <2>3. CASE AskSuspend
      BY <2>3 DEF AskSuspend
  <2>4. CASE AskRefused
      BY <2>4 DEF AskRefused
  <2>5. CASE AskRead
      BY <2>5 DEF AskRead
  <2>6. CASE Record
      BY <2>6 DEF Record
  <2>28. CASE Announce
      BY <2>28 DEF Announce
  <2>7. CASE Interrupt
      BY <2>7 DEF Interrupt
  <2>8. CASE Return
      BY <2>8 DEF Return
  <2>9. CASE FinishLook
      BY <2>9 DEF FinishLook
  <2>10. CASE FinishWaiting
      BY <2>10 DEF FinishWaiting
  <2>11. CASE FinishEnded
      BY <2>11 DEF FinishEnded
  <2>12. CASE Stale
      BY <2>12 DEF Stale
  <2>13. CASE Fail
      BY <2>13 DEF Fail
  <2>14. CASE Crash
      BY <2>14 DEF Crash
  <2>15. CASE ExpireLock
      BY <2>15 DEF ExpireLock
  <2>16. CASE Expire
      BY <2>16 DEF Expire
  <2>17. CASE Escalate
      BY <2>17 DEF Escalate
  <2>18. CASE AnswerLock
      BY <2>18 DEF AnswerLock
  <2>19. CASE Answer
      BY <2>19 DEF Answer
  <2>20. CASE TakeBack
      BY <2>20 DEF TakeBack
  <2>21. CASE Abort
      BY <2>21 DEF Abort
  <2>22. CASE ExpireJob
      BY <2>22 DEF ExpireJob
  <2>23. CASE Cancel
      BY <2>23 DEF Cancel
  <2>24. CASE Pause
      BY <2>24 DEF Pause
  <2>25. CASE Resume
      BY <2>25 DEF Resume
  <2>26. CASE Retry
      BY <2>26 DEF Retry
  <2>27. CASE UNCHANGED vars
      BY <2>27, VarsSame
  <2>. QED
      BY <2>1, <2>2, <2>3, <2>4, <2>5, <2>6, <2>7, <2>8, <2>9, <2>10, <2>11, <2>12, <2>13,
         <2>14, <2>15, <2>16, <2>17, <2>18, <2>19, <2>20, <2>21, <2>22, <2>23, <2>24,
         <2>25, <2>26, <2>27, <2>28 DEF Next, Pass, Timers
<1>2. TypeInv /\ LockInv /\ [Next]_vars => TypeInv' /\ LockInv'
    BY TypeStep, LockStep DEF TypeInv
<1>3. TypeInv /\ LockInv /\ [Next]_vars =>
        [(ask \in {"answered", "expired", "cancelled"}) =>
            \/ UNCHANGED <<n, ask, value>>
            \/ (ask = "answered" /\ ask' = "open" /\ ~recorded)]_vars
    BY <1>1
<1> QED
    BY <1>2, <1>3, AsksInit, PTL DEF Spec, Settled
==============================================================================
