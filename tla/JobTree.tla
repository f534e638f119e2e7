------------------------------ MODULE JobTree ------------------------------
(* A job and the child jobs it spawns and gathers: Job.spawn, Job.gather,     *)
(* create_child, wake_parent and _condition_met of agents/jobs/, the          *)
(* concurrency limit of claim_runs, and cancelling the whole tree.            *)
(*                                                                            *)
(* The parent spawns every child and then waits for all of them.  What a pass *)
(* is and why a job has only one is the business of JobEngine; here a run has *)
(* one pass at most.  What counts here are the locks on the rows of           *)
(* agent_runs: a child that ends locks its own row and then its parent's, a   *)
(* cancellation locks the parent and then the children, and the parent's own  *)
(* _finish looks at the children under the lock of its row.  A transaction is *)
(* split where it waits for a lock or reads before it writes; the rows it     *)
(* changed become visible with its last action.                               *)
EXTENDS Integers, FiniteSets, JobStatus

CONSTANTS
    Children,
    NoChild,
    Cap,          \* limits.concurrency
    MaxCrashes,   \* MAX_CRASHES
    MaxAttempts   \* bound: nobody retries a job past this attempt

ASSUME TreeAssumption ==
    /\ IsFiniteSet(Children) /\ NoChild \notin Children
    /\ Cap \in Nat \ {0} /\ MaxCrashes \in Nat /\ MaxAttempts \in Nat

VARIABLES
    parent,     \* status of the parent's row; when waiting, it waits for all children
    child,      \* [Children -> status of the child's row, "none" before it is spawned]
    tries,      \* attempt, of the parent (NoChild) and of each child
    gathered,   \* the parent's gather step is done
    ended,      \* the children that have come to an end, retried since or not
    \* the parent's pass
    ppc,        \* where it is
    spawning,   \* the child its spawn step makes
    ending,     \* how its handler ended
    met,        \* what _condition_met said
    \* the children's passes
    cpc,        \* [Children -> where the pass is]
    \* a claim of the scheduler
    claim,      \* "idle" or "looked"
    counted,    \* how many children it found running
    \* the cancellation of the tree
    tree,       \* "idle", "locking" or "done"
    want,       \* the rows its select found
    has,        \* those it has locked
    \* history
    quiet,      \* the last child the parent waits for was cancelled with no wake-up
    outlived    \* the children born or retried after the tree was cancelled

passVars == <<ppc, spawning, ending, met>>
claimVars == <<claim, counted>>
treeVars == <<tree, want, has>>
pastVars == <<quiet, outlived>>
sideVars == <<claimVars, treeVars, pastVars>>
familyVars ==
    <<parent, child, tries, gathered, ended, passVars, cpc, sideVars>>

Parked == {"queued", "waiting", "paused"}

TreeTypeOK ==
    /\ parent \in Statuses
    /\ child \in [Children -> Statuses \cup {"none"}]
    /\ tries \in [Children \cup {NoChild} -> Nat]
    /\ gathered \in BOOLEAN
    /\ ended \subseteq Children
    /\ ppc \in {"idle", "run", "spawning", "got", "closing", "locked"}
    /\ spawning \in Children \cup {NoChild}
    /\ ending \in {"none", "waiting", "succeeded", "failed"}
    /\ met \in BOOLEAN
    /\ cpc \in [Children -> {"idle", "work", "locked"}]
    /\ claim \in {"idle", "looked"} /\ counted \in Nat
    /\ tree \in {"idle", "locking", "done"}
    /\ want \subseteq Children
    /\ has \subseteq want
    /\ quiet \in BOOLEAN /\ outlived \subseteq Children

InitTree ==
    /\ parent = "queued"
    /\ child = [c \in Children |-> "none"]
    /\ tries = [r \in Children \cup {NoChild} |-> 0]
    /\ gathered = FALSE
    /\ ended = {}
    /\ ppc = "idle" /\ spawning = NoChild /\ ending = "none" /\ met = FALSE
    /\ cpc = [c \in Children |-> "idle"]
    /\ claim = "idle" /\ counted = 0
    /\ tree = "idle" /\ want = {} /\ has = {}
    /\ quiet = FALSE /\ outlived = {}

\* Nobody holds the row locked.
ParentFree   == ppc # "locked" /\ tree # "locking"
ChildFree(c) == cpc[c] # "locked" /\ c \notin has

AllEnded(st) == \A c \in Children : st[c] \in Terminal
Running      == {c \in Children : child[c] = "running"}

\* A child's row and the parent's are written in one transaction: the child
\* has status s, and wake_parent, under the lock of the parent's row, queues a
\* parent whose children have now all ended.
ChildEnds(c, s) ==
    LET after == [child EXCEPT ![c] = s] IN
    /\ child' = after
    /\ parent' = IF parent = "waiting" /\ AllEnded(after) THEN "queued" ELSE parent
    /\ ended' = ended \cup {c}

------------------------------------------------------------------------------
(* The parent's pass.                                                         *)

PassGone == ppc' = "idle" /\ spawning' = NoChild /\ ending' = "none" /\ met' = FALSE

ClaimParent ==
    /\ parent = "queued" /\ ppc = "idle" /\ ParentFree
    /\ parent' = "running" /\ ppc' = "run"
    /\ UNCHANGED <<child, tries, gathered, ended, spawning, ending, met, cpc, sideVars>>

\* spawn: run_step's first transaction.
SpawnBegin(c) ==
    /\ ppc = "run" /\ parent = "running" /\ child[c] = "none"
    /\ ppc' = "spawning" /\ spawning' = c
    /\ UNCHANGED <<parent, child, tries, gathered, ended, ending, met, cpc, sideVars>>

\* The child that is born, also to a parent that was cancelled meanwhile.
Born ==
    /\ child' = [child EXCEPT ![spawning] = "queued"]
    /\ ppc' = "run" /\ spawning' = NoChild
    /\ outlived' = IF tree = "done" THEN outlived \cup {spawning} ELSE outlived
    /\ UNCHANGED <<parent, tries, gathered, ended, ending, met, cpc, claimVars, treeVars, quiet>>

\* Faulty variant: the new row's reference to its parent is not checked.
SpawnUnchecked ==
    /\ ppc = "spawning"
    /\ Born

\* create_child, inside the step: the foreign key to the parent's row makes the
\* insert wait for whoever has locked that row.  It does not look at the status:
\* an insert that waited for a cancellation goes on after it.
Spawn ==
    /\ ppc = "spawning" /\ ParentFree
    /\ Born

\* A step finds that the job is not running any more.
Interrupt ==
    /\ parent # "running"
    /\ \/ ppc = "run" /\ \E c \in Children : child[c] = "none"
       \/ ppc = "got"
    /\ PassGone
    /\ UNCHANGED <<parent, child, tries, gathered, ended, cpc, sideVars>>

\* Faulty variant: one ended child is enough.
GatherAny ==
    /\ ppc = "run" /\ ~gathered /\ \A c \in Children : child[c] # "none"
    /\ IF \E c \in Children : child[c] \in Terminal
       THEN ppc' = "got" /\ UNCHANGED ending
       ELSE ppc' = "closing" /\ ending' = "waiting"
    /\ UNCHANGED <<parent, child, tries, gathered, ended, spawning, met, cpc, sideVars>>

\* gather reads the children in a transaction of its own.
Gather ==
    /\ ppc = "run" /\ ~gathered /\ \A c \in Children : child[c] # "none"
    /\ IF AllEnded(child) THEN ppc' = "got" /\ UNCHANGED ending
                          ELSE ppc' = "closing" /\ ending' = "waiting"
    /\ UNCHANGED <<parent, child, tries, gathered, ended, spawning, met, cpc, sideVars>>

\* ... and records what it read as a step.
RecordGather ==
    /\ ppc = "got" /\ parent = "running"
    /\ gathered' = TRUE /\ ppc' = "run"
    /\ UNCHANGED <<parent, child, tries, ended, spawning, ending, met, cpc, sideVars>>

Return ==
    /\ ppc = "run" /\ gathered
    /\ ppc' = "closing" /\ ending' = "succeeded"
    /\ UNCHANGED <<parent, child, tries, gathered, ended, spawning, met, cpc, sideVars>>

\* A step or the handler fails; what the step wrote is rolled back.
Fail ==
    /\ ppc \in {"run", "spawning", "got"}
    /\ ppc' = "closing" /\ ending' = "failed" /\ spawning' = NoChild
    /\ UNCHANGED <<parent, child, tries, gathered, ended, met, cpc, sideVars>>

\* _finish locks the row, and before it lets the job wait it looks at the
\* children again.
FinishLook ==
    /\ ppc = "closing" /\ ParentFree
    /\ IF parent = "running"
       THEN /\ ppc' = "locked" /\ met' = (ending = "waiting" /\ AllEnded(child))
            /\ UNCHANGED <<spawning, ending>>
       ELSE PassGone
    /\ UNCHANGED <<parent, child, tries, gathered, ended, cpc, sideVars>>

FinishWrite ==
    /\ ppc = "locked"
    /\ parent' = IF met THEN "queued" ELSE ending
    /\ PassGone
    /\ quiet' = FALSE
    /\ UNCHANGED <<child, tries, gathered, ended, cpc, claimVars, treeVars, outlived>>

\* The worker dies, or a transaction of execute_job fails.
CrashParent ==
    /\ ppc # "idle"
    /\ PassGone
    /\ UNCHANGED <<parent, child, tries, gathered, ended, cpc, sideVars>>

\* tick_jobs: a pass that died with its worker.
Stale ==
    /\ parent = "running" /\ ppc = "idle" /\ ParentFree
    /\ IF tries[NoChild] >= MaxCrashes
       THEN parent' = "failed" /\ UNCHANGED tries
       ELSE parent' = "queued" /\ tries' = [tries EXCEPT ![NoChild] = @ + 1]
    /\ UNCHANGED <<child, gathered, ended, passVars, cpc, sideVars>>

------------------------------------------------------------------------------
(* A child's pass.                                                            *)

\* claim_runs.  One claim at a time (the advisory lock) reads which children are
\* running ...
ClaimLook ==
    /\ claim = "idle"
    /\ claim' = "looked" /\ counted' = Cardinality(Running)
    /\ UNCHANGED <<parent, child, tries, gathered, ended, passVars, cpc, treeVars, pastVars>>

Taken(B) ==
    /\ claim = "looked"
    /\ \A c \in B : child[c] = "queued" /\ cpc[c] = "idle" /\ ChildFree(c)
    /\ child' = [c \in Children |-> IF c \in B THEN "running" ELSE child[c]]
    /\ cpc' = [c \in Children |-> IF c \in B THEN "work" ELSE cpc[c]]
    /\ claim' = "idle" /\ counted' = 0
    /\ UNCHANGED <<parent, tries, gathered, ended, passVars, treeVars, pastVars>>

\* Faulty variant: each child of the batch is held against the count alone.
ClaimTakeUncounted(B) ==
    /\ Taken(B)
    /\ B # {} => counted < Cap

\* ... and takes a batch of queued ones, each of which counts for the next.
ClaimTake(B) ==
    /\ Taken(B)
    /\ B # {} => counted + Cardinality(B) <= Cap

ChildClaim(c) == \E B \in SUBSET Children : c \in B /\ ClaimTake(B)

\* The child asks a person something and waits; a later pass that comes to the
\* step again waits again while there is no answer.
ChildAsks(c) ==
    /\ cpc[c] = "work" /\ child[c] = "running" /\ ChildFree(c)
    /\ child' = [child EXCEPT ![c] = "waiting"]
    /\ cpc' = [cpc EXCEPT ![c] = "idle"]
    /\ UNCHANGED <<parent, tries, gathered, ended, passVars, sideVars>>

ChildAnswered(c) ==
    /\ child[c] = "waiting" /\ ChildFree(c)
    /\ child' = [child EXCEPT ![c] = "queued"]
    /\ UNCHANGED <<parent, tries, gathered, ended, passVars, cpc, sideVars>>

\* _finish of the child: its own row is locked and changed first ...
ChildFinish(c) ==
    /\ cpc[c] = "work" /\ ChildFree(c)
    /\ cpc' = [cpc EXCEPT ![c] = IF child[c] = "running" THEN "locked" ELSE "idle"]
    /\ UNCHANGED <<parent, child, tries, gathered, ended, passVars, sideVars>>

ChildWritten(c) ==
    /\ cpc[c] = "locked"
    /\ \E s \in {"succeeded", "failed"} : ChildEnds(c, s)
    /\ cpc' = [cpc EXCEPT ![c] = "idle"]
    /\ UNCHANGED <<tries, gathered, passVars, sideVars>>

\* Faulty variant: the parent's row is read without its lock.
WakeUnlocked(c) == ChildWritten(c)

\* ... then the parent's, and both are committed.
ChildWakes(c) == ParentFree /\ ChildWritten(c)

\* The worker dies; or the transaction of _finish is the one that a deadlock
\* with a cancellation of the tree aborts.
ChildCrash(c) ==
    /\ cpc[c] # "idle"
    /\ cpc' = [cpc EXCEPT ![c] = "idle"]
    /\ UNCHANGED <<parent, child, tries, gathered, ended, passVars, sideVars>>

\* Faulty variant: a child that is given up does not wake its parent.
ChildStaleSilent(c) ==
    /\ child[c] = "running" /\ cpc[c] = "idle" /\ ChildFree(c)
    /\ IF tries[c] >= MaxCrashes
       THEN /\ child' = [child EXCEPT ![c] = "failed"] /\ ended' = ended \cup {c}
            /\ UNCHANGED tries
       ELSE /\ child' = [child EXCEPT ![c] = "queued"]
            /\ tries' = [tries EXCEPT ![c] = @ + 1]
            /\ UNCHANGED ended
    /\ UNCHANGED <<parent, gathered, passVars, cpc, sideVars>>

ChildStale(c) ==
    /\ child[c] = "running" /\ cpc[c] = "idle" /\ ChildFree(c)
    /\ IF tries[c] >= MaxCrashes
       THEN ParentFree /\ ChildEnds(c, "failed") /\ UNCHANGED tries
       ELSE /\ child' = [child EXCEPT ![c] = "queued"]
            /\ tries' = [tries EXCEPT ![c] = @ + 1]
            /\ UNCHANGED <<parent, ended>>
    /\ UNCHANGED <<gathered, passVars, cpc, sideVars>>

------------------------------------------------------------------------------
(* tick_jobs: jobs that have been open too long.  A child is younger than its *)
(* parent, but the parent may be running, and so not expire.                  *)

ExpireParent ==
    /\ parent \in Parked /\ ParentFree
    /\ parent' = "expired"
    /\ UNCHANGED <<child, tries, gathered, ended, passVars, cpc, sideVars>>

ChildExpire(c) ==
    /\ child[c] \in Parked /\ ChildFree(c) /\ ParentFree
    /\ ChildEnds(c, "expired")
    /\ UNCHANGED <<tries, gathered, passVars, cpc, sideVars>>

------------------------------------------------------------------------------
(* People.                                                                    *)

\* control.cancel of the parent: its row is locked, and _tree asks for all its
\* children's rows, which it gets one after the other ...
CancelTree ==
    /\ parent \in Open /\ ParentFree
    /\ tree' = "locking"
    /\ want' = {c \in Children : child[c] # "none"}
    /\ has' = {}
    /\ UNCHANGED <<parent, child, tries, gathered, ended, passVars, cpc, claimVars, pastVars>>

CancelLock(c) ==
    /\ tree = "locking" /\ c \in want \ has /\ ChildFree(c)
    /\ has' = has \cup {c}
    /\ UNCHANGED <<parent, child, tries, gathered, ended, passVars, cpc, claimVars, pastVars, tree, want>>

\* ... and everything that is still open is cancelled.
CancelWrite ==
    LET open == {c \in has : child[c] \in Open} IN
    /\ tree = "locking" /\ has = want
    /\ parent' = "cancelled"
    /\ child' = [c \in Children |-> IF c \in open THEN "cancelled" ELSE child[c]]
    /\ ended' = ended \cup open
    /\ tree' = "done" /\ want' = {} /\ has' = {}
    /\ UNCHANGED <<tries, gathered, passVars, cpc, claimVars, pastVars>>

\* The request fails: it is the victim of a deadlock, or it is gone.
CancelAbort ==
    /\ tree = "locking"
    /\ tree' = "idle" /\ want' = {} /\ has' = {}
    /\ UNCHANGED <<parent, child, tries, gathered, ended, passVars, cpc, claimVars, pastVars>>

\* control.cancel of one child; its parent is woken if it was the last.
CancelChild(c) ==
    /\ child[c] \in Open /\ ChildFree(c) /\ ParentFree
    /\ ChildEnds(c, "cancelled")
    /\ UNCHANGED <<tries, gathered, passVars, cpc, sideVars>>

\* control.retry.
Retry ==
    /\ parent \in Retryable /\ ParentFree /\ tries[NoChild] < MaxAttempts
    /\ parent' = "queued"
    /\ tries' = [tries EXCEPT ![NoChild] = @ + 1]
    /\ UNCHANGED <<child, gathered, ended, passVars, cpc, sideVars>>

RetryChild(c) ==
    /\ child[c] \in Retryable /\ ChildFree(c) /\ tries[c] < MaxAttempts
    /\ child' = [child EXCEPT ![c] = "queued"]
    /\ tries' = [tries EXCEPT ![c] = @ + 1]
    /\ quiet' = FALSE
    /\ outlived' = IF tree = "done" THEN outlived \cup {c} ELSE outlived
    /\ UNCHANGED <<parent, gathered, ended, passVars, cpc, claimVars, treeVars>>

\* control.pause and resume, and the same of the agent's switch (pause_jobs_of,
\* resume_jobs_of) job by job.  restore_from_pause queues a job that waited for
\* children or for an answer, and its next pass looks again.
PauseParent ==
    /\ parent \in {"queued", "running", "waiting"} /\ ParentFree
    /\ parent' = "paused"
    /\ UNCHANGED <<child, tries, gathered, ended, passVars, cpc, sideVars>>

ResumeParent ==
    /\ parent = "paused" /\ ParentFree
    /\ parent' = "queued"
    /\ UNCHANGED <<child, tries, gathered, ended, passVars, cpc, sideVars>>

PauseChild(c) ==
    /\ child[c] \in {"queued", "running", "waiting"} /\ ChildFree(c)
    /\ child' = [child EXCEPT ![c] = "paused"]
    /\ UNCHANGED <<parent, tries, gathered, ended, passVars, cpc, sideVars>>

ResumeChild(c) ==
    /\ child[c] = "paused" /\ ChildFree(c)
    /\ child' = [child EXCEPT ![c] = "queued"]
    /\ UNCHANGED <<parent, tries, gathered, ended, passVars, cpc, sideVars>>

\* cancel_jobs_in_project: the agent is taken off a project.  Of the family it
\* cancels what is about the project or a task that is in it now: a child has
\* its parent's project or none, its parent's task or a subtask, and tasks move,
\* so any part of the family may be hit.  It locks row after row and writes at
\* the end, and it does not call wake_parent.
TakeOffProject ==
    /\ ParentFree
    /\ \E hit \in SUBSET {c \in Children : child[c] \in Open /\ ChildFree(c)}, top \in BOOLEAN :
          /\ parent' = IF top /\ parent \in Open THEN "cancelled" ELSE parent
          /\ child' = [c \in Children |-> IF c \in hit THEN "cancelled" ELSE child[c]]
          /\ ended' = ended \cup hit
          /\ quiet' = (quiet \/ (hit # {} /\ AllEnded(child')))
    /\ UNCHANGED <<tries, gathered, passVars, cpc, claimVars, treeVars, outlived>>

------------------------------------------------------------------------------
ParentPass ==
    \/ ClaimParent \/ (\E c \in Children : SpawnBegin(c)) \/ Spawn \/ Interrupt \/ Gather
    \/ RecordGather \/ Return \/ FinishLook \/ FinishWrite \/ Stale

Claiming == ClaimLook \/ \E B \in SUBSET Children : ClaimTake(B)

Cancelling == CancelWrite \/ CancelAbort

Person ==
    \/ CancelTree \/ Cancelling \/ Retry \/ PauseParent \/ ResumeParent \/ TakeOffProject
    \/ \E c \in Children : CancelLock(c) \/ CancelChild(c) \/ RetryChild(c) \/ PauseChild(c)
                           \/ ResumeChild(c)

NextTree ==
    \/ ParentPass \/ Claiming \/ Fail \/ CrashParent \/ ExpireParent \/ Person
    \/ \E c \in Children : ChildFinish(c) \/ ChildWakes(c) \/ ChildStale(c) \/ ChildAsks(c)
                           \/ ChildAnswered(c) \/ ChildCrash(c) \/ ChildExpire(c)

TreeSpec == InitTree /\ [][NextTree]_familyVars

\* The scheduler claims, not always just while a cancellation that then fails has
\* rows locked, and takes a child it could take over and over; dead passes are
\* found; waiting for a row's lock is fair; an open transaction comes to its end;
\* an ask is answered or its default is taken when it expires, and a handler has
\* only so much to ask.
ChildGoesOn(c) == ChildClaim(c) \/ ChildAnswered(c) \/ ChildWakes(c) \/ ChildStale(c)

Fairness ==
    /\ WF_familyVars(Cancelling) /\ WF_familyVars(Claiming)
    /\ SF_familyVars(ClaimLook /\ tree # "locking")
    /\ SF_familyVars(\E c \in Children : ChildGoesOn(c))
    /\ SF_familyVars(\E c \in Children : ChildFinish(c))

TreeFairSpec == TreeSpec /\ Fairness

------------------------------------------------------------------------------
(* What the tree promises.                                                    *)

\* No wake-up is lost: a parent that waits still has a child that has not
\* ended, however children ending at the same time, retries, pauses, crashes and
\* the parent's own _finish interleave (wake_parent: "a child finishing while the
\* parent is about to wait is never missed").  The one exception is a last child
\* that cancel_jobs_in_project cancelled, which wakes nobody.
NoLostWake == parent = "waiting" /\ AllEnded(child) => quiet

\* Never more children of one parent running than its concurrency, through
\* batches, retries, pauses and requeues (claim_runs: the children it found
\* running and those it takes with them).
CapHolds == Cardinality(Running) <= Cap

\* A parent goes on from gather only when every child has come to an end, also
\* when a child was retried between the read and the record.
GatherSound == gathered => ended = Children

\* After a job was cancelled its children stay closed, the ones that were just
\* ending, being claimed or being spawned included (control.py: "the job and its
\* open children stop"), but for a child that a person retries and one whose
\* insert waited for the cancellation and went on after it.
CancelTakesAll == tree = "done" => \A c \in Children : child[c] \in Open => c \in outlived

\* A parent does not wait for good while its children can go on: it stops waiting,
\* or a child is paused, or cancel_jobs_in_project cancelled the last one.
WaitEnds ==
    parent = "waiting" ~>
        parent # "waiting" \/ quiet \/ \E c \in Children : child[c] = "paused"
==============================================================================
