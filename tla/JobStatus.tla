------------------------------ MODULE JobStatus ------------------------------
(* The status vocabulary of a row of agent_runs with mode = 'job', shared by  *)
(* the modules that model one aspect of durable jobs each.                    *)

\* Momentum: domain/agents/models.py, AgentRun.status.
Statuses == {"queued", "running", "waiting", "paused", "succeeded", "failed",
             "cancelled", "budget_exceeded", "expired"}

\* agents/jobs/job.py, TERMINAL: a job in one of these has ended.
Terminal == {"succeeded", "failed", "cancelled", "budget_exceeded", "expired"}

\* agents/jobs/control.py, OPEN: a job that can still be cancelled.
Open == {"queued", "running", "waiting", "paused"}

\* Only these two ends can be taken back, by control.retry.
Retryable == {"failed", "budget_exceeded"}
==============================================================================
