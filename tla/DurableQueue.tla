---------------------------- MODULE DurableQueue ----------------------------
(***************************************************************************)
(* The SQLite job queue of packages/persistence/src/queue.ts, open: any    *)
(* process of the installation (daemon, browser worker, scheduler) may     *)
(* call any method at any time.  One action is one SQL transaction; a      *)
(* method that runs several autocommit statements is several actions.      *)
(*                                                                         *)
(* Time is kept as two sets: the jobs whose run_after has passed and the   *)
(* running jobs whose locked_at is older than the lease.  The order in     *)
(* which claim() serves the eligible rows (run_after, created_at) is left  *)
(* open, so what holds here holds whichever eligible row is served.        *)
(***************************************************************************)
EXTENDS Naturals

CONSTANTS
  Jobs,            \* ids of the rows of queue_jobs
  Submissions,     \* the jobs of type wuzzuf.submit-application or application.submit
  AttemptOptions,  \* the values callers give options.maxAttempts, the default included
  Workers,         \* worker ids, one per process ever started
  NoWorker         \* locked_by IS NULL

ASSUME QueueAssumption ==
  /\ Submissions \subseteq Jobs
  /\ AttemptOptions \subseteq Nat \ {0}
  /\ NoWorker \notin Workers

VARIABLES
  status,         \* queue_jobs.status, "absent" before the INSERT
  attempts,       \* queue_jobs.attempts
  maxAttempts,    \* queue_jobs.max_attempts
  lockedBy,       \* queue_jobs.locked_by
  due,            \* jobs with run_after <= now
  expired,        \* jobs with locked_at < now - leaseMs
  result,         \* queue_results.status, "none" when there is no row
  cancellations,  \* queue_cancellations
  failing,        \* fail() calls between their UPDATE and their INSERT
  cancelCalls     \* requestCancellation() calls between their statements

rowVars == <<status, attempts, maxAttempts, lockedBy, due, expired>>
queueVars == <<rowVars, result, cancellations, failing, cancelCalls>>

Live == {"queued", "running"}
Terminal == {"completed", "failed", "cancelled"}
CancelCall == [job : Jobs, sawQueued : BOOLEAN, recorded : BOOLEAN]

QueueTypeOK ==
  /\ status \in [Jobs -> {"absent"} \cup Live \cup Terminal]
  /\ attempts \in [Jobs -> Nat]
  /\ maxAttempts \in [Jobs -> Nat]
  /\ lockedBy \in [Jobs -> Workers \cup {NoWorker}]
  /\ due \subseteq Jobs
  /\ expired \subseteq Jobs
  /\ result \in [Jobs -> {"none", "completed", "failed"}]
  /\ cancellations \subseteq Jobs
  /\ failing \subseteq Jobs
  /\ cancelCalls \subseteq CancelCall

QueueInit ==
  /\ status = [j \in Jobs |-> "absent"]
  /\ attempts = [j \in Jobs |-> 0]
  /\ maxAttempts = [j \in Jobs |-> 0]
  /\ lockedBy = [j \in Jobs |-> NoWorker]
  /\ due = {}
  /\ expired = {}
  /\ result = [j \in Jobs |-> "none"]
  /\ cancellations = {}
  /\ failing = {}
  /\ cancelCalls = {}

-----------------------------------------------------------------------------
(* The clock. *)

RunAfterPasses(j) ==
  /\ status[j] = "queued"
  /\ j \notin due
  /\ due' = due \cup {j}
  /\ UNCHANGED <<status, attempts, maxAttempts, lockedBy, expired,
                 result, cancellations, failing, cancelCalls>>

LeaseExpires(j) ==
  /\ status[j] = "running"
  /\ j \notin expired
  /\ expired' = expired \cup {j}
  /\ UNCHANGED <<status, attempts, maxAttempts, lockedBy, due,
                 result, cancellations, failing, cancelCalls>>

-----------------------------------------------------------------------------
(* Enqueueing and leasing. *)

\* Mutant: the cap on submissions forgotten.
AttemptLimitUncapped(j, requested) == requested

\* A submission gets one attempt whatever the caller asks for.
AttemptLimit(j, requested) == IF j \in Submissions THEN 1 ELSE requested

Enqueue(j) ==
  /\ status[j] = "absent"
  /\ status' = [status EXCEPT ![j] = "queued"]
  /\ \E requested \in AttemptOptions :
       maxAttempts' = [maxAttempts EXCEPT ![j] = AttemptLimit(j, requested)]
  /\ due' \in {due, due \cup {j}}
  /\ UNCHANGED <<attempts, lockedBy, expired,
                 result, cancellations, failing, cancelCalls>>

\* What claim() and claimById() write.
Lease(j, w) ==
  /\ status' = [status EXCEPT ![j] = "running"]
  /\ attempts' = [attempts EXCEPT ![j] = @ + 1]
  /\ lockedBy' = [lockedBy EXCEPT ![j] = w]
  /\ expired' = expired \ {j}
  /\ UNCHANGED <<maxAttempts, due, result, cancellations, failing, cancelCalls>>

\* Mutant: a running row is taken over without looking at locked_at.
ClaimableAnyLease(j) ==
  /\ attempts[j] < maxAttempts[j]
  /\ \/ status[j] = "queued" /\ j \in due
     \/ status[j] = "running"

Claimable(j) ==
  /\ attempts[j] < maxAttempts[j]
  /\ \/ status[j] = "queued" /\ j \in due
     \/ status[j] = "running" /\ j \in expired

Claim(j, w) == Claimable(j) /\ Lease(j, w)

ClaimById(j, w) ==
  /\ status[j] = "queued"
  /\ j \in due
  /\ attempts[j] < maxAttempts[j]
  /\ Lease(j, w)

Holds(j, w) == status[j] = "running" /\ lockedBy[j] = w

Heartbeat(j, w) ==
  /\ Holds(j, w)
  /\ expired' = expired \ {j}
  /\ UNCHANGED <<status, attempts, maxAttempts, lockedBy, due,
                 result, cancellations, failing, cancelCalls>>

-----------------------------------------------------------------------------
(* Ending a job.  Every terminal write clears locked_by and locked_at. *)

Release(j, newStatus) ==
  /\ status' = [status EXCEPT ![j] = newStatus]
  /\ lockedBy' = [lockedBy EXCEPT ![j] = NoWorker]
  /\ expired' = expired \ {j}
  /\ UNCHANGED <<attempts, maxAttempts>>

Complete(j, w) ==
  /\ Holds(j, w)
  /\ Release(j, "completed")
  /\ UNCHANGED <<due, result, cancellations, failing, cancelCalls>>

\* Mutant: the result is written without asking whether complete() succeeded.
CompleteWithResultUnchecked(j, w) ==
  /\ status[j] # "absent"
  /\ \/ Holds(j, w) /\ Release(j, "completed")
     \/ ~Holds(j, w) /\ UNCHANGED <<status, attempts, maxAttempts, lockedBy, expired>>
  /\ result' = [result EXCEPT ![j] = "completed"]
  /\ UNCHANGED <<due, cancellations, failing, cancelCalls>>

CompleteWithResult(j, w) ==
  /\ Holds(j, w)
  /\ Release(j, "completed")
  /\ result' = [result EXCEPT ![j] = "completed"]
  /\ UNCHANGED <<due, cancellations, failing, cancelCalls>>

MayRetry(j, retryable) ==
  retryable /\ j \notin Submissions /\ attempts[j] < maxAttempts[j]

\* The SELECT and the UPDATE of fail(); both ask for locked_by = workerId only.
\* A requeued job waits for its backoff; a failed one still lacks its result row.
Fail(j, w, retryable) ==
  /\ lockedBy[j] = w
  /\ due' = due \ {j}
  /\ \/ /\ MayRetry(j, retryable)
        /\ Release(j, "queued")
        /\ UNCHANGED failing
     \/ /\ ~MayRetry(j, retryable)
        /\ Release(j, "failed")
        /\ failing' = failing \cup {j}
  /\ UNCHANGED <<result, cancellations, cancelCalls>>

RecordFailure(j) ==
  /\ j \in failing
  /\ result' = [result EXCEPT ![j] = "failed"]
  /\ failing' = failing \ {j}
  /\ UNCHANGED <<rowVars, cancellations, cancelCalls>>

\* The process dies between the UPDATE and the INSERT of fail().
FailureUnrecorded(j) ==
  /\ j \in failing
  /\ failing' = failing \ {j}
  /\ UNCHANGED <<rowVars, result, cancellations, cancelCalls>>

\* Mutant: cancel() without its status condition.
CancelAnyRow(j) ==
  /\ Release(j, "cancelled")
  /\ UNCHANGED due

\* cancel() takes no worker id.
CancelRow(j) ==
  /\ status[j] \in Live
  /\ Release(j, "cancelled")
  /\ UNCHANGED due

Cancel(j) ==
  /\ CancelRow(j)
  /\ UNCHANGED <<result, cancellations, failing, cancelCalls>>

-----------------------------------------------------------------------------
(* requestCancellation(): SELECT, INSERT of the request, and, if the SELECT *)
(* saw the job queued, cancel().  requestCancellationAll() is one such call *)
(* per live job.                                                            *)

CancelRead(j) ==
  /\ status[j] \in Live
  /\ cancelCalls' = cancelCalls \cup
       {[job |-> j, sawQueued |-> status[j] = "queued", recorded |-> FALSE]}
  /\ UNCHANGED <<rowVars, result, cancellations, failing>>

CancelRecord(c) ==
  /\ ~c.recorded
  /\ cancellations' = cancellations \cup {c.job}
  /\ cancelCalls' = (cancelCalls \ {c}) \cup
       {d \in {[c EXCEPT !.recorded = TRUE]} : d.sawQueued}
  /\ UNCHANGED <<rowVars, result, failing>>

CancelApply(c) ==
  /\ c.recorded
  /\ cancelCalls' = cancelCalls \ {c}
  /\ \/ CancelRow(c.job)
     \/ status[c.job] \notin Live /\ UNCHANGED rowVars
  /\ UNCHANGED <<result, cancellations, failing>>

\* The process dies between two statements of requestCancellation().
CancelDies(c) ==
  /\ cancelCalls' = cancelCalls \ {c}
  /\ UNCHANGED <<rowVars, result, cancellations, failing>>

-----------------------------------------------------------------------------

JobStep(j) ==
  \/ RunAfterPasses(j)
  \/ LeaseExpires(j)
  \/ Enqueue(j)
  \/ RecordFailure(j)
  \/ FailureUnrecorded(j)
  \/ Cancel(j)
  \/ CancelRead(j)

WorkerStep(j, w) ==
  \/ Claim(j, w)
  \/ ClaimById(j, w)
  \/ Heartbeat(j, w)
  \/ Complete(j, w)
  \/ CompleteWithResult(j, w)
  \/ \E retryable \in BOOLEAN : Fail(j, w, retryable)

CancelStep(c) ==
  \/ CancelRecord(c)
  \/ CancelApply(c)
  \/ CancelDies(c)

QueueNext ==
  \/ \E j \in Jobs : JobStep(j)
  \/ \E j \in Jobs, w \in Workers : WorkerStep(j, w)
  \/ \E c \in cancelCalls : CancelStep(c)

QueueSpec == QueueInit /\ [][QueueNext]_queueVars

-----------------------------------------------------------------------------
(* Properties. *)

\* A row is running exactly while a worker's id is in locked_by, and only a
\* running row can have an expired lease: fail() relies on it when it asks
\* for locked_by alone, and claim() when it takes over by locked_at alone.
LeaseConsistent ==
  \A j \in Jobs :
    /\ status[j] = "running" <=> lockedBy[j] \in Workers
    /\ j \in expired => status[j] = "running"

\* A queued row can always be claimed again once it is due: neither a retry
\* nor a takeover leaves a queued row without an attempt.
QueuedIsClaimable ==
  \A j \in Jobs : status[j] = "queued" => attempts[j] < maxAttempts[j]

\* The one-attempt rule of docs/browser-worker.md: over any sequence of
\* claims, crashes, retries and takeovers, no submission is leased twice.
OneSubmissionAttempt ==
  \A j \in Submissions : attempts[j] <= 1

\* The result row never disagrees with the job's final state, although
\* fail() writes the two in separate transactions.
ResultMatchesStatus ==
  \A j \in Jobs :
    /\ result[j] = "completed" => status[j] = "completed"
    /\ result[j] = "failed" => status[j] = "failed"
    /\ j \in failing => status[j] = "failed"

\* No late call (a stale worker's complete or fail, a cancellation that read
\* the row before it ended) changes a job that has ended.
TerminalIsFinal ==
  [][\A j \in Jobs : status[j] \in Terminal =>
       /\ status'[j] = status[j]
       /\ result[j] # "none" => result'[j] = result[j]]_queueVars

\* The attempt number fences workers: the lease passes from one worker to
\* another only by an expiry and together with a fresh attempt, so no two
\* workers ever hold the same attempt of a job.
AttemptsFence ==
  [][\A j \in Jobs :
       lockedBy'[j] \in Workers /\ lockedBy'[j] # lockedBy[j] =>
         /\ attempts'[j] = attempts[j] + 1
         /\ lockedBy[j] \in Workers => j \in expired]_queueVars
=============================================================================
